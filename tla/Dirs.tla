-------------------------------- MODULE Dirs --------------------------------
(***************************************************************************)
(* Directories: the entries of fs/dir.c in direct blocks and behind the    *)
(* indirect table, the inodes and bitmaps on the disk and in memory        *)
(* (fs/inode.c, fs/file.c, fs/fs.c), and the shell's commands cd, mkdir,   *)
(* rmdir, rm and ls (shell/buildin_cmd.c) with the calls they make.        *)
(*                                                                         *)
(* One call at a time: what happens between two calls that sleep is the    *)
(* matter of module OpenFiles.  A call is a chain of operators that each   *)
(* take the file system and return it changed, in the order of the code.   *)
(***************************************************************************)
EXTENDS Paths, FiniteSets, FiniteSetsExt

CONSTANTS NI,        \* inodes of the partition (4096)
          NB,        \* data blocks of the partition
          DIRECT,    \* block addresses in an inode (12); the next is the table's
          INDIRECT,  \* block addresses in a table (128)
          PER_SEC,   \* directory entries in a sector
          SEC_BITS,  \* bits in a sector (4096)
          BYTE,      \* bits in a byte (8)
          WRAP,      \* values of a uint8_t (256)
          MaxOpens,  \* bound: i_open_cnts of a directory that Open adds to
          Arg,       \* what is typed after a command
          CreatePath, OpenPath   \* the paths that programs create and open files by

ASSUME DirsAssumption ==
  /\ {NI, NB, DIRECT, INDIRECT, SEC_BITS, BYTE, WRAP} \subseteq Nat \ {0}
  /\ MaxOpens \in Nat
  /\ PER_SEC \in Nat \ {0, 1}
  /\ Arg \cup CreatePath \cup OpenPath \subseteq Seq(STRING) \ {<<>>}
  \* the names on the way, as path_parse yields them
  /\ \A path \in CreatePath \cup OpenPath : \A k \in DOMAIN path : path[k] # ""

VARIABLES fs,     \* the file system, a record: see DirsInit
          cwd,    \* cwd_inode_nr of the shell
          panic   \* what stopped the kernel, made its behaviour undefined, or
                 \* damaged the file system: see Damage

dirVars == <<fs, cwd, panic>>

Ino == 0..(NI - 1)
(* Block b is bit b - 1 of block_bitmap, 0 is no block.  partition_format  *)
(* clears one bit more than there are blocks: NB + 1 can be allocated.     *)
Block == 1..(NB + 1)

Free         == [filename |-> "", i_no |-> 0, f_type |-> "unknown"]
Ent(n, i, t) == [filename |-> n, i_no |-> i, f_type |-> t]
NoSectors    == [k \in 0..DIRECT |-> 0]
NoInode      == [i_size |-> 0, i_sectors |-> NoSectors]
EmptySector  == [j \in 1..PER_SEC |-> Free]
EmptyTable   == [k \in 0..(INDIRECT - 1) |-> 0]
(* The first sector of a directory i in p; i_size counts entries.          *)
DotSector(i, p) ==
  [EmptySector EXCEPT ![1] = Ent(".", i, "directory"), ![2] = Ent("..", p, "directory")]
DirInode(b) == [i_size |-> 2, i_sectors |-> [NoSectors EXCEPT ![0] = b]]

(* A partition that partition_format has just made, mounted.               *)
DirsInit ==
  /\ fs = [inode_bitmap |-> {0}, block_bitmap |-> {1},   \* in memory
           disk_ibits   |-> {0}, disk_bbits   |-> {1},   \* on the disk
           inode_table  |-> [i \in Ino |-> IF i = 0 THEN DirInode(1) ELSE NoInode],
           blk  |-> [b \in Block |-> IF b = 1 THEN DotSector(0, 0) ELSE EmptySector],
           tab  |-> [b \in Block |-> EmptyTable],
           open |-> [i \in Ino |-> IF i = 0 THEN 1 ELSE 0],   \* i_open_cnts, 0: not in the list
           file_table |-> {},                                 \* inodes open as files
           mem  |-> [i \in Ino |-> IF i = 0 THEN DirInode(1) ELSE NoInode]]
  /\ cwd = 0
  /\ panic = "none"
-----------------------------------------------------------------------------
(* fs/inode.c, and the bitmaps of fs/file.c.                               *)

inode_open(s, i) ==
  [s EXCEPT !.open[i] = @ + 1, !.mem[i] = IF s.open[i] = 0 THEN s.inode_table[i] ELSE @]
inode_close(s, i) ==
  [s EXCEPT !.open[i] = @ - 1, !.mem[i] = IF s.open[i] = 1 THEN NoInode ELSE @]

SyncMutantSkipped(s, i, inode) == s
(* inode_sync keeps eight bits of the number, inode_delete all of them.    *)
inode_sync(s, i, inode) == [s EXCEPT !.inode_table[i % WRAP] = inode]
inode_delete(s, i)      == [s EXCEPT !.inode_table[i] = NoInode]

(* bitmap_sync writes the sector of a bitmap that has the bit, number      *)
(* off_sec, and takes its content from the block bitmap in memory, for the *)
(* inode bitmap too, from BYTE off_sec on.  So bit n of the disk becomes   *)
(* Written(n) of the memory B.  The bits behind the last block are set.    *)
off_sec(bit)  == bit \div SEC_BITS
MemBit(B, n)  == n + 1 \in B \/ n + 1 \notin Block
Written(B, n) == MemBit(B, n - off_sec(n) * (SEC_BITS - BYTE))
SyncBlockBits(s, b) ==
  [s EXCEPT !.disk_bbits = {c \in Block : IF off_sec(c - 1) = off_sec(b - 1)
                                          THEN Written(s.block_bitmap, c - 1) ELSE c \in @}]
SyncInodeBits(s, i) ==
  [s EXCEPT !.disk_ibits = {j \in Ino : IF off_sec(j) = off_sec(i)
                                        THEN Written(s.block_bitmap, j) ELSE j \in @}]

FreeBlocks(s) == Block \ s.block_bitmap
FreeInodes(s) == Ino \ s.inode_bitmap
(* bitmap_scan and bitmap_set, and the bitmap_sync that follows.  The      *)
(* model forgets the content of a freed sector: it stays on the disk, but  *)
(* whoever allocates the sector writes all of it before anything is read.  *)
TakeBlock(s) ==
  LET b == Min(FreeBlocks(s)) IN SyncBlockBits([s EXCEPT !.block_bitmap = @ \cup {b}], b)

(* The blocks of q, 0 is none, are cleared in the bitmap one by one, with  *)
(* a bitmap_sync each: a sector of the disk keeps what the last bitmap_    *)
(* sync that wrote it found in memory.                                     *)
ClearBlocks(s, q) ==
  LET freed == {q[n] : n \in DOMAIN q} \ {0}
      Syncs(c) == {n \in DOMAIN q : q[n] # 0 /\ off_sec(q[n] - 1) = off_sec(c - 1)}
      by(c) == {q[m] : m \in {l \in DOMAIN q : \E n \in Syncs(c) : l <= n}}
  IN  [s EXCEPT !.block_bitmap = @ \ freed,
                !.blk = [b \in Block |-> IF b \in freed THEN EmptySector ELSE @[b]],
                !.tab = [b \in Block |-> IF b \in freed THEN EmptyTable ELSE @[b]],
                !.disk_bbits = {c \in Block : IF Syncs(c) = {} THEN c \in @
                                              ELSE Written(s.block_bitmap \ by(c), c - 1)}]

(* all_blocks[k]: a direct block, or what the table says if there is one.  *)
Index == 0..(DIRECT + INDIRECT - 1)
all_blocks(s, inode, k) ==
  IF k < DIRECT THEN inode.i_sectors[k]
  ELSE IF inode.i_sectors[DIRECT] = 0 THEN 0
  ELSE s.tab[inode.i_sectors[DIRECT]][k - DIRECT]
BlocksOf(s, inode) ==
  ({all_blocks(s, inode, k) : k \in Index} \cup {inode.i_sectors[DIRECT]}) \ {0}

(* The table, the blocks behind it, the bit of the inode and the inode on  *)
(* the disk.                                                               *)
Given(s, inode) == [n \in 1..(DIRECT + INDIRECT + 1) |->
                      IF n = 1 THEN inode.i_sectors[DIRECT] ELSE all_blocks(s, inode, n - 2)]
inode_release(s, i) ==
  LET o == inode_open(s, i)
      b == ClearBlocks(o, Given(o, o.mem[i]))
      c == SyncInodeBits([b EXCEPT !.inode_bitmap = @ \ {i}], i)
  IN  inode_close(inode_delete(c, i), i)
-----------------------------------------------------------------------------
(* fs/dir.c.  A place in a directory is a block index and a position in    *)
(* that sector; the code goes through them in this order.                  *)

InodeOf(s, i) == IF s.open[i] > 0 THEN s.mem[i] ELSE s.inode_table[i]
Places(s, i)  ==
  LET inode == InodeOf(s, i)
  IN  {k \in Index : all_blocks(s, inode, k) # 0} \X (1..PER_SEC)
EntryAt(s, i, p)  == s.blk[all_blocks(s, InodeOf(s, i), p[1])][p[2]]
Precedes(p, q) == p[1] < q[1] \/ (p[1] = q[1] /\ p[2] < q[2])
FirstPlace(S)  == CHOOSE p \in S : \A q \in S \ {p} : Precedes(p, q)

Named(s, i, name)            == {p \in Places(s, i) : EntryAt(s, i, p).filename = name}
search_dir_entry(s, i, name) == EntryAt(s, i, FirstPlace(Named(s, i, name)))

(* Where sync_dir_entry puts an entry of d: the first direct index that    *)
(* has a free entry or no block.  It never reads the table, so that beyond *)
(* the direct blocks it finds no block at all.                             *)
HasRoom(s, d, k) ==
  \/ k = DIRECT
  \/ s.mem[d].i_sectors[k] = 0
  \/ \E j \in 1..PER_SEC : s.blk[s.mem[d].i_sectors[k]][j] = Free
RoomAt(s, d) == Min({k \in 0..DIRECT : HasRoom(s, d, k)})
BlocksNeeded(s, d) ==
  IF RoomAt(s, d) = DIRECT THEN 2 ELSE IF s.mem[d].i_sectors[RoomAt(s, d)] = 0 THEN 1 ELSE 0

sync_dir_entry(s, d, e) ==
  LET k == RoomAt(s, d)
      b == IF k < DIRECT THEN s.mem[d].i_sectors[k] ELSE 0
      grown == [s EXCEPT !.mem[d].i_size = @ + 1]
      t == Min(FreeBlocks(s))
      u == Min(FreeBlocks(s) \ {t})
      alone == [EmptySector EXCEPT ![1] = e]
  IN  IF b # 0
      THEN [grown EXCEPT !.blk[b][Min({j \in 1..PER_SEC : s.blk[b][j] = Free})] = e]
      ELSE IF k < DIRECT
      THEN TakeBlock([grown EXCEPT !.mem[d].i_sectors[k] = t, !.blk[t] = alone])
      ELSE TakeBlock(TakeBlock([grown EXCEPT !.mem[d].i_sectors[DIRECT] = t,
                                             !.tab[t] = [EmptyTable EXCEPT ![0] = u],
                                             !.blk[u] = alone]))

(* The entries of d that delete_dir_entry looks at: all but "." and "..".  *)
Used(s, d)    == {p \in Places(s, d) : EntryAt(s, d, p).f_type # "unknown"}
Real(s, d)    == {p \in Used(s, d) : EntryAt(s, d, p).filename \notin {".", ".."}}
Hits(s, d, i) == {p \in Real(s, d) : EntryAt(s, d, p).i_no = i}

DeleteMutantSize(s, d, i) ==
  LET p == FirstPlace(Hits(s, d, i))
      b == all_blocks(s, s.mem[d], p[1])
  IN  IF Hits(s, d, i) = {} THEN s ELSE [s EXCEPT !.blk[b][p[2]] = Free]

DeleteMutantTable(s, d, i) ==
  LET k == FirstPlace(Hits(s, d, i))[1]
      less == [s.mem[d] EXCEPT !.i_size = @ - 1, !.i_sectors[k] = 0]
      b == all_blocks(s, s.mem[d], k)
  IN  IF k \notin 1..DIRECT THEN DeleteMutantSize(s, d, i)
      ELSE inode_sync([ClearBlocks(s, <<b>>) EXCEPT !.mem[d] = less], d, less)

(* The entry is cleared; or, if it was alone in a sector that does not     *)
(* hold ".", the sector is given back, and the table with its last block.  *)
(* Without such an entry nothing happens, and no caller looks.             *)
delete_dir_entry(s, d, i) ==
  LET p == FirstPlace(Hits(s, d, i))
      k == p[1]
      b == all_blocks(s, s.mem[d], k)
      t == s.mem[d].i_sectors[DIRECT]
      alone == /\ Cardinality({q \in Real(s, d) : q[1] = k}) = 1
               /\ \A j \in 1..PER_SEC : s.blk[b][j].filename # "."
      last == \A m \in Index : m >= DIRECT /\ m # k => all_blocks(s, s.mem[d], m) = 0
      less == [s.mem[d] EXCEPT !.i_size = @ - 1]
      Sync(r, inode) == inode_sync([r EXCEPT !.mem[d] = inode], d, inode)
  IN  IF Hits(s, d, i) = {} THEN s
      ELSE IF ~alone THEN Sync([s EXCEPT !.blk[b][p[2]] = Free], less)
      ELSE IF k < DIRECT THEN Sync(ClearBlocks(s, <<b>>), [less EXCEPT !.i_sectors[k] = 0])
      ELSE IF last THEN Sync(ClearBlocks(s, <<b, t>>), [less EXCEPT !.i_sectors[DIRECT] = 0])
      ELSE Sync([ClearBlocks(s, <<b>>) EXCEPT !.tab[t][k - DIRECT] = 0], less)

(* It asserts that the sector has one entry for the inode only.            *)
DeleteOK(s, d, i) == \A p, q \in Hits(s, d, i) : p[1] = q[1] => p = q

(* What dir_read returns at dir_pos: it goes to the entry of that number,  *)
(* as long as dir_pos is below i_size, and looks behind the table only if  *)
(* there is one.  None of the calls moves an entry.                        *)
dir_read(s, d, dir_pos) ==
  {EntryAt(s, d, p) : p \in
     {q \in Used(s, d) : /\ dir_pos < InodeOf(s, d).i_size
                         /\ Cardinality({r \in Used(s, d) : Precedes(r, q)}) = dir_pos}}
-----------------------------------------------------------------------------
(* fs/fs.c.                                                                *)

(* search_file goes down from the root.  It stops at the first name that   *)
(* is missing, and at a regular file wherever that is in the path.  depth  *)
(* is the length of searched_path; parent_dir is root_dir, which is never  *)
(* closed, or (heap) a directory that the caller has to close.             *)
search_step(s, r, name) ==
  LET e == search_dir_entry(s, r.i_no, name)
      next == [r EXCEPT !.parent = r.i_no, !.heap = r.depth > 0, !.depth = @ + 1]
  IN  IF r.file_type # "directory" THEN r
      ELSE IF Named(s, r.i_no, name) = {}
      THEN [next EXCEPT !.found = FALSE, !.file_type = "unknown"]
      ELSE IF e.f_type = "directory" THEN [next EXCEPT !.i_no = e.i_no, !.heap = TRUE]
      ELSE [next EXCEPT !.i_no = e.i_no, !.file_type = "regular"]

search_file(s, path) ==
  LET root == [found |-> TRUE, i_no |-> 0, file_type |-> "directory",
               parent |-> 0, heap |-> FALSE, depth |-> 0]
      at[n \in 0..Len(path)] == IF n = 0 THEN root ELSE search_step(s, at[n - 1], path[n])
  IN  at[Len(path)]

(* The caller's side: parent_dir as search_file leaves it, and dir_close.  *)
Hold(s, r)      == IF r.heap THEN inode_open(s, r.parent) ELSE s
dir_close(s, r) == IF r.heap THEN inode_close(s, r.parent) ELSE s

(* getcwd goes up the ".." entries, the second entry of the first sector,  *)
(* and looks for the number of the child in every parent.  A directory     *)
(* without a first sector fails an ASSERT, and so does a name that is not  *)
(* found (in wash_path, on the empty path that is left).                   *)
get_parent_dir_inode_nr(s, i) ==
  LET b == InodeOf(s, i).i_sectors[0] IN IF b = 0 THEN i ELSE s.blk[b][2].i_no
Children(s, p, c) == {q \in Places(s, p) : EntryAt(s, p, q).i_no = c}
get_child_dir_name(s, p, c) == EntryAt(s, p, FirstPlace(Children(s, p, c))).filename
Up(s, i) ==
  LET up[n \in 0..NI] == IF n = 0 THEN i ELSE IF up[n - 1] = 0 THEN 0
                         ELSE get_parent_dir_inode_nr(s, up[n - 1])
  IN  up
getcwd_ok(s, i) ==
  LET up == Up(s, i)
  IN  /\ up[NI] = 0
      /\ \A n \in 1..NI : up[n - 1] # 0 => Children(s, up[n], up[n - 1]) # {}
sys_getcwd(s, i) ==
  LET up == Up(s, i)
      depth == Min({n \in 0..NI : up[n] = 0})
  IN  [k \in 1..depth |-> get_child_dir_name(s, up[depth - k + 1], up[depth - k])]

Halt(why) == panic' = why /\ UNCHANGED <<fs, cwd>>
Change(s) == fs' = s /\ UNCHANGED <<cwd, panic>>

(* Calls that succeed and damage the file system, after which the model    *)
(* stops: an entry that would be the second behind the table replaces the  *)
(* table, an inode number that inode_sync cannot hold overwrites another   *)
(* inode, and a directory is removed that an earlier sys_open has left in  *)
(* the list of open inodes, where it meets whoever gets its number.        *)
Damage == {"table", "wrap", "stale"}
Harm(s, d, i) == IF RoomAt(s, d) = DIRECT /\ s.mem[d].i_sectors[DIRECT] # 0 THEN "table"
                 ELSE IF i >= WRAP THEN "wrap" ELSE "none"
Succeed(s, harm) == fs' = s /\ panic' = harm /\ UNCHANGED cwd

(* The argument of a command as an absolute path; a relative one needs     *)
(* getcwd, which fails an ASSERT if the directory has been removed.        *)
AbsPath(arg) == make_clear_abs_path(arg, IF Head(arg) = "/" THEN <<>> ELSE sys_getcwd(fs, cwd))
CwdLost(arg) == Head(arg) # "/" /\ ~getcwd_ok(fs, cwd)

sys_chdir(path) ==
  LET r == search_file(fs, path)
  IN  /\ r.found /\ r.file_type = "directory"
      /\ cwd' = r.i_no /\ UNCHANGED <<fs, panic>>

MkdirMutantParent(s, d, name) ==
  LET i == Min(FreeInodes(s))
      b == Min(FreeBlocks(s))
      m == [TakeBlock([s EXCEPT !.inode_bitmap = @ \cup {i}]) EXCEPT !.blk[b] = DotSector(i, 0)]
      e == sync_dir_entry(m, d, Ent(name, i, "directory"))
  IN  SyncInodeBits(inode_sync(inode_sync(e, d, e.mem[d]), i, DirInode(b)), i)

(* The steps of sys_mkdir that allocate and write.                         *)
MakeDir(s, d, name) ==
  LET i == Min(FreeInodes(s))
      b == Min(FreeBlocks(s))
      m == [TakeBlock([s EXCEPT !.inode_bitmap = @ \cup {i}]) EXCEPT !.blk[b] = DotSector(i, d)]
      e == sync_dir_entry(m, d, Ent(name, i, "directory"))
  IN  SyncInodeBits(inode_sync(inode_sync(e, d, e.mem[d]), i, DirInode(b)), i)

(* If the name exists, or a directory above it does not, the rollback ends *)
(* in sys_close of the address of a buffer.  A full bitmap fails an ASSERT *)
(* of bitmap_scan.                                                         *)
sys_mkdir(path) ==
  LET r == search_file(fs, path)
      s == Hold(fs, r)
  IN  /\ path # <<>>
      /\ IF r.found \/ r.depth # path_depth_cnt(path) THEN Halt("rollback")
         ELSE IF \/ FreeInodes(s) = {}
                 \/ Cardinality(FreeBlocks(s)) < 1 + BlocksNeeded(s, r.parent) THEN Halt("full")
         ELSE Succeed(dir_close(MakeDir(s, r.parent, Last(path)), r),
                      Harm(s, r.parent, Min(FreeInodes(s))))

(* dir_remove in the parent, and the directory that sys_rmdir has opened.  *)
dir_remove(s, d, i) == inode_release(delete_dir_entry(s, d, i), i)

(* sys_rmdir does not look at the type of what it finds.                   *)
sys_rmdir(path) ==
  LET r == search_file(fs, path)
      s == inode_open(Hold(fs, r), r.i_no)
      t == dir_close(inode_close(dir_remove(s, r.parent, r.i_no), r.i_no), r)
  IN  /\ path # <<>> /\ r.found
      /\ s.mem[r.i_no].i_size = 2
      /\ IF \E k \in 1..DIRECT : s.mem[r.i_no].i_sectors[k] # 0 THEN Halt("dir_remove")
         ELSE IF ~DeleteOK(s, r.parent, r.i_no) THEN Halt("delete")
         ELSE Succeed(t, IF t.open[r.i_no] > 0 THEN "stale" ELSE "none")

(* sys_unlink refuses a file that is in file_table.                        *)
sys_unlink(path) ==
  LET r == search_file(fs, path)
      s == Hold(fs, r)
  IN  /\ path # <<>> /\ r.found /\ r.file_type = "regular"
      /\ r.i_no \notin fs.file_table
      /\ IF DeleteOK(s, r.parent, r.i_no)
         THEN Change(dir_close(inode_release(delete_dir_entry(s, r.parent, r.i_no), r.i_no), r))
         ELSE Halt("delete")

(* The commands, where the argument can be made a path.                    *)
Typed(arg) == panic = "none" /\ ~CwdLost(arg)
GetcwdFails(arg) == panic = "none" /\ CwdLost(arg) /\ Halt("getcwd")

buildin_cd(arg)    == Typed(arg) /\ sys_chdir(AbsPath(arg))
buildin_mkdir(arg) == Typed(arg) /\ sys_mkdir(AbsPath(arg))
buildin_rmdir(arg) == Typed(arg) /\ sys_rmdir(AbsPath(arg))
buildin_rm(arg)    == Typed(arg) /\ sys_unlink(AbsPath(arg))

file_create(s, d, name) ==
  LET i == Min(FreeInodes(s))
      e == sync_dir_entry([s EXCEPT !.inode_bitmap = @ \cup {i}], d, Ent(name, i, "regular"))
  IN  [SyncInodeBits(inode_sync(inode_sync(e, d, e.mem[d]), i, NoInode), i)
         EXCEPT !.open[i] = 1, !.mem[i] = NoInode, !.file_table = @ \cup {i}]

(* sys_open with O_CREAT.                                                  *)
Create(path) ==
  LET r == search_file(fs, path)
      s == Hold(fs, r)
  IN  /\ panic = "none"
      /\ ~r.found /\ r.depth = path_depth_cnt(path)
      /\ IF FreeInodes(s) = {} \/ Cardinality(FreeBlocks(s)) < BlocksNeeded(s, r.parent)
         THEN Halt("full")
         ELSE Succeed(dir_close(file_create(s, r.parent, Last(path)), r),
                      Harm(s, r.parent, Min(FreeInodes(s))))

(* sys_open without O_CREAT, of a file that is not open (the bound of the  *)
(* model).  It leaves parent_dir open.                                     *)
Open(path) ==
  LET r == search_file(fs, path)
  IN  /\ panic = "none"
      /\ r.found /\ r.file_type = "regular" /\ r.depth = path_depth_cnt(path)
      /\ r.i_no \notin fs.file_table /\ (r.heap => fs.open[r.parent] < MaxOpens)
      /\ Change([inode_open(Hold(fs, r), r.i_no) EXCEPT !.file_table = @ \cup {r.i_no}])

Close(i) ==
  /\ panic = "none" /\ i \in fs.file_table
  /\ Change([inode_close(fs, i) EXCEPT !.file_table = @ \ {i}])

(* Power off and on: mount_partition reads both bitmaps from the disk,     *)
(* open_root_dir the root.                                                 *)
Reboot ==
  /\ panic = "none"
  /\ fs' = [fs EXCEPT !.inode_bitmap = fs.disk_ibits, !.block_bitmap = fs.disk_bbits,
              !.open = [i \in Ino |-> IF i = 0 THEN 1 ELSE 0], !.file_table = {},
              !.mem = [i \in Ino |-> IF i = 0 THEN fs.inode_table[0] ELSE NoInode]]
  /\ cwd' = 0 /\ UNCHANGED panic

DirsNext ==
  \/ \E arg \in Arg : buildin_cd(arg) \/ buildin_mkdir(arg) \/ buildin_rmdir(arg) \/ buildin_rm(arg)
                     \/ GetcwdFails(arg)
  \/ \E path \in CreatePath : Create(path)
  \/ \E path \in OpenPath : Open(path)
  \/ \E i \in Ino : Close(i)

DirsSpec   == DirsInit /\ [][DirsNext]_dirVars
RebootSpec == DirsInit /\ [][DirsNext \/ Reboot]_dirVars
-----------------------------------------------------------------------------
(* Properties, between two calls.                                          *)

SubDirs(d) == {EntryAt(fs, d, p).i_no : p \in
                 {q \in Real(fs, d) : EntryAt(fs, d, q).f_type = "directory"}}
(* The directories that can be reached from the root: those in every set   *)
(* that has the root and what its members name.                            *)
Below       == UNION {{<<d, c>> : c \in SubDirs(d)} : d \in Ino}
Directories ==
  LET below == Below
      closed == {C \in SUBSET Ino : 0 \in C /\ \A e \in below : e[1] \in C => e[2] \in C}
  IN  {d \in Ino : \A C \in closed : d \in C}
(* Every entry but "." and "..": the directory, the place, the entry.      *)
Links == UNION {{<<d, p, EntryAt(fs, d, p)>> : p \in Real(fs, d)} : d \in Directories}

(* Until a call has damaged the file system.                               *)
Intact == panic \notin Damage

(* The names form a tree, until a call of one of the kinds of Damage:      *)
(* the allocated inodes are the root and those that some entry names, each *)
(* is named by one entry, no directory has a name twice, and "." and ".."  *)
(* of every directory are itself and the directory that names it.          *)
TreeOK == Intact =>
  LET links == Links IN
  /\ fs.inode_bitmap = {0} \cup {l[3].i_no : l \in links}
  /\ \A l, m \in links : l[3].i_no = m[3].i_no \/ (l[1] = m[1] /\ l[3].filename = m[3].filename)
                           => l = m
  /\ \A l \in links : l[3].f_type = "directory" =>
       LET b == InodeOf(fs, l[3].i_no).i_sectors[0]
       IN  b # 0 /\ fs.blk[b][1].i_no = l[3].i_no /\ fs.blk[b][2].i_no = l[1]

(* The block bitmap is exactly the blocks and tables of the allocated      *)
(* inodes: no sector is in two places, none is lost when a directory       *)
(* shrinks or is removed, and none is in use while it is marked free.      *)
BlocksAccounted == Intact =>
  LET InodeAt(i) == InodeOf(fs, i)
      Used13(i) == {k \in Index : all_blocks(fs, InodeAt(i), k) # 0}
      count(i) == Cardinality(Used13(i)) + (IF InodeAt(i).i_sectors[DIRECT] = 0 THEN 0 ELSE 1)
  IN  /\ fs.block_bitmap = UNION {BlocksOf(fs, InodeAt(i)) : i \in fs.inode_bitmap}
      /\ \A i \in fs.inode_bitmap : Cardinality(BlocksOf(fs, InodeAt(i))) = count(i)
      /\ \A i, j \in fs.inode_bitmap :
           i # j => BlocksOf(fs, InodeAt(i)) \cap BlocksOf(fs, InodeAt(j)) = {}

(* ls shows every entry of a directory once: i_size, which ends dir_read,  *)
(* is moved by other functions than the entries, and must count them over  *)
(* holes, reclaimed sectors and the indirect block.                        *)
ListingComplete == Intact =>
  \A d \in Directories :
    LET n == InodeOf(fs, d).i_size
        listed == UNION {dir_read(fs, d, k) : k \in 0..(n - 1)}
    IN  /\ Cardinality(listed) = n
        /\ listed = {EntryAt(fs, d, p) : p \in Used(fs, d)}

(* A path means the same to the shell, which takes ".." out of the text,   *)
(* and to search_file, which follows the entries "..", if every directory  *)
(* on the way exists; and the path that getcwd puts together from the      *)
(* ".." entries leads back to the working directory.                       *)
PathsLeadBack == Intact =>
  /\ \A arg \in Arg :
       LET raw == search_file(fs, path_parse(Tail(arg)))
           washed == search_file(fs, wash_path(Tail(arg)))
       IN  Head(arg) = "/" /\ raw.found /\ raw.depth = path_depth_cnt(Tail(arg)) =>
             washed.i_no = raw.i_no /\ washed.found /\ washed.file_type = raw.file_type
  /\ getcwd_ok(fs, cwd) => /\ search_file(fs, sys_getcwd(fs, cwd)).found
                           /\ search_file(fs, sys_getcwd(fs, cwd)).i_no = cwd

(* What is in memory is on the disk after every call: the first sector of  *)
(* the block bitmap, the inodes in the list of open ones, and nothing of a *)
(* removed inode.  The later sectors of the block bitmap are written from  *)
(* the wrong bytes, and for the inode bitmap see InodesSurviveReboot.      *)
DiskAgrees == Intact =>
  /\ \A b \in Block : b <= SEC_BITS => (b \in fs.disk_bbits <=> b \in fs.block_bitmap)
  /\ \A i \in Ino : fs.open[i] > 0 => fs.mem[i] = fs.inode_table[i]
  /\ \A i \in Ino \ fs.inode_bitmap : fs.inode_table[i] = NoInode

(* The comment of bitmap_sync says that it writes the bitmap to the disk:  *)
(* after a boot every name still has its inode marked as used.             *)
InodesSurviveReboot == \A l \in Links : l[3].i_no \in fs.inode_bitmap

(* A comment of sync_dir_entry says that it stores the addresses of all    *)
(* sectors of the directory, the 12 and the 128 behind the table, before   *)
(* it looks for room.  Then a new entry takes no other away: every inode   *)
(* in use has a name.                                                      *)
NoNameLost == \A i \in fs.inode_bitmap \ {0} : \E l \in Links : l[3].i_no = i
=============================================================================
