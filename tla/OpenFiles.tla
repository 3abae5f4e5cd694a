------------------------------ MODULE OpenFiles ------------------------------
(***************************************************************************)
(* The tables behind an open file: file_table (fs/file.c), the list of     *)
(* open inodes (fs/inode.c), the fd_table of every process, and the calls  *)
(* open, close and unlink of fs/fs.c and fork that work on them.           *)
(*                                                                         *)
(* System calls run with interrupts off, so that a process keeps the CPU   *)
(* until it sleeps on the disk.  A step is what a call does between two    *)
(* such sleeps.  Open, create and unlink begin with search_file, whose     *)
(* directory read takes the lock of the disk's channel; ide_read sleeps    *)
(* with that lock held, and its caller takes it again for the next         *)
(* transfer before anybody else runs, because lock_release hands nothing   *)
(* over.  So a second such call waits in its first directory read until    *)
(* the first call has left the kernel.  sys_close and sys_fork use no disk *)
(* and run while another process sleeps in a call.                         *)
(***************************************************************************)
EXTENDS Naturals, SequencesExt

CONSTANTS Proc,       \* the processes
          First,      \* the one the others descend from
          Name,       \* file names, in the root directory
          Ino,        \* inode numbers, in the order of inode_bitmap
          Old,        \* the names that are on the disk when the system boots
          Slot,       \* indexes of file_table
          Fd,         \* indexes of a fd_table
          Obj,        \* places in memory for a struct inode
          None        \* NULL, and -1

ASSUME OpenFilesAssumption ==
  /\ First \in Proc /\ Old \subseteq Name
  /\ Ino \subseteq Nat /\ Slot \subseteq Nat /\ Fd \subseteq Nat /\ Obj \subseteq Nat
  /\ Cardinality(Old) <= Cardinality(Ino)
  /\ None \notin Ino \cup Slot \cup Obj \cup Name
  /\ IsFiniteSet(Proc) /\ IsFiniteSet(Slot) /\ IsFiniteSet(Fd)

VARIABLES dir,          \* directory entries on the disk: <<name, inode number>>
          inode_bitmap, \* inode numbers in use
          file_table,   \* fd_inode of each slot
          mem,          \* struct inode: i_no, i_open_cnts, write_deny, heap it is from
          open_inodes,  \* cur_part->open_inodes, last opened first
          fd_table,     \* task_struct.fd_table
          alive,        \* the processes that have been forked
          pc, call,     \* where a process is in its call, and the locals of that call
          panic         \* what stopped the kernel, or made its behaviour undefined

fileVars == <<dir, inode_bitmap, file_table, mem, open_inodes, fd_table,
              alive, pc, call, panic>>

Least(S)       == CHOOSE x \in S : \A y \in S : x <= y
Inode(i, c, h) == [i_no |-> i, i_open_cnts |-> c, write_deny |-> FALSE, heap |-> h]
NoInode        == Inode(None, 0, "none")
NoCall         == [name |-> None, ino |-> None, write |-> FALSE, slot |-> None, obj |-> None]

FilesInit ==
  /\ \E f \in [Old -> Ino] :
       /\ \A m, n \in Old : f[m] = f[n] => m = n
       /\ dir = {<<n, f[n]>> : n \in Old}
       /\ inode_bitmap = {f[n] : n \in Old}
  /\ file_table = [s \in Slot |-> None]
  /\ mem = [o \in Obj |-> NoInode]
  /\ open_inodes = <<>>
  /\ fd_table = [t \in Proc |-> [d \in Fd |-> None]]
  /\ alive = {First}
  /\ pc = [t \in Proc |-> "user"]
  /\ call = [t \in Proc |-> NoCall]
  /\ panic = "none"

(* search_file: the inode number of a name, the first entry if two match.  *)
Inos(n)  == {i \in Ino : <<n, i>> \in dir}
Found(n) == Inos(n) # {}
InoOf(n) == Least(Inos(n))

FreeSlots  == {s \in Slot : file_table[s] = None}
FreeFds(t) == {d \in Fd : fd_table[t][d] = None}
FreeObjs   == {o \in Obj : mem[o] = NoInode}

CachedMutant(i) == {k \in DOMAIN open_inodes : k = 1 /\ mem[open_inodes[k]].i_no = i}

(* The search through open_inodes, from its front.                         *)
Cached(i)   == {k \in DOMAIN open_inodes : mem[open_inodes[k]].i_no = i}
CachedAt(i) == open_inodes[Least(Cached(i))]

(* The inodes that t looks at in that search.  One that another process    *)
(* created is in the heap of that process: what t finds at its address is  *)
(* undefined, and the model stops there.                                   *)
Foreign(t, o) == mem[o].heap \in Proc \ {t}
SearchOK(t, i) ==
  \A k \in DOMAIN open_inodes :
    (\A j \in Cached(i) : k <= j) => ~Foreign(t, open_inodes[k])

(* The check of sys_unlink, which goes through file_table to the first     *)
(* match.                                                                  *)
Uses(s, i) == file_table[s] # None /\ mem[file_table[s]].i_no = i
InUse(i)   == \E s \in Slot : Uses(s, i)
TableOK(t, i) ==
  \A s \in Slot : file_table[s] # None /\ (\A r \in Slot : r < s => ~Uses(r, i))
                  => ~Foreign(t, file_table[s])

Enter(t) == t \in alive /\ pc[t] = "user"

(* The first directory read of a call is done: nobody has the channel.     *)
Search(t) == Enter(t) /\ \A u \in Proc : pc[u] = "user"

Sleep(t, p, c) == pc' = [pc EXCEPT ![t] = p] /\ call' = [call EXCEPT ![t] = c]
Return(t)      == Sleep(t, "user", NoCall)
Halt(why) ==
  /\ panic' = why
  /\ UNCHANGED <<dir, inode_bitmap, file_table, mem, open_inodes, fd_table, alive, pc, call>>
-----------------------------------------------------------------------------
(* pcb_fd_install of slot s.  Without a free descriptor it returns -1, and *)
(* the slot stays as it is.                                                *)
pcb_fd_install(t, s) ==
  IF FreeFds(t) = {} THEN UNCHANGED fd_table
  ELSE fd_table' = [fd_table EXCEPT ![t][Least(FreeFds(t))] = s]

(* file_open after inode_open has returned o; m is the memory by then.  A  *)
(* second writer is refused, with the slot filled and the inode counted.   *)
FileOpen(t, s, o, write, m) ==
  /\ file_table' = [file_table EXCEPT ![s] = o]
  /\ IF write /\ m[o].write_deny
     THEN mem' = m /\ UNCHANGED fd_table
     ELSE /\ mem' = [m EXCEPT ![o].write_deny = @ \/ write]
          /\ pcb_fd_install(t, s)
  /\ Return(t)

(* sys_open of a file that exists, up to the return or to the read of the  *)
(* inode from the disk.                                                    *)
Open(t, n, write) ==
  LET i == InoOf(n)
      s == Least(FreeSlots)
  IN  /\ Search(t) /\ Found(n) /\ FreeSlots # {}
      /\ IF ~SearchOK(t, i) THEN Halt("undefined")
         ELSE /\ IF Cached(i) # {}
                 THEN FileOpen(t, s, CachedAt(i), write,
                               [mem EXCEPT ![CachedAt(i)].i_open_cnts = @ + 1])
                 ELSE /\ Sleep(t, "reading", [NoCall EXCEPT !.ino = i, !.write = write, !.slot = s])
                      /\ UNCHANGED <<file_table, mem, fd_table>>
              /\ UNCHANGED <<dir, inode_bitmap, open_inodes, alive, panic>>

(* What is refused without any effect: a missing file, an existing one     *)
(* that is to be created, a full file_table.                               *)
OpenFails(t, n, create) ==
  /\ Search(t)
  /\ IF create THEN ~Found(n) => inode_bitmap # Ino /\ FreeSlots = {}
               ELSE Found(n) => FreeSlots = {}
  /\ UNCHANGED fileVars

(* The place sys_malloc finds for a struct inode, put on open_inodes.      *)
NewInode(o) ==
  /\ o = Least(FreeObjs)
  /\ open_inodes' = <<o>> \o open_inodes

(* inode_open after ide_read: a new struct inode in the kernel's heap.     *)
InodeRead(t) ==
  LET c == call[t] IN
  /\ pc[t] = "reading"
  /\ \E o \in FreeObjs :
       /\ NewInode(o)
       /\ FileOpen(t, c.slot, o, c.write, [mem EXCEPT ![o] = Inode(c.ino, 1, "kernel")])
  /\ UNCHANGED <<dir, inode_bitmap, alive, panic>>

(* file_create, up to the write of the directory entry.  The struct inode  *)
(* is in the heap of the process.  A full inode_bitmap fails an ASSERT.    *)
Create(t, n) ==
  LET i == Least(Ino \ inode_bitmap)
      s == Least(FreeSlots)
  IN  /\ Search(t) /\ ~Found(n)
      /\ IF inode_bitmap = Ino THEN Halt("inodes")
         ELSE /\ FreeSlots # {}
              /\ \E o \in FreeObjs :
                   /\ o = Least(FreeObjs)
                   /\ mem' = [mem EXCEPT ![o] = Inode(i, 0, t)]
                   /\ file_table' = [file_table EXCEPT ![s] = o]
                   /\ Sleep(t, "creating", [name |-> n, ino |-> i, write |-> TRUE, slot |-> s, obj |-> o])
              /\ inode_bitmap' = inode_bitmap \cup {i}
              /\ UNCHANGED <<dir, open_inodes, fd_table, alive, panic>>

(* sync_dir_entry: the entry is written, or the directory is full and      *)
(* everything is rolled back.                                              *)
EntryWritten(t) ==
  /\ pc[t] = "creating"
  /\ dir' = dir \cup {<<call[t].name, call[t].ino>>}
  /\ Sleep(t, "created", call[t])
  /\ UNCHANGED <<inode_bitmap, file_table, mem, open_inodes, fd_table, alive, panic>>

Rollback(t) ==
  /\ pc[t] = "creating"
  /\ file_table' = [file_table EXCEPT ![call[t].slot] = None]
  /\ mem' = [mem EXCEPT ![call[t].obj] = NoInode]
  /\ inode_bitmap' = inode_bitmap \ {call[t].ino}
  /\ Return(t)
  /\ UNCHANGED <<dir, open_inodes, fd_table, alive, panic>>

(* The end of file_create, when the inode and its bitmap are on the disk.  *)
Created(t) ==
  LET c == call[t] IN
  /\ pc[t] = "created"
  /\ open_inodes' = <<c.obj>> \o open_inodes
  /\ mem' = [mem EXCEPT ![c.obj].i_open_cnts = 1]
  /\ pcb_fd_install(t, c.slot)
  /\ Return(t)
  /\ UNCHANGED <<dir, inode_bitmap, file_table, alive, panic>>
-----------------------------------------------------------------------------
(* list_remove of o from the list q.                                       *)
Without(q, o) == RemoveAt(q, Least({k \in DOMAIN q : q[k] = o}))

(* inode_close of o.  The last one takes it off open_inodes and frees it   *)
(* as a block of the kernel's heap, which a created inode is not.          *)
Frees(o) == mem[o].i_open_cnts = 1
inode_close(o, deny) ==
  /\ mem' = [mem EXCEPT ![o] = IF Frees(o) THEN NoInode
                               ELSE [mem[o] EXCEPT !.i_open_cnts = @ - 1, !.write_deny = deny]]
  /\ open_inodes' = IF Frees(o) THEN Without(open_inodes, o) ELSE open_inodes

(* sys_close.                                                              *)
Close(t, d) ==
  LET s == fd_table[t][d]
      o == file_table[s]
  IN  /\ Enter(t)
      /\ IF s = None THEN Halt("closed")
         ELSE IF o = None THEN Halt("null")
         ELSE IF Foreign(t, o) THEN Halt("undefined")
         ELSE IF Frees(o) /\ mem[o].heap # "kernel" THEN Halt("heap")
         ELSE /\ inode_close(o, FALSE)
              /\ file_table' = [file_table EXCEPT ![s] = None]
              /\ fd_table' = [fd_table EXCEPT ![t][d] = None]
              /\ UNCHANGED <<dir, inode_bitmap, alive, pc, call, panic>>

(* sys_fork as far as files go: u gets a copy of the fd_table of t, and    *)
(* update_inode_open_cnts counts it.  A process with an inode in its own   *)
(* heap, of which the child would get a copy, does not fork here.          *)
Fds(t, o) == {d \in Fd : fd_table[t][d] # None /\ file_table[fd_table[t][d]] = o}
ForkMutant(t, u) ==
  /\ Enter(t) /\ u \notin alive
  /\ alive' = alive \cup {u}
  /\ fd_table' = [fd_table EXCEPT ![u] = fd_table[t]]
  /\ mem' = [o \in Obj |-> IF Fds(t, o) # {} THEN [mem[o] EXCEPT !.i_open_cnts = 1] ELSE mem[o]]
  /\ UNCHANGED <<dir, inode_bitmap, file_table, open_inodes, pc, call, panic>>
Fork(t, u) ==
  /\ Enter(t) /\ u \notin alive /\ \A o \in Obj : mem[o].heap # t
  /\ IF Fds(t, None) # {} THEN Halt("null")
     ELSE IF \E o \in Obj : Fds(t, o) # {} /\ Foreign(t, o) THEN Halt("undefined")
     ELSE /\ alive' = alive \cup {u}
          /\ fd_table' = [fd_table EXCEPT ![u] = fd_table[t]]
          /\ mem' = [o \in Obj |-> [mem[o] EXCEPT !.i_open_cnts = @ + Cardinality(Fds(t, o))]]
          /\ UNCHANGED <<dir, inode_bitmap, file_table, open_inodes, pc, call, panic>>
-----------------------------------------------------------------------------
UnlinkMutant(t, n) ==
  /\ Search(t) /\ Found(n)
  /\ Sleep(t, "unlinking", [NoCall EXCEPT !.ino = InoOf(n)])
  /\ UNCHANGED <<dir, inode_bitmap, file_table, mem, open_inodes, fd_table, alive, panic>>

(* sys_unlink, up to the first transfer of delete_dir_entry.  A file in    *)
(* file_table is not deleted.                                              *)
Unlink(t, n) ==
  /\ Search(t) /\ Found(n)
  /\ IF ~TableOK(t, InoOf(n)) THEN Halt("undefined")
     ELSE /\ ~InUse(InoOf(n))
          /\ Sleep(t, "unlinking", [NoCall EXCEPT !.ino = InoOf(n)])
          /\ UNCHANGED <<dir, inode_bitmap, file_table, mem, open_inodes, fd_table, alive, panic>>
UnlinkFails(t, n) ==
  /\ Search(t) /\ (Found(n) => TableOK(t, InoOf(n)) /\ InUse(InoOf(n)))
  /\ UNCHANGED fileVars

(* The entry is off the disk, and inode_release calls inode_open.          *)
EntryRemoved(t) ==
  LET i == call[t].ino
      o == CachedAt(i)
  IN  /\ pc[t] = "unlinking"
      /\ IF ~SearchOK(t, i) THEN Halt("undefined")
         ELSE /\ dir' = {e \in dir : e[2] # i}
              /\ IF Cached(i) # {}
                 THEN /\ mem' = [mem EXCEPT ![o].i_open_cnts = @ + 1]
                      /\ Sleep(t, "releasing", [call[t] EXCEPT !.obj = o])
                 ELSE Sleep(t, "fetching", call[t]) /\ UNCHANGED mem
              /\ UNCHANGED <<inode_bitmap, file_table, open_inodes, fd_table, alive, panic>>

InodeFetched(t) ==
  /\ pc[t] = "fetching"
  /\ \E o \in FreeObjs :
       /\ NewInode(o)
       /\ mem' = [mem EXCEPT ![o] = Inode(call[t].ino, 1, "kernel")]
       /\ Sleep(t, "releasing", [call[t] EXCEPT !.obj = o])
  /\ UNCHANGED <<dir, inode_bitmap, file_table, fd_table, alive, panic>>

(* inode_release after its blocks: the inode number is free again.         *)
InodeReleased(t) ==
  /\ pc[t] = "releasing"
  /\ inode_bitmap' = inode_bitmap \ {call[t].ino}
  /\ Sleep(t, "deleting", call[t])
  /\ UNCHANGED <<dir, file_table, mem, open_inodes, fd_table, alive, panic>>

(* The end of inode_release, after inode_delete.                           *)
InodeDeleted(t) ==
  LET o == call[t].obj IN
  /\ pc[t] = "deleting"
  /\ IF Frees(o) /\ mem[o].heap # "kernel" THEN Halt("heap")
     ELSE /\ inode_close(o, mem[o].write_deny)
          /\ Return(t)
          /\ UNCHANGED <<dir, inode_bitmap, file_table, fd_table, alive, panic>>
-----------------------------------------------------------------------------
FilesNext ==
  /\ panic = "none"
  /\ \E t \in Proc :
       \/ \E n \in Name :
            \/ \E write \in BOOLEAN : Open(t, n, write)
            \/ \E create \in BOOLEAN : OpenFails(t, n, create)
            \/ Create(t, n)
            \/ Unlink(t, n)
            \/ UnlinkFails(t, n)
       \/ InodeRead(t)
       \/ EntryWritten(t)
       \/ Rollback(t)
       \/ Created(t)
       \/ \E d \in Fd : Close(t, d)
       \/ \E u \in Proc : Fork(t, u)
       \/ EntryRemoved(t)
       \/ InodeFetched(t)
       \/ InodeReleased(t)
       \/ InodeDeleted(t)

FilesSpec == FilesInit /\ [][FilesNext]_fileVars
-----------------------------------------------------------------------------
SlotsOf(o)  == {s \in Slot : file_table[s] = o}
IsOpen(o)   == SlotsOf(o) # {} /\ \E k \in DOMAIN open_inodes : open_inodes[k] = o
(* All descriptors of one file share one struct inode: with two, the sizes *)
(* and block lists in memory would overwrite each other on the disk.       *)
(* inode_open searches the list, sleeps, and then pushes its copy.         *)
InodeOnce ==
  \A o, p \in Obj : SlotsOf(o) # {} /\ SlotsOf(p) # {} /\ mem[o].i_no = mem[p].i_no => o = p

(* A slot never points to a struct inode that has been freed, and every    *)
(* slot is counted in i_open_cnts: inode_close against file_open,          *)
(* file_create, fork and inode_release.                                    *)
NoDangling == \A o \in Obj : SlotsOf(o) # {} =>
  /\ mem[o] # NoInode
  /\ \/ \E k \in DOMAIN open_inodes : open_inodes[k] = o /\ mem[o].i_open_cnts >= Cardinality(SlotsOf(o))
     \/ \E t \in Proc : pc[t] \in {"creating", "created"} /\ call[t].obj = o

(* What is open is on the disk: its number is in use and a name leads to   *)
(* it, so that no new file gets the inode (sys_unlink against sys_open).   *)
UnlinkedNotOpen == \A o \in Obj : IsOpen(o) =>
  mem[o].i_no \in inode_bitmap /\ \E n \in Name : <<n, mem[o].i_no>> \in dir
=============================================================================
