------------------------------ MODULE PageAlloc ------------------------------
(***************************************************************************)
(* The physical pools under several threads, kernel/memory.c: palloc is a  *)
(* bitmap_scan and a bitmap_set, and every caller holds the lock of the    *)
(* pool it asks -- except page_table_add, which takes the frame of a new   *)
(* page table from the kernel pool under whatever lock its caller holds.   *)
(*                                                                         *)
(* Kernel threads allocate with interrupts on: main while it sets up the   *)
(* disk, and init in start_process, where it gets its user stack before it *)
(* first goes to user mode.  A process allocates inside system calls, with *)
(* interrupts off, but main may have been preempted anywhere.  The store   *)
(* of a byte by bitmap_set is one step here, which it is not in the code.  *)
(***************************************************************************)
EXTENDS Sync

CONSTANTS KernelPool, UserPool,  \* the pools, named by their locks
          Frame,                 \* frames of a pool, in the order of its bitmap
          MaxOwned               \* bound on the pages a thread holds

VARIABLES used,     \* the bits set in each pool_bitmap
          found,    \* the frame a thread's bitmap_scan has found
          table,    \* the processes that have a page table for user pages
          owned,    \* the frames each thread has been given
          starting  \* init, until start_process has jumped to intr_exit

pageVars  == <<used, found, table, owned, starting>>
allocVars == <<syncVars, pageVars>>

Pool == {KernelPool, UserPool}

PageInit ==
  /\ SyncInit
  /\ used = [p \in Pool |-> {}]
  /\ found = [t \in Thread |-> 0]
  /\ table = {}
  /\ owned = [t \in Thread |-> {}]
  /\ starting = {Init0}

SyncKept == UNCHANGED <<panic, lockVars, lk, old>>

(* sys_malloc takes from the pool of the caller; fork and exec also call   *)
(* get_kernel_pages; start_process asks for the page of the user's stack.  *)
OwnPool(t) == IF t \in Kernel THEN KernelPool ELSE UserPool
Asks(t)    == IF t \in Kernel \cup starting THEN {OwnPool(t)} ELSE Pool

Owned(p) == {x \in UNION {owned[t] : t \in Thread} : x[1] = p}
-----------------------------------------------------------------------------
(* start_process begins, with interrupts on since kernel_thread, and ends  *)
(* with the jump to intr_exit.                                             *)
StartProcess(t) ==
  /\ At(t, "out") /\ t \in starting
  /\ Goto(t, "sys")
  /\ Run /\ SyncKept
  /\ UNCHANGED pageVars

ProcessStarted(t) ==
  /\ t \in starting /\ owned[t] # {}
  /\ SysExit(t)
  /\ starting' = starting \ {t}
  /\ UNCHANGED <<used, found, table, owned>>

(* get_kernel_pages, get_user_pages, get_a_page and sys_malloc begin by    *)
(* taking the lock of the pool.                                            *)
GetPage(t, p) ==
  /\ p \in Asks(t)
  /\ At(t, Caller(t)) /\ Cardinality(owned[t]) < MaxOwned
  /\ t \in starting => owned[t] = {}
  /\ Acquire(t, p)
  /\ UNCHANGED pageVars

(* The first half of palloc(pool), called at pc from; a full bitmap fails  *)
(* the ASSERT of bitmap_scan.                                              *)
Scan(t, pool, from, to) ==
  /\ At(t, from)
  /\ panic' = (used[pool] = Frame)
  /\ \E f \in Frame :
       /\ used[pool] # Frame => f \notin used[pool] /\ \A g \in Frame : g < f => g \in used[pool]
       /\ found' = [found EXCEPT ![t] = f]
  /\ Goto(t, to)
  /\ Run
  /\ UNCHANGED <<lockVars, lk, old, used, table, owned, starting>>

(* The second half.                                                        *)
Set(t, pool, from, to) ==
  /\ At(t, from)
  /\ used' = [used EXCEPT ![pool] = @ \cup {found[t]}]
  /\ owned' = [owned EXCEPT ![t] = @ \cup {<<pool, found[t]>>}]
  /\ Goto(t, to)
  /\ Run /\ SyncKept
  /\ UNCHANGED <<found, table, starting>>

ScanPage(t) == Scan(t, lk[t], "own", "set")
SetPage(t)  == Set(t, lk[t], "set", "map")

(* page_table_add: the entry of the page directory exists for the kernel's *)
(* pages, and for a user page once another of its 4 MB has been mapped.    *)
TableExists(t) ==
  /\ At(t, "map") /\ (lk[t] = KernelPool \/ t \in table)
  /\ Goto(t, "end")
  /\ Run /\ SyncKept
  /\ UNCHANGED pageVars

ScanTable(t) ==
  /\ lk[t] = UserPool
  /\ Scan(t, KernelPool, "map", "tset")

SetTable(t) == Set(t, KernelPool, "tset", "pde")

StoreTable(t) ==
  /\ At(t, "pde")
  /\ table' = table \cup {t}
  /\ Goto(t, "end")
  /\ Run /\ SyncKept
  /\ UNCHANGED <<used, found, owned, starting>>

(* pfree clears the bit of a page that the thread has been given.  Page    *)
(* tables are never given back.                                            *)
Clear(t, pool) ==
  /\ \E f \in Frame :
       /\ <<pool, f>> \in owned[t]
       /\ used' = [used EXCEPT ![pool] = @ \ {f}]
       /\ owned' = [owned EXCEPT ![t] = @ \ {<<pool, f>>}]
  /\ Run /\ SyncKept
  /\ UNCHANGED <<found, table, starting>>

(* mfree_page in sys_free, under the lock of the pool.                     *)
FreePage(t) ==
  /\ At(t, "own") /\ lk[t] = OwnPool(t)
  /\ t \notin starting
  /\ Clear(t, lk[t])
  /\ Goto(t, "end")

(* mfree_page at the end of copy_process, under no lock.                   *)
FreeBuffer(t) ==
  /\ At(t, "sys") /\ t \notin starting
  /\ Clear(t, KernelPool)
  /\ UNCHANGED pc

(* lock_acquire and lock_release of the pool.                              *)
PoolLock(t) ==
  /\ \/ TestHolder(t) \/ SemaDown(t) \/ SemaDownAgain(t) \/ SetHolder(t) \/ SetRepeat(t)
     \/ ReleaseAt(t, "end") \/ ClearRepeat(t) \/ SemaUp(t)
  /\ UNCHANGED pageVars

AllocStep(t) ==
  \/ \E p \in Pool : GetPage(t, p)
  \/ ScanPage(t)
  \/ SetPage(t)
  \/ TableExists(t)
  \/ ScanTable(t)
  \/ SetTable(t)
  \/ StoreTable(t)
  \/ FreePage(t)
  \/ FreeBuffer(t)
  \/ PoolLock(t)
  \/ StartProcess(t)
  \/ ProcessStarted(t)

OtherStep(t) ==
  /\ t \notin starting
  /\ BootDone(t) \/ SysEnter(t) \/ SysExit(t) \/ Fork(t)
  /\ UNCHANGED pageVars

AllocNext ==
  /\ ~panic
  /\ \/ Background /\ UNCHANGED pageVars
     \/ \E t \in Thread : OtherStep(t) \/ AllocStep(t)

AllocSpec == PageInit /\ [][AllocNext]_allocVars
-----------------------------------------------------------------------------

(* "Scanning or setting the bitmap must be atomic", palloc says: the bits  *)
(* set in a pool are those of the frames that somebody holds, and nobody   *)
(* else holds them; no frame is lost, and none is handed out twice between *)
(* another thread's search and its setting of the bit.                     *)
FramesAccounted ==
  /\ \A p \in Pool : used[p] = {x[2] : x \in Owned(p)}
  /\ \A s, t \in Thread : s # t => owned[s] \cap owned[t] = {}
=============================================================================
