# A TLA+ model of the kernel in src/workshop

The repository is a teaching kernel for one 32-bit x86 processor: a round-robin
scheduler, semaphores and locks, a keyboard queue, an IDE driver, page and heap
allocation, a Unix-like file system, processes with fork, and a shell. This
directory holds TLA+ modules of its parts, the TLC configurations that check
them on small instances, and TLAPS proofs about the scheduler, the locks, the
keyboard queue, the keyboard and the shell's line, the disk driver, the heap, the
tables of open files, the bytes of files and the directories.
`PROJECT.json` lists every definition with the source lines it stands for.
All paths below are relative to `src/workshop/`; beside it are only the disk
configuration and the emulator.

## 1. The system

There is one CPU. Code is interrupted only while the interrupt flag (IF) is on.
Three kinds of code run:

- kernel threads (`main`, `idle`, and every process between its creation and its
  first `intr_exit`): IF on, preempted by the timer between any two
  instructions;
- processes in user mode, IF on; their system calls enter through an interrupt
  gate (`kernel.S`), which turns IF off until `intr_exit`. A system call loses
  the CPU only where it blocks or yields;
- interrupt handlers, with IF off from entry to exit; the timer handler may call
  `schedule`.

This decides the grain of atomicity in every module: with IF on, each access to
shared state is a step; with IF off, a step runs to the next `thread_block` or
`thread_yield`.

### Components

| component | state | operations | correct when |
|---|---|---|---|
| scheduler `thread/thread.c`, `switch.S` | `thread_ready_list`, `status`, `ticks`, running thread, `idle_thread` | `schedule`, `thread_block`, `thread_unblock`, `thread_yield`, `thread_start`, `idle` | status, list and CPU agree; no ASSERT fails; no READY thread starves |
| semaphores and locks `thread/sync.c` | `value`, `waiters`, `holder`, `holder_repeat_nr` | `sema_down`, `sema_up`, `lock_acquire`, `lock_release` | one holder, no lost wakeup, IF restored |
| timer `device/timer.c` | `ticks` | `intr_timer_handler`, `mtime_sleep` | preempts at the end of a slice |
| interrupts `kernel/interrupt.c`, `kernel.S` | IF, IDT, 8259A masks | `intr_enable/disable/set_status`, gates | IF as the caller expects |
| keyboard queue `device/ioqueue.c` | ring, `head`, `tail`, `lock`, `consumer` | `ioq_getchar`, `ioq_putchar` | bytes in order, none lost, sleeper woken |
| keyboard `device/keyboard.c` | modifier flags, extended-code flag | `intr_keyboard_handler` | no modifier or prefix outlives its key |
| IDE driver `device/ide.c` | channel lock, `expecting_intr`, `disk_done`, partitions | `ide_read`, `ide_write`, `intr_hd_handler`, `busy_wait`, identify, partition scan | data moves only when the drive is ready for it; no wakeup is lost; calls return |
| console `device/console.c`, `print.S` | one lock, cursor | `console_put_*` | output of two threads is not mixed |
| bitmaps `lib/kernel/bitmap.c` | bytes | `bitmap_scan`, `bitmap_set` | a free range is found, and only it is set |
| memory `kernel/memory.c` | physical and virtual pools, page tables, arenas, free lists | `malloc_page`, `get_a_page`, `sys_malloc`, `sys_free`, `mfree_page` | a page or block has one owner |
| linked lists `lib/kernel/list.c` | `prev`/`next` in the element | push, append, pop, remove | a tag is in one list at a time |
| open files and inodes `fs/file.c`, `fs/inode.c` | `file_table`, `open_inodes`, counts, `write_deny`, on-disk bitmaps | open, create, close, read, write, release | no slot without its inode; an inode is in memory once |
| directories `fs/dir.c` | entries in direct and indirect blocks | search, sync, delete, read, remove | the names are a tree, no sector lost or shared, ls complete |
| file system calls `fs/fs.c` | mounted partition, working directory | path search, open, unlink, mkdir, rmdir, mount, format | refused calls leave nothing behind |
| processes and fork `userprog/` | page directory, address bitmap, descriptors | `process_execute`, `start_process`, `sys_fork` | the child owns a copy of everything |
| shell `shell/` | the line, `argv`, `final_path`, working directory | `readline`, `cmd_parse`, `wash_path`, built-in commands | the command gets the words meant; a path means one thing |
| tss, user library, boot, debug | - | - | see section 8 |

How they interact: everything that waits does so through `thread_block`, called
from `sema_down`, `ioq_wait` or `idle`. The timer preempts; the keyboard and disk
handlers wake a thread. Memory, disk, console and keyboard queue are each behind
a lock of `sync.c`. The file system reaches the disk from inside system calls,
and that is where a system call is really interrupted: `ide_read` sleeps, other
processes run, and whatever was read from a table before is old.

What is hard: preemption between the accesses of `lock_acquire`; wakeups that
race with going to sleep; an interrupt that arrives before its waiter, or late;
tables searched before a disk sleep and used after it; fork's sharing of file
slots; kernel threads that allocate while they can be preempted; one ASSERT
failing inside `schedule` stops the machine. The `hazards` of
`PROJECT.json` name the line of each and the properties that cover it.

## 2. Plan

Done, in this order: Sched, Sync with Mutex, IoQueue, Ide, Bitmap, Heap, PageAlloc,
OpenFiles; then Paths, Dirs, FileIO, Terminal; then the proofs: SyncProofs (of Sched
and Sync), DeviceProofs (of Ide and IoQueue), OpenFilesProofs, HeapProofs,
FileIOProofs, TerminalProofs, DirsProofs.

Section 7 says what is left to TLC.

Of the system itself, what could still be modelled is the copying of an address
space by fork (page directories at a thread switch, arenas shared between parent
and child), the pointers of `list.c` and the sizing of the pools; see section 8.

## 3. Modules

```
  Sched                           Bitmap  <--  Heap  <-- HeapProofs
    ^                             Paths   <--  Dirs  <-- DirsProofs
   Sync <------ SyncProofs        OpenFiles <-- OpenFilesProofs
    ^  (Mutex)       ^            FileIO    <-- FileIOProofs
    +-- IoQueue <-+  |            Terminal  <-- TerminalProofs
    +-- Ide <-----+-- DeviceProofs
    +-- PageAlloc
```

An arrow points to the module that is extended. IoQueue, Ide and PageAlloc are
compositions: they contain the whole of Sync and Sched, so that a reader of the
keyboard is preempted, blocked and woken by the modelled scheduler; Sync names
Mutex as what its lock implements. A proof module extends the modules it is about
and the proof module of what those are built on. Each `MC`
module names the threads of an instance. Definitions named `...Mutant...` are
faulty variants used to see that the properties reject them; no specification
uses them.

**Sched.** `cur` is `running_thread()`, `ready` the ready list, `slice` the field
`ticks`, `intr` IF, `saved[t]` the flag `t` finds when it is given the CPU again.
`Dispatch` is `schedule()` after its caller has settled the leaving thread;
`Block`, `Unblock`, `Yield`, `Start`, `Tick` and the two steps of `idle` are the
callers. Any thread but idle may call any operation at any time, which is more
than the kernel does, so what holds here holds whatever the threads do. A device
handler wakes a sleeper (`Device`) or finds nobody to wake (`DeviceOnly`). A failed
ASSERT sets `panic`, after which nothing happens, as in `panic_spin`.

**Sync.** `pc` follows each thread through `lock_acquire` and `lock_release`:
test of `holder`, `sema_down` (which loops over `thread_block`), the two
assignments after it, and the reverse on release. `sema_down` and `sema_up` are
one step between blocks because they turn IF off themselves; the assignments
around them are steps of their own. `SysEnter` and `SysExit` are the gate. A
thread holds one lock at a time, perhaps nested. **Mutex** is what the callers
rely on: an owner, a depth, take, take again, give.

**IoQueue.** `ioq_getchar` and the keyboard handler's `ioq_putchar`. The history
variables `put` and `got` record the bytes in order. A key that meets a full ring
is dropped by the handler, and does not count as put.

**Ide.** `ide_read` and `ide_write` on one channel, `busy_wait`'s polling with
`mtime_sleep` in between, and `intr_hd_handler`. A call is cut into commands of at
most `Chunk` sectors (256 in the code). The drive and the 8259A are external: the
drive raises its line when a sector of a read is ready and when one of a write has
been taken in, goes on to the next sector at once, and lowers the line when its
status is read or a command arrives; the controller latches the edge. `busy_wait`
polls until the drive answers. A comment at ide.c:320-321 says that the lock makes
an interrupt belong to the last command; with more than one sector to a command
that is not so, because the line rises for the second sector before the driver has
left the first, and the drive may be storing the last sector of a write when the
next command is prepared. What the code still keeps is stated by ReturnsWhenDone.

**Bitmap** keeps `bitmap.c`'s own indexing, wrong index in `bitmap_scan_test`
included; because of it memory behind the bitmap is part of the model and starts
with every content.

**Heap.** `sys_malloc` and `sys_free` of one address space with both bitmaps, the
page table entries, arenas and free lists. Each call runs under the pool's lock
and is one step. `panic` says what an ASSERT has stopped: a request of one "page"
(a block counts as one), a "range" of several, or a "free".

**PageAlloc.** What Heap's single step hides: `palloc` is a scan and a set,
`page_table_add` asks the kernel pool under the user pool's lock, and
`copy_process` gives a page back under none. Three kinds of callers: main, a kernel
thread, while it mounts the disk; init in `start_process`, which has interrupts on
from `kernel_thread` to `intr_exit`; processes in system calls. The module has no
theorem: its property is violated (section 4).

**OpenFiles.** `file_table`, `open_inodes` with counts and `write_deny`, each
`fd_table`, the names of the root directory and the inode bitmap. A step is what
a call does between two disk sleeps. Open, create and unlink begin with a
directory read, which needs the lock of the disk's channel; `ide_read` sleeps with
that lock held, and the caller takes it again for its next transfer before anybody
else runs, as `lock_release` hands nothing over and interrupts are off. So a
second such call waits in its search until the first has returned (`Search`),
while close and fork, which use no disk, come in between. The struct inode of a
created file comes from the creating process's own heap (`file_create` does not
switch page directories as `inode_open` does); another process that follows the
pointer reads its own memory at that address, which has no defined outcome, and
the model stops (`panic = "undefined"`). For the same reason a process with such an
inode does not fork in the model. The other values of `panic` are ASSERTs or a NULL
access of the code: "closed" (descriptor not open), "null" (slot cleared under a
sharer), "heap" (a user-heap inode freed as a kernel block), "inodes" (full bitmap).

**Paths** and **Dirs.** A path is a sequence of names; `path_parse`,
`path_depth_cnt`, `wash_path` and `make_clear_abs_path` are operators on it. In
Dirs the file system is one record: both bitmaps and the inodes in memory and on
the disk, the sectors of entries and the tables, the open inodes. The functions of
`dir.c`, `inode.c` and `bitmap_sync` are operators from file system to file
system, chained in the order of the code; a call (`sys_mkdir`, `sys_rmdir`,
`sys_unlink`, `sys_chdir`, opening, creating and closing) is one action, behind
the shell's command where it has one. What the calls do to each other while they
sleep is the matter of OpenFiles. `sync_dir_entry` does not read the table, the
type test of `sys_rmdir` is missing, `sys_open` leaves the parent open,
`partition_format` frees a bit too many, `inode_sync` keeps eight bits of the
inode's number (`WRAP`): all of that is in the model. So is `bitmap_sync`: it writes
one sector of a bitmap, takes the content from the block bitmap whichever was
asked for, and begins `off_sec` bytes into it where it means `off_sec` sectors;
`SEC_BITS` and `BYTE` are the sizes, small in the runs and arbitrary in the proofs.

`panic` names the stop. Some are of the code: "rollback" (`sys_mkdir` gives the
address of a buffer to `sys_close`, a page fault in a process), "full" (ASSERT of
`bitmap_scan`), "getcwd" (ASSERT on a removed working directory), "dir_remove",
"delete" (ASSERTs of `dir.c`). Three are of the model, the calls in `Damage`, which
succeed and leave a file system that the properties do not describe: "table" (an
entry that would be the second behind the table replaces the table), "wrap" (an
inode number that `inode_sync` cannot hold overwrites another inode), "stale" (the
removal of a directory that `sys_open` had left in the list of open inodes, where
the next inode of that number finds it). The call itself is modelled whole, and
the state it leaves can be looked at, as `dirs_table` does.

**FileIO.** The blocks and bytes of files: `file_write` with its three cases of
growth, `file_read`, `sys_lseek` and the release of blocks. Byte k of file f has
the value `Stamp(f, k)`, so that a byte in a wrong place shows. `Wanted` is what a
write allocates, in order; `Chunk` the bytes it really writes: `bytes_written -=
chunk_size` ends the loop after one sector. The uninitialised `block_idx` of the
second case is a choice between the lucky value and two stops. `panic` is "size",
"assert", "full", "index" (ASSERTs), "sector 0", "undefined", "overrun".

**Terminal.** Keys, handler, queue and shell. The keyboard sends bytes, an
extended key two of them; `intr_keyboard_handler` takes one per step, and the
shell runs in between. `cmd_line` has one cell more than the array; a character
stored there stops the model, and so do a word too many in `argv` and a line
without a word. `want` is the line as the user means it: append, erase, kill.
A key is pressed again while it is held, as the keyboard repeats it; only the
modifiers are remembered as held, because releasing another key changes nothing.

## 4. Runs

| run | instance | shows |
|---|---|---|
| `sched` | main, idle, init, a child; main has priority 1, the others 0 | status, list and CPU agree, no duplicates, no ASSERT fails, READY threads do not overtake each other, none starves |
| `sync` | two kernel threads, one process, one lock, nesting 2 | mutual exclusion, no lost wakeup, waiters list exact, IF restored, no ASSERT fails; implements Mutex and Sched; a lock that is waited for is taken again |
| `ioqueue` | two readers, ring of 3, two characters, 3 keys | nothing lost or reordered, all keys are read |
| `ide` | main and a process, calls of three sectors in commands of two | data moves only when the drive is ready for the data of this command, a command is over only when its sectors have passed, no wakeup is lost, calls return |
| `heap` | pages of 64 bytes, block sizes 16 and 32, 3 pages; sizes 0, 16, 17, 40, 60 (60 with its arena takes two pages) | live blocks are apart, counters, page table and bitmaps agree; a request that fits a page stops only at a full bitmap, and a free never |
| `files` | three processes, two names, 2 slots, 2 descriptors, 3 inodes, 4 places for a struct inode | an inode is in memory once, no dangling slot, no open file is deleted |
| `dirs` | 5 inodes, 7 blocks and the one too many, 2 direct blocks, sectors of 2 entries and 4 bits, inode numbers kept modulo 4; cd, mkdir, rmdir, rm with four arguments, three paths created, two opened | until a call of `Damage`: the names are a tree, blocks are accounted for, ls is complete, paths mean one thing, memory and disk agree after each call |
| `fileio` | two files, 6 sectors of 3 bytes, 2 direct blocks, a table of 2; writes and reads of 0, 2, 3, 6 bytes | every byte is in its place, no block serves twice, a read inside a sector delivers the file |
| `terminal` | two letters, space, backspace, both enter keys, both ctrl keys, right alt; 6 cells, 2 words, a queue of one | no modifier sticks, the line is what was meant, the command gets its words |

Three runs show the code doing other than its comments say (`findings`):

| run | violated | what happens |
|---|---|---|
| `page_alloc` | FramesAccounted | main is preempted at boot between `bitmap_scan` and `bitmap_set` with the kernel pool's lock held; init, in `start_process`, takes the same frame for a page table (memory.c:186, against memory.c:133) |
| `dirs_reboot` | InodesSurviveReboot | `bitmap_sync` writes block bits into the sector of the inode bitmap; after the next boot the inode of a name is marked free (file.c:656, against file.c:640) |
| `dirs_table` | NoNameLost | the second entry that goes behind the table of a directory makes a new table, and the first is lost (dir.c:163, against dir.c:161) |

**Bounds and why they are enough.** Four threads are the least with which the
ready list holds two ordinary threads while a third runs and idle sleeps: that is
what overtaking, starvation and the empty list need. The theorems of section 6
lift the safety part of `sched`, `sync`, `ioqueue`, `ide`, `heap`, `files`,
`fileio`, `terminal` and `dirs` to any number. For a lock, three contenders give a
holder, a woken waiter and a thread that steals the value in between. A ring of 3
wraps and fills within 3 keys. A call of three sectors is a command of two and a
command of one: an interrupt of the first sector is latched while the second
moves, and one of the first command while the second is sent, by the same or
another caller. In the heap, block sizes 16 and 32 fit three and one to an arena,
so that an arena is partly free, wholly free or exhausted; 17 takes the second
size, 40 a page of its own and 60 two. In OpenFiles three
processes, two of them forked, share slots while the third is inside a call; two slots and two names let a slot and a number
be given away again. In Dirs a root of three entries uses both direct blocks and
the table, and shrinks again, and a fourth is the one too many; names are removed
and made in any order. The first four blocks have their bits in the first sector
of the bitmap and the others in the second. `MaxOpens` bounds how often a directory
below the root is left open. In FileIO a file fills a sector partly, exactly
and across its end, crosses into the table, and the disk fills up; 6 is two
sectors, so that blocks are allocated before they are needed. In Terminal five
characters and the end make three words, one more than `argv` has. The letters
are typed without shift and caps lock, which would double the characters and
whose flags are set and cleared as those of ctrl and alt are.

**What limits the passing runs.** In `dirs` all properties are about states before
a call of `Damage`; how far it goes after the first of the three, the loss of the
table, is the run `dirs_table`. DiskAgrees is about the first sector of the block
bitmap, because the bits of the others are written from the wrong bytes, and not
about the inode bitmap, which `dirs_reboot` is about. In `heap` the property
PanicsOnlyWhenFull leaves out requests of several pages: they are in the run, but
`bitmap_scan_test` indexes bytes by the number of the bit, so that a range may be
partly in use and the call stop with room left. In `ide`, ReturnsWhenDone lets the
last sector of a write be in the drive's buffer still. ReadsTheFile leaves out reads
that reach the end of a sector, which `file_read` serves from sector 0.

`heap`, `files`, `dirs`, `fileio`, `terminal`, `dirs_reboot` and `dirs_table` switch
deadlock checking off: a failed ASSERT (a full bitmap, a second close) ends the
system there, as in the code. In all others a deadlock would be an error.

## 5. Fairness

- Tick: strong. The 8253 keeps firing and the 8259A holds IRQ0, its highest
  priority, until IF is on.
- A thread that gets the CPU again and again goes on with its call, leaves the
  system call and turns IF on: strong, per thread, because the thread is disabled
  while it does not run. Sync adds the last release of a lock. Nothing makes a
  thread take a lock, call the disk or go on nesting.
- idle does nothing but go around its loop: strong.
- The drive answers a command (weak) and a latched request is delivered (strong).
- In IoQueue the readers go on reading, as the shell's loop does, and init forks
  the shell. Nobody needs to type.

ReadyRuns is thus about the scheduler: woken threads are put before waiting ones,
but a slice is refilled only by the preemption that sends its owner to the back.
LockNeverStuck promises that somebody gets the lock, not who: `sema_up` does not
hand the value over, so one waiter may be passed for ever.

## 6. Proofs

Each theorem holds for every value of the constants that the ASSUME of its module
allows, and none has a hypothesis beyond it: any finite or infinite set of threads,
locks and keys (finite where the code has a table: processes, slots and
descriptors in OpenFiles), any size of command, ring, line, pool, partition and
directory tree.

| module | theorems |
|---|---|
| SyncProofs | of Sched: TypeOK, NoDuplicates, ListsAgree, NoPanic, FifoAmongReady |
| | of Sync: MutualExclusion, NoLostWakeup, WaitersSleep, InterruptFlag, NoPanic; ImplementsMutex, ImplementsSched |
| DeviceProofs | of IoQueue: FirstInFirstOut, NoPanic, ImplementsSched |
| | of Ide: ReturnsWhenDone, SleeperIsServed, NoPanic, ImplementsSched |
| TerminalProofs | NoStuckModifier, LineAsTyped, ArgsAreWords |
| FileIOProofs | BytesInPlace, BlocksOwnedOnce, ReadsTheFile |
| OpenFilesProofs | InodeOnce, NoDangling, UnlinkedNotOpen |
| DirsProofs | TreeOK, BlocksAccounted, ListingComplete, DiskAgrees |
| HeapProofs | LiveBlocksApart, ArenaCounts, PagesMatch, PanicsOnlyWhenFull |

Each module has also a theorem that its inductive invariant holds always; all the
others follow from it. None of the properties is inductive by itself.

**Sched** (IInv). NoPanic needs more than the states of threads: `schedule()` with
an empty list asserts, through `thread_unblock`, that idle is asleep; that follows
only if a thread that is neither in the list nor on the CPU sleeps or does not
exist yet. So IInv adds to TypeOK: a thread is in the list, once, exactly while its
status is READY; RUNNING is the status of `cur` alone; idle has been created. The
lemmas AppendOK, PushOK, PopOK and KeepOK say what each list operation does to
that; DispatchOK and UnblockOK use them for `schedule` and `thread_unblock`;
IInvNext has one case per action. SchedFifo looks at what each action does to the
order of the threads that stay in the list.

**Sync** (SyncInv = IInv, LockInv, OutsideOK, FlagInv, PlacesOK). LockInv says for
every place in `lock_acquire` and `lock_release` what semaphore, `holder`,
`holder_repeat_nr` and waiters are there: `value` is 0 exactly while some thread is
past `sema_down` and before `sema_up` (Holds), at most one is; `holder` trails
behind that on the way in and runs ahead on the way out; a thread is on the waiters
list exactly while it sleeps in that `sema_down`; a lock that is up with waiters
has woken one. InterruptFlag rests on FlagInv, that `old_status` of a sleeper is
the flag of its kind of thread. The invariant speaks of a thread that is *not* in
the places of Neutral or Trying, so that it fits the modules that add places of
their own: for them the holder may be anywhere in the driver or the ring. NoPanic
and ImplementsSched follow from the same step lemma: every step of Sync is a
`[Next]_vars` step of Sched. ImplementsMutex maps `holder` and a depth that counts
the acquisition between `holder = ` and `holder_repeat_nr = ` in advance; every
step is a take, a take again, a give or a stutter of Mutex.

**IoQueue** (RingInv, then QueueInv). FirstInFirstOut is inductive with the cursors
inside the ring, since a reader has interrupts off while it takes a character: the
ring is shown to be a sequence that grows at one end and shrinks at the other, which
is the arithmetic of `next_pos` at the wrap-around. QueueInv adds that `consumer`
is exactly the thread asleep in `ioq_wait`, so that the handler wakes a sleeper.

**Terminal** (KbdInv, LineInv, ParseInv). A flag may be set while its key is no longer held
for one moment, when the 0xe0 of its break code has been handled and the code has
not; KbdInv says so. No shift key is extended, which is why a shift flag cannot
be stuck by the prefix of the other. ParseInv is about `cmd_parse` between two words:
what is behind `next` is as it was typed, what is in front is cut, `argv` holds the
starts of words so far, one for each start in front of `next` (the n-th has n - 1
starts in front of it), and `next` is never inside a word. LeastNat stands in for
an induction over the line: FromOK, by which the two loops over cells stop at the
first cell they look for, and with it WordFound, by which they find exactly the
next word.

**FileIO** (FileInv). For the accounting of blocks, the table of a file is one more
block of it: Addr numbers them all. Shaped says that a file has all its blocks up to
the one it grows into, where the address of the table comes before the first
block behind it; Apart that no two numbers of one file or of two have the same
address; Owned that the addresses in use are the bits set. BytesInPlace joins them:
a byte is found in the sector whose address is that of its number divided by
BLOCK_SIZE. StoreTold and StoreAddr say what one store of an address does to
the others; the proof of a write follows its three cases. ReadsTheFile is about a read
inside a sector that does not wrap `fd_pos`: the position is 32 bits wide, a write
of nothing moves it back by one, and a count added to 2^32 - 1 starts again at 0.

**Ide** (IdeInv = LocksOK, CallsOK, DeviceOK). By LockInv only one thread is in the
driver. DeviceOK says for each of its places what the drive has of the command in
hand (InHand before the data, Moved after it) and whether the request of this
command has been accepted already or is still expected (Awaited). Whose interrupt
it was that has been accepted does not matter to it; what matters is that a request
that is expected and raised is latched (Told), so that nobody sleeps for ever, and
that a read ends with an idle drive. After the last command of a write the drive
may be storing still, and the next command is sent over that.

**Heap** (HeapInv). The parts are PagesOK (the pages present are those whose bit is
set and those of the arenas, which do not overlap), FramesOK (the frames taken are
those behind present entries, one each), ListsOK, LiveOK and CountsOK. ArenaCounts
counts the free blocks and the used ones together. PanicsOnlyWhenFull rests on two
things: the one page that `vaddr_get` finds has a clear bit, hence no entry
(OnePage), whatever larger requests are around; and when a counter reaches
`blocks_per_arena`, all blocks of the arena are in the list, since a set of as many
blocks as the arena has is all of them (FreedBlock). A search for several bits goes
through `bitmap_scan_test` and may return pages in use. `page_table_add` then stops
the kernel with room left, so that such a request keeps the other three theorems
and is left out of this one. Place and PlaceBack are the arithmetic
of byte and bit; with them ScanOK says that the first free bit is one, and SetOK
that `bitmap_set` changes the bits of its range alone. BelowOK and NthOK are about
the n-th free frame and the n-th element left in a list, RemoveArenaOK about
`list_remove` of all blocks of an arena. TakePages and GivePages are `malloc_page`
and `mfree_page`.

**OpenFiles** (FilesInv). For each place in a call, what the caller relies on
(InCall): the slot it chose is empty, the number it will use is free or not open.
ListOK: an inode on the list of open inodes is there once and counted for each of
its slots. OneInside: one process is in a call at most, which is what the channel's
lock gives, while the others close and fork. OpenOK: an inode with a slot is the *first* on the list with its number.
The second half is needed because a failed `file_open` (a second writer) leaves a
count behind, the inode is never taken off the list, and after the file is deleted
a new one may get its number; InodeOnce holds only because the list is searched
from the front, to which the new one was pushed. `list_remove` and the scans for
the first free element are dealt with by LeastOK (a non-empty set of numbers has a
least), RemoveOK and WithoutOK (which elements a removal keeps, and their order),
PushList and PopList.

**Dirs** (DirsInv). The proof sees a file system through two functions: Addr, the
blocks of an inode by number (the direct ones, the one behind the table, the table
itself), and At, the entry at each place of each inode, Free where there is no
sector. DirsInv says in these terms that the record is well formed (IsFs), that an
open inode is in memory as on the disk (MemOK), that a block belongs to one number
of one inode and its bit says so (Blocks), that a table has one address, of a
sector that is not empty (Tables), and what makes the names a tree (TreeInv). Its
parts are Kinds (the inodes with a first sector are the directories, and are
allocated; the others have no blocks), Dots, Entries (an entry leads to an allocated
inode of its type), Tree (every inode but the root's is named once, a name is there
once, ".." leads back), Sizes (`i_size` counts the entries) and Reached (a set with
the root and what its members name has every directory; without it a cycle of
directories could hang beside the tree). Opens says that between two calls the open
inodes are files in `file_table`, once each, and directories: the root, and those
that `sys_open` has left so. Its part Stored has the first sector of the bitmap, and
that no number has been given to an inode that `inode_sync` could not hold. The
theorems are about the states before a call of Damage: DirsHold is
[](Intact => DirsInv(fs)), and the lemma of a call shows that it keeps DirsInv or
is one of the three.

Three kinds of lemmas carry it. What the branches do to the view: SyncIs (the three
of `sync_dir_entry`), DeleteIs (the four of `delete_dir_entry`), ReleaseIs, each
shown to be one entry put in, one taken out, or one inode cleared, with PutKeeps,
CutKeeps and ReleaseKeeps for the blocks. What that does to the tree: GrownKeeps
(one more leaf) and ShrunkKeeps (one leaf less), of which CreateKeeps, MakeDirKeeps
and RemovedIs are the uses. What the paths mean: SearchIs says that `search_file`
returns a directory and what it names there, or the directory where the name is
missing; AbsPathIs that `make_clear_abs_path` leaves neither "." nor "..", so that
`sys_rmdir`, which looks at no type, gets a link of the tree and never a dot. A
lemma per call puts them together (MkdirStep to RmdirStep), and one more takes in
where the call stops or does damage (MkdirHolds to CloseHolds, with Harmful). The properties are
then read off: DirectoriesAre (what is reached from the root is every inode with a
first sector), RankBelow (the entries before one are fewer than `i_size`), BlocksCount.

FirstWritten is the arithmetic of `bitmap_sync`: in the first sector `off_sec` is 0
and the wrong offset the right one. Behind the direct sectors there is at most one
more before Damage, because `sync_dir_entry` never reads the table: that is why
Addr has one number for what the table says.

## 7. Only model-checked

- Liveness (ReadyRuns, LockNeverStuck, KeysAreRead, CallsReturn): fairness and
  ENABLED are beyond the prover.
- PathsLeadBack (Dirs, Paths): that two recursive walks, by the names of a path and
  by the entries "..", end in the same directory for every path and tree is an
  induction over data that the prover does not have. What one step of each walk
  keeps is proved (SearchStep, WashStep).
- PageAlloc, and the other runs that show a violation.

## 8. Not modelled

- tss, building of the IDT, programming of the 8259A and 8253: descriptor and
  device registers that no step of the kernel reads back.
- boot sector and loader: real-mode code, before any state modelled here.
- console and print: a lock (that of Sync) around screen output.
- user library (`printf`, strings, system call stubs): pure functions on strings
  no property depends on.
- identify and partition scan of the disk: parsing, once, at boot.
- the number of naps in `busy_wait`, after which its caller panics: a counter of
  30000 that goes down by one where ten is meant (the `-=` takes the value of a
  comparison), and the drive is assumed to answer.
- the copying of an address space by fork, and the page directory that is loaded at
  a thread switch: what goes wrong there (a child's arenas that point to the
  parent's descriptors, an inode in the heap of one process) is a use of memory
  of another process, which has no defined outcome to check a property against.
- `list.c`: pointers; the modules use the sequences they stand for, and the
  properties that a tag is never in two lists are the condition for that.
- the sizing of the pools in `mem_pool_init`: arithmetic at boot.
- `sys_stat`, `opendir` and `rewinddir`, the options of `ls`, `pwd`, `ps`, `clear`:
  they report and change nothing that another call reads.
- calls on directories and data that overlap while one of them sleeps: OpenFiles has
  the overlap for the tables of open files only; Dirs and FileIO take one call at
  a time. One such overlap is known to matter: `search_dir_entry` copies the
  addresses of the sectors (dir.c:50) before its first read waits for the channel,
  and a create that runs meanwhile may add a sector that the search never sees.
- a descriptor that has become stale: after fork either process may close the slot
  they share, and the slot may be another file's when the other uses its
  descriptor. The model has these states, and NoDangling holds in them; that a
  descriptor stays the file it was opened for is not so in this code, and is no
  property.
- bytes that the keyboard controller drops when nobody reads it in time.
