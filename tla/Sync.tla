-------------------------------- MODULE Sync --------------------------------
(***************************************************************************)
(* Semaphores and locks, thread/sync.c, on top of the scheduler.  Each     *)
(* step is what the code does between two points at which the running      *)
(* thread can lose the CPU: with interrupts on that is every access to     *)
(* shared state, with interrupts off only a call that blocks.              *)
(*                                                                         *)
(* Kernel threads call locks with interrupts on.  Processes call them from *)
(* system calls, and the int 0x80 gate leaves interrupts off until         *)
(* intr_exit.  A thread holds one lock at a time, perhaps several times,   *)
(* as every caller in the kernel does.                                     *)
(***************************************************************************)
EXTENDS Sched, SequencesExt

CONSTANTS Lock,       \* the struct lock objects
          Kernel,     \* threads that run in the kernel with interrupts on
          NoThread,   \* NULL
          MaxRepeat   \* bound on the nesting of one lock

ASSUME SyncAssumption ==
  /\ Main \in Kernel /\ Kernel \subseteq Thread \ {Idle}
  /\ NoThread \notin Thread
  /\ Lock # {}
  /\ MaxRepeat \in Nat

VARIABLES value,    \* semaphore.value
          waiters,  \* semaphore.waiters
          holder,   \* lock.holder
          repeat,   \* lock.holder_repeat_nr
          pc,       \* where each thread is in lock_acquire or lock_release
          lk,       \* the lock that call is about
          old       \* old_status of sema_down

lockVars == <<value, waiters, holder, repeat>>
syncVars == <<cur, status, ready, slice, intr, saved, idlepc, panic,
              value, waiters, holder, repeat, pc, lk, old>>

PC == {"boot", "out", "sys", "acq", "down", "wait", "got", "rep", "own", "clr", "up"}

SyncInit ==
  /\ Init
  /\ value = [l \in Lock |-> 1]
  /\ waiters = [l \in Lock |-> <<>>]
  /\ holder = [l \in Lock |-> NoThread]
  /\ repeat = [l \in Lock |-> 0]
  /\ pc = [t \in Thread |-> IF t = Main THEN "boot" ELSE "out"]
  /\ lk = [t \in Thread |-> CHOOSE l \in Lock : TRUE]
  /\ old = [t \in Thread |-> TRUE]

Goto(t, p) == pc' = [pc EXCEPT ![t] = p]

(* A step of t on the CPU that leaves the scheduler's state alone.         *)
At(t, p) == t # Idle /\ cur = t /\ pc[t] = p
Run      == UNCHANGED <<cur, status, ready, slice, intr, saved, idlepc>>

(* Where a thread goes on after a release.                                 *)
Caller(t) == IF t \in Kernel THEN "out" ELSE "sys"
-----------------------------------------------------------------------------
(* init_all enables interrupts once the devices are set up.                *)
BootDone(t) ==
  /\ At(t, "boot")
  /\ SetIntr(TRUE)
  /\ Goto(t, "out")
  /\ UNCHANGED <<idlepc, lockVars, lk, old>>

(* int 0x80 from user mode, and intr_exit back to it.                      *)
SysEnter(t) ==
  /\ At(t, "out") /\ t \notin Kernel
  /\ SetIntr(FALSE)
  /\ Goto(t, "sys")
  /\ UNCHANGED <<idlepc, lockVars, lk, old>>

SysExit(t) ==
  /\ At(t, "sys")
  /\ SetIntr(TRUE)
  /\ Goto(t, "out")
  /\ UNCHANGED <<idlepc, lockVars, lk, old>>

(* sys_fork ends by making the child ready; thread_start makes more kernel *)
(* threads while the kernel boots.                                         *)
Fork(t) ==
  /\ At(t, "sys")
  /\ \E u \in Thread \ Kernel : status[u] = "NEW" /\ Start(u)
  /\ UNCHANGED <<idlepc, lockVars, pc, lk, old>>

ThreadStart(t) ==
  /\ At(t, "boot")
  /\ \E u \in Kernel : status[u] = "NEW" /\ Start(u)
  /\ UNCHANGED <<idlepc, lockVars, pc, lk, old>>

(* thread_yield of mtime_sleep, called from busy_wait with the channel's   *)
(* lock held or from a system call that holds none.                        *)
YieldCpu(t) ==
  /\ At(t, "sys") \/ At(t, "own")
  /\ Yield
  /\ UNCHANGED <<idlepc, lockVars, pc, lk, old>>

(* lock_acquire is called.                                                 *)
Acquire(t, l) ==
  /\ \/ At(t, Caller(t))
     \/ At(t, "own") /\ lk[t] = l /\ repeat[l] < MaxRepeat
  /\ lk' = [lk EXCEPT ![t] = l]
  /\ Goto(t, "acq")
  /\ Run
  /\ UNCHANGED <<panic, lockVars, old>>

(* Is it mine already?  If so only the counter moves.                      *)
TestHolder(t) ==
  /\ At(t, "acq")
  /\ Run
  /\ IF holder[lk[t]] # t
     THEN Goto(t, "down") /\ UNCHANGED repeat
     ELSE Goto(t, "own") /\ repeat' = [repeat EXCEPT ![lk[t]] = @ + 1]
  /\ UNCHANGED <<panic, value, waiters, holder, lk, old>>

(* The loop of sema_down, run with interrupts off: at its head for the     *)
(* first time, or back from thread_block to test the value again.          *)
Park(t) ==
  LET l == lk[t] IN
  /\ value[l] = 0
  /\ waiters' = [waiters EXCEPT ![l] = Append(@, t)]
  /\ Block("BLOCKED", TRUE, ~Contains(waiters[l], t))
  /\ Goto(t, "wait")
  /\ UNCHANGED <<value, idlepc>>

DecrementMutantEnable(t, flag) ==
  LET l == lk[t] IN
  /\ value[l] # 0
  /\ value' = [value EXCEPT ![l] = @ - 1]
  /\ panic' = (value[l] # 1)
  /\ intr' = TRUE
  /\ Goto(t, "got")
  /\ UNCHANGED <<waiters, cur, status, ready, slice, saved, idlepc>>

Decrement(t, flag) ==
  LET l == lk[t] IN
  /\ value[l] # 0
  /\ value' = [value EXCEPT ![l] = @ - 1]
  /\ panic' = (value[l] # 1)
  /\ intr' = flag
  /\ Goto(t, "got")
  /\ UNCHANGED <<waiters, cur, status, ready, slice, saved, idlepc>>

SemaDown(t) ==
  /\ At(t, "down")
  /\ old' = [old EXCEPT ![t] = intr]
  /\ Park(t) \/ Decrement(t, intr)
  /\ UNCHANGED <<holder, repeat, lk>>

(* "if" for "while": not testing the value again. *)
SemaDownAgainMutant(t) ==
  /\ At(t, "wait")
  /\ value' = [value EXCEPT ![lk[t]] = 0]
  /\ intr' = old[t]
  /\ Goto(t, "got")
  /\ UNCHANGED <<cur, status, ready, slice, saved, idlepc, panic,
                 waiters, holder, repeat, lk, old>>

SemaDownAgain(t) ==
  /\ At(t, "wait")
  /\ Park(t) \/ Decrement(t, old[t])
  /\ UNCHANGED <<holder, repeat, lk, old>>

SetHolder(t) ==
  /\ At(t, "got")
  /\ holder' = [holder EXCEPT ![lk[t]] = t]
  /\ Goto(t, "rep")
  /\ Run
  /\ UNCHANGED <<panic, value, waiters, repeat, lk, old>>

SetRepeat(t) ==
  /\ At(t, "rep")
  /\ panic' = (repeat[lk[t]] # 0)
  /\ repeat' = [repeat EXCEPT ![lk[t]] = 1]
  /\ Goto(t, "own")
  /\ Run
  /\ UNCHANGED <<value, waiters, holder, lk, old>>

ReleaseMutantHolder(t, p) ==
  LET l == lk[t] IN
  /\ At(t, p)
  /\ Run
  /\ holder' = [holder EXCEPT ![l] = NoThread]
  /\ IF repeat[l] > 1
     THEN repeat' = [repeat EXCEPT ![l] = @ - 1] /\ Goto(t, p)
     ELSE Goto(t, "clr") /\ UNCHANGED repeat
  /\ UNCHANGED <<value, waiters, lk, old, panic>>

(* lock_release, called at p: a nested one only counts down.               *)
ReleaseAt(t, p) ==
  LET l == lk[t] IN
  /\ At(t, p)
  /\ Run
  /\ IF repeat[l] > 1
     THEN /\ repeat' = [repeat EXCEPT ![l] = @ - 1]
          /\ panic' = (holder[l] # t)
          /\ UNCHANGED <<holder, pc>>
     ELSE /\ holder' = [holder EXCEPT ![l] = NoThread]
          /\ panic' = ~(holder[l] = t /\ repeat[l] = 1)
          /\ Goto(t, "clr")
          /\ UNCHANGED repeat
  /\ UNCHANGED <<value, waiters, lk, old>>

Release(t) == ReleaseAt(t, "own")

ClearRepeatMutant(t) ==
  /\ At(t, "clr")
  /\ Goto(t, "up")
  /\ Run
  /\ UNCHANGED <<panic, lockVars, lk, old>>

ClearRepeat(t) ==
  /\ At(t, "clr")
  /\ repeat' = [repeat EXCEPT ![lk[t]] = 0]
  /\ Goto(t, "up")
  /\ Run
  /\ UNCHANGED <<panic, value, waiters, holder, lk, old>>

SemaUpMutant(t, p, wake, rest) ==
  LET l == lk[t] IN
  /\ At(t, "up")
  /\ IF waiters[l] = <<>>
     THEN UNCHANGED <<cur, status, ready, slice, saved, panic, waiters>>
     ELSE wake /\ waiters' = [waiters EXCEPT ![l] = rest]
  /\ value' = [value EXCEPT ![l] = @ + 1]
  /\ Goto(t, p)
  /\ UNCHANGED <<intr, idlepc, holder, repeat, lk, old>>
SemaUpMutantSilent(t, p) ==
  SemaUpMutant(t, p, UNCHANGED <<cur, status, ready, slice, saved, panic>>, waiters[lk[t]])
SemaUpMutantNoPop(t, p) ==
  SemaUpMutant(t, p, Unblock(Head(waiters[lk[t]]), TRUE), waiters[lk[t]])
SemaUpMutantAppend(t, p) ==
  SemaUpMutant(t, p, /\ ready' = Append(ready, Head(waiters[lk[t]]))
                     /\ UNCHANGED <<cur, status, slice, saved, panic>>, Tail(waiters[lk[t]]))

(* sema_up: wakes the first waiter, who has to compete for the value.  The *)
(* caller goes on at p.                                                    *)
SemaUpTo(t, p) ==
  LET l == lk[t] IN
  /\ At(t, "up")
  /\ IF waiters[l] = <<>>
     THEN /\ panic' = (value[l] # 0)
          /\ UNCHANGED <<cur, status, ready, slice, saved, waiters>>
     ELSE /\ Unblock(Head(waiters[l]), value[l] = 0)
          /\ waiters' = [waiters EXCEPT ![l] = Tail(@)]
  /\ value' = [value EXCEPT ![l] = @ + 1]
  /\ Goto(t, p)
  /\ UNCHANGED <<intr, idlepc, holder, repeat, lk, old>>

SemaUp(t) == SemaUpTo(t, Caller(t))

(* The timer and idle, whatever the threads are doing.                     *)
Background ==
  /\ Tick \/ IdleBlock \/ IdleHalt
  /\ UNCHANGED <<lockVars, pc, lk, old>>

LockStep(t) ==
  \/ BootDone(t)
  \/ TestHolder(t)
  \/ SemaDown(t)
  \/ SemaDownAgain(t)
  \/ SetHolder(t)
  \/ SetRepeat(t)
  \/ Release(t)
  \/ ClearRepeat(t)
  \/ SemaUp(t)
  \/ SysExit(t)

ThreadStep(t) ==
  \/ LockStep(t)
  \/ SysEnter(t)
  \/ Fork(t)
  \/ ThreadStart(t)
  \/ YieldCpu(t)
  \/ \E l \in Lock : Acquire(t, l)

SyncNext == ~panic /\ (Background \/ \E t \in Thread : ThreadStep(t))

SyncSpec == SyncInit /\ [][SyncNext]_syncVars

(* Fairness.  The timer and idle are as in Sched.  A thread that gets the  *)
(* CPU again and again goes on with its call, leaves its system call and   *)
(* gives a lock up; nothing says that it ever takes one.                   *)
LastRelease(t) == Release(t) /\ repeat[lk[t]] <= 1

SyncFairness ==
  /\ SF_syncVars(~panic /\ Tick /\ Background)
  /\ SF_syncVars(~panic /\ IdleBlock /\ Background)
  /\ SF_syncVars(~panic /\ IdleHalt /\ Background)
  /\ \A t \in Thread \ {Idle} :
       /\ SF_syncVars(~panic /\ (LockStep(t) /\ ~LastRelease(t)))
       /\ SF_syncVars(~panic /\ LastRelease(t))

SyncFairSpec == SyncSpec /\ SyncFairness
-----------------------------------------------------------------------------
Waits(t, l) == Contains(waiters[l], t)

(* The threads that have passed sema_down and not yet reached sema_up.     *)
Inside(l) ==
  {t \in Thread : /\ lk[t] = l
                  /\ \/ pc[t] \in {"got", "rep", "own", "clr", "up"}
                     \/ pc[t] = "acq" /\ holder[l] = t}

(* The semaphore counts the thread inside the lock: there is at most one,  *)
(* and the value is 0 exactly while there is one, although holder and      *)
(* holder_repeat_nr are written outside sema_down and sema_up with         *)
(* interrupts on.                                                          *)
MutualExclusion ==
  \A l \in Lock : /\ \A s, t \in Inside(l) : s = t
                  /\ value[l] = 0 <=> Inside(l) # {}

(* sema_up wakes one waiter and raises the value without handing it over,  *)
(* so another thread may take it first.  Nevertheless no thread is left    *)
(* waiting for a free lock: somebody has been woken and not yet retried.   *)
NoLostWakeup ==
  \A l \in Lock :
    waiters[l] # <<>> /\ value[l] = 1 =>
      \E t \in Thread : /\ pc[t] = "wait" /\ lk[t] = l
                        /\ status[t] \in {"READY", "RUNNING"}

(* A thread is in the waiters of a lock exactly while it sleeps inside     *)
(* sema_down of that lock: general_tag is one link shared by the ready     *)
(* list and every waiters list.                                            *)
WaitersSleep ==
  \A t \in Thread, l \in Lock :
    Waits(t, l) <=> pc[t] = "wait" /\ lk[t] = l /\ status[t] = "BLOCKED"

(* Interrupts are on for a thread exactly where its callers expect it: a   *)
(* system call runs with interrupts off from end to end, and no lock call  *)
(* of a kernel thread leaves them off, however often it slept inside it.   *)
Flag(t) == IF cur = t THEN intr ELSE saved[t]
ExpectedFlag(t) == IF t \in Kernel THEN pc[t] \notin {"boot", "wait"} ELSE pc[t] = "out"
InterruptFlag ==
  \A t \in Thread \ {Idle} : status[t] # "NEW" /\ pc[t] # "boot" => Flag(t) = ExpectedFlag(t)

(* Whoever waits for a lock, the lock is taken again: it may be another    *)
(* thread that gets it, sync.c does not promise more.                      *)
Waiting(l) == \E t \in Thread : pc[t] = "wait" /\ lk[t] = l
LockNeverStuck ==
  \A l \in Lock : Waiting(l) ~> \E t \in Thread : pc[t] = "got" /\ lk[t] = l

(* The locks implement the abstract mutex: the owner is the holder field,  *)
(* and the depth is the counter once the two fields have been set.         *)
DepthBar ==
  [l \in Lock |->
     IF holder[l] = NoThread THEN 0
     ELSE IF pc[holder[l]] = "rep" THEN 1 ELSE repeat[l]]
M == INSTANCE Mutex WITH owner <- holder, depth <- DepthBar
ImplementsMutex == M!MutexSpec

(* Locks use the scheduler as it is: every step is a step of Sched.        *)
ImplementsSched == Spec
=============================================================================
