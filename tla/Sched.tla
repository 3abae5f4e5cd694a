------------------------------- MODULE Sched -------------------------------
(***************************************************************************)
(* The scheduler of the kernel: thread/thread.c, the timer handler of      *)
(* device/timer.c and the interrupt flag of kernel/interrupt.c.  There is  *)
(* one CPU.  While the flag is on, a tick or a device interrupt may arrive *)
(* between any two steps of the running thread; while it is off, the       *)
(* running thread keeps the CPU until it gives it up.  What threads do     *)
(* between their calls to the scheduler is left open here: any thread but  *)
(* idle may call any operation.                                            *)
(***************************************************************************)
EXTENDS Naturals, Sequences, FiniteSets

CONSTANTS Thread,   \* the task_structs that may ever exist
          Main,     \* main_thread
          Idle,     \* idle_thread
          Init0,    \* the task_struct of the first user process, init
          Prio      \* priority of each thread, in ticks

ASSUME SchedAssumption ==
  /\ {Main, Idle, Init0} \subseteq Thread
  /\ Main # Idle /\ Main # Init0 /\ Idle # Init0
  /\ Prio \in [Thread -> Nat]

VARIABLES cur,     \* running_thread()
          status,  \* task_struct.status, "NEW" before the thread is created
          ready,   \* thread_ready_list
          slice,   \* task_struct.ticks
          intr,    \* the interrupt flag of eflags
          saved,   \* the flag a thread gets back with the CPU
          idlepc,  \* where idle() is in its loop
          panic    \* an ASSERT has failed: panic_spin never returns

vars == <<cur, status, ready, slice, intr, saved, idlepc, panic>>

Asleep == {"BLOCKED", "WAITING", "HANGING"}
Status == Asleep \cup {"NEW", "READY", "RUNNING"}

InReady(t) == \E i \in DOMAIN ready : ready[i] = t
-----------------------------------------------------------------------------
(* The state thread_init leaves: interrupts are still off, init and idle   *)
(* wait for the CPU and main is the code that is running.                  *)
Init ==
  /\ cur = Main
  /\ ready = <<Init0, Idle>>
  /\ status = [t \in Thread |-> IF t = Main THEN "RUNNING"
                                ELSE IF t \in {Init0, Idle} THEN "READY" ELSE "NEW"]
  /\ slice = Prio
  /\ intr = FALSE
  /\ saved = [t \in Thread |-> TRUE]
  /\ idlepc = "block"
  /\ panic = FALSE

(* Faulty variants of operations, here and below, are named ..Mutant..: the *)
(* runs are expected to reject the specification built from any of them.    *)
DispatchMutantNoPop(st, q, ok) ==
  LET r == IF q = <<>> THEN <<Idle>> ELSE q
  IN  /\ cur' = Head(r) /\ ready' = r
      /\ status' = [st EXCEPT ![Head(r)] = "RUNNING"]
      /\ intr' = saved'[Head(r)] /\ panic' = ~ok

DispatchMutantLast(st, q, ok) ==
  LET r == IF q = <<>> THEN <<Idle>> ELSE q
  IN  /\ cur' = r[Len(r)] /\ ready' = SubSeq(r, 1, Len(r) - 1)
      /\ status' = [st EXCEPT ![r[Len(r)]] = "RUNNING"]
      /\ intr' = saved'[r[Len(r)]] /\ panic' = ~ok

(* schedule(), once the caller has settled the status of the thread that   *)
(* leaves (st), the ready list (q) and the flag that thread will get back. *)
(* An empty list makes it wake idle; ok is what the callers assert.        *)
Dispatch(st, q, ok) ==
  LET r == IF q = <<>> THEN <<Idle>> ELSE q
  IN  /\ cur' = Head(r)
      /\ ready' = Tail(r)
      /\ status' = [st EXCEPT ![Head(r)] = "RUNNING"]
      /\ intr' = saved'[Head(r)]
      /\ panic' = ~(ok /\ (q = <<>> => st[Idle] \in Asleep))

(* thread_block(st).  off says that the caller, sema_down, had disabled    *)
(* interrupts before, so that thread_block restores them to off; ok is     *)
(* what that caller asserts.                                               *)
Block(st, off, ok) ==
  /\ saved' = [saved EXCEPT ![cur] = intr /\ ~off]
  /\ Dispatch([status EXCEPT ![cur] = st], ready, ok /\ st \in Asleep)
  /\ UNCHANGED slice

UnblockMutantStatus(t, ok) ==
  /\ panic' = ~(ok /\ status[t] \in Asleep /\ ~InReady(t))
  /\ ready' = <<t>> \o ready
  /\ UNCHANGED <<cur, status, slice, saved>>

(* thread_unblock(t): the woken thread goes to the front.                  *)
Unblock(t, ok) ==
  /\ panic' = ~(ok /\ status[t] \in Asleep /\ ~InReady(t))
  /\ ready' = <<t>> \o ready
  /\ status' = [status EXCEPT ![t] = "READY"]
  /\ UNCHANGED <<cur, slice, saved>>

YieldMutantStatus ==
  /\ saved' = [saved EXCEPT ![cur] = intr]
  /\ Dispatch(status, Append(ready, cur), ~InReady(cur))
  /\ UNCHANGED slice

(* thread_yield(): to the back of the list, keeping what is left of the    *)
(* time slice.  Its flag is that of before intr_disable.                   *)
Yield ==
  /\ saved' = [saved EXCEPT ![cur] = intr]
  /\ Dispatch([status EXCEPT ![cur] = "READY"], Append(ready, cur), ~InReady(cur))
  /\ UNCHANGED slice

(* thread_start, and the end of process_execute and sys_fork.  A new       *)
(* thread starts with interrupts on: kernel_thread enables them and        *)
(* intr_exit pops eflags with the flag set.                                *)
Start(t) ==
  /\ panic' = InReady(t)
  /\ ready' = Append(ready, t)
  /\ status' = [status EXCEPT ![t] = "READY"]
  /\ slice' = [slice EXCEPT ![t] = Prio[t]]
  /\ saved' = [saved EXCEPT ![t] = TRUE]
  /\ UNCHANGED <<cur, intr>>

TickMutant(q, s) ==
  /\ intr
  /\ idlepc' = IF idlepc = "halted" THEN "block" ELSE idlepc
  /\ slice' = [slice EXCEPT ![cur] = s]
  /\ IF slice[cur] = 0
     THEN /\ saved' = [saved EXCEPT ![cur] = TRUE]
          /\ Dispatch([status EXCEPT ![cur] = "READY"], q, TRUE)
     ELSE UNCHANGED <<cur, status, ready, intr, saved, panic>>
TickMutantOrder == TickMutant(Append(ready, cur), slice[cur] - 1)
TickMutantFront == TickMutant(<<cur>> \o ready, IF slice[cur] = 0 THEN Prio[cur] ELSE slice[cur] - 1)

(* intr_timer_handler: an interrupt ends idle's hlt.                       *)
Tick ==
  /\ intr
  /\ idlepc' = IF idlepc = "halted" THEN "block" ELSE idlepc
  /\ IF slice[cur] = 0
     THEN /\ slice' = [slice EXCEPT ![cur] = Prio[cur]]
          /\ saved' = [saved EXCEPT ![cur] = TRUE]
          /\ Dispatch([status EXCEPT ![cur] = "READY"], Append(ready, cur), ~InReady(cur))
     ELSE /\ slice' = [slice EXCEPT ![cur] = @ - 1]
          /\ UNCHANGED <<cur, status, ready, intr, saved, panic>>

(* A device handler that wakes the thread waiting for its device.          *)
DeviceIntr(t) ==
  /\ intr
  /\ Unblock(t, TRUE)
  /\ idlepc' = IF idlepc = "halted" THEN "block" ELSE idlepc
  /\ UNCHANGED intr

(* One that finds nobody waiting: idle's hlt ends all the same.            *)
DeviceOnly ==
  /\ intr
  /\ idlepc' = IF idlepc = "halted" THEN "block" ELSE idlepc
  /\ UNCHANGED <<cur, status, ready, slice, intr, saved, panic>>

(* idle(): thread_block(TASK_BLOCKED), then sti; hlt, in a loop.           *)
IdleBlock ==
  /\ cur = Idle /\ idlepc = "block"
  /\ idlepc' = "hlt"
  /\ Block("BLOCKED", FALSE, TRUE)

IdleHalt ==
  /\ cur = Idle /\ idlepc = "hlt"
  /\ idlepc' = "halted"
  /\ intr' = TRUE
  /\ UNCHANGED <<cur, status, ready, slice, saved, panic>>

(* intr_enable, intr_disable and intr_set_status; also the gates: int 0x80 *)
(* clears the flag and intr_exit sets it again.                            *)
SetIntr(on) ==
  /\ intr' = on
  /\ UNCHANGED <<cur, status, ready, slice, saved, panic>>
-----------------------------------------------------------------------------
Client == cur # Idle /\ UNCHANGED idlepc

IntrEnable(t) == Client /\ cur = t /\ ~intr /\ SetIntr(TRUE)
IntrDisable   == Client /\ intr /\ SetIntr(FALSE)
ClientBlock   == Client /\ \E off \in BOOLEAN : Block("BLOCKED", off, TRUE)
ClientYield   == Client /\ Yield
ClientUnblock == /\ Client
                 /\ \E t \in Thread \ {Idle} : status[t] \in Asleep /\ Unblock(t, TRUE)
                 /\ intr' \in {intr, FALSE}
ClientStart   == Client /\ \E t \in Thread : status[t] = "NEW" /\ Start(t)
Device        == \E t \in Thread \ {Idle} : status[t] \in Asleep /\ DeviceIntr(t)

Next ==
  /\ ~panic
  /\ \/ \E t \in Thread : IntrEnable(t)
     \/ IntrDisable
     \/ ClientBlock
     \/ ClientYield
     \/ ClientUnblock
     \/ ClientStart
     \/ Tick
     \/ Device
     \/ DeviceOnly
     \/ IdleBlock
     \/ IdleHalt

Spec == Init /\ [][Next]_vars

(* Fairness.  The 8253 keeps firing and the 8259A holds IRQ0, the highest  *)
(* priority, until the flag is on: a tick that is possible again and again *)
(* is taken.  Every system call returns to user mode and every kernel      *)
(* critical section ends, so a thread that runs again and again turns      *)
(* interrupts on again.  idle does nothing but go around its loop.         *)
Fairness ==
  /\ SF_vars(~panic /\ Tick)
  /\ \A t \in Thread : SF_vars(~panic /\ IntrEnable(t))
  /\ SF_vars(~panic /\ IdleBlock)
  /\ SF_vars(~panic /\ IdleHalt)

FairSpec == Spec /\ Fairness
-----------------------------------------------------------------------------
(* Every variable has its type, and a time slice, which the timer handler  *)
(* decrements, stays between zero and the priority.                        *)
TypeOK ==
  /\ cur \in Thread
  /\ status \in [Thread -> Status]
  /\ ready \in Seq(Thread)
  /\ slice \in [Thread -> Nat]
  /\ \A t \in Thread : slice[t] <= Prio[t]
  /\ intr \in BOOLEAN
  /\ saved \in [Thread -> BOOLEAN]
  /\ idlepc \in {"block", "hlt", "halted"}
  /\ panic \in BOOLEAN

(* The ready list never holds a task_struct twice: general_tag is one link *)
(* and a second insertion would cut the list.                              *)
NoDuplicates == \A i, j \in DOMAIN ready : ready[i] = ready[j] => i = j

(* A thread is in the ready list exactly while its status is READY, and    *)
(* the only RUNNING thread is the one on the CPU: status, list and CPU are *)
(* written by different functions and always agree when a step ends.       *)
ListsAgree ==
  \A t \in Thread : /\ InReady(t) <=> status[t] = "READY"
                    /\ status[t] = "RUNNING" <=> t = cur

(* No ASSERT of thread.c fails: in particular schedule(), called with an   *)
(* empty list, always finds idle asleep and can wake it.                   *)
NoPanic == ~panic

(* A thread woken by thread_unblock may jump the queue, but two threads    *)
(* that are both waiting for the CPU never change places: the one that is  *)
(* nearer the front leaves it by running.                                  *)
Precedes(s, t) == \E i, j \in DOMAIN ready : i < j /\ ready[i] = s /\ ready[j] = t
FifoAmongReady ==
  [][\A s, t \in Thread : Precedes(s, t) => Precedes(s, t)' \/ cur' = s]_vars

(* No READY thread is starved, although woken threads are put before it:   *)
(* a slice is refilled only by the preemption that sends its owner to the  *)
(* back.                                                                   *)
ReadyRuns == \A t \in Thread : status[t] = "READY" ~> status[t] = "RUNNING"
=============================================================================
