------------------------------ MODULE IoQueue ------------------------------
(***************************************************************************)
(* The keyboard's ring buffer, device/ioqueue.c: filled by the keyboard    *)
(* interrupt, emptied by the processes that read standard input with       *)
(* sys_read.  A reader runs with interrupts off, so that it is only        *)
(* disturbed while it waits for the queue's lock or sleeps in ioq_wait,    *)
(* and in ioq_wait it sleeps holding the lock.  The producer field stays   *)
(* NULL: the only producer is the handler, which drops a key instead of    *)
(* waiting for room.                                                       *)
(***************************************************************************)
EXTENDS Sync

CONSTANTS Reader,   \* processes that read standard input
          QLock,    \* ioqueue.lock
          bufsize,  \* slots of the ring, one of which stays free
          Byte,     \* the characters that can be typed
          MaxKeys   \* bound on the keys put into the queue

ASSUME IoQueueAssumption ==
  /\ Reader \subseteq Thread \ (Kernel \cup {Idle})
  /\ QLock \in Lock
  /\ bufsize \in Nat \ {0, 1}
  /\ MaxKeys \in Nat

VARIABLES buf, head, tail,  \* ioqueue.buf, head, tail
          consumer,         \* ioqueue.consumer
          put, got          \* keys put into the queue and taken out, in order

ringVars == <<buf, head, tail, consumer, put, got>>
ioqVars  == <<syncVars, ringVars>>

IoQueueInit ==
  /\ SyncInit
  /\ buf \in [0..(bufsize - 1) -> Byte] /\ \A i, j \in DOMAIN buf : buf[i] = buf[j]
  /\ head = 0 /\ tail = 0
  /\ consumer = NoThread
  /\ put = <<>> /\ got = <<>>

ioq_fullMutant == head + 1 = tail

next_pos(p) == (p + 1) % bufsize
ioq_full    == next_pos(head) = tail
ioq_empty   == head = tail
-----------------------------------------------------------------------------
(* sys_read of one character calls ioq_getchar.                            *)
ReadChar(t) ==
  /\ At(t, "sys")
  /\ Goto(t, "get")
  /\ Run
  /\ UNCHANGED <<panic, lockVars, lk, old, ringVars>>

(* The head of ioq_getchar's loop: take the lock to wait ...               *)
FindEmpty(t) ==
  /\ At(t, "get") /\ ioq_empty
  /\ lk' = [lk EXCEPT ![t] = QLock]
  /\ Goto(t, "acq")
  /\ Run
  /\ UNCHANGED <<panic, lockVars, old, ringVars>>

(* ... or leave it with the character at tail.                             *)
TakeByte(t) ==
  /\ At(t, "get") /\ ~ioq_empty
  /\ got' = Append(got, buf[tail])
  /\ tail' = next_pos(tail)
  /\ Goto(t, "sys")
  /\ Run
  /\ UNCHANGED <<panic, lockVars, lk, old, buf, head, consumer, put>>

(* ioq_wait(&ioq->consumer), with the lock held and without another look   *)
(* at the queue.                                                           *)
IoqWait(t) ==
  /\ At(t, "own")
  /\ consumer' = t
  /\ Block("BLOCKED", FALSE, consumer = NoThread)
  /\ Goto(t, "ioq")
  /\ UNCHANGED <<idlepc, lockVars, lk, old, buf, head, tail, put, got>>

(* Back from ioq_wait: lock_release, and round the loop again.             *)
AfterWait(t) ==
  /\ \/ ReleaseAt(t, "ioq")
     \/ ClearRepeat(t)
     \/ SemaUpTo(t, "get")
  /\ UNCHANGED ringVars

(* The lock_acquire of the loop.                                           *)
AcquireQueue(t) ==
  /\ TestHolder(t) \/ SemaDown(t) \/ SemaDownAgain(t) \/ SetHolder(t) \/ SetRepeat(t)
  /\ UNCHANGED ringVars

KeyboardMutantSilent(k) ==
  /\ intr /\ ~ioq_full /\ Len(put) < MaxKeys
  /\ buf' = [buf EXCEPT ![head] = k]
  /\ head' = next_pos(head)
  /\ put' = Append(put, k)
  /\ consumer' = NoThread
  /\ UNCHANGED <<cur, status, ready, slice, saved, panic>>
  /\ UNCHANGED <<tail, got, intr, lockVars, pc, lk, old, idlepc>>

(* intr_keyboard_handler with the character k of a key: dropped if the     *)
(* queue is full, else ioq_putchar, which wakes the consumer.              *)
Keyboard(k) ==
  /\ intr
  /\ idlepc' = IF idlepc = "halted" THEN "block" ELSE idlepc
  /\ IF ioq_full
     THEN UNCHANGED <<cur, status, ready, slice, saved, panic, ringVars>>
     ELSE /\ Len(put) < MaxKeys
          /\ buf' = [buf EXCEPT ![head] = k]
          /\ head' = next_pos(head)
          /\ put' = Append(put, k)
          /\ IF consumer = NoThread
             THEN UNCHANGED <<cur, status, ready, slice, saved, panic>>
             ELSE Unblock(consumer, TRUE)
          /\ consumer' = NoThread
          /\ UNCHANGED <<tail, got>>
  /\ UNCHANGED <<intr, lockVars, pc, lk, old>>

ReaderStep(t) ==
  \/ FindEmpty(t)
  \/ TakeByte(t)
  \/ IoqWait(t)
  \/ AfterWait(t)
  \/ AcquireQueue(t)

AwayStep(t) ==
  /\ BootDone(t) \/ SysEnter(t) \/ SysExit(t) \/ Fork(t)
  /\ UNCHANGED ringVars

IoQueueNext ==
  /\ ~panic
  /\ \/ Background /\ UNCHANGED ringVars
     \/ \E k \in Byte : Keyboard(k)
     \/ \E t \in Thread : AwayStep(t)
     \/ \E t \in Reader : ReadChar(t) \/ ReaderStep(t)

IoQueueSpec == IoQueueInit /\ [][IoQueueNext]_ioqVars

(* Fairness.  As in Sync; besides, init forks the shell, whose readline    *)
(* asks for a character again and again.  Keys need not be typed.          *)
IoQueueFairness ==
  /\ SF_ioqVars(~panic /\ Tick /\ Background /\ UNCHANGED ringVars)
  /\ SF_ioqVars(~panic /\ (IdleBlock \/ IdleHalt) /\ Background /\ UNCHANGED ringVars)
  /\ SF_ioqVars(~panic /\ Fork(Init0) /\ AwayStep(Init0))
  /\ \A t \in Thread \ {Idle} : SF_ioqVars(~panic /\ AwayStep(t) /\ ~Fork(t))
  /\ \A t \in Reader : /\ SF_ioqVars(~panic /\ ReaderStep(t))
                       /\ SF_ioqVars(~panic /\ ReadChar(t))

IoQueueFairSpec == IoQueueSpec /\ IoQueueFairness
-----------------------------------------------------------------------------
(* The ring as a sequence, from tail to head.                              *)
Count    == (head + bufsize - tail) % bufsize
Contents == [i \in 1..Count |-> buf[(tail + i - 1) % bufsize]]

(* Characters are read in the order in which they were put into the queue, *)
(* none twice and none lost, whoever reads them and however the cursors    *)
(* wrap around.                                                            *)
FirstInFirstOut == got \o Contents = put

(* Every key accepted is read in the end, once the keyboard is quiet, as   *)
(* it is after MaxKeys keys: no reader sleeps for ever on keys that are    *)
(* there, although one may well sleep on them until another one has run.   *)
KeysAreRead == []<>(got = put)
=============================================================================
