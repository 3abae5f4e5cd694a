-------------------------------- MODULE Ide --------------------------------
(***************************************************************************)
(* One IDE channel, device/ide.c: ide_read and ide_write hold the          *)
(* channel's lock, send a command, sleep on disk_done and are woken by     *)
(* intr_hd_handler; busy_wait polls the status register between naps of    *)
(* mtime_sleep.  Kernel threads (main, while it mounts the disk) run with  *)
(* interrupts on, processes inside system calls with interrupts off, so    *)
(* that for them an interrupt stays pending in the 8259A until somebody    *)
(* else runs.                                                              *)
(*                                                                         *)
(* The drive and the interrupt controller are external.  They are modelled *)
(* from how the code programs them: the drive raises its line when data of *)
(* a read is ready and when a sector of a write has been taken in, goes on *)
(* to the next sector of a command at once, and lowers the line when the   *)
(* status or the command register is accessed; the controller latches the  *)
(* rising edge.                                                            *)
(***************************************************************************)
EXTENDS Sync

CONSTANTS Chan,     \* ide_channel.lock
          User,     \* the threads that read and write the disk
          Chunk,    \* sectors one command can carry (256 in the code)
          SecCnt    \* values of the argument sec_cnt

ASSUME IdeAssumption ==
  /\ Chan \in Lock
  /\ User \subseteq Thread \ {Idle}
  /\ Chunk \in Nat \ {0}
  /\ SecCnt \subseteq Nat \ {0}

VARIABLES op,         \* the call each thread is in: kind, sectors left, of this command
          expecting,  \* ide_channel.expecting_intr
          done,       \* ide_channel.disk_done.value
          doneq,      \* ide_channel.disk_done.waiters
          ticked,     \* has the clock ticked since the thread began to nap?
          drive,      \* what the drive is doing: state, kind, sectors left
          line,       \* the drive's interrupt line
          irr         \* the request latched by the interrupt controller

driveVars == <<drive, line, irr>>
chanVars  == <<op, expecting, done, doneq, ticked, drive, line, irr>>
ideVars   == <<syncVars, chanVars>>

NoCall == [kind |-> "read", left |-> 0, now |-> 0]

IdeInit ==
  /\ SyncInit
  /\ op = [t \in Thread |-> NoCall]
  /\ expecting = FALSE
  /\ done = 0 /\ doneq = <<>>
  /\ ticked = [t \in Thread |-> TRUE]
  /\ drive = [st |-> "idle", kind |-> "read", left |-> 0]
  /\ line = FALSE /\ irr = FALSE

(* A latched request is taken before the next instruction when the flag is *)
(* on.                                                                     *)
Interrupted == intr /\ irr

SyncKept == UNCHANGED <<panic, lockVars, lk, old>>
-----------------------------------------------------------------------------
(* The drive.                                                              *)
RaiseLine ==
  /\ line' = TRUE
  /\ irr' = (irr \/ ~line)

(* It has the first sector of a read, or room for the first sector of a    *)
(* write, or has stored the last one.                                      *)
DriveReady ==
  /\ drive.st \in {"busy", "flush"}
  /\ IF drive.st = "flush"
     THEN drive' = [drive EXCEPT !.st = "idle"] /\ RaiseLine
     ELSE /\ drive' = [drive EXCEPT !.st = "drq"]
          /\ IF drive.kind = "read" THEN RaiseLine ELSE UNCHANGED <<line, irr>>
  /\ UNCHANGED <<syncVars, op, expecting, done, doneq, ticked>>

ReadStatus == line' = FALSE /\ UNCHANGED irr
-----------------------------------------------------------------------------

(* ide_read or ide_write is called, and takes the channel's lock.          *)
Call(t) ==
  /\ ~Interrupted /\ op[t].left = 0
  /\ \E kind \in {"read", "write"}, n \in SecCnt :
       op' = [op EXCEPT ![t] = [kind |-> kind, left |-> n, now |-> 0]]
  /\ At(t, Caller(t)) /\ Acquire(t, Chan)
  /\ UNCHANGED <<expecting, done, doneq, ticked, driveVars>>

SelectMutant(t) ==
  /\ At(t, "own")
  /\ op' = [op EXCEPT ![t].now = IF op[t].left < Chunk THEN op[t].left ELSE Chunk]
  /\ Goto(t, "cmd")
  /\ Run /\ SyncKept
  /\ UNCHANGED <<expecting, done, doneq, ticked, driveVars>>

(* The next round of the loop over the sectors: select_disk,               *)
(* select_sector, and cmd_out, which sets the flag before the command.     *)
Select(t) ==
  /\ At(t, "own")
  /\ op' = [op EXCEPT ![t].now = IF op[t].left < Chunk THEN op[t].left ELSE Chunk]
  /\ expecting' = TRUE
  /\ Goto(t, "cmd")
  /\ Run /\ SyncKept
  /\ UNCHANGED <<done, doneq, ticked, driveVars>>

(* cmd_out's write to the command register.  The drive may still be        *)
(* storing the last sector of the command before: nobody has asked.        *)
SendCommand(t) ==
  /\ At(t, "cmd")
  /\ drive' = [st |-> "busy", kind |-> op[t].kind, left |-> op[t].now]
  /\ line' = FALSE
  /\ Goto(t, IF op[t].kind = "read" THEN "downdone" ELSE "poll")
  /\ Run /\ SyncKept
  /\ UNCHANGED <<op, expecting, done, doneq, ticked, irr>>

(* sema_down(&disk_done), woken by the interrupt or found already up; then *)
(* the call goes on at p.                                                  *)
DownDone(t, p) ==
  /\ At(t, "downdone") \/ At(t, "asleep")
  /\ old' = IF pc[t] = "asleep" THEN old ELSE [old EXCEPT ![t] = intr]
  /\ IF done = 0
     THEN /\ doneq' = Append(doneq, t)
          /\ Block("BLOCKED", TRUE, ~Contains(doneq, t))
          /\ Goto(t, "asleep")
          /\ UNCHANGED done
     ELSE /\ done' = done - 1
          /\ panic' = (done # 1)
          /\ intr' = old'[t]
          /\ Goto(t, p)
          /\ UNCHANGED <<cur, status, ready, slice, saved, doneq>>
  /\ UNCHANGED <<idlepc, lockVars, lk, op, expecting, ticked, driveVars>>

DiskDoneMutant(t) == DownDone(t, IF op[t].kind = "read" THEN "data" ELSE "next")

(* A read waits before its data, a write after it.                         *)
DiskDone(t) == DownDone(t, IF op[t].kind = "read" THEN "poll" ELSE "next")

(* busy_wait: read the status register; nap while the drive is busy.       *)
Poll(t) ==
  /\ At(t, "poll")
  /\ ReadStatus
  /\ IF drive.st \in {"busy", "flush"}
     THEN Goto(t, "nap") /\ ticked' = [ticked EXCEPT ![t] = FALSE] /\ UNCHANGED panic
     ELSE Goto(t, "data") /\ panic' = (drive.st # "drq") /\ UNCHANGED ticked
  /\ Run
  /\ UNCHANGED <<lockVars, lk, old, op, expecting, done, doneq, drive>>

(* ticks_to_sleep: yield until the clock has ticked.                       *)
Nap(t) ==
  /\ At(t, "nap")
  /\ IF ticked[t]
     THEN Goto(t, "poll") /\ Run /\ UNCHANGED panic
     ELSE Yield /\ UNCHANGED <<idlepc, pc>>
  /\ UNCHANGED <<lockVars, lk, old, chanVars>>

(* One sector of read_from_sector or write2sector.  The drive goes on to   *)
(* the next sector at once and raises its line for it.                     *)
Transfer(t) ==
  /\ At(t, "data") /\ drive.st = "drq"
  /\ IF drive.left > 1
     THEN /\ drive' = [drive EXCEPT !.left = @ - 1]
          /\ RaiseLine
          /\ UNCHANGED pc
     ELSE /\ drive' = [drive EXCEPT !.left = 0,
                                    !.st = IF drive.kind = "read" THEN "idle" ELSE "flush"]
          /\ Goto(t, IF op[t].kind = "read" THEN "next" ELSE "downdone")
          /\ UNCHANGED <<line, irr>>
  /\ Run /\ SyncKept
  /\ UNCHANGED <<op, expecting, done, doneq, ticked>>

(* secs_done += secs_op; another command or the end of the loop.           *)
NextChunk(t) ==
  /\ At(t, "next")
  /\ IF op[t].left = op[t].now
     THEN op' = [op EXCEPT ![t] = NoCall] /\ Goto(t, "end")
     ELSE op' = [op EXCEPT ![t].left = @ - op[t].now] /\ Goto(t, "own")
  /\ Run /\ SyncKept
  /\ UNCHANGED <<expecting, done, doneq, ticked, driveVars>>

(* intr_hd_handler.                                                        *)
DiskIntr ==
  /\ intr /\ irr
  /\ irr' = FALSE
  /\ idlepc' = IF idlepc = "halted" THEN "block" ELSE idlepc
  /\ IF expecting
     THEN /\ expecting' = FALSE
          /\ done' = done + 1
          /\ IF doneq = <<>>
             THEN panic' = (done # 0) /\ UNCHANGED <<cur, status, ready, slice, saved, doneq>>
             ELSE Unblock(Head(doneq), done = 0) /\ doneq' = Tail(doneq)
          /\ line' = FALSE
     ELSE UNCHANGED <<cur, status, ready, slice, saved, panic, expecting, done, doneq, line>>
  /\ UNCHANGED <<intr, lockVars, pc, lk, old, op, ticked, drive>>

(* The lock of the channel.                                                *)
ChanLock(t) ==
  /\ \/ TestHolder(t) \/ SemaDown(t) \/ SemaDownAgain(t) \/ SetHolder(t) \/ SetRepeat(t)
     \/ ReleaseAt(t, "end") \/ ClearRepeat(t) \/ SemaUp(t)
  /\ UNCHANGED chanVars

OtherStep(t) ==
  /\ ~Interrupted
  /\ BootDone(t) \/ SysEnter(t) \/ SysExit(t) \/ Fork(t)
  /\ UNCHANGED chanVars

ClockTick ==
  /\ Tick
  /\ ticked' = [t \in Thread |-> TRUE]
  /\ UNCHANGED <<lockVars, pc, lk, old, op, expecting, done, doneq, driveVars>>

IdleStep ==
  /\ ~Interrupted
  /\ IdleBlock \/ IdleHalt
  /\ UNCHANGED <<lockVars, pc, lk, old, chanVars>>

DiskStep(t) ==
  /\ ~Interrupted
  /\ \/ Select(t)
     \/ SendCommand(t)
     \/ DiskDone(t)
     \/ Poll(t)
     \/ Nap(t)
     \/ Transfer(t)
     \/ NextChunk(t)
     \/ ChanLock(t)

IdeNext ==
  /\ ~panic
  /\ \/ ClockTick
     \/ DriveReady
     \/ DiskIntr
     \/ IdleStep
     \/ \E t \in Thread : OtherStep(t)
     \/ \E t \in User : Call(t) \/ DiskStep(t)

IdeSpec == IdeInit /\ [][IdeNext]_ideVars

(* Fairness.  As in Sync; the drive answers every command and the          *)
(* controller delivers the request it has latched.                         *)
IdeFairness ==
  /\ SF_ideVars(~panic /\ ClockTick)
  /\ SF_ideVars(~panic /\ IdleStep)
  /\ WF_ideVars(~panic /\ DriveReady)
  /\ SF_ideVars(~panic /\ DiskIntr)
  /\ \A t \in Thread \ {Idle} : SF_ideVars(~panic /\ OtherStep(t))
  /\ \A t \in User : SF_ideVars(~panic /\ DiskStep(t))

IdeFairSpec == IdeSpec /\ IdeFairness
-----------------------------------------------------------------------------
Busy(t) == pc[t] \in {"rep", "own", "cmd", "downdone", "asleep", "poll", "nap", "data", "next", "end"}

(* An interrupt may be about an earlier sector of a command, or even about *)
(* the command before (the drive stores the last sector of a write when    *)
(* cmd_out has already set expecting_intr again), so to be woken says      *)
(* little.  Still the host moves data only when the drive is ready for the *)
(* data of this very command, and a command is over only when all its      *)
(* sectors have passed; of a write the last one may still be on its way    *)
(* from the drive's buffer to the disk.                                    *)
ReturnsWhenDone ==
  \A t \in User :
    /\ pc[t] = "data" => /\ drive.st = "drq" /\ drive.kind = op[t].kind
                        /\ drive.left \in 1..op[t].now
    /\ pc[t] = "next" =>
         /\ drive.kind = op[t].kind /\ drive.left = 0
         /\ drive.st \in IF drive.kind = "read" THEN {"idle"} ELSE {"idle", "flush"}

(* The wakeup of disk_done is never lost between setting expecting_intr,   *)
(* sending the command and going to sleep: while a thread sleeps on it,    *)
(* the drive is still going to answer or the answer is latched.            *)
SleeperIsServed ==
  \A t \in User :
    pc[t] = "asleep" /\ status[t] = "BLOCKED" =>
      /\ expecting /\ done = 0
      /\ irr \/ drive.st \in {"busy", "flush"}

(* Whoever has the channel finishes the transfer and gives the channel     *)
(* back.  (That a waiter gets it in the end is not promised: a thread that *)
(* calls again and again may take the lock before the waiter it woke.)     *)
CallsReturn == \A t \in User : Busy(t) ~> ~Busy(t)
=============================================================================
