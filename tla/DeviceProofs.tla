---------------------------- MODULE DeviceProofs ----------------------------
(***************************************************************************)
(* Theorems about the two drivers of device/ that sleep and are woken by   *)
(* an interrupt: the IDE channel and the keyboard's ring buffer.           *)
(***************************************************************************)
EXTENDS Ide, IoQueue, SyncProofs, SequenceTheorems

(***************************************************************************)
(* The IDE channel, for any threads with interrupts on or off, any number  *)
(* of sectors to a call and any number of them to a command.               *)
(*                                                                         *)
(* The inductive invariant follows one command through the driver, the     *)
(* drive and the interrupt controller.  It never says which sector or      *)
(* which command an interrupt is about, because the driver does not know:  *)
(* from cmd_out to sema_down either expecting_intr is set or disk_done has *)
(* been raised, never both, and while it is set an interrupt is latched or *)
(* the drive has still something to answer.                                *)
(***************************************************************************)

Ops == [Thread -> [kind : {"read", "write"}, left : Nat, now : Nat]]

(* Where a thread is while its command is under way.                       *)
Active == {"cmd", "downdone", "asleep", "poll", "nap", "data", "next"}

(* Whoever is in a call, in whatever part of it, is about this channel,    *)
(* and has sectors left.                                                   *)
CallsOK ==
  /\ \A t \in Thread : pc[t] \notin Neutral => t \in User /\ lk[t] = Chan
  /\ op \in Ops
  /\ \A t \in User : pc[t] \notin Neutral \cup {"end", "clr", "up"} => op[t].left > 0
  /\ \A t \in User : pc[t] \in Active => op[t].now \in 1..op[t].left

(* The interrupt that the thread waits for has been accepted, or has not,  *)
(* or nobody waits for one.                                                *)
Awaited == IF done = 0 THEN expecting = TRUE ELSE expecting = FALSE /\ done = 1
Nothing == done = 0 /\ expecting = FALSE

(* A request that is expected has not been thrown away.                    *)
Told == expecting = TRUE /\ line = TRUE => irr = TRUE

(* What the drive has of a command before and after the data.              *)
InHand(n) == drive.st \in {"busy", "drq"} /\ drive.left \in 1..n
Moved == drive.st \in {"idle", "flush"} /\ drive.left = 0

InSema(t) ==
  /\ Awaited /\ Told
  /\ IF op[t].kind = "read" THEN InHand(op[t].now) ELSE Moved
  /\ expecting = TRUE => irr = TRUE \/ drive.st \in {"busy", "flush"}
  /\ doneq = IF pc[t] = "asleep" /\ done = 0 THEN <<t>> ELSE <<>>
  /\ pc[t] = "asleep" => (status[t] = "BLOCKED" <=> done = 0)

Moving(t) ==
  /\ IF op[t].kind = "read" THEN Nothing ELSE Awaited /\ Told
  /\ InHand(op[t].now) /\ doneq = <<>>
  /\ pc[t] = "data" => drive.st = "drq"

Serving(t) ==
  /\ pc[t] # "cmd" => drive.kind = op[t].kind
  /\ pc[t] = "cmd" => Awaited /\ Moved /\ doneq = <<>>
  /\ pc[t] \in {"downdone", "asleep"} => InSema(t)
  /\ pc[t] \in {"poll", "nap", "data"} => Moving(t)
  /\ pc[t] = "next" => /\ Nothing /\ Moved /\ doneq = <<>>
                       /\ op[t].kind = "read" => drive.st = "idle"

DriveType ==
  /\ drive \in [st : {"idle", "busy", "drq", "flush"}, kind : {"read", "write"}, left : Nat]
  /\ line \in BOOLEAN /\ irr \in BOOLEAN

DeviceOK ==
  /\ DriveType
  /\ \A t \in User : pc[t] \in Active => Serving(t)
  /\ (\A t \in User : pc[t] \notin Active) => Nothing /\ Moved /\ doneq = <<>>

IdeInv == LocksOK /\ CallsOK /\ DeviceOK
-----------------------------------------------------------------------------
LEMMA OneActive ==
  ASSUME LockInv, CallsOK, NEW t \in User, Own(pc[t]), NEW u \in User, pc[u] \in Active
  PROVE  u = t
<1>1. t \in Thread /\ u \in Thread /\ Chan \in Lock
  BY IdeAssumption DEF IdeAssumption
<1>2. pc[u] \notin Neutral \cup Trying /\ pc[t] \notin Neutral \cup Trying
  BY DEF Active, Own, Neutral, Trying
<1>3. Holds(t, Chan) /\ Holds(u, Chan)
  BY <1>1, <1>2 DEF CallsOK, Holds
<1> QED
  BY <1>1, <1>3 DEF LockInv, OneHolds

(* Steps that leave the channel's fields, the drive, and the thread whose  *)
(* command is under way alone.                                             *)
LEMMA DeviceKept ==
  ASSUME DeviceOK, SleepKept, UNCHANGED <<expecting, done, doneq, drive, line, irr>>,
         \A u \in User : pc'[u] \in Active => pc[u] \in Active,
         \A u \in User : pc[u] \in Active => pc'[u] = pc[u] /\ op'[u] = op[u]
  PROVE  DeviceOK'
<1>1. DriveType'
  BY DEF DeviceOK, DriveType
<1>2. ASSUME NEW u \in User, pc[u] \in Active PROVE Serving(u)'
  <2>1. Serving(u) /\ pc'[u] = pc[u] /\ op'[u] = op[u]
    BY <1>2 DEF DeviceOK
  <2>2. pc[u] = "asleep" => (status'[u] = "BLOCKED" <=> status[u] = "BLOCKED")
    BY <2>1, IdeAssumption DEF SleepKept, Kept, IdeAssumption
  <2> QED
    BY <2>1, <2>2 DEF Serving, InSema, Moving, Awaited, Nothing, Told, InHand, Moved
<1>3. ASSUME \A u \in User : pc'[u] \notin Active PROVE Nothing' /\ Moved' /\ doneq' = <<>>
  <2>1. \A u \in User : pc[u] \notin Active
    BY <1>3
  <2> QED
    BY <2>1 DEF DeviceOK, Nothing, Moved
<1> QED
  BY <1>1, <1>2, <1>3 DEF DeviceOK

(* A step of the one thread that has the channel.                          *)
LEMMA DeviceStep ==
  ASSUME LockInv, CallsOK, DeviceOK, NEW t \in User, Own(pc[t]),
         \A u \in User : u # t => pc'[u] = pc[u],
         DriveType',
         pc'[t] \in Active => Serving(t)',
         pc'[t] \notin Active => Nothing' /\ Moved' /\ doneq' = <<>>
  PROVE  DeviceOK'
<1>1. \A u \in User : u # t => pc[u] \notin Active /\ pc'[u] \notin Active
  BY OneActive
<1>2. ASSUME NEW u \in User, pc'[u] \in Active PROVE Serving(u)'
  <2>1. u = t
    BY <1>1, <1>2
  <2> QED
    BY <1>2, <2>1
<1> QED
  BY <1>2 DEF DeviceOK

(* A step of t, in a call, from one place of the call to another.          *)
LEMMA CallsStep ==
  ASSUME LockInv, CallsOK, NEW t \in Thread, NEW p, pc' = [pc EXCEPT ![t] = p], lk' = lk,
         t \in User \/ p \in Neutral,
         pc[t] \in Neutral => p \in Neutral,
         op' \in Ops,
         \A u \in Thread : u # t => op'[u] = op[u],
         p \notin Neutral \cup {"end", "clr", "up"} => op'[t].left > 0,
         p \in Active => op'[t].now \in 1..op'[t].left
  PROVE  CallsOK'
<1>1. pc'[t] = p /\ \A u \in Thread : u # t => pc'[u] = pc[u]
  BY DEF LockInv, LockType
<1>2. User \subseteq Thread
  BY IdeAssumption DEF IdeAssumption
<1> QED
  BY <1>1, <1>2 DEF CallsOK

(* A step of the driver between two points where it has the channel's      *)
(* lock: no lock and nobody's status changes.                              *)
LEMMA DriverMoves ==
  ASSUME LocksOK, NEW t \in Thread, NEW from, NEW to, Own(from), Own(to),
         At(t, from), Goto(t, to), UNCHANGED <<cur, status, ready, slice, saved, idlepc, lockVars, lk>>,
         intr' \in BOOLEAN, panic' = FALSE, old' \in [Thread -> BOOLEAN]
  PROVE  /\ LockInv' /\ [Next]_vars /\ SleepKept /\ OutsideOK'
         /\ pc' = [pc EXCEPT ![t] = to] /\ pc'[t] = to /\ pc[t] = from /\ t # Idle
         /\ \A u \in Thread : u # t => pc'[u] = pc[u]
<1>0. /\ IInv /\ LockInv /\ OutsideOK /\ pc = [u \in Thread |-> pc[u]] /\ panic = FALSE
      /\ status[t] = "RUNNING" /\ cur = t /\ t # Idle
  BY DEF LocksOK, LockInv, LockType, IInv, TypeOK, At
<1>1. /\ pc' = [pc EXCEPT ![t] = to] /\ pc'[t] = to /\ pc[t] = from
      /\ \A u \in Thread : u # t => pc'[u] = pc[u]
  BY <1>0 DEF Goto, At
<1>2. LockInv'
  <2>1. UNCHANGED <<value, waiters, holder, repeat, lk>>
    BY DEF lockVars
  <2>2. pc' = [u \in Thread |-> pc'[u]]
    BY <1>0, <1>1
  <2> QED
    BY <1>0, <1>1, <2>1, <2>2, LockKept DEF Kept
<1>3. [Next]_vars
  BY <1>0, FlagIsSched
<1> QED
  BY <1>0, <1>1, <1>2, <1>3 DEF SleepKept, Kept, OutsideOK

(* What is left to show of such a step: the counts of the call, and where  *)
(* the command is afterwards.                                              *)
LEMMA DriverStep ==
  ASSUME IdeInv, NEW t \in User, NEW from, NEW to, Own(from), Own(to),
         At(t, from), Goto(t, to), UNCHANGED <<cur, status, ready, slice, saved, idlepc, lockVars, lk>>,
         intr' \in BOOLEAN, panic' = FALSE, old' \in [Thread -> BOOLEAN],
         op' \in Ops,
         \A u \in Thread : u # t => op'[u] = op[u],
         to # "end" => op'[t].left > 0,
         to \in Active => op'[t].now \in 1..op'[t].left,
         DriveType',
         to \in Active => Serving(t)',
         to \notin Active => Nothing' /\ Moved' /\ doneq' = <<>>
  PROVE  [Next]_vars /\ LockInv' /\ OutsideOK' /\ CallsOK' /\ DeviceOK'
<1>0. LocksOK /\ LockInv /\ CallsOK /\ DeviceOK /\ t \in Thread
  BY IdeAssumption DEF IdeInv, LocksOK, IdeAssumption
<1>1. /\ LockInv' /\ [Next]_vars /\ OutsideOK'
      /\ pc' = [pc EXCEPT ![t] = to] /\ pc'[t] = to /\ pc[t] = from
      /\ \A u \in Thread : u # t => pc'[u] = pc[u]
  <2>1. LocksOK /\ t \in Thread
    BY <1>0
  <2>2. /\ LockInv' /\ [Next]_vars /\ SleepKept /\ OutsideOK'
        /\ pc' = [pc EXCEPT ![t] = to] /\ pc'[t] = to /\ pc[t] = from /\ t # Idle
        /\ \A u \in Thread : u # t => pc'[u] = pc[u]
    BY <2>1, DriverMoves
  <2> QED
    BY <2>2
<1>2. CallsOK'
  <2>1. pc[t] \notin Neutral /\ lk' = lk
    BY <1>1 DEF Own
  <2> QED
    BY <1>0, <1>1, <2>1, CallsStep
<1>3. DeviceOK'
  <2>1. \A u \in User : u # t => pc'[u] = pc[u]
    BY <1>1, IdeAssumption DEF IdeAssumption
  <2> QED
    BY <1>0, <1>1, <2>1, DeviceStep
<1> QED
  BY <1>1, <1>2, <1>3

(* The thread that has the channel, before its step.                       *)
LEMMA DriverState ==
  ASSUME IdeInv, NEW t \in User, NEW from, Own(from), At(t, from)
  PROVE  /\ LockInv /\ CallsOK /\ DeviceOK /\ t \in Thread /\ pc[t] = from /\ panic = FALSE
         /\ old \in [Thread -> BOOLEAN] /\ intr \in BOOLEAN /\ status[t] = "RUNNING"
         /\ op \in Ops
         /\ from # "end" => op[t].left > 0
         /\ \A p : Goto(t, p) => pc'[t] = p
         /\ DriveType
         /\ from \in Active => Serving(t)
         /\ from \notin Active => Nothing /\ Moved /\ doneq = <<>>
<1>1. /\ LockInv /\ CallsOK /\ DeviceOK /\ t \in Thread /\ pc[t] = from /\ panic = FALSE
      /\ old \in [Thread -> BOOLEAN] /\ intr \in BOOLEAN /\ status[t] = "RUNNING"
      /\ op \in Ops
      /\ DriveType
  BY IdeAssumption
     DEF IdeInv, LocksOK, LockInv, LockType, IInv, TypeOK, IdeAssumption, At, CallsOK, DeviceOK
<1>2. \A p : Goto(t, p) => pc'[t] = p
  BY <1>1 DEF Goto, LockInv, LockType
<1>3. from # "end" => op[t].left > 0
  BY <1>1 DEF CallsOK, Own, Neutral, Trying
<1>4. from \notin Active => Nothing /\ Moved /\ doneq = <<>>
  BY <1>1, OneActive DEF DeviceOK
<1> QED
  BY <1>1, <1>2, <1>3, <1>4 DEF DeviceOK

LEMMA SelectStep ==
  ASSUME IdeInv, NEW t \in User, Select(t)
  PROVE  [Next]_vars /\ LockInv' /\ OutsideOK' /\ CallsOK' /\ DeviceOK'
<1> DEFINE n == IF op[t].left < Chunk THEN op[t].left ELSE Chunk
<1>1. /\ At(t, "own") /\ Goto(t, "cmd")
      /\ UNCHANGED <<cur, status, ready, slice, saved, idlepc, lockVars, lk>>
      /\ intr' = intr /\ panic' = panic /\ old' = old
      /\ op' = [op EXCEPT ![t].now = n]
      /\ expecting' = TRUE /\ UNCHANGED <<done, doneq, drive, line, irr>>
  BY DEF Select, Run, SyncKept, driveVars
<1>2. Own("own") /\ Own("cmd") /\ "own" \notin Active /\ "cmd" \in Active
  BY DEF Own, Neutral, Trying, Active
<1>3. /\ t \in Thread /\ panic = FALSE /\ old \in [Thread -> BOOLEAN] /\ intr \in BOOLEAN
      /\ op \in Ops /\ op[t].left > 0
      /\ pc'[t] = "cmd" /\ DriveType /\ Nothing /\ Moved /\ doneq = <<>>
  BY <1>1, <1>2, DriverState
<1>4. /\ op' \in Ops
      /\ op'[t].left > 0 /\ op'[t].now \in 1..op'[t].left /\ \A u \in Thread : u # t => op'[u] = op[u]
  <2>1. op[t].left \in Nat /\ Chunk \in Nat \ {0}
    BY <1>3, IdeAssumption DEF Ops, IdeAssumption
  <2>2. n \in Nat /\ n \in 1..op[t].left
    BY <1>3, <2>1
  <2> HIDE DEF n
  <2>3. op' \in Ops /\ op'[t].left = op[t].left /\ op'[t].now = n /\ \A u \in Thread : u # t => op'[u] = op[u]
    BY <1>1, <1>3, <2>2 DEF Ops
  <2> QED
    BY <1>3, <2>2, <2>3
<1>5. Serving(t)' /\ DriveType'
  BY <1>1, <1>3 DEF Serving, Awaited, Nothing, Moved, DriveType
<1> HIDE DEF n
<1> QED
  BY <1>1, <1>2, <1>3, <1>4, <1>5, DriverStep

LEMMA SendStep ==
  ASSUME IdeInv, NEW t \in User, SendCommand(t)
  PROVE  [Next]_vars /\ LockInv' /\ OutsideOK' /\ CallsOK' /\ DeviceOK'
<1> DEFINE k  == op[t].kind
           to == IF k = "read" THEN "downdone" ELSE "poll"
<1>1. /\ At(t, "cmd") /\ Goto(t, to)
      /\ UNCHANGED <<cur, status, ready, slice, saved, idlepc, lockVars, lk>>
      /\ intr' = intr /\ panic' = panic /\ old' = old
      /\ drive' = [st |-> "busy", kind |-> k, left |-> op[t].now]
      /\ line' = FALSE /\ UNCHANGED <<op, expecting, done, doneq, irr>>
  BY DEF SendCommand, Run, SyncKept
<1>2. Own("cmd") /\ Own(to) /\ to \in Active /\ to # "end" /\ "cmd" \in Active
  BY DEF Own, Neutral, Trying, Active
<1>3. /\ t \in Thread /\ panic = FALSE /\ old \in [Thread -> BOOLEAN] /\ intr \in BOOLEAN
      /\ op \in Ops /\ op[t].left > 0
      /\ pc[t] = "cmd" /\ pc'[t] = to /\ CallsOK /\ DriveType /\ Serving(t)
  BY <1>1, <1>2, DriverState
<1>4. /\ op[t].now \in 1..op[t].left /\ op[t].now \in Nat /\ k \in {"read", "write"}
      /\ Awaited /\ doneq = <<>>
  BY <1>2, <1>3 DEF CallsOK, Serving, Ops
<1>5. /\ drive'.st = "busy" /\ drive'.kind = k /\ drive'.left = op[t].now /\ DriveType'
  BY <1>1, <1>3, <1>4 DEF DriveType
<1>6. drive'.left \in 1..op[t].now
  BY <1>3, <1>4, <1>5 DEF Ops
<1>7. Awaited' /\ Told' /\ InHand(op[t].now)' /\ doneq' = <<>>
  BY <1>1, <1>4, <1>5, <1>6 DEF Awaited, Told, InHand
<1>8. Serving(t)'
  BY <1>1, <1>3, <1>4, <1>5, <1>7 DEF Serving, InSema, Moving
<1>9. op'[t].now \in 1..op'[t].left /\ op'[t].left > 0
  BY <1>1, <1>3, <1>4
<1> HIDE DEF to
<1> QED
  BY <1>1, <1>2, <1>3, <1>5, <1>8, <1>9, DriverStep

(* busy_wait finds data when the drive is not busy: the drive cannot have  *)
(* finished, since nobody has fetched or sent the sectors.                 *)
LEMMA PollStep ==
  ASSUME IdeInv, NEW t \in User, Poll(t)
  PROVE  [Next]_vars /\ LockInv' /\ OutsideOK' /\ CallsOK' /\ DeviceOK'
<1>1. /\ At(t, "poll") /\ UNCHANGED <<cur, status, ready, slice, saved, idlepc, lockVars, lk>>
      /\ intr' = intr /\ old' = old
      /\ line' = FALSE /\ UNCHANGED <<op, expecting, done, doneq, irr, drive>>
      /\ \/ drive.st \in {"busy", "flush"} /\ Goto(t, "nap") /\ UNCHANGED panic
         \/ drive.st \notin {"busy", "flush"} /\ Goto(t, "data") /\ panic' = (drive.st # "drq")
  BY DEF Poll, Run, ReadStatus
<1>2. Own("poll") /\ {"poll", "nap", "data"} \subseteq Active /\ Own("nap") /\ Own("data")
  BY DEF Own, Neutral, Trying, Active
<1>3. /\ t \in Thread /\ panic = FALSE /\ old \in [Thread -> BOOLEAN] /\ intr \in BOOLEAN
      /\ op \in Ops /\ op[t].left > 0
      /\ pc[t] = "poll" /\ DriveType /\ CallsOK /\ Serving(t)
      /\ \A p : Goto(t, p) => pc'[t] = p
  BY <1>1, <1>2, DriverState
<1>4. op'[t].now \in 1..op'[t].left /\ op' \in Ops /\ op'[t].left > 0 /\ DriveType'
  BY <1>1, <1>2, <1>3 DEF CallsOK, DriveType
<1>5. drive.kind = op[t].kind /\ Moving(t)
  BY <1>3 DEF Serving
<1>6. ASSUME pc'[t] \in {"nap", "data"}, pc'[t] = "data" => drive.st = "drq" PROVE Serving(t)'
  <2>1. Moving(t)'
    BY <1>1, <1>5, <1>6 DEF Moving, Nothing, Awaited, Told, InHand
  <2> QED
    BY <1>1, <1>5, <1>6, <2>1 DEF Serving
<1>7. CASE drive.st \in {"busy", "flush"}
  <2>1. Goto(t, "nap") /\ pc'[t] = "nap" /\ panic' = FALSE
    BY <1>1, <1>3, <1>7
  <2>2. Serving(t)'
    BY <1>6, <2>1
  <2> QED
    BY <1>1, <1>2, <1>3, <1>4, <2>1, <2>2, DriverStep
<1>8. CASE drive.st \notin {"busy", "flush"}
  <2>0. drive.st = "drq"
    BY <1>5, <1>8 DEF Moving, InHand
  <2>1. Goto(t, "data") /\ pc'[t] = "data" /\ panic' = FALSE
    BY <1>1, <1>3, <1>8, <2>0
  <2>2. Serving(t)'
    BY <1>6, <2>0, <2>1
  <2> QED
    BY <1>1, <1>2, <1>3, <1>4, <2>1, <2>2, DriverStep
<1> QED
  BY <1>7, <1>8

(* The end of a nap; a nap that goes on is a thread_yield.                 *)
LEMMA NapStep ==
  ASSUME IdeInv, NEW t \in User, Nap(t), ticked[t]
  PROVE  [Next]_vars /\ LockInv' /\ OutsideOK' /\ CallsOK' /\ DeviceOK'
<1>1. /\ At(t, "nap") /\ Goto(t, "poll")
      /\ UNCHANGED <<cur, status, ready, slice, saved, idlepc, lockVars, lk>>
      /\ intr' = intr /\ panic' = panic /\ old' = old
      /\ UNCHANGED <<op, expecting, done, doneq, drive, line, irr>>
  BY DEF Nap, Run, chanVars
<1>2. Own("poll") /\ "poll" \in Active /\ "nap" \in Active /\ Own("nap")
  BY DEF Own, Neutral, Trying, Active
<1>3. /\ t \in Thread /\ panic = FALSE /\ old \in [Thread -> BOOLEAN] /\ intr \in BOOLEAN
      /\ op \in Ops /\ op[t].left > 0
      /\ pc[t] = "nap" /\ DriveType /\ CallsOK /\ Serving(t)
      /\ \A p : Goto(t, p) => pc'[t] = p
  <2>1. At(t, "nap") /\ Own("nap") /\ "nap" \in Active
    BY <1>1, <1>2
  <2> QED
    BY <2>1, DriverState
<1>4. op'[t].now \in 1..op'[t].left /\ op' \in Ops /\ op'[t].left > 0 /\ DriveType'
  BY <1>1, <1>2, <1>3 DEF CallsOK, DriveType
<1>5. pc'[t] = "poll"
  BY <1>1, <1>3
<1>6. Serving(t)'
  BY <1>1, <1>3, <1>5 DEF Serving, Moving, Nothing, Awaited, Told, InHand
<1> QED
  BY <1>1, <1>2, <1>3, <1>4, <1>6, DriverStep

(* One sector of several: the drive asks for the next one.                 *)
LEMMA TransferGoesOn ==
  ASSUME IdeInv, NEW t \in User, Transfer(t), drive.left > 1
  PROVE  [Next]_vars /\ LockInv' /\ OutsideOK' /\ CallsOK' /\ DeviceOK'
<1>1. Own("data") /\ "data" \in Active
  BY DEF Own, Neutral, Trying, Active
<1>2. /\ At(t, "data") /\ UNCHANGED <<cur, status, ready, slice, saved, idlepc, lockVars, lk>>
      /\ intr' = intr /\ panic' = panic /\ old' = old /\ UNCHANGED <<op, expecting, done, doneq>>
      /\ drive' = [drive EXCEPT !.left = @ - 1] /\ RaiseLine /\ pc' = pc
  BY DEF Transfer, Run, SyncKept
<1>3. /\ t \in Thread /\ panic = FALSE /\ old \in [Thread -> BOOLEAN] /\ intr \in BOOLEAN
      /\ op \in Ops /\ op[t].left > 0
      /\ pc[t] = "data" /\ DriveType /\ CallsOK /\ Serving(t) /\ LockInv
  BY <1>1, <1>2, DriverState
<1>4. drive.kind = op[t].kind /\ Moving(t) /\ drive.st = "drq" /\ drive.left \in 1..op[t].now
  BY <1>3 DEF Serving, Moving, InHand
<1>5. line' = TRUE /\ irr' \in BOOLEAN /\ (line = FALSE \/ irr = TRUE => irr' = TRUE)
  BY <1>2, <1>3 DEF RaiseLine, DriveType
<1>6. /\ DriveType' /\ drive'.left \in 1..op[t].now /\ drive'.kind = drive.kind /\ drive'.st = drive.st
  <2>1. op[t].now \in Nat /\ drive.left \in Nat
    BY <1>3 DEF Ops, DriveType
  <2>2. drive'.left = drive.left - 1 /\ drive'.kind = drive.kind /\ drive'.st = drive.st
    BY <1>2, <1>3 DEF DriveType
  <2>3. drive.left - 1 \in Nat /\ drive.left - 1 \in 1..op[t].now
    BY <1>4, <2>1
  <2> QED
    BY <1>2, <1>3, <1>5, <2>2, <2>3 DEF DriveType
<1>7. Moving(t)'
  <2>1. line \in BOOLEAN
    BY <1>3 DEF DriveType
  <2>2. Told => Told'
    BY <1>2, <1>5, <2>1 DEF Told
  <2> QED
    BY <1>2, <1>4, <1>6, <2>2 DEF Moving, Nothing, Awaited, InHand
<1>8. Serving(t)'
  BY <1>2, <1>3, <1>4, <1>6, <1>7 DEF Serving
<1>9. op'[t].now \in 1..op'[t].left /\ op' \in Ops /\ op'[t].left > 0
  BY <1>1, <1>2, <1>3 DEF CallsOK
<1>10. Goto(t, "data")
  BY <1>2, <1>3 DEF Goto, LockInv, LockType
<1> QED
  BY <1>1, <1>2, <1>3, <1>6, <1>8, <1>9, <1>10, DriverStep

(* The last sector.                                                        *)
LEMMA TransferEnds ==
  ASSUME IdeInv, NEW t \in User, Transfer(t), ~(drive.left > 1)
  PROVE  [Next]_vars /\ LockInv' /\ OutsideOK' /\ CallsOK' /\ DeviceOK'
<1> DEFINE k  == op[t].kind
           to == IF k = "read" THEN "next" ELSE "downdone"
<1>1. Own("data") /\ "data" \in Active /\ Own(to) /\ to \in Active /\ to # "end"
  BY DEF Own, Neutral, Trying, Active
<1>2. /\ At(t, "data")
      /\ UNCHANGED <<cur, status, ready, slice, saved, idlepc, lockVars, lk>>
      /\ intr' = intr /\ panic' = panic /\ old' = old /\ UNCHANGED <<op, expecting, done, doneq>>
      /\ drive' = [drive EXCEPT !.left = 0, !.st = IF drive.kind = "read" THEN "idle" ELSE "flush"]
      /\ Goto(t, to) /\ UNCHANGED <<line, irr>>
  BY DEF Transfer, Run, SyncKept
<1>3. /\ t \in Thread /\ panic = FALSE /\ old \in [Thread -> BOOLEAN] /\ intr \in BOOLEAN
      /\ op \in Ops /\ op[t].left > 0
      /\ pc[t] = "data" /\ DriveType /\ CallsOK /\ Serving(t)
      /\ \A p : Goto(t, p) => pc'[t] = p
  BY <1>1, <1>2, DriverState
<1>4. drive.kind = k /\ Moving(t) /\ k \in {"read", "write"}
  BY <1>3 DEF Serving, Ops
<1>5. pc'[t] = to
  BY <1>2, <1>3
<1>6. /\ DriveType' /\ drive'.left = 0 /\ drive'.kind = k
      /\ drive'.st = (IF k = "read" THEN "idle" ELSE "flush")
  BY <1>2, <1>3, <1>4 DEF DriveType
<1>7. op'[t].now \in 1..op'[t].left /\ op' \in Ops /\ op'[t].left > 0
  BY <1>1, <1>2, <1>3 DEF CallsOK
<1>8. Serving(t)'
  <2>1. CASE k = "read"
    <3>1. pc'[t] = "next"
      BY <1>5, <2>1
    <3> QED
      BY <1>2, <1>4, <1>6, <2>1, <3>1 DEF Serving, Moving, Nothing, Moved
  <2>2. CASE k = "write"
    <3>1. pc'[t] = "downdone"
      BY <1>5, <2>2
    <3>2. InSema(t)'
      BY <1>2, <1>4, <1>6, <2>2, <3>1 DEF InSema, Moving, Awaited, Told, Moved
    <3> QED
      BY <1>2, <1>6, <3>1, <3>2 DEF Serving
  <2> QED
    BY <1>4, <2>1, <2>2
<1> HIDE DEF to
<1> QED
  BY <1>1, <1>2, <1>3, <1>6, <1>7, <1>8, DriverStep

LEMMA NextChunkStep ==
  ASSUME IdeInv, NEW t \in User, NextChunk(t)
  PROVE  [Next]_vars /\ LockInv' /\ OutsideOK' /\ CallsOK' /\ DeviceOK'
<1> DEFINE to == IF op[t].left = op[t].now THEN "end" ELSE "own"
           r  == IF op[t].left = op[t].now THEN NoCall ELSE [op[t] EXCEPT !.left = @ - op[t].now]
<1>1. /\ At(t, "next") /\ Goto(t, to)
      /\ UNCHANGED <<cur, status, ready, slice, saved, idlepc, lockVars, lk>>
      /\ intr' = intr /\ panic' = panic /\ old' = old
      /\ \/ op[t].left = op[t].now /\ op' = [op EXCEPT ![t] = NoCall]
         \/ op[t].left # op[t].now /\ op' = [op EXCEPT ![t].left = @ - op[t].now]
      /\ UNCHANGED <<expecting, done, doneq, drive, line, irr>>
  BY DEF NextChunk, Run, SyncKept, driveVars
<1>2. Own("next") /\ Own(to) /\ "next" \in Active /\ to \notin Active
  BY DEF Own, Neutral, Trying, Active
<1>3. /\ t \in Thread /\ panic = FALSE /\ old \in [Thread -> BOOLEAN] /\ intr \in BOOLEAN
      /\ op \in Ops /\ op[t].left > 0
      /\ pc[t] = "next" /\ DriveType /\ CallsOK /\ Serving(t)
  BY <1>1, <1>2, DriverState
<1>4. op[t].now \in 1..op[t].left /\ op[t].left \in Nat /\ op[t].now \in Nat
  BY <1>2, <1>3 DEF CallsOK, Ops
<1>5. /\ op' \in Ops
      /\ \A u \in Thread : u # t => op'[u] = op[u]
      /\ to # "end" => op'[t].left > 0
  <2>1. CASE op[t].left = op[t].now
    BY <1>1, <1>3, <2>1 DEF Ops, NoCall
  <2>2. CASE op[t].left # op[t].now
    <3>1. op[t].left - op[t].now \in Nat /\ op[t].left - op[t].now > 0
      BY <1>4, <2>2
    <3>2. op' = [op EXCEPT ![t].left = op[t].left - op[t].now]
      BY <1>1, <2>2
    <3> QED
      BY <1>3, <3>1, <3>2 DEF Ops
  <2> QED
    BY <2>1, <2>2
<1>6. Nothing' /\ Moved' /\ doneq' = <<>> /\ DriveType'
  <2>1. Nothing /\ Moved /\ doneq = <<>>
    BY <1>3 DEF Serving
  <2> QED
    BY <1>1, <1>3, <2>1 DEF Nothing, Moved, DriveType
<1> HIDE DEF to
<1> QED
  BY <1>1, <1>2, <1>3, <1>5, <1>6, DriverStep
-----------------------------------------------------------------------------
(* sema_down of disk_done.  A thread that is awake inside it finds the     *)
(* value raised: only the interrupt can have woken it.                     *)
LEMMA DiskDoneGoes ==
  ASSUME IdeInv, NEW t \in User, DiskDone(t), done # 0
  PROVE  [Next]_vars /\ LockInv' /\ OutsideOK' /\ CallsOK' /\ DeviceOK'
<1> DEFINE k    == op[t].kind
           from == pc[t]
           to   == IF k = "read" THEN "poll" ELSE "next"
<1>1. /\ from \in {"downdone", "asleep"} /\ At(t, from) /\ Goto(t, to)
      /\ UNCHANGED <<cur, status, ready, slice, saved, idlepc, lockVars, lk>>
      /\ old' = (IF pc[t] = "asleep" THEN old ELSE [old EXCEPT ![t] = intr])
      /\ done' = done - 1 /\ panic' = (done # 1) /\ intr' = old'[t]
      /\ UNCHANGED <<op, expecting, doneq, drive, line, irr>>
  BY DEF DiskDone, DownDone, driveVars, At
<1>2. Own(from) /\ Own(to) /\ from \in Active /\ to \in Active /\ to # "end"
  BY <1>1 DEF Own, Neutral, Trying, Active
<1>3. /\ t \in Thread /\ panic = FALSE /\ old \in [Thread -> BOOLEAN] /\ intr \in BOOLEAN
      /\ op \in Ops /\ op[t].left > 0
      /\ DriveType /\ CallsOK /\ Serving(t)
      /\ \A p : Goto(t, p) => pc'[t] = p
  BY <1>1, <1>2, DriverState
<1>4. InSema(t) /\ drive.kind = k /\ k \in {"read", "write"}
  BY <1>1, <1>3 DEF Serving, Ops
<1>5. done = 1 /\ expecting = FALSE /\ doneq = <<>> /\ (IF k = "read" THEN InHand(op[t].now) ELSE Moved)
  BY <1>4 DEF InSema, Awaited
<1>6. /\ old' \in [Thread -> BOOLEAN] /\ intr' \in BOOLEAN /\ panic' = FALSE /\ done' = 0
      /\ pc'[t] = to
  <2>1. old' \in [Thread -> BOOLEAN]
    BY <1>1, <1>3
  <2>2. intr' \in BOOLEAN
    BY <1>1, <1>3, <2>1
  <2>3. pc'[t] = to
    BY <1>1, <1>3
  <2>4. done' = done - 1 /\ panic' = (done # 1)
    BY <1>1
  <2>5. done' = 0
    BY <1>5, <2>4
  <2>6. panic' = FALSE
    BY <1>5, <2>4
  <2> HIDE DEF to
  <2> QED
    BY <2>1, <2>2, <2>3, <2>5, <2>6
<1>7. op'[t].now \in 1..op'[t].left /\ op' \in Ops /\ op'[t].left > 0 /\ DriveType'
  BY <1>1, <1>2, <1>3 DEF CallsOK, DriveType
<1>8. Nothing' /\ doneq' = <<>>
  BY <1>1, <1>5, <1>6 DEF Nothing
<1>9. Serving(t)'
  <2>1. CASE k = "read"
    <3>1. pc'[t] = "poll"
      BY <1>6, <2>1
    <3>2. InHand(op[t].now)' /\ op'[t].kind = "read"
      BY <1>1, <1>5, <2>1 DEF InHand
    <3> QED
      BY <1>1, <1>4, <1>8, <3>1, <3>2 DEF Serving, Moving
  <2>2. CASE k = "write"
    <3>1. pc'[t] = "next"
      BY <1>6, <2>2
    <3>2. Moved' /\ op'[t].kind = "write"
      BY <1>1, <1>5, <2>2 DEF Moved
    <3> QED
      BY <1>1, <1>4, <1>8, <3>1, <3>2 DEF Serving
  <2> QED
    BY <1>4, <2>1, <2>2
<1> HIDE DEF to, from
<1> QED
  BY <1>1, <1>2, <1>3, <1>6, <1>7, <1>9, DriverStep

LEMMA DiskDoneSleeps ==
  ASSUME IdeInv, NEW t \in User, DiskDone(t), done = 0
  PROVE  [Next]_vars /\ LockInv' /\ OutsideOK' /\ CallsOK' /\ DeviceOK'
<1>1. /\ pc[t] \in {"downdone", "asleep"} /\ At(t, pc[t]) /\ pc' = [pc EXCEPT ![t] = "asleep"]
      /\ UNCHANGED <<idlepc, value, waiters, holder, repeat, lk>>
      /\ old' = (IF pc[t] = "asleep" THEN old ELSE [old EXCEPT ![t] = intr])
      /\ doneq' = Append(doneq, t) /\ Block("BLOCKED", TRUE, ~Contains(doneq, t))
      /\ UNCHANGED <<op, expecting, done, drive, line, irr>>
  BY DEF DiskDone, DownDone, driveVars, lockVars, At, Goto
<1>2. Own(pc[t]) /\ Own("asleep") /\ pc[t] \in Active /\ "asleep" \in Active
  BY <1>1 DEF Own, Neutral, Trying, Active
<1>3. /\ t \in Thread /\ panic = FALSE /\ old \in [Thread -> BOOLEAN] /\ intr \in BOOLEAN
      /\ op \in Ops /\ op[t].left > 0
      /\ DriveType /\ CallsOK /\ DeviceOK /\ Serving(t) /\ status[t] = "RUNNING"
      /\ LockInv
  BY <1>1, <1>2, DriverState
<1>4. pc[t] = "downdone" /\ doneq = <<>> /\ cur = t /\ t # Idle
  <2>1. InSema(t)
    BY <1>1, <1>3 DEF Serving
  <2> QED
    BY <1>1, <1>3, <2>1 DEF InSema, At
<1>5. Block("BLOCKED", TRUE, TRUE)
  <2>1. ~Contains(doneq, t) = TRUE
    BY <1>4 DEF Contains
  <2> QED
    BY <1>1, <2>1
<1>6. /\ IInv /\ OutsideOK /\ SchedAssumption /\ pc[Idle] = "out" /\ Idle \in Thread
      /\ pc = [u \in Thread |-> pc[u]]
  BY SchedAssumption DEF IdeInv, LocksOK, OutsideOK, LockInv, LockType, SchedAssumption
<1>7. [Next]_vars
  BY <1>1, <1>3, <1>4, <1>5 DEF Next, ClientBlock, Client
<1>8. (\A u \in Thread : u # t /\ pc[u] # "out" => Kept(u)) /\ status'[t] = "BLOCKED"
  BY <1>4, <1>5, <1>6, BlockKeeps
<1>9. /\ pc'[t] = "asleep" /\ (\A u \in Thread : u # t => pc'[u] = pc[u])
      /\ pc' = [u \in Thread |-> pc'[u]] /\ old' \in [Thread -> BOOLEAN]
  BY <1>1, <1>3, <1>6
<1>10. LockInv'
  <2>1. \A u \in Thread : pc[u] = "wait" => Kept(u)
    BY <1>4, <1>8
  <2>2. Own(pc'[t])
    BY <1>2, <1>9
  <2> QED
    BY <1>1, <1>2, <1>3, <1>9, <2>1, <2>2, LockKept
<1>11. OutsideOK'
  BY <1>4, <1>6, <1>7, <1>9, OutsideStep
<1>12. CallsOK'
  <2>1. op'[t].now \in 1..op'[t].left /\ pc[t] \notin Neutral
    BY <1>1, <1>2, <1>3 DEF CallsOK, Own
  <2> QED
    BY <1>1, <1>3, <2>1, CallsStep
<1>13. Serving(t)'
  <2>1. doneq' = <<t>>
    BY <1>1, <1>4
  <2>2. InSema(t) /\ drive.kind = op[t].kind
    BY <1>3, <1>4 DEF Serving
  <2>3. InSema(t)'
    BY <1>1, <1>4, <1>8, <1>9, <2>1, <2>2 DEF InSema, Awaited, Told, InHand, Moved
  <2> QED
    BY <1>1, <1>9, <2>2, <2>3 DEF Serving
<1>14. DeviceOK'
  <2>1. \A u \in User : u # t => pc'[u] = pc[u]
    BY <1>9, IdeAssumption DEF IdeAssumption
  <2>2. DriveType'
    BY <1>1, <1>3 DEF DriveType
  <2> QED
    BY <1>2, <1>3, <1>9, <1>13, <2>1, <2>2, DeviceStep
<1> QED
  BY <1>7, <1>10, <1>11, <1>12, <1>14
-----------------------------------------------------------------------------
(* A step of t that has nothing to do with the disk: the lock of the       *)
(* channel, the gates, the scheduler.                                      *)
LEMMA LockStepKeeps ==
  ASSUME IdeInv, LockInv', [Next]_vars, SleepKept,
         UNCHANGED <<lk, op, expecting, done, doneq, drive, line, irr>>,
         NEW t \in Thread, cur = t, NEW p, pc' = [pc EXCEPT ![t] = p],
         \/ p = pc[t]
         \/ /\ t # Idle
            /\ p \notin Active /\ pc[t] \notin Active
            /\ pc[t] \in Neutral => p \in Neutral
            /\ pc[t] \in {"end", "clr", "up"} => p \in Neutral \cup {"end", "clr", "up"}
  PROVE  OutsideOK' /\ CallsOK' /\ DeviceOK'
<1>0. /\ IInv /\ LockInv /\ OutsideOK /\ CallsOK /\ DeviceOK /\ SchedAssumption /\ User \subseteq Thread
      /\ pc = [u \in Thread |-> pc[u]]
  BY SchedAssumption, IdeAssumption DEF IdeInv, LocksOK, LockInv, LockType, IdeAssumption
<1>1. pc'[t] = p /\ \A u \in Thread : u # t => pc'[u] = pc[u]
  BY <1>0
<1>2. OutsideOK'
  BY <1>0, <1>1, OutsideStep
<1>3. \A u \in User : (pc'[u] \in Active <=> pc[u] \in Active) /\ (pc[u] \in Active => pc'[u] = pc[u])
  BY <1>0, <1>1
<1>4. CallsOK'
  <2>1. CASE p = pc[t]
    <3>1. pc' = pc
      BY <1>0, <2>1
    <3> QED
      BY <1>0, <3>1 DEF CallsOK
  <2>2. CASE p # pc[t]
    <3>1. t \in User \/ p \in Neutral
      BY <1>0, <2>2 DEF CallsOK
    <3>2. op \in Ops /\ lk' = lk
      BY <1>0 DEF CallsOK
    <3>3. p \notin Neutral \cup {"end", "clr", "up"} => op[t].left > 0
      BY <1>0, <2>2, <3>1 DEF CallsOK
    <3> QED
      BY <1>0, <2>2, <3>1, <3>2, <3>3, CallsStep
  <2> QED
    BY <2>1, <2>2
<1>5. DeviceOK'
  BY <1>0, <1>3, DeviceKept
<1> QED
  BY <1>2, <1>4, <1>5

LEMMA DriveReadyStep ==
  ASSUME IdeInv, DriveReady
  PROVE  [Next]_vars /\ LockInv' /\ OutsideOK' /\ CallsOK' /\ DeviceOK'
<1>0. /\ LockInv /\ CallsOK /\ DeviceOK /\ OutsideOK /\ DriveType
      /\ UNCHANGED <<value, waiters, holder, repeat, lk, pc, old, status, op, expecting, done, doneq>>
      /\ UNCHANGED vars
  BY DEF IdeInv, LocksOK, DeviceOK, DriveReady, syncVars, vars
<1>1. LockInv'
  BY <1>0, LockKept DEF LockInv, LockType, Kept
<1>2. OutsideOK' /\ CallsOK'
  BY <1>0 DEF OutsideOK, CallsOK
<1>3. /\ drive.st = "flush" => drive'.st = "idle"
      /\ drive.st = "busy" => drive'.st = "drq"
      /\ drive.st \in {"busy", "flush"} /\ drive'.kind = drive.kind /\ drive'.left = drive.left
      /\ \/ drive.st = "busy" /\ drive.kind = "write" /\ line' = line /\ irr' = irr
         \/ line' = TRUE /\ irr' = (irr \/ ~line)
  BY <1>0 DEF DriveReady, RaiseLine, DriveType
<1>4. DriveType'
  <2>1. drive' \in [st : {"idle", "busy", "drq", "flush"}, kind : {"read", "write"}, left : Nat]
    BY <1>0 DEF DriveReady, DriveType
  <2>2. line' \in BOOLEAN /\ irr' \in BOOLEAN
    BY <1>0, <1>3 DEF DriveType
  <2> QED
    BY <2>1, <2>2 DEF DriveType
<1>5. Told => Told' /\ (~(drive.st = "busy" /\ drive.kind = "write") /\ expecting = TRUE => irr' = TRUE)
  BY <1>0, <1>3 DEF Told, DriveType
<1>6. /\ Moved => Moved'
      /\ \A n : InHand(n) => InHand(n)'
      /\ Nothing => Nothing'
      /\ Awaited => Awaited'
  BY <1>0, <1>3 DEF Moved, InHand, Nothing, Awaited
<1>7. ASSUME NEW u \in User, pc[u] \in Active PROVE Serving(u)'
  <2>1. Serving(u)
    BY <1>0, <1>7 DEF DeviceOK
  <2>2. CASE pc[u] = "cmd"
    BY <1>0, <1>6, <2>1, <2>2 DEF Serving
  <2>3. CASE pc[u] \in {"downdone", "asleep"}
    <3>1. InSema(u) /\ drive.kind = op[u].kind
      BY <2>1, <2>3 DEF Serving
    <3>2. ~(drive.st = "busy" /\ drive.kind = "write")
      BY <3>1 DEF InSema, Moved
    <3>3. InSema(u)'
      BY <1>0, <1>5, <1>6, <3>1, <3>2 DEF InSema
    <3> QED
      BY <1>0, <1>3, <2>3, <3>1, <3>3 DEF Serving
  <2>4. CASE pc[u] \in {"poll", "nap", "data"}
    <3>1. Moving(u) /\ drive.kind = op[u].kind
      BY <2>1, <2>4 DEF Serving
    <3>2. Moving(u)'
      BY <1>0, <1>3, <1>5, <1>6, <3>1 DEF Moving, InHand
    <3> QED
      BY <1>0, <1>3, <2>4, <3>1, <3>2 DEF Serving
  <2>5. CASE pc[u] = "next"
    BY <1>0, <1>3, <1>6, <2>1, <2>5 DEF Serving
  <2> QED
    BY <1>7, <2>2, <2>3, <2>4, <2>5 DEF Active
<1>8. DeviceOK'
  BY <1>0, <1>4, <1>6, <1>7 DEF DeviceOK
<1> QED
  BY <1>0, <1>1, <1>2, <1>8

(* intr_hd_handler, when nobody expects an interrupt.                      *)
LEMMA DiskIntrIgnored ==
  ASSUME IdeInv, DiskIntr, expecting # TRUE
  PROVE  [Next]_vars /\ LockInv' /\ OutsideOK' /\ CallsOK' /\ DeviceOK'
<1>0. /\ LockInv /\ CallsOK /\ DeviceOK /\ OutsideOK /\ DriveType /\ panic = FALSE
  BY DEF IdeInv, LocksOK, DeviceOK, IInv, TypeOK
<1>1. expecting = FALSE
  <2>1. CASE \E u \in User : pc[u] \in Active
    BY <1>0, <2>1 DEF DeviceOK, Active, Serving, InSema, Moving, Awaited, Nothing
  <2>2. CASE \A u \in User : pc[u] \notin Active
    BY <1>0, <2>2 DEF DeviceOK, Nothing
  <2> QED
    BY <2>1, <2>2
<1>2. /\ intr /\ irr' = FALSE
      /\ UNCHANGED <<value, waiters, holder, repeat, lk, pc, old, op, intr, drive>>
      /\ UNCHANGED <<cur, status, ready, slice, saved, panic, expecting, done, doneq, line>>
      /\ idlepc' = IF idlepc = "halted" THEN "block" ELSE idlepc
  BY <1>1 DEF DiskIntr, lockVars
<1>3. LockInv' /\ OutsideOK' /\ CallsOK'
  <2>1. LockInv'
    BY <1>0, <1>2, LockKept DEF LockInv, LockType, Kept
  <2> QED
    BY <1>0, <1>2, <2>1 DEF OutsideOK, CallsOK
<1>4. DeviceOnly
  BY <1>0, <1>2 DEF DeviceOnly
<1>5. ASSUME NEW u \in User, pc[u] \in Active PROVE Serving(u)'
  <2>1. Serving(u)
    BY <1>0, <1>5 DEF DeviceOK
  <2> QED
    BY <1>1, <1>2, <2>1 DEF Serving, InSema, Moving, Awaited, Nothing, Told, InHand, Moved
<1>6. DeviceOK'
  BY <1>0, <1>2, <1>5 DEF DeviceOK, DriveType, Nothing, Moved
<1> QED
  BY <1>0, <1>3, <1>4, <1>6 DEF Next

(* intr_hd_handler, when somebody does: whatever the interrupt is about,   *)
(* disk_done is down, and if a thread sleeps it is the one that expects    *)
(* it.                                                                     *)
LEMMA DiskIntrAccepted ==
  ASSUME IdeInv, DiskIntr, expecting = TRUE
  PROVE  [Next]_vars /\ LockInv' /\ OutsideOK' /\ CallsOK' /\ DeviceOK'
<1>0. /\ LockInv /\ CallsOK /\ DeviceOK /\ OutsideOK /\ DriveType /\ IInv /\ SchedAssumption /\ panic = FALSE
      /\ status \in [Thread -> Status] /\ User \subseteq Thread \ {Idle} /\ cur \in Thread
      /\ intr = TRUE /\ irr = TRUE /\ irr' = FALSE
      /\ UNCHANGED <<value, waiters, holder, repeat, lk, pc, old, op, intr, drive>>
      /\ idlepc' = IF idlepc = "halted" THEN "block" ELSE idlepc
  BY SchedAssumption, IdeAssumption
     DEF IdeInv, LocksOK, DeviceOK, DriveType, IInv, TypeOK, DiskIntr, IdeAssumption, lockVars
<1>1. PICK t \in User : pc[t] \in Active /\ Own(pc[t]) /\ Serving(t)
  <2>1. PICK t \in User : pc[t] \in Active
    BY <1>0 DEF DeviceOK, Nothing
  <2> QED
    BY <1>0, <2>1 DEF DeviceOK, Active, Own, Neutral, Trying
<1>2. /\ Awaited /\ pc[t] # "next"
      /\ doneq = (IF pc[t] = "asleep" THEN <<t>> ELSE <<>>)
      /\ (pc[t] = "asleep" => status[t] = "BLOCKED")
  BY <1>1 DEF Serving, Active, InSema, Moving, Nothing, Awaited
<1>3. /\ done = 0 /\ expecting' = FALSE /\ done' = 1 /\ line' = FALSE
      /\ IF doneq = <<>>
         THEN panic' = (done # 0) /\ UNCHANGED <<cur, status, ready, slice, saved, doneq>>
         ELSE Unblock(Head(doneq), done = 0) /\ doneq' = Tail(doneq)
  BY <1>2 DEF Awaited, DiskIntr
<1>4. /\ Awaited' /\ Told'
      /\ Moved => Moved'
      /\ \A n : InHand(n) => InHand(n)'
  BY <1>0, <1>3 DEF Awaited, Told, Moved, InHand
<1>5. CallsOK' /\ DriveType'
  BY <1>0, <1>3 DEF CallsOK, DriveType
<1>6. pc' = [u \in Thread |-> pc'[u]] /\ old' \in [Thread -> BOOLEAN]
  BY <1>0 DEF LockInv, LockType
<1>7. ASSUME doneq' = <<>>, pc[t] = "asleep" => status'[t] # "BLOCKED" PROVE Serving(t)'
  <2>1. CASE pc[t] = "cmd"
    BY <1>0, <1>1, <1>4, <1>7, <2>1 DEF Serving
  <2>2. CASE pc[t] \in {"downdone", "asleep"}
    <3>1. InSema(t) /\ drive.kind = op[t].kind
      BY <1>1, <2>2 DEF Serving
    <3>2. InSema(t)'
      BY <1>0, <1>3, <1>4, <1>7, <3>1 DEF InSema
    <3> QED
      BY <1>0, <2>2, <3>1, <3>2 DEF Serving
  <2>3. CASE pc[t] \in {"poll", "nap", "data"}
    <3>1. Moving(t) /\ drive.kind = op[t].kind
      BY <1>1, <2>3 DEF Serving
    <3>2. op[t].kind # "read"
      BY <3>1 DEF Moving, Nothing
    <3>3. Moving(t)'
      BY <1>0, <1>3, <1>4, <1>7, <3>1, <3>2 DEF Moving, InHand
    <3> QED
      BY <1>0, <2>3, <3>1, <3>3 DEF Serving
  <2> QED
    BY <1>1, <1>2, <2>1, <2>2, <2>3 DEF Active
<1>8. CASE pc[t] # "asleep"
  <2>1. UNCHANGED <<cur, status, ready, slice, saved, doneq>> /\ doneq = <<>> /\ panic' = FALSE
    BY <1>2, <1>3, <1>8
  <2>2. LockInv'
    BY <1>0, <1>6, <2>1, LockKept DEF Kept
  <2>3. DeviceOnly
    BY <1>0, <2>1 DEF DeviceOnly
  <2>4. Serving(t)'
    BY <1>7, <1>8, <2>1
  <2>5. DeviceOK'
    BY <1>0, <1>1, <1>5, <2>4, DeviceStep
  <2>6. OutsideOK'
    BY <1>0, <2>1 DEF OutsideOK
  <2> QED
    BY <1>0, <1>5, <2>2, <2>3, <2>5, <2>6 DEF Next
<1>9. CASE pc[t] = "asleep"
  <2>1. doneq = <<t>> /\ Head(doneq) = t /\ Tail(doneq) = <<>> /\ status[t] = "BLOCKED"
    BY <1>2, <1>9
  <2>2. Unblock(t, TRUE) /\ doneq' = <<>>
    <3>1. (done = 0) = TRUE
      BY <1>3
    <3> QED
      BY <1>3, <2>1, <3>1
  <2>3. status' = [status EXCEPT ![t] = "READY"]
    BY <2>2 DEF Unblock
  <2>4. status'[t] = "READY" /\ \A u \in Thread : u # t => status'[u] = status[u]
    BY <1>0, <2>3
  <2>5. LockInv'
    <3>1. \A u \in Thread : pc[u] = "wait" => Kept(u)
      BY <1>9, <2>4 DEF Kept
    <3> QED
      BY <1>0, <1>6, <3>1, LockKept
  <2>6. DeviceIntr(t)
    BY <1>0, <2>2 DEF DeviceIntr
  <2>7. Device
    BY <1>0, <2>1, <2>6 DEF Device, Asleep
  <2>8. Serving(t)'
    BY <1>7, <2>2, <2>4
  <2>9. DeviceOK'
    BY <1>0, <1>1, <1>5, <2>8, DeviceStep
  <2>10. OutsideOK'
    BY <1>0, <1>9, <2>4 DEF OutsideOK
  <2> QED
    BY <1>0, <1>5, <2>5, <2>7, <2>9, <2>10 DEF Next
<1> QED
  BY <1>8, <1>9

(* ide_read and ide_write begin by taking the lock.                        *)
LEMMA CallStep ==
  ASSUME IdeInv, NEW t \in User, Call(t)
  PROVE  [Next]_vars /\ LockInv' /\ OutsideOK' /\ CallsOK' /\ DeviceOK'
<1>0. /\ LockInv /\ CallsOK /\ DeviceOK /\ OutsideOK /\ pc = [u \in Thread |-> pc[u]]
      /\ User \subseteq Thread \ {Idle} /\ Chan \in Lock /\ SecCnt \subseteq Nat \ {0}
      /\ status[t] = "RUNNING" /\ lk \in [Thread -> Lock]
  BY IdeAssumption
     DEF IdeInv, LocksOK, LockInv, LockType, IdeAssumption, Call, At, IInv, TypeOK
<1>1. PICK kind \in {"read", "write"}, n \in SecCnt :
        op' = [op EXCEPT ![t] = [kind |-> kind, left |-> n, now |-> 0]]
  BY DEF Call
<1>2. /\ pc[t] \in {"out", "sys"} /\ pc' = [pc EXCEPT ![t] = "acq"] /\ lk' = [lk EXCEPT ![t] = Chan]
      /\ UNCHANGED <<value, waiters, holder, repeat, old, status>> /\ UNCHANGED vars
      /\ UNCHANGED <<expecting, done, doneq, drive, line, irr>>
  BY DEF Call, Acquire, At, Caller, Goto, Run, lockVars, vars, driveVars
<1>3. /\ pc'[t] = "acq" /\ lk'[t] = Chan
      /\ \A u \in Thread : u # t => pc'[u] = pc[u] /\ lk'[u] = lk[u] /\ op'[u] = op[u]
  BY <1>0, <1>1, <1>2 DEF CallsOK
<1>4. LockInv'
  BY <1>0, <1>2, AcquireKeeps DEF Neutral
<1>5. op' \in Ops /\ op'[t].left > 0
  BY <1>0, <1>1 DEF CallsOK, Ops
<1>6. "acq" \notin Active /\ pc[t] \notin Active
  BY <1>2 DEF Active
<1>7. CallsOK'
  BY <1>0, <1>3, <1>5, <1>6 DEF CallsOK
<1>8. DeviceOK'
  <2>1. \A u \in User : /\ pc'[u] \in Active => pc[u] \in Active
                        /\ pc[u] \in Active => pc'[u] = pc[u] /\ op'[u] = op[u]
    BY <1>0, <1>3, <1>6
  <2> QED
    BY <1>0, <1>2, <2>1, DeviceKept DEF SleepKept, Kept
<1>9. OutsideOK'
  BY <1>0, <1>2, <1>3 DEF OutsideOK
<1> QED
  BY <1>2, <1>4, <1>7, <1>8, <1>9
-----------------------------------------------------------------------------
LEMMA IdeStepKeeps ==
  ASSUME IdeInv, [IdeNext]_ideVars
  PROVE  [Next]_vars /\ IdeInv'
<1>0. /\ LocksOK /\ IInv /\ LockInv /\ OutsideOK /\ SchedAssumption /\ pc[Idle] = "out"
      /\ pc = [u \in Thread |-> pc[u]] /\ cur \in Thread /\ CallsOK
  BY SchedAssumption DEF IdeInv, LocksOK, OutsideOK, LockInv, LockType, IInv, TypeOK
<1>1. ASSUME [Next]_vars, LockInv', OutsideOK', CallsOK', DeviceOK' PROVE [Next]_vars /\ IdeInv'
  <2>1. IInv'
    BY <1>0, <1>1, IInvNext
  <2> QED
    BY <1>1, <2>1 DEF IdeInv, LocksOK
<1>2. ASSUME LockInv', [Next]_vars, SleepKept,
             UNCHANGED <<lk, op, expecting, done, doneq, drive, line, irr>>, pc' = pc
      PROVE  [Next]_vars /\ IdeInv'
  <2>1. pc' = [pc EXCEPT ![cur] = pc[cur]]
    BY <1>0, <1>2
  <2> QED
    BY <1>0, <1>1, <1>2, <2>1, LockStepKeeps
<1>3. CASE UNCHANGED ideVars
  <2>1. /\ UNCHANGED <<value, waiters, holder, repeat, pc, lk, old, status>> /\ UNCHANGED vars
        /\ UNCHANGED <<op, expecting, done, doneq, drive, line, irr>>
    BY <1>3 DEF ideVars, syncVars, chanVars, vars
  <2>2. LockInv'
    BY <1>0, <2>1, LockKept DEF LockInv, LockType, Kept
  <2> QED
    BY <1>2, <2>1, <2>2 DEF SleepKept, Kept
<1>4. CASE ClockTick \/ IdleStep
  <2>1. /\ Tick \/ IdleBlock \/ IdleHalt
        /\ UNCHANGED <<lockVars, pc, lk, old, op, expecting, done, doneq, drive, line, irr>>
    BY <1>4 DEF ClockTick, IdleStep, chanVars, driveVars
  <2>2. LockInv' /\ [Next]_vars /\ SleepKept
    BY <1>0, <2>1, BackgroundStep
  <2> QED
    BY <1>2, <2>1, <2>2
<1>5. ASSUME NEW t \in Thread, OtherStep(t) PROVE [Next]_vars /\ IdeInv'
  <2>1. LockInv' /\ [Next]_vars /\ SleepKept
    BY <1>0, <1>5, PlainStep DEF OtherStep
  <2>2. /\ cur = t /\ t # Idle /\ pc[t] \in {"boot", "sys", "out"}
        /\ UNCHANGED <<lk, op, expecting, done, doneq, drive, line, irr>>
        /\ \E p \in {"sys", "out"} : pc' = [pc EXCEPT ![t] = p]
    BY <1>0, <1>5 DEF OtherStep, BootDone, SysEnter, SysExit, Fork, At, Goto, chanVars
  <2>3. PICK p \in {"sys", "out"} : pc' = [pc EXCEPT ![t] = p]
    BY <2>2
  <2>4. p \in Neutral /\ p \notin Active /\ pc[t] \notin Active \cup {"next", "end", "clr", "up"}
    BY <2>2, <2>3 DEF Neutral, Active
  <2>5. OutsideOK' /\ CallsOK' /\ DeviceOK'
    BY <2>1, <2>2, <2>3, <2>4, LockStepKeeps
  <2> QED
    BY <1>1, <2>1, <2>5
<1>6. ASSUME NEW t \in User, ChanLock(t) PROVE [Next]_vars /\ IdeInv'
  <2>1. t \in Thread /\ Own("end") /\ Caller(t) \in Neutral
    BY IdeAssumption DEF IdeAssumption, Own, Neutral, Trying, Caller
  <2>2. LockInv' /\ [Next]_vars /\ SleepKept
    BY <1>0, <1>6, <2>1, AcquireStep, ReleaseStep, SemaUpStep DEF ChanLock, SemaUp
  <2>3. PICK p \in {"down", "own", "wait", "got", "rep", "end", "clr", "up", "out", "sys"} :
          /\ cur = t /\ t # Idle /\ pc' = [pc EXCEPT ![t] = p]
          /\ pc[t] \in {"acq", "down", "wait", "got", "rep", "end", "clr", "up"}
          /\ p # pc[t] /\ pc[t] \in {"end", "clr", "up"} => p \in {"clr", "up", "out", "sys"}
          /\ UNCHANGED <<lk, op, expecting, done, doneq, drive, line, irr>>
    <3>1. /\ cur = t /\ t # Idle
          /\ pc[t] \in {"acq", "down", "wait", "got", "rep", "end", "clr", "up"}
          /\ UNCHANGED <<lk, op, expecting, done, doneq, drive, line, irr>>
      BY <1>6 DEF ChanLock, TestHolder, SemaDown, SemaDownAgain, SetHolder, SetRepeat, ReleaseAt,
                  ClearRepeat, SemaUp, SemaUpTo, At, chanVars
    <3>2. CASE pc[t] \notin {"end", "clr", "up"}
      <4>1. \E p \in {"down", "own", "wait", "got", "rep"} : pc' = [pc EXCEPT ![t] = p]
        BY <1>6, <3>2 DEF ChanLock, TestHolder, SemaDown, SemaDownAgain, Park, Decrement, SetHolder,
                          SetRepeat, ReleaseAt, ClearRepeat, SemaUp, SemaUpTo, At, Goto
      <4> QED
        BY <3>1, <3>2, <4>1
    <3>3. CASE pc[t] \in {"end", "clr", "up"}
      <4>1. pc' = pc \/ \E p \in {"clr", "up", "out", "sys"} : pc' = [pc EXCEPT ![t] = p]
        BY <1>6, <3>3 DEF ChanLock, TestHolder, SemaDown, SemaDownAgain, SetHolder,
                          SetRepeat, ReleaseAt, ClearRepeat, SemaUp, SemaUpTo, At, Goto, Caller
      <4>2. pc' = pc => pc' = [pc EXCEPT ![t] = pc[t]]
        BY <1>0
      <4> QED
        BY <3>1, <3>3, <4>1, <4>2
    <3> QED
      BY <3>2, <3>3
  <2>4. /\ p \notin Active /\ pc[t] \notin Active /\ pc[t] \notin Neutral
        /\ p = pc[t] \/ (pc[t] \in {"end", "clr", "up"} => p \in Neutral \cup {"end", "clr", "up"})
    BY <2>3 DEF Neutral, Active
  <2>5. OutsideOK' /\ CallsOK' /\ DeviceOK'
    BY <2>1, <2>2, <2>3, <2>4, LockStepKeeps
  <2> QED
    BY <1>1, <2>2, <2>5
<1>7. ASSUME NEW t \in User, Nap(t), ~ticked[t] PROVE [Next]_vars /\ IdeInv'
  <2>1. /\ cur = t /\ t # Idle /\ t \in Thread /\ Yield /\ UNCHANGED <<idlepc, lockVars, pc, lk, old>>
        /\ UNCHANGED <<op, expecting, done, doneq, drive, line, irr>>
    BY <1>7, IdeAssumption DEF Nap, At, chanVars, IdeAssumption
  <2>2. LockInv' /\ [Next]_vars /\ SleepKept
    BY <1>0, <2>1, YieldStep
  <2> QED
    BY <1>2, <2>1, <2>2
<1>8. ASSUME NEW t \in User, Select(t) \/ SendCommand(t) \/ DiskDone(t) \/ Poll(t) \/ Transfer(t)
             \/ NextChunk(t) \/ (Nap(t) /\ ticked[t]) \/ Call(t)
      PROVE  [Next]_vars /\ IdeInv'
  BY <1>1, <1>8, SelectStep, SendStep, DiskDoneGoes, DiskDoneSleeps, PollStep, NapStep, TransferGoesOn,
     TransferEnds, NextChunkStep, CallStep
<1>9. CASE DriveReady
  BY <1>1, <1>9, DriveReadyStep
<1>10. CASE DiskIntr
  <2>1. CASE expecting = TRUE
    BY <1>1, <1>10, <2>1, DiskIntrAccepted
  <2>2. CASE expecting # TRUE
    BY <1>1, <1>10, <2>2, DiskIntrIgnored
  <2> QED
    BY <2>1, <2>2
<1> QED
  BY <1>3, <1>4, <1>5, <1>6, <1>7, <1>8, <1>9, <1>10 DEF IdeNext, DiskStep

LEMMA IdeInvInit == IdeInit => IdeInv
<1> SUFFICES ASSUME IdeInit PROVE IdeInv
  OBVIOUS
<1>1. SyncInv
  BY SyncInvInit DEF IdeInit
<1>2. \A t \in Thread : pc[t] \in Neutral /\ pc[t] \notin Active
  BY DEF IdeInit, SyncInit, Neutral, Active
<1>3. CallsOK
  BY <1>2, IdeAssumption DEF IdeInit, CallsOK, IdeAssumption, Ops, NoCall
<1>4. DeviceOK
  BY <1>2, IdeAssumption DEF IdeInit, DeviceOK, DriveType, Nothing, Moved, IdeAssumption
<1> QED
  BY <1>1, <1>3, <1>4 DEF IdeInv, LocksOK, SyncInv

(* IdeInv holds in every reachable state.                                  *)
THEOREM IdeInvariant == IdeSpec => []IdeInv
<1>1. IdeInv /\ [IdeNext]_ideVars => IdeInv'
  BY IdeStepKeeps
<1> QED
  BY <1>1, IdeInvInit, PTL DEF IdeSpec

(* ide_read and ide_write move data only while the drive is ready for the  *)
(* data of this command, and a command is over only when all its sectors   *)
(* have passed.                                                            *)
THEOREM IdeReturnsWhenDone == IdeSpec => []ReturnsWhenDone
<1>1. ASSUME IdeInv PROVE ReturnsWhenDone
  <2> SUFFICES ASSUME NEW t \in User
               PROVE  /\ pc[t] = "data" => /\ drive.st = "drq" /\ drive.kind = op[t].kind
                                           /\ drive.left \in 1..op[t].now
                      /\ pc[t] = "next" =>
                           /\ drive.kind = op[t].kind /\ drive.left = 0
                           /\ drive.st \in IF drive.kind = "read" THEN {"idle"} ELSE {"idle", "flush"}
    BY DEF ReturnsWhenDone
  <2>1. pc[t] \in Active => Serving(t)
    BY <1>1 DEF IdeInv, DeviceOK
  <2>2. ASSUME pc[t] = "data"
        PROVE  drive.st = "drq" /\ drive.kind = op[t].kind /\ drive.left \in 1..op[t].now
    BY <2>1, <2>2 DEF Active, Serving, Moving, InHand
  <2>3. ASSUME pc[t] = "next"
        PROVE  /\ drive.kind = op[t].kind /\ drive.left = 0
               /\ drive.st \in IF drive.kind = "read" THEN {"idle"} ELSE {"idle", "flush"}
    BY <2>1, <2>3 DEF Active, Serving, Moved
  <2> QED
    BY <2>2, <2>3
<1> QED
  BY <1>1, IdeInvariant, PTL

(* The wakeup that a thread sleeps for on disk_done is still to come.      *)
THEOREM IdeSleeperIsServed == IdeSpec => []SleeperIsServed
<1>1. ASSUME IdeInv PROVE SleeperIsServed
  <2> SUFFICES ASSUME NEW t \in User, pc[t] = "asleep", status[t] = "BLOCKED"
               PROVE  /\ expecting /\ done = 0
                      /\ irr \/ drive.st \in {"busy", "flush"}
    BY DEF SleeperIsServed
  <2>1. InSema(t)
    BY <1>1 DEF IdeInv, DeviceOK, Active, Serving
  <2>2. done = 0 /\ expecting = TRUE /\ (irr = TRUE \/ drive.st \in {"busy", "flush"})
    BY <2>1 DEF InSema, Awaited
  <2> QED
    BY <2>2
<1> QED
  BY <1>1, IdeInvariant, PTL

(* No ASSERT of sync.c or thread.c fails under the driver, and busy_wait   *)
(* never ends without data.                                                *)
THEOREM IdeNoPanic == IdeSpec => []NoPanic
<1>1. IdeInv => NoPanic
  BY DEF IdeInv, LocksOK, IInv, NoPanic
<1> QED
  BY <1>1, IdeInvariant, PTL

(* The driver and its interrupt use the scheduler as it is.                *)
THEOREM IdeImplementsSched == IdeSpec => ImplementsSched
<1>1. IdeInit => Init
  BY DEF IdeInit, SyncInit
<1>2. IdeInv /\ [IdeNext]_ideVars => [Next]_vars
  BY IdeStepKeeps
<1> QED
  BY <1>1, <1>2, IdeInvariant, PTL DEF IdeSpec, ImplementsSched, Spec
-----------------------------------------------------------------------------
(***************************************************************************)
(* The keyboard's ring buffer, for any size of the ring, any characters    *)
(* and any number of readers.  The cursors stay inside the ring, so the    *)
(* ring is a sequence that ioq_putchar extends at its end and ioq_getchar  *)
(* shortens at its front; nothing about the lock is needed for that, since *)
(* a reader has interrupts off while it takes a character.                 *)
(***************************************************************************)

Slots == 0..(bufsize - 1)

RingInv ==
  /\ buf \in [Slots -> Byte]
  /\ head \in Slots /\ tail \in Slots
  /\ put \in Seq(Byte) /\ got \in Seq(Byte)
  /\ FirstInFirstOut

(* Where a cursor gets to, without the remainder.                          *)
Wrap(p) == IF p < bufsize THEN p ELSE p - bufsize

LEMMA Remainder ==
  ASSUME NEW n \in Nat, n > 0, NEW p \in 0..(2 * n - 1)
  PROVE  p % n = IF p < n THEN p ELSE p - n
OBVIOUS

LEMMA NextPos == 
  ASSUME NEW p \in Slots
  PROVE  next_pos(p) = (IF p = bufsize - 1 THEN 0 ELSE p + 1) /\ next_pos(p) \in Slots
<1>1. bufsize \in Nat /\ bufsize > 1
  BY IoQueueAssumption DEF IoQueueAssumption
<1>2. p + 1 \in 0..(2 * bufsize - 1) /\ p \in 0..(bufsize - 1)
  BY <1>1 DEF Slots
<1>3. (p + 1) % bufsize = IF p + 1 < bufsize THEN p + 1 ELSE p + 1 - bufsize
  BY <1>1, <1>2, Remainder
<1> QED
  BY <1>1, <1>2, <1>3 DEF next_pos, Slots

(* The number of characters in the ring, and the one in each place.        *)
Between(h, t) == IF t <= h THEN h - t ELSE h - t + bufsize

Chars(h, t)   == (h + bufsize - t) % bufsize
Ring(b, h, t) == [i \in 1..Chars(h, t) |-> b[(t + i - 1) % bufsize]]

LEMMA ContentsIs ==
  ASSUME NEW b \in [Slots -> Byte], NEW h \in Slots, NEW t \in Slots
  PROVE  /\ Chars(h, t) = Between(h, t) /\ Chars(h, t) \in Slots
         /\ Ring(b, h, t) \in Seq(Byte) /\ Len(Ring(b, h, t)) = Chars(h, t)
         /\ \A i \in 1..Chars(h, t) : Ring(b, h, t)[i] = b[Wrap(t + i - 1)] /\ Wrap(t + i - 1) \in Slots
<1>1. bufsize \in Nat /\ bufsize > 1
  BY IoQueueAssumption DEF IoQueueAssumption
<1>2. h \in 0..(bufsize - 1) /\ t \in 0..(bufsize - 1) /\ h \in Int /\ t \in Int
  BY <1>1 DEF Slots
<1>3. h + bufsize - t \in 0..(2 * bufsize - 1)
  BY <1>1, <1>2
<1>4. Chars(h, t) = Between(h, t)
  <2> DEFINE n == h + bufsize - t
  <2>1. n \in 0..(2 * bufsize - 1) => n % bufsize = IF n < bufsize THEN n ELSE n - bufsize
    <3> HIDE DEF n
    <3> QED
      BY <1>1, Remainder
  <2>2. Chars(h, t) = n % bufsize
    BY DEF Chars
  <2> QED
    BY <1>1, <1>2, <1>3, <2>1, <2>2 DEF Between
<1>5. Chars(h, t) \in Slots
  BY <1>1, <1>2, <1>4 DEF Between, Slots
<1>6. ASSUME NEW i \in 1..Chars(h, t)
      PROVE  b[(t + i - 1) % bufsize] = b[Wrap(t + i - 1)] /\ Wrap(t + i - 1) \in Slots
  <2>1. t + i - 1 \in 0..(2 * bufsize - 1)
    BY <1>1, <1>2, <1>5 DEF Slots
  <2>2. (t + i - 1) % bufsize = Wrap(t + i - 1)
    BY <1>1, <2>1, Remainder DEF Wrap
  <2> QED
    BY <1>1, <2>1, <2>2 DEF Wrap, Slots
<1>7. Chars(h, t) \in Nat
  BY <1>1, <1>5 DEF Slots
<1>8. /\ Ring(b, h, t) = [i \in 1..Chars(h, t) |-> b[Wrap(t + i - 1)]]
      /\ \A i \in 1..Chars(h, t) : b[Wrap(t + i - 1)] \in Byte
  BY <1>6 DEF Ring
<1>9. Ring(b, h, t) \in Seq(Byte) /\ Len(Ring(b, h, t)) = Chars(h, t)
  BY <1>7, <1>8
<1> QED
  BY <1>4, <1>5, <1>6, <1>8, <1>9

LEMMA ContentsAre ==
  /\ Count = Chars(head, tail)
  /\ Contents = Ring(buf, head, tail)
BY DEF Count, Contents, Chars, Ring

LEMMA TakeFirst ==
  ASSUME NEW g \in Seq(Byte), NEW c \in Seq(Byte), NEW d \in Seq(Byte), Len(c) = Len(d) + 1,
         \A i \in 1..Len(d) : d[i] = c[i + 1]
  PROVE  Append(g, c[1]) \o d = g \o c
<1>1. c[1] \in Byte /\ <<c[1]>> \in Seq(Byte) /\ Append(g, c[1]) = g \o <<c[1]>>
  BY AppendIsConcat
<1>2. <<c[1]>> \o d = c
  <2>1. /\ <<c[1]>> \o d \in Seq(Byte) /\ Len(<<c[1]>> \o d) = Len(c)
        /\ \A i \in 1..Len(c) : (<<c[1]>> \o d)[i] = IF i = 1 THEN c[1] ELSE d[i - 1]
    BY <1>1, ConcatProperties
  <2>2. \A i \in 1..Len(c) : i # 1 => i - 1 \in 1..Len(d) /\ (i - 1) + 1 = i
    OBVIOUS
  <2>3. \A i \in 1..Len(c) : (<<c[1]>> \o d)[i] = c[i]
    BY <2>1, <2>2
  <2> QED
    BY <2>1, <2>3, SeqEqual
<1>3. (g \o <<c[1]>>) \o d = g \o (<<c[1]>> \o d)
  BY <1>1, ConcatAssociative
<1> QED
  BY <1>1, <1>2, <1>3

LEMMA PutLast ==
  ASSUME NEW g \in Seq(Byte), NEW c \in Seq(Byte), NEW d \in Seq(Byte), NEW k \in Byte,
         Len(d) = Len(c) + 1, d[Len(d)] = k, \A i \in 1..Len(c) : d[i] = c[i]
  PROVE  g \o d = Append(g \o c, k)
<1>1. d = Append(c, k)
  <2>1. Append(c, k) \in Seq(Byte) /\ Len(Append(c, k)) = Len(d)
    BY AppendProperties
  <2>2. \A i \in 1..Len(d) : d[i] = Append(c, k)[i]
    BY AppendProperties
  <2> QED
    BY <2>1, <2>2, SeqEqual
<1>2. <<k>> \in Seq(Byte) /\ Append(c, k) = c \o <<k>>
  BY AppendIsConcat
<1>3. g \o c \in Seq(Byte)
  BY ConcatProperties
<1>4. Append(g \o c, k) = (g \o c) \o <<k>>
  BY <1>3, AppendIsConcat
<1>5. (g \o c) \o <<k>> = g \o (c \o <<k>>)
  <2> DEFINE e == <<k>>
  <2>1. e \in Seq(Byte) => (g \o c) \o e = g \o (c \o e)
    <3> HIDE DEF e
    <3> QED
      BY ConcatAssociative
  <2> QED
    BY <1>2, <2>1
<1> QED
  BY <1>1, <1>2, <1>4, <1>5

(* ioq_getchar takes the first character of the ring.  Here and below, c   *)
(* and d are the contents before and after the step, m and n their length. *)
LEMMA TakeByteKeeps ==
  ASSUME RingInv, NEW t, TakeByte(t)
  PROVE  RingInv'
<1>a. SUFFICES ASSUME NEW m, m = Count, NEW n, n = Count',
                      NEW c, c = Contents, NEW d, d = Contents',
                      NEW h, h = head', NEW l, l = tail', NEW b, b = buf'
               PROVE  RingInv'
  OBVIOUS
<1>0. /\ bufsize \in Nat /\ bufsize > 1
      /\ buf \in [Slots -> Byte] /\ head \in Slots /\ tail \in Slots
      /\ put \in Seq(Byte) /\ got \in Seq(Byte) /\ got \o c = put
  BY <1>a, IoQueueAssumption DEF IoQueueAssumption, RingInv, FirstInFirstOut
<1>1. /\ head # tail /\ got' = Append(got, buf[tail]) /\ l = next_pos(tail)
      /\ UNCHANGED <<buf, head, put>>
  BY <1>a DEF TakeByte, ioq_empty
<1>2. l = (IF tail = bufsize - 1 THEN 0 ELSE tail + 1) /\ l \in Slots
  BY <1>0, <1>1, NextPos
<1>3. /\ m = Between(head, tail) /\ c \in Seq(Byte) /\ Len(c) = m
      /\ \A i \in 1..m : c[i] = buf[Wrap(tail + i - 1)]
  BY <1>a, <1>0, ContentsIs, ContentsAre
<1>4. /\ n = Between(head, l) /\ d \in Seq(Byte) /\ Len(d) = n
      /\ \A i \in 1..n : d[i] = buf[Wrap(l + i - 1)]
  <2>1. b \in [Slots -> Byte] /\ h \in Slots /\ l \in Slots
    BY <1>a, <1>0, <1>1, <1>2
  <2>2. n = Chars(h, l) /\ d = Ring(b, h, l)
    BY <1>a DEF Count, Contents, Chars, Ring
  <2>3. /\ Chars(h, l) = Between(h, l)
        /\ Ring(b, h, l) \in Seq(Byte) /\ Len(Ring(b, h, l)) = Chars(h, l)
        /\ \A i \in 1..Chars(h, l) : Ring(b, h, l)[i] = b[Wrap(l + i - 1)]
    BY <2>1, ContentsIs
  <2> QED
    BY <1>a, <1>1, <2>2, <2>3
<1>5. m = n + 1 /\ n \in Nat /\ m \in Nat
  BY <1>0, <1>1, <1>2, <1>3, <1>4 DEF Between, Slots
<1>6. ASSUME NEW i \in 1..n PROVE d[i] = c[i + 1]
  <2>1. Wrap(l + i - 1) = Wrap(tail + (i + 1) - 1)
    BY <1>0, <1>1, <1>2, <1>3, <1>4, <1>5 DEF Between, Slots, Wrap
  <2>2. i \in 1..m /\ i + 1 \in 1..m
    BY <1>5
  <2> QED
    BY <1>3, <1>4, <1>5, <2>1, <2>2
<1>7. c[1] = buf[tail]
  <2>1. 1 \in 1..m /\ tail + 1 - 1 = tail /\ Wrap(tail) = tail
    BY <1>0, <1>5 DEF Wrap, Slots
  <2> QED
    BY <1>3, <2>1
<1>8. Append(got, c[1]) \o d = got \o c
  <2>1. Len(c) = Len(d) + 1 /\ \A i \in 1..Len(d) : d[i] = c[i + 1]
    BY <1>3, <1>4, <1>5, <1>6
  <2> QED
    BY <1>0, <1>3, <1>4, <2>1, TakeFirst
<1>9. got' \in Seq(Byte)
  BY <1>0, <1>1
<1> QED
  BY <1>a, <1>0, <1>1, <1>2, <1>7, <1>8, <1>9 DEF RingInv, FirstInFirstOut

(* ioq_putchar puts a character behind the last one.                       *)
LEMMA KeyboardKeeps ==
  ASSUME RingInv, NEW k \in Byte, Keyboard(k), ~ioq_full
  PROVE  RingInv'
<1>a. SUFFICES ASSUME NEW m, m = Count, NEW n, n = Count',
                      NEW c, c = Contents, NEW d, d = Contents',
                      NEW h, h = head', NEW l, l = tail', NEW b, b = buf'
               PROVE  RingInv'
  OBVIOUS
<1>0. /\ bufsize \in Nat /\ bufsize > 1
      /\ buf \in [Slots -> Byte] /\ head \in Slots /\ tail \in Slots
      /\ put \in Seq(Byte) /\ got \in Seq(Byte) /\ got \o c = put
  BY <1>a, IoQueueAssumption DEF IoQueueAssumption, RingInv, FirstInFirstOut
<1>1. /\ b = [buf EXCEPT ![head] = k] /\ h = next_pos(head)
      /\ put' = Append(put, k) /\ UNCHANGED <<tail, got>> /\ next_pos(head) # tail
  BY <1>a DEF Keyboard, ioq_full
<1>2. h = (IF head = bufsize - 1 THEN 0 ELSE head + 1) /\ h \in Slots
  BY <1>0, <1>1, NextPos
<1>3. /\ m = Between(head, tail) /\ c \in Seq(Byte) /\ Len(c) = m
      /\ \A i \in 1..m : c[i] = buf[Wrap(tail + i - 1)] /\ Wrap(tail + i - 1) \in Slots
  BY <1>a, <1>0, ContentsIs, ContentsAre
<1>4. /\ n = Between(h, tail) /\ d \in Seq(Byte) /\ Len(d) = n
      /\ \A i \in 1..n : d[i] = b[Wrap(tail + i - 1)]
  <2>1. b \in [Slots -> Byte] /\ h \in Slots /\ l \in Slots
    BY <1>a, <1>0, <1>1, <1>2
  <2>2. n = Chars(h, l) /\ d = Ring(b, h, l)
    BY <1>a DEF Count, Contents, Chars, Ring
  <2>3. /\ Chars(h, l) = Between(h, l)
        /\ Ring(b, h, l) \in Seq(Byte) /\ Len(Ring(b, h, l)) = Chars(h, l)
        /\ \A i \in 1..Chars(h, l) : Ring(b, h, l)[i] = b[Wrap(l + i - 1)]
    BY <2>1, ContentsIs
  <2> QED
    BY <1>a, <1>1, <2>2, <2>3
<1>5. n = m + 1 /\ m \in Nat
  <2>1. m = Between(head, tail) /\ n = Between(h, tail)
    BY <1>3, <1>4
  <2>2. head \in 0..(bufsize - 1) /\ tail \in 0..(bufsize - 1) /\ h # tail
    BY <1>0, <1>1, <1>2, NextPos DEF Slots
  <2> QED
    BY <1>0, <1>2, <2>1, <2>2 DEF Between
<1>6. ASSUME NEW i \in 1..m PROVE d[i] = c[i]
  <2>1. Wrap(tail + i - 1) # head
    BY <1>0, <1>3, <1>5 DEF Between, Slots, Wrap
  <2> QED
    BY <1>0, <1>1, <1>3, <1>4, <1>5, <2>1
<1>7. d[n] = k
  <2>1. Wrap(tail + n - 1) = head
    BY <1>0, <1>3, <1>5 DEF Between, Slots, Wrap
  <2> QED
    BY <1>0, <1>1, <1>4, <1>5, <2>1
<1>8. got \o d = Append(got \o c, k)
  <2>1. /\ Len(d) = Len(c) + 1 /\ d[Len(d)] = k
        /\ \A i \in 1..Len(c) : d[i] = c[i]
    BY <1>3, <1>4, <1>5, <1>6, <1>7
  <2> QED
    BY <1>0, <1>3, <1>4, <2>1, PutLast
<1>9. put' \in Seq(Byte) /\ b \in [Slots -> Byte]
  BY <1>0, <1>1
<1> QED
  BY <1>a, <1>0, <1>1, <1>2, <1>8, <1>9 DEF RingInv, FirstInFirstOut

LEMMA RingInvInit == IoQueueInit => RingInv
<1> SUFFICES ASSUME IoQueueInit PROVE RingInv
  OBVIOUS
<1>1. /\ bufsize \in Nat /\ bufsize > 1
      /\ buf \in [Slots -> Byte] /\ head = 0 /\ tail = 0 /\ put = <<>> /\ got = <<>>
  BY IoQueueAssumption DEF IoQueueAssumption, IoQueueInit, Slots
<1>2. head \in Slots /\ tail \in Slots
  BY <1>1 DEF Slots
<1>3. Count = 0 /\ Contents \in Seq(Byte) /\ Len(Contents) = Count
  BY <1>1, <1>2, ContentsIs, ContentsAre DEF Between
<1>4. Contents = <<>>
  BY <1>3
<1> QED
  BY <1>1, <1>2, <1>4 DEF RingInv, FirstInFirstOut

LEMMA RingInvNext == RingInv /\ [IoQueueNext]_ioqVars => RingInv'
<1> SUFFICES ASSUME RingInv, [IoQueueNext]_ioqVars PROVE RingInv'
  OBVIOUS
<1>1. CASE UNCHANGED <<buf, head, tail, put, got>>
  BY <1>1 DEF RingInv, FirstInFirstOut, Contents, Count
<1>2. ASSUME NEW t, TakeByte(t) PROVE RingInv'
  BY <1>2, TakeByteKeeps
<1>3. ASSUME NEW k \in Byte, Keyboard(k), ~ioq_full PROVE RingInv'
  BY <1>3, KeyboardKeeps
<1>4. ASSUME NEW k \in Byte, Keyboard(k), ioq_full PROVE RingInv'
  BY <1>1, <1>4 DEF Keyboard, ringVars
<1> QED
  BY <1>1, <1>2, <1>3, <1>4 DEF IoQueueNext, ReaderStep, ReadChar, FindEmpty, IoqWait, AfterWait,
     AcquireQueue, AwayStep, ringVars, ioqVars

(* Characters are read in the order in which they were put into the queue, *)
(* none twice and none lost, whoever reads them and however often the      *)
(* cursors wrap around; and no cursor leaves the buffer.                   *)
THEOREM IoQueueFifo == IoQueueSpec => []FirstInFirstOut
<1>1. RingInv => FirstInFirstOut
  BY DEF RingInv
<1> QED
  BY <1>1, RingInvInit, RingInvNext, PTL DEF IoQueueSpec
-----------------------------------------------------------------------------
(* The readers and the lock.  ioq_wait puts its caller to sleep with the   *)
(* lock held, so there is one consumer at most, and the field is reset by  *)
(* whoever wakes it.                                                       *)
ConsumerOK ==
  /\ consumer \in Thread \cup {NoThread}
  /\ \A t \in Thread : consumer = t <=> pc[t] = "ioq" /\ status[t] = "BLOCKED"
  /\ \A t \in Thread : pc[t] \notin Neutral => lk[t] = QLock

QueueInv == LocksOK /\ ConsumerOK

(* Steps that leave the consumer field, the sleepers and lk alone.         *)
LEMMA ConsumerKept ==
  ASSUME QueueInv, SleepKept, UNCHANGED <<consumer, lk>>, NEW t \in Thread,
         \A u \in Thread : u # t => pc'[u] = pc[u],
         \/ pc'[t] = pc[t]
         \/ pc'[t] # "ioq" /\ (pc[t] # "ioq" \/ status[t] # "BLOCKED"),
         pc[t] \in Neutral => pc'[t] \in Neutral
  PROVE  ConsumerOK'
<1>1. \A u \in Thread : (pc'[u] = "ioq" /\ status'[u] = "BLOCKED")
                           <=> (pc[u] = "ioq" /\ status[u] = "BLOCKED")
  BY DEF SleepKept, Kept
<1>2. \A u \in Thread : pc'[u] \notin Neutral => pc[u] \notin Neutral
  OBVIOUS
<1> QED
  BY <1>1, <1>2 DEF QueueInv, ConsumerOK

LEMMA IoqWaitStep ==
  ASSUME QueueInv, NEW t \in Thread, IoqWait(t)
  PROVE  LockInv' /\ [Next]_vars /\ ConsumerOK'
<1>0. /\ IInv /\ LockInv /\ pc[Idle] = "out" /\ SchedAssumption /\ NoThread \notin Thread
      /\ pc = [u \in Thread |-> pc[u]] /\ old \in [Thread -> BOOLEAN] /\ ~panic
  BY SchedAssumption, SyncAssumption DEF QueueInv, LocksOK, OutsideOK, LockInv, LockType, IInv, SyncAssumption
<1>1. /\ cur = t /\ t # Idle /\ pc[t] = "own" /\ consumer' = t /\ pc' = [pc EXCEPT ![t] = "ioq"]
      /\ UNCHANGED <<idlepc, value, waiters, holder, repeat, lk, old>>
      /\ Block("BLOCKED", FALSE, consumer = NoThread)
  BY DEF IoqWait, At, Goto, lockVars
<1>2. consumer = NoThread
  <2> SUFFICES ASSUME consumer \in Thread PROVE FALSE
    BY DEF QueueInv, ConsumerOK
  <2>1. pc[consumer] = "ioq" /\ lk[consumer] = QLock /\ lk[t] = QLock
    BY <1>1 DEF QueueInv, ConsumerOK, Neutral
  <2>2. Holds(consumer, QLock) /\ Holds(t, QLock) /\ QLock \in Lock
    BY <1>1, <2>1, IoQueueAssumption DEF Holds, Neutral, Trying, IoQueueAssumption
  <2> QED
    BY <1>0, <1>1, <2>1, <2>2 DEF LockInv, OneHolds
<1>3. Block("BLOCKED", FALSE, TRUE)
  <2>1. (consumer = NoThread) = TRUE
    BY <1>2
  <2> QED
    BY <1>1, <2>1
<1>4. [Next]_vars
  BY <1>0, <1>1, <1>3 DEF Next, ClientBlock, Client
<1>5. (\A u \in Thread : u # t /\ pc[u] # "out" => Kept(u)) /\ status'[t] = "BLOCKED"
  BY <1>0, <1>1, <1>3, BlockKeeps
<1>6. pc' = [u \in Thread |-> pc'[u]] /\ pc'[t] = "ioq" /\ \A u \in Thread : u # t => pc'[u] = pc[u]
  BY <1>0, <1>1
<1>7. LockInv'
  <2>1. Own(pc[t]) /\ Own(pc'[t])
    BY <1>1, <1>6 DEF Own, Neutral, Trying
  <2>2. \A u \in Thread : pc[u] = "wait" => Kept(u)
    BY <1>1, <1>5
  <2> QED
    BY <1>0, <1>1, <1>6, <2>1, <2>2, LockKept
<1>8. ConsumerOK'
  <2>1. \A u \in Thread : u # t => ~(pc[u] = "ioq" /\ status[u] = "BLOCKED")
    BY <1>0, <1>2 DEF QueueInv, ConsumerOK
  <2>2. \A u \in Thread : u # t => ~(pc'[u] = "ioq" /\ status'[u] = "BLOCKED")
    BY <1>5, <1>6, <2>1 DEF Kept
  <2> QED
    BY <1>1, <1>5, <1>6, <2>2 DEF QueueInv, ConsumerOK, Neutral
<1> QED
  BY <1>4, <1>7, <1>8

LEMMA KeyboardStep ==
  ASSUME QueueInv, NEW k, Keyboard(k)
  PROVE  LockInv' /\ [Next]_vars /\ ConsumerOK'
<1>0. /\ IInv /\ LockInv /\ pc[Idle] = "out" /\ SchedAssumption /\ NoThread \notin Thread
      /\ pc = [u \in Thread |-> pc[u]] /\ old \in [Thread -> BOOLEAN] /\ ~panic
      /\ status \in [Thread -> Status]
  BY SchedAssumption, SyncAssumption
     DEF QueueInv, LocksOK, OutsideOK, LockInv, LockType, IInv, TypeOK, SyncAssumption
<1>1. UNCHANGED <<value, waiters, holder, repeat, pc, lk, old, intr>>
  BY DEF Keyboard, lockVars
<1>2. CASE ioq_full \/ consumer = NoThread
  <2>1. UNCHANGED <<cur, status, ready, slice, saved, panic, consumer>>
    BY <1>2 DEF Keyboard, ringVars
  <2>2. LockInv'
    BY <1>0, <1>1, <2>1, LockKept DEF Kept
  <2>3. ConsumerOK'
    BY <1>1, <2>1 DEF QueueInv, ConsumerOK
  <2>4. DeviceOnly
    BY <1>1, <2>1 DEF Keyboard, DeviceOnly
  <2> QED
    BY <1>0, <2>2, <2>3, <2>4 DEF Next
<1>3. CASE ~ioq_full /\ consumer # NoThread
  <2>1. /\ consumer \in Thread /\ pc[consumer] = "ioq" /\ status[consumer] = "BLOCKED"
        /\ consumer' = NoThread /\ Unblock(consumer, TRUE)
    BY <1>3 DEF QueueInv, ConsumerOK, Keyboard
  <2>2. status' = [status EXCEPT ![consumer] = "READY"]
    BY <2>1 DEF Unblock
  <2>3. \A u \in Thread : u # consumer => status'[u] = status[u]
    BY <1>0, <2>2
  <2>4. LockInv'
    <3>1. \A u \in Thread : pc[u] = "wait" => Kept(u)
      BY <2>1, <2>3 DEF Kept
    <3> QED
      BY <1>0, <1>1, <3>1, LockKept
  <2>5. ConsumerOK'
    BY <1>0, <1>1, <2>1, <2>2, <2>3 DEF QueueInv, ConsumerOK
  <2>6. DeviceIntr(consumer) /\ consumer # Idle /\ status[consumer] \in Asleep
    BY <1>0, <1>1, <2>1 DEF DeviceIntr, Keyboard, Asleep
  <2>7. Device
    BY <2>1, <2>6 DEF Device
  <2> QED
    BY <1>0, <2>4, <2>5, <2>7 DEF Next
<1> QED
  BY <1>2, <1>3

LEMMA QueueStep ==
  ASSUME QueueInv, [IoQueueNext]_ioqVars
  PROVE  [Next]_vars /\ QueueInv'
<1>0. /\ LocksOK /\ IInv /\ LockInv /\ OutsideOK /\ SchedAssumption /\ pc[Idle] = "out"
      /\ pc = [u \in Thread |-> pc[u]] /\ old \in [Thread -> BOOLEAN] /\ cur \in Thread
      /\ lk \in [Thread -> Lock] /\ status[cur] = "RUNNING"
  BY SchedAssumption DEF QueueInv, LocksOK, OutsideOK, LockInv, LockType, IInv, TypeOK
<1> DEFINE Moves == /\ \A u \in Thread : u # cur => pc'[u] = pc[u]
                    /\ cur = Idle => pc'[Idle] = pc[Idle]
<1>1. ASSUME [Next]_vars, LockInv', ConsumerOK', Moves PROVE [Next]_vars /\ QueueInv'
  <2>1. OutsideOK'
    BY <1>0, <1>1, OutsideStep
  <2>2. IInv'
    BY <1>0, <1>1, IInvNext
  <2> QED
    BY <1>1, <2>1, <2>2 DEF QueueInv, LocksOK
<1>2. ASSUME UNCHANGED <<value, waiters, holder, repeat, lk, pc, old, status, consumer>>, UNCHANGED vars
      PROVE  LockInv' /\ ConsumerOK' /\ Moves
  <2>1. LockInv'
    BY <1>0, <1>2, LockKept DEF Kept
  <2>2. ConsumerOK'
    BY <1>2 DEF QueueInv, ConsumerOK
  <2> QED
    BY <1>2, <2>1, <2>2
<1>3. CASE UNCHANGED ioqVars
  BY <1>1, <1>2, <1>3 DEF ioqVars, syncVars, ringVars, vars
<1>4. CASE Background /\ UNCHANGED ringVars
  <2>1. UNCHANGED <<pc, lk, consumer>>
    BY <1>4 DEF Background, ringVars
  <2>2. LockInv' /\ [Next]_vars /\ SleepKept
    BY <1>0, <1>4, BackgroundStep DEF Background
  <2>3. ConsumerOK'
    BY <1>0, <2>1, <2>2, ConsumerKept
  <2> QED
    BY <1>1, <2>1, <2>2, <2>3
<1>5. ASSUME NEW k \in Byte, Keyboard(k) PROVE [Next]_vars /\ QueueInv'
  <2>1. pc' = pc
    BY <1>5 DEF Keyboard
  <2> QED
    BY <1>1, <1>5, <2>1, KeyboardStep
<1>6. ASSUME NEW t \in Thread, cur = t, t # Idle, NEW p, pc' = [pc EXCEPT ![t] = p],
             UNCHANGED <<consumer, lk>>, LockInv', [Next]_vars, SleepKept,
             p # "ioq" \/ pc[t] = "ioq", pc[t] \in Neutral => p \in Neutral
      PROVE  [Next]_vars /\ QueueInv'
  <2>1. pc'[t] = p /\ \A u \in Thread : u # t => pc'[u] = pc[u]
    BY <1>0, <1>6
  <2>2. status[t] # "BLOCKED"
    BY <1>0, <1>6
  <2>3. ConsumerOK'
    BY <1>6, <2>1, <2>2, ConsumerKept
  <2> QED
    BY <1>1, <1>6, <2>1, <2>3
<1>7. ASSUME NEW t \in Thread, AwayStep(t) PROVE [Next]_vars /\ QueueInv'
  <2>1. LockInv' /\ [Next]_vars /\ SleepKept
    BY <1>0, <1>7, PlainStep DEF AwayStep
  <2>2. PICK p \in Neutral : /\ cur = t /\ t # Idle /\ pc' = [pc EXCEPT ![t] = p]
                            /\ UNCHANGED <<consumer, lk>>
    BY <1>0, <1>7 DEF AwayStep, BootDone, SysEnter, SysExit, Fork, At, Goto, ringVars, Neutral
  <2>3. p # "ioq"
    BY DEF Neutral
  <2> QED
    BY <1>6, <2>1, <2>2, <2>3
<1>8. ASSUME NEW t \in Thread, ReadChar(t) \/ TakeByte(t) PROVE [Next]_vars /\ QueueInv'
  <2>1. PICK p \in {"get", "sys"} :
          /\ cur = t /\ t # Idle /\ pc' = [pc EXCEPT ![t] = p] /\ pc[t] \in {"get", "sys"}
          /\ UNCHANGED <<consumer, value, waiters, holder, repeat, lk, old, status>> /\ UNCHANGED vars
    BY <1>8 DEF ReadChar, TakeByte, At, Goto, Run, ringVars, lockVars, vars
  <2>2. pc[t] \in Neutral /\ p \in Neutral /\ p # "ioq"
    BY <2>1 DEF Neutral
  <2>3. pc' = [u \in Thread |-> pc'[u]] /\ \A u \in Thread :
          pc'[u] = pc[u] \/ (pc[u] \in Neutral /\ pc'[u] \in Neutral)
    BY <1>0, <2>1, <2>2
  <2>4. LockInv' /\ SleepKept
    BY <1>0, <2>1, <2>3, LockKept DEF Kept, SleepKept
  <2> QED
    BY <1>6, <2>1, <2>2, <2>4
<1>9. ASSUME NEW t \in Thread, FindEmpty(t) PROVE [Next]_vars /\ QueueInv'
  <2>1. /\ cur = t /\ t # Idle /\ pc[t] = "get"
        /\ pc' = [pc EXCEPT ![t] = "acq"] /\ lk' = [lk EXCEPT ![t] = QLock]
        /\ UNCHANGED <<value, waiters, holder, repeat, old, status, consumer>> /\ UNCHANGED vars
    BY <1>9 DEF FindEmpty, At, Goto, Run, ringVars, lockVars, vars
  <2>2. LockInv'
    BY <1>0, <2>1, IoQueueAssumption, AcquireKeeps DEF IoQueueAssumption, Neutral
  <2>3. ConsumerOK'
    BY <1>0, <2>1 DEF QueueInv, ConsumerOK
  <2> QED
    BY <1>0, <1>1, <2>1, <2>2, <2>3
<1>10. ASSUME NEW t \in Thread, IoqWait(t) PROVE [Next]_vars /\ QueueInv'
  <2>1. cur = t /\ t # Idle /\ pc' = [pc EXCEPT ![t] = "ioq"]
    BY <1>10 DEF IoqWait, At, Goto
  <2> QED
    BY <1>0, <1>1, <1>10, <2>1, IoqWaitStep
<1>11. ASSUME NEW t \in Thread, AfterWait(t) PROVE [Next]_vars /\ QueueInv'
  <2>1. LockInv' /\ [Next]_vars /\ SleepKept
    BY <1>0, <1>11, ReleaseStep, AcquireStep, SemaUpStep DEF AfterWait, Own, Neutral, Trying
  <2>2. PICK p \in {"ioq", "clr", "up", "get"} :
          /\ cur = t /\ t # Idle /\ pc' = [pc EXCEPT ![t] = p] /\ pc[t] \in {"ioq", "clr", "up"}
          /\ UNCHANGED <<consumer, lk>> /\ (p # "ioq" \/ pc[t] = "ioq")
    BY <1>0, <1>11 DEF AfterWait, ReleaseAt, ClearRepeat, SemaUpTo, At, Goto, ringVars
  <2> QED
    BY <1>6, <2>1, <2>2 DEF Neutral
<1>12. ASSUME NEW t \in Thread, AcquireQueue(t) PROVE [Next]_vars /\ QueueInv'
  <2>1. LockInv' /\ [Next]_vars /\ SleepKept
    BY <1>0, <1>12, AcquireStep DEF AcquireQueue
  <2>2. PICK p \in {"down", "own", "wait", "got", "rep"} :
          /\ cur = t /\ t # Idle /\ pc' = [pc EXCEPT ![t] = p]
          /\ pc[t] \in {"acq", "down", "wait", "got", "rep"} /\ UNCHANGED <<consumer, lk>>
    BY <1>12 DEF AcquireQueue, TestHolder, SemaDown, SemaDownAgain, Park, Decrement, SetHolder, SetRepeat,
                 At, Goto, ringVars
  <2> QED
    BY <1>6, <2>1, <2>2 DEF Neutral
<1> QED
  BY <1>3, <1>4, <1>5, <1>7, <1>8, <1>9, <1>10, <1>11, <1>12, IoQueueAssumption
     DEF IoQueueNext, ReaderStep, IoQueueAssumption

LEMMA QueueInvInit == IoQueueInit => QueueInv
<1> SUFFICES ASSUME IoQueueInit PROVE QueueInv
  OBVIOUS
<1>1. SyncInv /\ NoThread \notin Thread /\ consumer = NoThread
  BY SyncInvInit, SyncAssumption DEF IoQueueInit, SyncAssumption
<1>2. \A t \in Thread : pc[t] \in Neutral /\ pc[t] # "ioq"
  BY DEF IoQueueInit, SyncInit, Neutral
<1> QED
  BY <1>1, <1>2 DEF QueueInv, LocksOK, SyncInv, ConsumerOK

(* The field consumer names the thread that sleeps in ioq_wait, if one     *)
(* does, and the lock is as in sync.c although its holder sleeps.          *)
THEOREM IoQueueInvariant == IoQueueSpec => []QueueInv
<1>1. QueueInv /\ [IoQueueNext]_ioqVars => QueueInv'
  BY QueueStep
<1> QED
  BY <1>1, QueueInvInit, PTL DEF IoQueueSpec

(* The readers and the keyboard use the scheduler as it is: every step of  *)
(* the queue is a step of Sched.                                           *)
THEOREM IoQueueImplementsSched == IoQueueSpec => ImplementsSched
<1>1. IoQueueInit => Init
  BY DEF IoQueueInit, SyncInit
<1>2. QueueInv /\ [IoQueueNext]_ioqVars => [Next]_vars
  BY QueueStep
<1> QED
  BY <1>1, <1>2, IoQueueInvariant, PTL DEF IoQueueSpec, ImplementsSched, Spec

(* No ASSERT of ioq_wait, wakeup, lock_acquire or lock_release fails: in   *)
(* particular the consumer field is NULL whenever a reader is about to     *)
(* wait, although it waits without a second look at the queue.             *)
THEOREM IoQueueNoPanic == IoQueueSpec => []NoPanic
<1>1. QueueInv => NoPanic
  BY DEF QueueInv, LocksOK, IInv, NoPanic
<1> QED
  BY <1>1, IoQueueInvariant, PTL
=============================================================================
