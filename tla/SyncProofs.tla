---------------------------- MODULE SyncProofs ----------------------------
(***************************************************************************)
(* Theorems about the scheduler and about semaphores and locks, for any    *)
(* number of threads and locks, any priorities and any nesting.            *)
(*                                                                         *)
(* The scheduler (IInv): the ready list, the statuses and the CPU always   *)
(* agree and no ASSERT of thread.c fails.  NoPanic is not inductive by     *)
(* itself: that schedule() can wake idle whenever the list is empty        *)
(* follows from ListsAgree and from idle having been created.              *)
(*                                                                         *)
(* The locks (LockInv): for every place in lock_acquire and lock_release,  *)
(* what the semaphore, the two fields of the lock and the list of waiters  *)
(* are then.  It is stated so that it also fits the modules built on Sync: *)
(* a thread that is anywhere but in the places of Neutral and Trying has   *)
(* the lock lk[t].                                                         *)
(***************************************************************************)
EXTENDS Sync, TLAPS

QueueOK(q, st) ==
  /\ q \in Seq(Thread)
  /\ \A i, j \in DOMAIN q : q[i] = q[j] => i = j
  /\ \A t \in Thread : (\E i \in DOMAIN q : q[i] = t) <=> st[t] = "READY"

IInv ==
  /\ TypeOK
  /\ QueueOK(ready, status)
  /\ \A t \in Thread : status[t] = "RUNNING" <=> t = cur
  /\ status[Idle] # "NEW"
  /\ ~panic

(* list_append of a thread that becomes READY keeps list and statuses in   *)
(* agreement.                                                              *)
LEMMA AppendOK ==
  ASSUME NEW q, NEW st \in [Thread -> Status], QueueOK(q, st),
         NEW t \in Thread, st[t] # "READY"
  PROVE  QueueOK(Append(q, t), [st EXCEPT ![t] = "READY"])
<1> DEFINE r == Append(q, t)
<1>1. q \in Seq(Thread) /\ r \in Seq(Thread)
  BY DEF QueueOK
<1>2. /\ Len(r) = Len(q) + 1
      /\ r[Len(q) + 1] = t
      /\ \A i \in 1..Len(q) : r[i] = q[i]
      /\ DOMAIN q = 1..Len(q) /\ DOMAIN r = 1..(Len(q) + 1) /\ Len(q) \in Nat
  BY <1>1
<1>3. \A i \in DOMAIN q : q[i] # t
  BY DEF QueueOK
<1>4. \A i, j \in DOMAIN r : r[i] = r[j] => i = j
  BY <1>2, <1>3 DEF QueueOK
<1>5. ASSUME NEW u \in Thread
      PROVE  (\E i \in DOMAIN r : r[i] = u) <=> [st EXCEPT ![t] = "READY"][u] = "READY"
  <2>1. CASE u = t
    BY <1>2, <2>1
  <2>2. CASE u # t
    BY <1>2, <2>2 DEF QueueOK
  <2> QED
    BY <2>1, <2>2
<1> QED
  BY <1>1, <1>4, <1>5 DEF QueueOK

(* list_push, used by thread_unblock, does the same at the front.          *)
LEMMA PushOK ==
  ASSUME NEW q, NEW st \in [Thread -> Status], QueueOK(q, st),
         NEW t \in Thread, st[t] # "READY"
  PROVE  QueueOK(<<t>> \o q, [st EXCEPT ![t] = "READY"])
<1> DEFINE r == <<t>> \o q
<1>1. q \in Seq(Thread) /\ <<t>> \in Seq(Thread) /\ r \in Seq(Thread)
  BY DEF QueueOK
<1>2. /\ Len(r) = Len(q) + 1
      /\ r[1] = t
      /\ \A i \in 2..(Len(q) + 1) : r[i] = q[i - 1]
      /\ DOMAIN q = 1..Len(q) /\ DOMAIN r = 1..(Len(q) + 1) /\ Len(q) \in Nat
  BY <1>1
<1>3. \A i \in DOMAIN q : q[i] # t
  BY DEF QueueOK
<1>4. \A i, j \in DOMAIN r : r[i] = r[j] => i = j
  <2> SUFFICES ASSUME NEW i \in DOMAIN r, NEW j \in DOMAIN r, r[i] = r[j]
               PROVE  i = j
    OBVIOUS
  <2>1. \A k \in DOMAIN r : k # 1 => k - 1 \in DOMAIN q /\ r[k] = q[k - 1]
    BY <1>2
  <2>2. CASE i = 1 \/ j = 1
    BY <1>2, <1>3, <2>1, <2>2
  <2>3. CASE i # 1 /\ j # 1
    <3>1. i - 1 = j - 1
      BY <2>1, <2>3 DEF QueueOK
    <3> QED
      BY <3>1, <1>2
  <2> QED
    BY <2>2, <2>3
<1>5. ASSUME NEW u \in Thread
      PROVE  (\E i \in DOMAIN r : r[i] = u) <=> [st EXCEPT ![t] = "READY"][u] = "READY"
  <2>1. CASE u = t
    BY <1>2, <2>1
  <2>2. CASE u # t
    <3>1. (\E i \in DOMAIN q : q[i] = u) <=> st[u] = "READY"
      BY DEF QueueOK
    <3>2. ASSUME NEW i \in DOMAIN q, q[i] = u PROVE \E k \in DOMAIN r : r[k] = u
      <4>1. i + 1 \in DOMAIN r /\ i + 1 \in 2..(Len(q) + 1) /\ (i + 1) - 1 = i
        BY <1>2
      <4> QED
        BY <4>1, <1>2, <3>2
    <3>3. ASSUME NEW k \in DOMAIN r, r[k] = u PROVE \E i \in DOMAIN q : q[i] = u
      <4>1. k # 1
        BY <1>2, <2>2, <3>3
      <4>2. k - 1 \in DOMAIN q /\ r[k] = q[k - 1]
        BY <1>2, <4>1
      <4> QED
        BY <4>2, <3>3
    <3> QED
      BY <3>1, <3>2, <3>3, <2>2
  <2> QED
    BY <2>1, <2>2
<1> QED
  BY <1>1, <1>4, <1>5 DEF QueueOK

(* list_pop of the thread that schedule() puts on the CPU.                 *)
LEMMA PopOK ==
  ASSUME NEW q, NEW st \in [Thread -> Status], QueueOK(q, st), q # <<>>
  PROVE  /\ Head(q) \in Thread
         /\ st[Head(q)] = "READY"
         /\ QueueOK(Tail(q), [st EXCEPT ![Head(q)] = "RUNNING"])
<1> DEFINE r == Tail(q)
<1>1. q \in Seq(Thread)
  BY DEF QueueOK
<1>2. /\ Head(q) = q[1] /\ Head(q) \in Thread /\ r \in Seq(Thread)
      /\ Len(q) \in Nat /\ Len(q) # 0 /\ Len(r) = Len(q) - 1
      /\ DOMAIN q = 1..Len(q) /\ DOMAIN r = 1..(Len(q) - 1)
      /\ \A i \in DOMAIN r : r[i] = q[i + 1]
  BY <1>1
<1>3. 1 \in DOMAIN q
  BY <1>2
<1>4. st[Head(q)] = "READY"
  BY <1>2, <1>3 DEF QueueOK
<1>5. \A i, j \in DOMAIN r : r[i] = r[j] => i = j
  BY <1>2 DEF QueueOK
<1>6. ASSUME NEW u \in Thread
      PROVE  (\E i \in DOMAIN r : r[i] = u)
               <=> [st EXCEPT ![Head(q)] = "RUNNING"][u] = "READY"
  <2>1. (\E i \in DOMAIN q : q[i] = u) <=> st[u] = "READY"
    BY DEF QueueOK
  <2>2. CASE u = Head(q)
    <3>1. \A i \in DOMAIN r : i + 1 \in DOMAIN q /\ i + 1 # 1
      BY <1>2
    <3>2. \A i \in DOMAIN r : r[i] # u
      BY <1>2, <1>3, <3>1, <2>2 DEF QueueOK
    <3> QED
      BY <3>2, <2>2, <1>2
  <2>3. CASE u # Head(q)
    <3>1. ASSUME NEW i \in DOMAIN q, q[i] = u PROVE \E k \in DOMAIN r : r[k] = u
      <4>1. i - 1 \in DOMAIN r /\ r[i - 1] = q[i]
        BY <1>2, <2>3, <3>1
      <4> QED
        BY <4>1, <3>1
    <3>2. ASSUME NEW k \in DOMAIN r, r[k] = u PROVE \E i \in DOMAIN q : q[i] = u
      BY <1>2, <3>2
    <3> QED
      BY <2>1, <3>1, <3>2, <2>3
  <2> QED
    BY <2>2, <2>3
<1> QED
  BY <1>2, <1>4, <1>5, <1>6 DEF QueueOK

(* A status that is neither entered from nor left for READY keeps the list *)
(* as it is.                                                               *)
LEMMA KeepOK ==
  ASSUME NEW q, NEW st \in [Thread -> Status], QueueOK(q, st),
         NEW t \in Thread, st[t] # "READY", NEW s, s # "READY"
  PROVE  QueueOK(q, [st EXCEPT ![t] = s])
<1>1. \A u \in Thread : [st EXCEPT ![t] = s][u] = "READY" <=> st[u] = "READY"
  OBVIOUS
<1> QED
  BY <1>1 DEF QueueOK

(* schedule(): if the thread that leaves has given up RUNNING and list and *)
(* statuses agree, then they agree again, the CPU has exactly one thread   *)
(* and no ASSERT fails, with an empty list too.                            *)
LEMMA DispatchOK ==
  ASSUME SchedAssumption,
         NEW st \in [Thread -> Status], NEW q, QueueOK(q, st),
         \A t \in Thread : st[t] # "RUNNING",
         st[Idle] # "NEW",
         saved' \in [Thread -> BOOLEAN],
         NEW ok, ok = TRUE,
         Dispatch(st, q, ok)
  PROVE  /\ cur' \in Thread /\ intr' \in BOOLEAN
         /\ status' \in [Thread -> Status]
         /\ QueueOK(ready, status)'
         /\ \A t \in Thread : status'[t] = "RUNNING" <=> t = cur'
         /\ status'[Idle] # "NEW"
         /\ panic' = FALSE
<1> DEFINE r  == IF q = <<>> THEN <<Idle>> ELSE q
           sr == IF q = <<>> THEN [st EXCEPT ![Idle] = "READY"] ELSE st
<1>0. Idle \in Thread
  BY DEF SchedAssumption
<1>1. q = <<>> => st[Idle] \in Asleep
  <2> SUFFICES ASSUME q = <<>> PROVE st[Idle] \in Asleep
    OBVIOUS
  <2>1. st[Idle] # "READY"
    BY <1>0 DEF QueueOK
  <2> QED
    BY <2>1, <1>0 DEF Status, Asleep
<1>2. QueueOK(r, sr) /\ r # <<>> /\ sr \in [Thread -> Status]
  <2>1. CASE q = <<>>
    <3>1. st[Idle] # "READY"
      BY <1>1, <2>1 DEF Asleep
    <3>2. QueueOK(Append(q, Idle), [st EXCEPT ![Idle] = "READY"])
      BY <1>0, <3>1, AppendOK
    <3>3. Append(q, Idle) = <<Idle>>
      BY <2>1
    <3> QED
      BY <3>2, <3>3, <2>1, <1>0 DEF Status
  <2>2. CASE q # <<>>
    BY <2>2
  <2> QED
    BY <2>1, <2>2
<1> HIDE DEF r, sr
<1>3. /\ Head(r) \in Thread
      /\ QueueOK(Tail(r), [sr EXCEPT ![Head(r)] = "RUNNING"])
  BY <1>2, PopOK
<1>4. status' = [sr EXCEPT ![Head(r)] = "RUNNING"]
  <2>1. status' = [st EXCEPT ![Head(r)] = "RUNNING"]
    BY DEF Dispatch, r
  <2>2. CASE q = <<>>
    <3>1. Head(r) = Idle
      BY <2>2 DEF r
    <3> QED
      BY <2>1, <2>2, <3>1, <1>0 DEF sr
  <2>3. CASE q # <<>>
    BY <2>1, <2>3 DEF sr
  <2> QED
    BY <2>2, <2>3
<1>5. cur' = Head(r) /\ ready' = Tail(r) /\ intr' = saved'[Head(r)] /\ panic' = FALSE
  BY <1>1 DEF Dispatch, r
<1>6. QueueOK(ready, status)'
  BY <1>3, <1>4, <1>5 DEF QueueOK
<1>7. status' \in [Thread -> Status]
  BY <1>2, <1>3, <1>4 DEF Status
<1>8. \A t \in Thread : sr[t] # "RUNNING"
  BY <1>0 DEF sr
<1>9. sr[Idle] # "NEW"
  BY <1>0 DEF sr
<1> QED
  BY <1>0, <1>2, <1>3, <1>4, <1>5, <1>6, <1>7, <1>8, <1>9

(* thread_unblock of a sleeping thread.                                    *)
LEMMA UnblockOK ==
  ASSUME SchedAssumption, IInv, NEW t \in Thread, status[t] \in Asleep, Unblock(t, TRUE)
  PROVE  /\ status' \in [Thread -> Status]
         /\ QueueOK(ready, status)'
         /\ \A u \in Thread : status'[u] = "RUNNING" <=> u = cur'
         /\ status'[Idle] # "NEW"
         /\ panic' = FALSE
<1>1. status \in [Thread -> Status] /\ QueueOK(ready, status) /\ status[t] # "READY"
  BY DEF IInv, TypeOK, Asleep
<1>2. ~InReady(t)
  BY <1>1 DEF QueueOK, InReady
<1>3. QueueOK(<<t>> \o ready, [status EXCEPT ![t] = "READY"])
  BY <1>1, PushOK
<1>4. QueueOK(ready, status)'
  BY <1>3 DEF Unblock, QueueOK
<1>5. Idle \in Thread /\ t # cur
  BY DEF SchedAssumption, IInv, Asleep
<1> QED
  BY <1>1, <1>2, <1>4, <1>5 DEF Unblock, IInv, Status

(* Init and every step of Next keep the inductive invariant.               *)
LEMMA IInvInit == SchedAssumption /\ Init => IInv
<1> SUFFICES ASSUME SchedAssumption, Init PROVE IInv
  OBVIOUS
<1>1. TypeOK
  <2>1. ready \in Seq(Thread)
    BY DEF Init, SchedAssumption
  <2>2. status \in [Thread -> Status]
    BY DEF Init, Status
  <2>3. slice \in [Thread -> Nat] /\ \A t \in Thread : slice[t] <= Prio[t]
    BY DEF Init, SchedAssumption
  <2> QED
    BY <2>1, <2>2, <2>3 DEF SchedAssumption, Init, TypeOK
<1>2. QueueOK(ready, status)
  <2>1. ready = <<Init0, Idle>> /\ ready \in Seq(Thread)
    BY DEF Init, SchedAssumption
  <2>2. DOMAIN ready = {1, 2} /\ ready[1] = Init0 /\ ready[2] = Idle
    BY <2>1
  <2>3. \A t \in Thread : status[t] = "READY" <=> t \in {Init0, Idle}
    BY DEF Init, SchedAssumption
  <2> QED
    BY <2>1, <2>2, <2>3 DEF QueueOK, SchedAssumption
<1> QED
  BY <1>1, <1>2 DEF IInv, Init, SchedAssumption

LEMMA IInvNext == SchedAssumption /\ IInv /\ [Next]_vars => IInv'
<1> SUFFICES ASSUME SchedAssumption, IInv, [Next]_vars PROVE IInv'
  OBVIOUS
<1> USE DEF SchedAssumption
<1>0. /\ TypeOK /\ QueueOK(ready, status) /\ cur \in Thread
      /\ status \in [Thread -> Status] /\ Idle \in Thread
      /\ saved \in [Thread -> BOOLEAN] /\ slice \in [Thread -> Nat]
      /\ status[cur] = "RUNNING" /\ status[Idle] # "NEW" /\ panic = FALSE
      /\ ~InReady(cur)
  BY DEF IInv, TypeOK, QueueOK, InReady
<1>1. ASSUME NEW t \in Thread, IntrEnable(t) PROVE IInv'
  BY <1>0, <1>1 DEF IInv, TypeOK, QueueOK, IntrEnable, Client, SetIntr
<1>2. CASE IntrDisable
  BY <1>0, <1>2 DEF IInv, TypeOK, QueueOK, IntrDisable, Client, SetIntr
<1>3. ASSUME NEW off \in BOOLEAN, Block("BLOCKED", off, TRUE), idlepc' \in {"block", "hlt", "halted"}
      PROVE  IInv'
  <2> DEFINE st == [status EXCEPT ![cur] = "BLOCKED"]
  <2>1. QueueOK(ready, st) /\ st \in [Thread -> Status]
    BY <1>0, KeepOK DEF Status, Asleep
  <2>2. (\A t \in Thread : st[t] # "RUNNING") /\ st[Idle] # "NEW"
    BY <1>0 DEF IInv
  <2>3. saved' \in [Thread -> BOOLEAN] /\ slice' = slice
    BY <1>0, <1>3 DEF Block, IInv, TypeOK
  <2>4. Dispatch(st, ready, TRUE /\ "BLOCKED" \in Asleep) /\ (TRUE /\ "BLOCKED" \in Asleep) = TRUE
    BY <1>3 DEF Block, Asleep
  <2> HIDE DEF st
  <2>5. /\ cur' \in Thread /\ intr' \in BOOLEAN /\ status' \in [Thread -> Status]
        /\ QueueOK(ready, status)' /\ status'[Idle] # "NEW" /\ panic' = FALSE
        /\ \A t \in Thread : status'[t] = "RUNNING" <=> t = cur'
    BY <2>1, <2>2, <2>3, <2>4, DispatchOK
  <2> QED
    BY <1>0, <1>3, <2>3, <2>5 DEF IInv, TypeOK, QueueOK
<1>4. ASSUME Dispatch([status EXCEPT ![cur] = "READY"], Append(ready, cur), ~InReady(cur)),
             saved' \in [Thread -> BOOLEAN],
             slice' \in [Thread -> Nat], \A t \in Thread : slice'[t] <= Prio[t],
             idlepc' \in {"block", "hlt", "halted"}
      PROVE  IInv'
  <2> DEFINE st == [status EXCEPT ![cur] = "READY"]
             q  == Append(ready, cur)
  <2>1. QueueOK(q, st) /\ st \in [Thread -> Status]
    BY <1>0, AppendOK DEF Status
  <2>2. (\A t \in Thread : st[t] # "RUNNING") /\ st[Idle] # "NEW"
    BY <1>0 DEF IInv
  <2>3. (~InReady(cur)) = TRUE
    BY <1>0
  <2> HIDE DEF st, q
  <2>4. Dispatch(st, q, ~InReady(cur))
    BY <1>4 DEF st, q
  <2>5. /\ cur' \in Thread /\ intr' \in BOOLEAN /\ status' \in [Thread -> Status]
        /\ QueueOK(ready, status)' /\ status'[Idle] # "NEW" /\ panic' = FALSE
        /\ \A t \in Thread : status'[t] = "RUNNING" <=> t = cur'
    BY <1>4, <2>1, <2>2, <2>3, <2>4, DispatchOK
  <2> QED
    BY <1>0, <1>4, <2>5 DEF IInv, TypeOK, QueueOK
<1>5. ASSUME NEW t \in Thread, status[t] \in Asleep, Unblock(t, TRUE), intr' \in BOOLEAN,
             idlepc' \in {"block", "hlt", "halted"}
      PROVE  IInv'
  <2>1. /\ status' \in [Thread -> Status] /\ QueueOK(ready, status)'
        /\ \A u \in Thread : status'[u] = "RUNNING" <=> u = cur'
        /\ status'[Idle] # "NEW" /\ panic' = FALSE
    BY <1>5, UnblockOK
  <2> QED
    BY <1>0, <1>5, <2>1 DEF IInv, TypeOK, QueueOK, Unblock
<1>6. CASE ClientStart
  <2>1. PICK t \in Thread : status[t] = "NEW" /\ Start(t)
    BY <1>6 DEF ClientStart
  <2>2. ~InReady(t)
    BY <1>0, <2>1 DEF QueueOK, InReady
  <2>3. QueueOK(Append(ready, t), [status EXCEPT ![t] = "READY"])
    BY <1>0, <2>1, AppendOK
  <2>4. QueueOK(ready, status)'
    BY <2>1, <2>3 DEF Start, QueueOK
  <2>5. t # cur /\ t # Idle
    BY <1>0, <2>1
  <2>6. status' \in [Thread -> Status] /\ ready' \in Seq(Thread)
    BY <1>0, <2>1, <2>4 DEF Start, Status, QueueOK
  <2>7. slice' \in [Thread -> Nat] /\ \A u \in Thread : slice'[u] <= Prio[u]
    BY <1>0, <2>1 DEF Start, TypeOK
  <2>8. saved' \in [Thread -> BOOLEAN] /\ panic' = FALSE
    BY <1>0, <2>1, <2>2 DEF Start
  <2>9. TypeOK'
    BY <1>0, <1>6, <2>1, <2>6, <2>7, <2>8 DEF TypeOK, Start, ClientStart, Client
  <2>10. \A u \in Thread : status'[u] = "RUNNING" <=> u = cur'
    BY <1>0, <2>1, <2>5 DEF Start, IInv
  <2>11. status'[Idle] # "NEW"
    BY <1>0, <2>1 DEF Start
  <2> QED
    BY <2>4, <2>8, <2>9, <2>10, <2>11 DEF IInv
<1>7. CASE IdleHalt
  BY <1>0, <1>7 DEF IInv, TypeOK, QueueOK, IdleHalt
<1>8. CASE Tick
  <2>1. idlepc' \in {"block", "hlt", "halted"}
    BY <1>0, <1>8 DEF Tick, TypeOK
  <2>2. CASE slice[cur] = 0
    <3>0. slice' = [slice EXCEPT ![cur] = Prio[cur]]
      BY <1>8, <2>2 DEF Tick
    <3>1. slice' \in [Thread -> Nat] /\ \A t \in Thread : slice'[t] <= Prio[t]
      <4>1. slice' \in [Thread -> Nat]
        BY <1>0, <3>0
      <4>2. ASSUME NEW t \in Thread PROVE slice'[t] <= Prio[t]
        <5>1. slice[t] <= Prio[t] /\ Prio[t] \in Nat
          BY <1>0 DEF TypeOK
        <5>2. slice'[t] = IF t = cur THEN Prio[t] ELSE slice[t]
          BY <1>0, <3>0
        <5> QED
          BY <5>1, <5>2
      <4> QED
        BY <4>1, <4>2
    <3>2. saved' \in [Thread -> BOOLEAN]
      BY <1>0, <1>8, <2>2 DEF Tick
    <3>3. Dispatch([status EXCEPT ![cur] = "READY"], Append(ready, cur), ~InReady(cur))
      BY <1>8, <2>2 DEF Tick
    <3> QED
      BY <1>4, <2>1, <3>1, <3>2, <3>3
  <2>3. CASE slice[cur] # 0
    <3>1. UNCHANGED <<cur, status, ready, intr, saved, panic>>
      BY <1>8, <2>3 DEF Tick
    <3>2. slice' = [slice EXCEPT ![cur] = @ - 1]
      BY <1>8, <2>3 DEF Tick
    <3>3. slice' \in [Thread -> Nat]
      BY <1>0, <2>3, <3>2
    <3>4. ASSUME NEW t \in Thread PROVE slice'[t] <= Prio[t]
      <4>1. slice[t] \in Nat /\ Prio[t] \in Nat /\ slice[t] <= Prio[t]
        BY <1>0 DEF TypeOK
      <4>2. slice'[t] = slice[t] \/ slice'[t] = slice[t] - 1
        BY <1>0, <3>2
      <4> QED
        BY <4>1, <4>2
    <3> QED
      BY <1>0, <2>1, <3>1, <3>3, <3>4 DEF IInv, TypeOK, QueueOK
  <2> QED
    BY <2>2, <2>3
<1>9. idlepc \in {"block", "hlt", "halted"}
  BY <1>0 DEF TypeOK
<1>10. CASE ClientBlock
  BY <1>3, <1>9, <1>10 DEF ClientBlock, Client
<1>11. CASE ClientYield
  BY <1>0, <1>4, <1>9, <1>11 DEF ClientYield, Client, Yield, TypeOK
<1>12. CASE ClientUnblock
  BY <1>0, <1>5, <1>9, <1>12 DEF ClientUnblock, Client, TypeOK
<1>13. CASE Device
  BY <1>0, <1>5, <1>9, <1>13 DEF Device, DeviceIntr, TypeOK
<1>14. CASE IdleBlock
  BY <1>3, <1>14 DEF IdleBlock
<1>16. CASE DeviceOnly
  BY <1>9, <1>16 DEF DeviceOnly, IInv, TypeOK, QueueOK
<1>15. CASE UNCHANGED vars
  BY <1>15 DEF IInv, TypeOK, QueueOK, vars
<1> QED
  BY <1>1, <1>2, <1>6, <1>7, <1>8, <1>10, <1>11, <1>12, <1>13, <1>14, <1>15, <1>16 DEF Next

(* The inductive invariant holds in every reachable state.                 *)
THEOREM SchedInvariant == Spec => []IInv
<1>1. SchedAssumption /\ Init => IInv
  BY IInvInit
<1>2. SchedAssumption /\ IInv /\ [Next]_vars => IInv'
  BY IInvNext
<1> QED
  BY <1>1, <1>2, SchedAssumption, PTL DEF Spec

(* Type correctness of the scheduler's state; a time slice never exceeds   *)
(* the priority and never passes below zero.                               *)
THEOREM SchedTypeOK == Spec => []TypeOK
<1>1. IInv => TypeOK
  BY DEF IInv
<1> QED
  BY <1>1, SchedInvariant, PTL

(* No thread is twice in thread_ready_list.                                *)
THEOREM SchedNoDuplicates == Spec => []NoDuplicates
<1>1. IInv => NoDuplicates
  BY DEF IInv, QueueOK, NoDuplicates
<1> QED
  BY <1>1, SchedInvariant, PTL

(* Ready list, statuses and the running thread agree.                      *)
THEOREM SchedListsAgree == Spec => []ListsAgree
<1>1. IInv => ListsAgree
  BY DEF IInv, QueueOK, ListsAgree, InReady
<1> QED
  BY <1>1, SchedInvariant, PTL

(* No ASSERT of schedule, thread_block, thread_unblock, thread_yield or    *)
(* thread_start ever fails.                                                *)
THEOREM SchedNoPanic == Spec => []NoPanic
<1>1. IInv => NoPanic
  BY DEF IInv, NoPanic
<1> QED
  BY <1>1, SchedInvariant, PTL

(* Whoever is behind another one in a list stays behind it when the list   *)
(* grows at either end, and when its head is taken off, unless the other   *)
(* one is that head.                                                       *)
Before(q, s, t) == \E i, j \in DOMAIN q : i < j /\ q[i] = s /\ q[j] = t

LEMMA AppendKeepsOrder ==
  ASSUME NEW q \in Seq(Thread), NEW x \in Thread, NEW s, NEW t, Before(q, s, t)
  PROVE  Before(Append(q, x), s, t)
<1>1. PICK i, j \in DOMAIN q : i < j /\ q[i] = s /\ q[j] = t
  BY DEF Before
<1>2. /\ i \in DOMAIN Append(q, x) /\ j \in DOMAIN Append(q, x)
      /\ Append(q, x)[i] = q[i] /\ Append(q, x)[j] = q[j]
  OBVIOUS
<1> QED
  BY <1>1, <1>2 DEF Before

LEMMA PushKeepsOrder ==
  ASSUME NEW q \in Seq(Thread), NEW x \in Thread, NEW s, NEW t, Before(q, s, t)
  PROVE  Before(<<x>> \o q, s, t)
<1>1. PICK i, j \in DOMAIN q : i < j /\ q[i] = s /\ q[j] = t
  BY DEF Before
<1> DEFINE r == <<x>> \o q
<1>2. <<x>> \in Seq(Thread) /\ Len(<<x>>) = 1 /\ DOMAIN q = 1..Len(q) /\ Len(q) \in Nat
  OBVIOUS
<1>3. DOMAIN r = 1..(Len(q) + 1) /\ \A k \in 2..(Len(q) + 1) : r[k] = q[k - 1]
  BY <1>2
<1>4. i + 1 \in 2..(Len(q) + 1) /\ j + 1 \in 2..(Len(q) + 1) /\ i + 1 < j + 1
      /\ (i + 1) - 1 = i /\ (j + 1) - 1 = j
  BY <1>1, <1>2
<1>5. i + 1 \in DOMAIN r /\ j + 1 \in DOMAIN r /\ r[i + 1] = s /\ r[j + 1] = t
  BY <1>1, <1>3, <1>4
<1> QED
  BY <1>4, <1>5 DEF Before

LEMMA PopKeepsOrder ==
  ASSUME NEW q \in Seq(Thread), NEW s, NEW t, Before(q, s, t)
  PROVE  s = Head(q) \/ Before(Tail(q), s, t)
<1>1. PICK i, j \in DOMAIN q : i < j /\ q[i] = s /\ q[j] = t
  BY DEF Before
<1>2. /\ q # <<>> /\ DOMAIN q = 1..Len(q) /\ Len(q) \in Nat /\ Head(q) = q[1]
      /\ DOMAIN Tail(q) = 1..(Len(q) - 1) /\ \A k \in 1..(Len(q) - 1) : Tail(q)[k] = q[k + 1]
  BY <1>1
<1>3. CASE i = 1
  BY <1>1, <1>2, <1>3
<1>4. CASE i # 1
  <2>1. i - 1 \in 1..(Len(q) - 1) /\ j - 1 \in 1..(Len(q) - 1) /\ i - 1 < j - 1
        /\ (i - 1) + 1 = i /\ (j - 1) + 1 = j
    BY <1>1, <1>2, <1>4
  <2>2. Tail(q)[i - 1] = s /\ Tail(q)[j - 1] = t
    BY <1>1, <1>2, <2>1
  <2> QED
    BY <1>2, <2>1, <2>2 DEF Before
<1> QED
  BY <1>3, <1>4

(* schedule() takes the head, or wakes idle if there is nobody.            *)
LEMMA DispatchKeepsOrder ==
  ASSUME NEW q \in Seq(Thread), NEW st, NEW ok, Dispatch(st, q, ok),
         NEW s, NEW t, Before(q, s, t)
  PROVE  Before(ready', s, t) \/ cur' = s
<1>1. q # <<>>
  BY DEF Before
<1>2. cur' = Head(q) /\ ready' = Tail(q)
  BY <1>1 DEF Dispatch
<1> QED
  BY <1>2, PopKeepsOrder

(* Two threads in the ready list never change places, whatever is put in   *)
(* front of them and behind them: thread_unblock, thread_yield, the timer  *)
(* and schedule().                                                         *)
THEOREM SchedFifo == Spec => FifoAmongReady
<1>1. IInv /\ [Next]_vars =>
        [\A s, t \in Thread : Precedes(s, t) => Precedes(s, t)' \/ cur' = s]_vars
  <2> SUFFICES ASSUME IInv, Next, NEW s \in Thread, NEW t \in Thread, Before(ready, s, t)
               PROVE  Before(ready', s, t) \/ cur' = s
    BY DEF Precedes, Before
  <2>1. ready \in Seq(Thread) /\ cur \in Thread
    BY DEF IInv, TypeOK
  <2>2. CASE UNCHANGED ready
    BY <2>2
  <2>3. ASSUME NEW u \in Thread, ready' = <<u>> \o ready PROVE Before(ready', s, t)
    BY <2>1, <2>3, PushKeepsOrder
  <2>4. ASSUME NEW u \in Thread, ready' = Append(ready, u) PROVE Before(ready', s, t)
    BY <2>1, <2>4, AppendKeepsOrder
  <2>5. ASSUME NEW st, NEW ok, Dispatch(st, ready, ok)
        PROVE  Before(ready', s, t) \/ cur' = s
    BY <2>1, <2>5, DispatchKeepsOrder
  <2>6. ASSUME NEW st, NEW ok, Dispatch(st, Append(ready, cur), ok)
        PROVE  Before(ready', s, t) \/ cur' = s
    <3>1. Append(ready, cur) \in Seq(Thread) /\ Before(Append(ready, cur), s, t)
      BY <2>1, AppendKeepsOrder
    <3> QED
      BY <2>6, <3>1, DispatchKeepsOrder
  <2>7. CASE \E u \in Thread : IntrEnable(u)
    BY <2>2, <2>7 DEF IntrEnable, SetIntr
  <2>8. CASE IntrDisable
    BY <2>2, <2>8 DEF IntrDisable, SetIntr
  <2>9. CASE ClientBlock
    BY <2>5, <2>9 DEF ClientBlock, Block
  <2>10. CASE ClientYield
    BY <2>6, <2>10 DEF ClientYield, Yield
  <2>11. CASE ClientUnblock
    BY <2>3, <2>11 DEF ClientUnblock, Unblock
  <2>12. CASE ClientStart
    BY <2>4, <2>12 DEF ClientStart, Start
  <2>13. CASE Tick
    BY <2>2, <2>6, <2>13 DEF Tick
  <2>14. CASE Device
    BY <2>3, <2>14 DEF Device, DeviceIntr, Unblock
  <2>17. CASE DeviceOnly
    BY <2>2, <2>17 DEF DeviceOnly
  <2>15. CASE IdleBlock
    BY <2>5, <2>15 DEF IdleBlock, Block
  <2>16. CASE IdleHalt
    BY <2>2, <2>16 DEF IdleHalt
  <2> QED
    BY <2>7, <2>8, <2>9, <2>10, <2>11, <2>12, <2>13, <2>14, <2>15, <2>16, <2>17 DEF Next
<1> QED
  BY <1>1, SchedInvariant, PTL DEF Spec, FifoAmongReady
-----------------------------------------------------------------------------

Neutral  == {"boot", "out", "sys", "get"}   \* not concerned with a lock
Trying   == {"acq", "down", "wait"}         \* in lock_acquire, before the semaphore
Awake    == {"READY", "RUNNING"}

(* t has passed sema_down of l and not yet reached sema_up.                *)
Holds(t, l) ==
  lk[t] = l /\ (pc[t] \notin Neutral \cup Trying \/ (pc[t] = "acq" /\ holder[l] = t))

LockType ==
  /\ value \in [Lock -> {0, 1}]
  /\ waiters \in [Lock -> Seq(Thread)]
  /\ holder \in [Lock -> Thread \cup {NoThread}]
  /\ repeat \in [Lock -> Nat]
  /\ pc = [u \in Thread |-> pc[u]]
  /\ lk \in [Thread -> Lock]
  /\ old \in [Thread -> BOOLEAN]

OneHolds    == \A l \in Lock : \A s, t \in Thread : Holds(s, l) /\ Holds(t, l) => s = t
ValueCounts == \A l \in Lock : value[l] = 0 <=> \E t \in Thread : Holds(t, l)

(* The holder field trails behind the semaphore when a lock is taken and   *)
(* runs ahead of it when it is given up.                                   *)
HolderField ==
  \A l \in Lock, t \in Thread :
    holder[l] = t <=> Holds(t, l) /\ pc[t] \notin {"got", "clr", "up"}

RepeatField ==
  \A l \in Lock :
    /\ (\A t \in Thread : ~Holds(t, l)) => repeat[l] = 0
    /\ \A t \in Thread : Holds(t, l) =>
         /\ pc[t] \in {"got", "rep", "up"} => repeat[l] = 0
         /\ pc[t] = "clr" => repeat[l] = 1
         /\ pc[t] \notin {"got", "rep", "up", "clr"} => repeat[l] >= 1

NoRepeats(q) == \A i, j \in DOMAIN q : q[i] = q[j] => i = j
WaitersOnce  == \A l \in Lock : NoRepeats(waiters[l])

WaitersOK ==
  \A t \in Thread, l \in Lock :
    Contains(waiters[l], t) <=> pc[t] = "wait" /\ lk[t] = l /\ status[t] = "BLOCKED"

WaitersExist == \A t \in Thread : pc[t] = "wait" => status[t] \in {"BLOCKED"} \cup Awake

WakeupOK ==
  \A l \in Lock : waiters[l] # <<>> /\ value[l] = 1 =>
    \E t \in Thread : pc[t] = "wait" /\ lk[t] = l /\ status[t] # "BLOCKED"

LockInv ==
  /\ LockType
  /\ OneHolds /\ ValueCounts /\ HolderField /\ RepeatField
  /\ WaitersOnce /\ WaitersOK /\ WaitersExist /\ WakeupOK

(* Threads that have not begun, and idle, are in no call.                  *)
OutsideOK ==
  /\ pc[Idle] = "out"
  /\ \A t \in Thread : status[t] = "NEW" => pc[t] = "out"

FlagInv ==
  /\ InterruptFlag
  /\ \A t \in Thread : pc[t] = "wait" => old[t] = (t \in Kernel)

PlacesOK == pc \in [Thread -> PC]

SyncInv == IInv /\ LockInv /\ OutsideOK /\ FlagInv /\ PlacesOK

-----------------------------------------------------------------------------
(* What the scheduler does to the status of a thread that it is not asked  *)
(* about: asleep stays asleep, awake stays awake.                          *)
Kept(u) ==
  /\ status'[u] = "BLOCKED" <=> status[u] = "BLOCKED"
  /\ status[u] \in Awake => status'[u] \in Awake
  /\ status'[u] = "NEW" <=> status[u] = "NEW"

(* The timer and thread_yield put nobody to sleep and wake nobody.         *)
LEMMA PreemptKeeps ==
  ASSUME SchedAssumption, IInv, NEW ok,
         Dispatch([status EXCEPT ![cur] = "READY"], Append(ready, cur), ok)
  PROVE  \A u \in Thread : Kept(u)
<1> DEFINE st == [status EXCEPT ![cur] = "READY"]
           q  == Append(ready, cur)
<1>1. /\ status \in [Thread -> Status] /\ QueueOK(ready, status)
      /\ cur \in Thread /\ status[cur] = "RUNNING"
  BY DEF IInv, TypeOK
<1>2. QueueOK(q, st) /\ st \in [Thread -> Status]
  BY <1>1, AppendOK DEF Status
<1>3. q # <<>>
  <2>1. ready \in Seq(Thread) /\ Len(q) = Len(ready) + 1 /\ Len(ready) \in Nat
    BY <1>1 DEF QueueOK
  <2> QED
    BY <2>1
<1>4. Head(q) \in Thread /\ st[Head(q)] = "READY"
  BY <1>2, <1>3, PopOK
<1>5. status' = [st EXCEPT ![Head(q)] = "RUNNING"]
  BY <1>3 DEF Dispatch
<1> HIDE DEF q
<1> QED
  BY <1>1, <1>4, <1>5 DEF Kept, Awake

(* thread_block puts the caller to sleep, and schedule() may wake idle.    *)
LEMMA BlockKeeps ==
  ASSUME SchedAssumption, IInv, NEW off, NEW ok, Block("BLOCKED", off, ok)
  PROVE  /\ \A u \in Thread \ {cur, Idle} : Kept(u)
         /\ cur # Idle => status'[cur] = "BLOCKED"
         /\ status'[Idle] # "NEW"
<1> DEFINE st == [status EXCEPT ![cur] = "BLOCKED"]
           r  == IF ready = <<>> THEN <<Idle>> ELSE ready
<1>1. /\ status \in [Thread -> Status] /\ QueueOK(ready, status)
      /\ cur \in Thread /\ status[cur] = "RUNNING" /\ Idle \in Thread
      /\ status[Idle] # "NEW"
  BY DEF IInv, TypeOK, SchedAssumption
<1>2. status' = [st EXCEPT ![Head(r)] = "RUNNING"]
  BY DEF Block, Dispatch
<1>3. CASE ready = <<>>
  <2>1. Head(r) = Idle
    BY <1>3
  <2> QED
    BY <1>1, <1>2, <2>1 DEF Kept, Awake
<1>4. CASE ready # <<>>
  <2>1. Head(ready) \in Thread /\ status[Head(ready)] = "READY" /\ r = ready
    BY <1>1, <1>4, PopOK
  <2> QED
    BY <1>1, <1>2, <2>1 DEF Kept, Awake
<1> QED
  BY <1>3, <1>4

(* list_append to the waiters, and list_pop.                               *)
LEMMA AppendWaiter ==
  ASSUME NEW q \in Seq(Thread), NEW t \in Thread, NoRepeats(q), ~Contains(q, t)
  PROVE  /\ NoRepeats(Append(q, t))
         /\ Append(q, t) \in Seq(Thread)
         /\ \A u \in Thread : Contains(Append(q, t), u) <=> Contains(q, u) \/ u = t
<1> DEFINE r == Append(q, t)
<1>1. /\ r \in Seq(Thread) /\ Len(r) = Len(q) + 1 /\ Len(q) \in Nat
      /\ r[Len(q) + 1] = t /\ \A i \in 1..Len(q) : r[i] = q[i]
      /\ DOMAIN q = 1..Len(q) /\ DOMAIN r = 1..(Len(q) + 1)
  OBVIOUS
<1> HIDE DEF r
<1>2. NoRepeats(r)
  BY <1>1 DEF NoRepeats, Contains
<1>3. ASSUME NEW u \in Thread PROVE Contains(r, u) <=> Contains(q, u) \/ u = t
  BY <1>1 DEF Contains
<1> QED
  BY <1>1, <1>2, <1>3 DEF r

LEMMA PopWaiter ==
  ASSUME NEW q \in Seq(Thread), NoRepeats(q), q # <<>>
  PROVE  /\ NoRepeats(Tail(q)) /\ Tail(q) \in Seq(Thread)
         /\ Head(q) \in Thread /\ Contains(q, Head(q))
         /\ \A u \in Thread : Contains(Tail(q), u) <=> Contains(q, u) /\ u # Head(q)
<1> DEFINE r == Tail(q)
<1>1. /\ r \in Seq(Thread) /\ Len(r) = Len(q) - 1 /\ Len(q) \in Nat /\ Len(q) # 0
      /\ Head(q) = q[1] /\ Head(q) \in Thread /\ \A i \in 1..(Len(q) - 1) : r[i] = q[i + 1]
      /\ DOMAIN q = 1..Len(q) /\ DOMAIN r = 1..(Len(q) - 1)
  OBVIOUS
<1> HIDE DEF r
<1>2. NoRepeats(r) /\ Contains(q, Head(q))
  BY <1>1 DEF NoRepeats, Contains
<1>3. ASSUME NEW u \in Thread PROVE Contains(r, u) <=> Contains(q, u) /\ u # Head(q)
  <2>1. ASSUME NEW i \in 1..Len(r), r[i] = u PROVE Contains(q, u) /\ u # Head(q)
    <3>1. i + 1 \in DOMAIN q /\ q[i + 1] = u /\ 1 \in DOMAIN q /\ i + 1 # 1
      BY <1>1, <2>1
    <3> QED
      BY <1>1, <3>1 DEF NoRepeats, Contains
  <2>2. ASSUME NEW i \in 1..Len(q), q[i] = u, u # Head(q) PROVE Contains(r, u)
    <3>1. i - 1 \in 1..Len(r) /\ r[i - 1] = q[i]
      BY <1>1, <2>2
    <3> QED
      BY <2>2, <3>1 DEF Contains
  <2> QED
    BY <2>1, <2>2 DEF Contains
<1> QED
  BY <1>1, <1>2, <1>3 DEF r
-----------------------------------------------------------------------------
(* Steps that leave the locks alone.                                       *)
Own(p) == p \notin Neutral \cup Trying \cup {"got", "rep", "clr", "up"}

LEMMA LockKept ==
  ASSUME LockInv, UNCHANGED <<value, waiters, holder, repeat, lk>>,
         pc' = [u \in Thread |-> pc'[u]], old' \in [Thread -> BOOLEAN],
         \A u \in Thread : pc[u] = "wait" => Kept(u),
         \A u \in Thread : \/ pc'[u] = pc[u]
                           \/ pc[u] \in Neutral /\ pc'[u] \in Neutral
                           \/ Own(pc[u]) /\ Own(pc'[u])
  PROVE  LockInv'
<1>1. \A u \in Thread : (pc'[u] = "wait" <=> pc[u] = "wait")
  BY DEF Own, Neutral, Trying
<1>2. \A u \in Thread, l \in Lock : Holds(u, l)' <=> Holds(u, l)
  BY DEF Own, Neutral, Trying, Holds
<1>3. \A u \in Thread : pc'[u] = pc[u] \/ pc[u] \in Neutral
        \/ /\ pc[u] \notin {"got", "rep", "clr", "up"}
           /\ pc'[u] \notin {"got", "rep", "clr", "up"}
  BY DEF Own
<1>4. \A u \in Thread, l \in Lock : Holds(u, l) => pc[u] \notin Neutral
  BY DEF Holds, Neutral, Trying
<1>5. LockType'
  BY DEF LockInv, LockType
<1>6. OneHolds' /\ ValueCounts'
  BY <1>2 DEF LockInv, OneHolds, ValueCounts
<1>7. HolderField'
  BY <1>2, <1>3, <1>4 DEF LockInv, HolderField
<1>8. RepeatField'
  BY <1>2, <1>3, <1>4 DEF LockInv, RepeatField
<1>9. WaitersOnce'
  BY DEF LockInv, WaitersOnce, NoRepeats
<1>10. WaitersOK'
  BY <1>1 DEF LockInv, WaitersOK, Kept, Contains
<1>11. WaitersExist'
  BY <1>1 DEF LockInv, WaitersExist, Kept, Awake
<1>12. WakeupOK'
  BY <1>1 DEF LockInv, WakeupOK, Kept
<1> QED
  BY <1>5, <1>6, <1>7, <1>8, <1>9, <1>10, <1>11, <1>12 DEF LockInv
-----------------------------------------------------------------------------
(* The steps of lock_acquire and lock_release, each as the thread t that   *)
(* takes it sees it.                                                       *)

LEMMA AcquireKeeps ==
  ASSUME LockInv, NEW t \in Thread, NEW l \in Lock,
         pc[t] \in Neutral \/ (Own(pc[t]) /\ lk[t] = l),
         pc' = [pc EXCEPT ![t] = "acq"], lk' = [lk EXCEPT ![t] = l],
         UNCHANGED <<value, waiters, holder, repeat, old, status>>
  PROVE  LockInv'
<1>1. /\ pc = [u \in Thread |-> pc[u]] /\ lk \in [Thread -> Lock]
      /\ pc'[t] = "acq" /\ lk'[t] = l /\ pc[t] # "wait"
      /\ \A u \in Thread \ {t} : pc'[u] = pc[u] /\ lk'[u] = lk[u]
  BY DEF LockInv, LockType, Own, Neutral, Trying
<1>2. /\ \A u \in Thread, m \in Lock : Holds(u, m)' <=> Holds(u, m)
      /\ \A m \in Lock : Holds(t, m) => /\ pc[t] \notin {"got", "rep", "clr", "up"}
                                        /\ pc'[t] \notin {"got", "rep", "clr", "up"}
  <2>1. ASSUME NEW u \in Thread \ {t}, NEW m \in Lock PROVE Holds(u, m)' <=> Holds(u, m)
    BY <1>1 DEF Holds
  <2>2. ASSUME NEW m \in Lock PROVE Holds(t, m)' <=> Holds(t, m)
    BY <1>1 DEF LockInv, LockType, HolderField, Holds, Own, Neutral, Trying
  <2>3. ASSUME NEW m \in Lock, Holds(t, m)
        PROVE pc[t] \notin {"got", "rep", "clr", "up"} /\ pc'[t] \notin {"got", "rep", "clr", "up"}
    BY <1>1, <2>3 DEF Own, Holds, Neutral, Trying
  <2> QED
    BY <2>1, <2>2, <2>3
<1>3. LockType'
  BY DEF LockInv, LockType
<1>4. OneHolds'
  BY <1>1, <1>2 DEF LockInv, OneHolds, ValueCounts
<1>5. ValueCounts'
  BY <1>1, <1>2 DEF LockInv, LockType, OneHolds, ValueCounts
<1>6. HolderField'
  BY <1>1, <1>2 DEF LockInv, LockType, OneHolds, HolderField
<1>7. RepeatField'
  BY <1>1, <1>2 DEF LockInv, LockType, OneHolds, RepeatField
<1>8. WaitersOnce'
  BY DEF LockInv, WaitersOnce, NoRepeats
<1>9. WaitersOK'
  BY <1>1 DEF LockInv, WaitersOK, Contains
<1>10. WaitersExist'
  BY <1>1 DEF LockInv, WaitersExist
<1>11. WakeupOK'
  BY <1>1 DEF LockInv, WakeupOK
<1> QED
  BY <1>3, <1>4, <1>5, <1>6, <1>7, <1>8, <1>9, <1>10, <1>11 DEF LockInv

LEMMA TestHolderKeeps ==
  ASSUME LockInv, NEW t \in Thread, TestHolder(t)
  PROVE  LockInv'
<1> DEFINE k == lk[t]
<1>1. /\ pc = [u \in Thread |-> pc[u]] /\ lk \in [Thread -> Lock] /\ k \in Lock
      /\ pc[t] = "acq" /\ pc'[t] = IF holder[k] = t THEN "own" ELSE "down"
      /\ \A u \in Thread \ {t} : pc'[u] = pc[u]
      /\ UNCHANGED <<value, waiters, holder, lk, old, status>>
      /\ pc' = [u \in Thread |-> pc'[u]]
      /\ repeat' = IF holder[k] = t THEN [repeat EXCEPT ![k] = @ + 1] ELSE repeat
  BY DEF LockInv, LockType, TestHolder, At, Goto, Run
<1>2. /\ \A u \in Thread, m \in Lock : Holds(u, m)' <=> Holds(u, m)
      /\ \A m \in Lock : Holds(t, m) => m = k /\ holder[k] = t
  <2>1. ASSUME NEW u \in Thread \ {t}, NEW m \in Lock PROVE Holds(u, m)' <=> Holds(u, m)
    BY <1>1 DEF Holds
  <2>2. ASSUME NEW m \in Lock
        PROVE (Holds(t, m)' <=> Holds(t, m)) /\ (Holds(t, m) => m = k /\ holder[k] = t)
    BY <1>1 DEF Holds, Neutral, Trying
  <2> QED
    BY <2>1, <2>2
<1> HIDE DEF k
<1>3. LockType'
  BY <1>1 DEF LockInv, LockType
<1>4. OneHolds'
  BY <1>1, <1>2 DEF LockInv, OneHolds, ValueCounts
<1>5. ValueCounts'
  BY <1>1, <1>2 DEF LockInv, LockType, OneHolds, ValueCounts
<1>6. HolderField'
  BY <1>1, <1>2 DEF LockInv, LockType, OneHolds, HolderField
<1>7. RepeatField'
  <2>1. \A m \in Lock : repeat[m] \in Nat
                         /\ repeat'[m] = IF m = k /\ holder[k] = t THEN repeat[m] + 1 ELSE repeat[m]
    BY <1>1 DEF LockInv, LockType
  <2>2. \A u \in Thread, m \in Lock : Holds(u, m) /\ u # t => ~(m = k /\ holder[k] = t)
    BY <1>1 DEF LockInv, HolderField, OneHolds
  <2>3. \A m \in Lock : m = k /\ holder[k] = t => Holds(t, m)
    BY <1>1 DEF LockInv, HolderField
  <2> QED
    BY <1>1, <1>2, <2>1, <2>2, <2>3 DEF LockInv, RepeatField
<1>8. WaitersOnce'
  BY <1>1 DEF LockInv, WaitersOnce, NoRepeats
<1>9. WaitersOK'
  BY <1>1 DEF LockInv, WaitersOK, Contains
<1>10. WaitersExist'
  BY <1>1 DEF LockInv, WaitersExist
<1>11. WakeupOK'
  BY <1>1 DEF LockInv, WakeupOK
<1> QED
  BY <1>3, <1>4, <1>5, <1>6, <1>7, <1>8, <1>9, <1>10, <1>11 DEF LockInv

LEMMA DecrementKeeps ==
  ASSUME LockInv, IInv, NEW t \in Thread, cur = t, pc[t] \in {"down", "wait"},
         NEW flag, Decrement(t, flag), old' \in [Thread -> BOOLEAN], UNCHANGED <<holder, repeat, lk>>
  PROVE  LockInv'
<1> DEFINE k == lk[t]
<1>1. /\ pc = [u \in Thread |-> pc[u]] /\ lk \in [Thread -> Lock] /\ k \in Lock
      /\ pc'[t] = "got" /\ pc' = [u \in Thread |-> pc'[u]]
      /\ \A u \in Thread \ {t} : pc'[u] = pc[u]
      /\ UNCHANGED <<waiters, holder, lk, repeat, status>>
      /\ value[k] = 1 /\ status[t] = "RUNNING"
      /\ \A m \in Lock : value'[m] = IF m = k THEN 0 ELSE value[m]
      /\ value' \in [Lock -> {0, 1}]
  <2>1. status[t] = "RUNNING"
    BY DEF IInv
  <2>2. /\ pc = [u \in Thread |-> pc[u]] /\ lk \in [Thread -> Lock] /\ k \in Lock
        /\ value \in [Lock -> {0, 1}]
    BY DEF LockInv, LockType
  <2>3. value[k] = 1 /\ value' = [value EXCEPT ![k] = value[k] - 1]
    BY <2>2 DEF Decrement
  <2>4. value' = [value EXCEPT ![k] = 0]
    BY <2>3
  <2>5. pc' = [pc EXCEPT ![t] = "got"] /\ UNCHANGED <<waiters, holder, lk, repeat, status>>
    BY DEF Decrement, Goto
  <2> QED
    BY <2>1, <2>2, <2>3, <2>4, <2>5
<1>2. /\ \A u \in Thread : ~Holds(u, k)
      /\ \A m \in Lock : ~Holds(t, m)
      /\ \A u \in Thread, m \in Lock : Holds(u, m)' <=> Holds(u, m) \/ (u = t /\ m = k)
  <2>1. ASSUME NEW u \in Thread \ {t}, NEW m \in Lock PROVE Holds(u, m)' <=> Holds(u, m)
    BY <1>1 DEF Holds
  <2>2. ASSUME NEW m \in Lock PROVE ~Holds(t, m) /\ (Holds(t, m)' <=> m = k)
    BY <1>1 DEF Holds, Neutral, Trying
  <2>3. \A u \in Thread : ~Holds(u, k)
    BY <1>1 DEF LockInv, ValueCounts
  <2> QED
    BY <2>1, <2>2, <2>3
<1> HIDE DEF k
<1>3. LockType'
  BY <1>1 DEF LockInv, LockType
<1>4. OneHolds'
  BY <1>1, <1>2 DEF LockInv, OneHolds, ValueCounts
<1>5. ValueCounts'
  BY <1>1, <1>2 DEF LockInv, LockType, OneHolds, ValueCounts
<1>6. HolderField'
  <2> SUFFICES ASSUME NEW m \in Lock, NEW u \in Thread
               PROVE  holder'[m] = u <=> Holds(u, m)' /\ pc'[u] \notin {"got", "clr", "up"}
    BY DEF HolderField
  <2>1. CASE u = t
    BY <1>1, <1>2, <2>1 DEF LockInv, HolderField
  <2>2. CASE u # t
    BY <1>1, <1>2, <2>2 DEF LockInv, HolderField, OneHolds
  <2> QED
    BY <2>1, <2>2
<1>7. RepeatField'
  BY <1>1, <1>2 DEF LockInv, LockType, OneHolds, RepeatField
<1>8. WaitersOnce'
  BY <1>1 DEF LockInv, WaitersOnce, NoRepeats
<1>9. WaitersOK'
  BY <1>1 DEF LockInv, WaitersOK, Contains
<1>10. WaitersExist'
  BY <1>1 DEF LockInv, WaitersExist
<1>11. WakeupOK'
  <2> SUFFICES ASSUME NEW m \in Lock, waiters[m] # <<>>, value'[m] = 1
               PROVE  \E u \in Thread : pc'[u] = "wait" /\ lk[u] = m /\ status[u] # "BLOCKED"
    BY <1>1 DEF WakeupOK
  <2>1. PICK u \in Thread : pc[u] = "wait" /\ lk[u] = m /\ status[u] # "BLOCKED"
    BY <1>1 DEF LockInv, WakeupOK
  <2>2. u # t
    BY <1>1, <2>1 DEF k
  <2> QED
    BY <1>1, <2>1, <2>2
<1> QED
  BY <1>3, <1>4, <1>5, <1>6, <1>7, <1>8, <1>9, <1>10, <1>11 DEF LockInv

LEMMA SetHolderKeeps ==
  ASSUME LockInv, NEW t \in Thread, SetHolder(t)
  PROVE  LockInv'
<1> DEFINE k == lk[t]
<1>0. /\ pc = [u \in Thread |-> pc[u]] /\ lk \in [Thread -> Lock] /\ k \in Lock
      /\ holder \in [Lock -> Thread \cup {NoThread}] /\ repeat \in [Lock -> Nat]
      /\ value \in [Lock -> {0, 1}] /\ NoThread \notin Thread
  BY SyncAssumption DEF LockInv, LockType, SyncAssumption
<1>1. /\ pc[t] = "got" /\ pc'[t] = "rep" /\ pc' = [u \in Thread |-> pc'[u]]
      /\ \A u \in Thread : u # t => pc'[u] = pc[u]
      /\ UNCHANGED <<value, waiters, repeat, lk, old, status>>
      /\ holder' \in [Lock -> Thread \cup {NoThread}]
      /\ \A m \in Lock : holder'[m] = IF m = k THEN t ELSE holder[m]
  BY <1>0 DEF SetHolder, At, Goto, Run
<1>2. /\ \A u \in Thread, m \in Lock : Holds(u, m)' <=> Holds(u, m)
      /\ \A m \in Lock : Holds(t, m) <=> m = k
      /\ \A u \in Thread : u # t => ~Holds(u, k)
  <2>1. \A m \in Lock : (Holds(t, m) <=> m = k) /\ (Holds(t, m)' <=> m = k)
    BY <1>0, <1>1 DEF Holds, Neutral, Trying
  <2>2. \A u \in Thread : u # t => ~Holds(u, k) /\ holder[k] # u
    BY <1>0, <2>1 DEF LockInv, OneHolds, HolderField
  <2>3. ASSUME NEW u \in Thread, u # t, NEW m \in Lock PROVE Holds(u, m)' <=> Holds(u, m)
    BY <1>1, <2>2, <2>3 DEF Holds
  <2> QED
    BY <2>1, <2>2, <2>3
<1> HIDE DEF k
<1>3. LockType'
  BY <1>1 DEF LockInv, LockType
<1>4. OneHolds'
  BY <1>1, <1>2 DEF LockInv, OneHolds
<1>5. ValueCounts'
  BY <1>1, <1>2 DEF LockInv, LockType, ValueCounts
<1>6. HolderField'
  <2> SUFFICES ASSUME NEW m \in Lock, NEW u \in Thread
               PROVE  holder'[m] = u <=> Holds(u, m)' /\ pc'[u] \notin {"got", "clr", "up"}
    BY DEF HolderField
  <2>1. CASE u = t
    BY <1>1, <1>2, <2>1 DEF LockInv, HolderField
  <2>2. CASE u # t
    BY <1>1, <1>2, <2>2 DEF LockInv, HolderField, OneHolds
  <2> QED
    BY <2>1, <2>2
<1>7. RepeatField'
  BY <1>1, <1>2 DEF LockInv, LockType, OneHolds, RepeatField
<1>8. WaitersOnce'
  BY <1>1 DEF LockInv, WaitersOnce, NoRepeats
<1>9. WaitersOK'
  BY <1>1 DEF LockInv, WaitersOK, Contains
<1>10. WaitersExist'
  BY <1>1 DEF LockInv, WaitersExist
<1>11. WakeupOK'
  BY <1>1 DEF LockInv, WakeupOK
<1> QED
  BY <1>3, <1>4, <1>5, <1>6, <1>7, <1>8, <1>9, <1>10, <1>11 DEF LockInv

LEMMA SetRepeatKeeps ==
  ASSUME LockInv, NEW t \in Thread, SetRepeat(t)
  PROVE  LockInv'
<1> DEFINE k == lk[t]
<1>0. /\ pc = [u \in Thread |-> pc[u]] /\ lk \in [Thread -> Lock] /\ k \in Lock
      /\ holder \in [Lock -> Thread \cup {NoThread}] /\ repeat \in [Lock -> Nat]
      /\ value \in [Lock -> {0, 1}] /\ NoThread \notin Thread
  BY SyncAssumption DEF LockInv, LockType, SyncAssumption
<1>1. /\ pc[t] = "rep" /\ pc'[t] = "own" /\ pc' = [u \in Thread |-> pc'[u]]
      /\ \A u \in Thread : u # t => pc'[u] = pc[u]
      /\ UNCHANGED <<value, waiters, holder, lk, old, status>>
      /\ repeat' \in [Lock -> Nat]
      /\ \A m \in Lock : repeat'[m] = IF m = k THEN 1 ELSE repeat[m]
  BY <1>0 DEF SetRepeat, At, Goto, Run
<1>2. /\ \A u \in Thread, m \in Lock : Holds(u, m)' <=> Holds(u, m)
      /\ \A m \in Lock : Holds(t, m) <=> m = k
      /\ \A u \in Thread : u # t => ~Holds(u, k)
  <2>1. \A m \in Lock : (Holds(t, m) <=> m = k) /\ (Holds(t, m)' <=> m = k)
    BY <1>0, <1>1 DEF Holds, Neutral, Trying
  <2>2. \A u \in Thread : u # t => ~Holds(u, k)
    BY <1>0, <2>1 DEF LockInv, OneHolds
  <2>3. ASSUME NEW u \in Thread, u # t, NEW m \in Lock PROVE Holds(u, m)' <=> Holds(u, m)
    BY <1>1, <2>3 DEF Holds
  <2> QED
    BY <2>1, <2>2, <2>3
<1> HIDE DEF k
<1>3. LockType'
  BY <1>1 DEF LockInv, LockType
<1>4. OneHolds'
  BY <1>1, <1>2 DEF LockInv, OneHolds
<1>5. ValueCounts'
  BY <1>1, <1>2 DEF LockInv, LockType, ValueCounts
<1>6. HolderField'
  <2> SUFFICES ASSUME NEW m \in Lock, NEW u \in Thread
               PROVE  holder'[m] = u <=> Holds(u, m)' /\ pc'[u] \notin {"got", "clr", "up"}
    BY DEF HolderField
  <2>1. CASE u = t
    BY <1>1, <1>2, <2>1 DEF LockInv, HolderField
  <2>2. CASE u # t
    BY <1>1, <1>2, <2>2 DEF LockInv, HolderField, OneHolds
  <2> QED
    BY <2>1, <2>2
<1>7. RepeatField'
  BY <1>1, <1>2 DEF LockInv, LockType, OneHolds, RepeatField
<1>8. WaitersOnce'
  BY <1>1 DEF LockInv, WaitersOnce, NoRepeats
<1>9. WaitersOK'
  BY <1>1 DEF LockInv, WaitersOK, Contains
<1>10. WaitersExist'
  BY <1>1 DEF LockInv, WaitersExist
<1>11. WakeupOK'
  BY <1>1 DEF LockInv, WakeupOK
<1> QED
  BY <1>3, <1>4, <1>5, <1>6, <1>7, <1>8, <1>9, <1>10, <1>11 DEF LockInv

LEMMA ClearRepeatKeeps ==
  ASSUME LockInv, NEW t \in Thread, ClearRepeat(t)
  PROVE  LockInv'
<1> DEFINE k == lk[t]
<1>0. /\ pc = [u \in Thread |-> pc[u]] /\ lk \in [Thread -> Lock] /\ k \in Lock
      /\ holder \in [Lock -> Thread \cup {NoThread}] /\ repeat \in [Lock -> Nat]
      /\ value \in [Lock -> {0, 1}] /\ NoThread \notin Thread
  BY SyncAssumption DEF LockInv, LockType, SyncAssumption
<1>1. /\ pc[t] = "clr" /\ pc'[t] = "up" /\ pc' = [u \in Thread |-> pc'[u]]
      /\ \A u \in Thread : u # t => pc'[u] = pc[u]
      /\ UNCHANGED <<value, waiters, holder, lk, old, status>>
      /\ repeat' \in [Lock -> Nat]
      /\ \A m \in Lock : repeat'[m] = IF m = k THEN 0 ELSE repeat[m]
  BY <1>0 DEF ClearRepeat, At, Goto, Run
<1>2. /\ \A u \in Thread, m \in Lock : Holds(u, m)' <=> Holds(u, m)
      /\ \A m \in Lock : Holds(t, m) <=> m = k
      /\ \A u \in Thread : u # t => ~Holds(u, k)
  <2>1. \A m \in Lock : (Holds(t, m) <=> m = k) /\ (Holds(t, m)' <=> m = k)
    BY <1>0, <1>1 DEF Holds, Neutral, Trying
  <2>2. \A u \in Thread : u # t => ~Holds(u, k)
    BY <1>0, <2>1 DEF LockInv, OneHolds
  <2>3. ASSUME NEW u \in Thread, u # t, NEW m \in Lock PROVE Holds(u, m)' <=> Holds(u, m)
    BY <1>1, <2>3 DEF Holds
  <2> QED
    BY <2>1, <2>2, <2>3
<1> HIDE DEF k
<1>3. LockType'
  BY <1>1 DEF LockInv, LockType
<1>4. OneHolds'
  BY <1>1, <1>2 DEF LockInv, OneHolds
<1>5. ValueCounts'
  BY <1>1, <1>2 DEF LockInv, LockType, ValueCounts
<1>6. HolderField'
  <2> SUFFICES ASSUME NEW m \in Lock, NEW u \in Thread
               PROVE  holder'[m] = u <=> Holds(u, m)' /\ pc'[u] \notin {"got", "clr", "up"}
    BY DEF HolderField
  <2>1. CASE u = t
    BY <1>1, <1>2, <2>1 DEF LockInv, HolderField
  <2>2. CASE u # t
    BY <1>1, <1>2, <2>2 DEF LockInv, HolderField, OneHolds
  <2> QED
    BY <2>1, <2>2
<1>7. RepeatField'
  BY <1>1, <1>2 DEF LockInv, LockType, OneHolds, RepeatField
<1>8. WaitersOnce'
  BY <1>1 DEF LockInv, WaitersOnce, NoRepeats
<1>9. WaitersOK'
  BY <1>1 DEF LockInv, WaitersOK, Contains
<1>10. WaitersExist'
  BY <1>1 DEF LockInv, WaitersExist
<1>11. WakeupOK'
  BY <1>1 DEF LockInv, WakeupOK
<1> QED
  BY <1>3, <1>4, <1>5, <1>6, <1>7, <1>8, <1>9, <1>10, <1>11 DEF LockInv

LEMMA ReleaseKeeps ==
  ASSUME LockInv, NEW t \in Thread, NEW p, Own(p), ReleaseAt(t, p)
  PROVE  LockInv'
<1> DEFINE k == lk[t]
<1>0. /\ pc = [u \in Thread |-> pc[u]] /\ lk \in [Thread -> Lock] /\ k \in Lock
      /\ holder \in [Lock -> Thread \cup {NoThread}] /\ repeat \in [Lock -> Nat]
      /\ value \in [Lock -> {0, 1}] /\ NoThread \notin Thread
  BY SyncAssumption DEF LockInv, LockType, SyncAssumption
<1>1. /\ pc[t] = p /\ pc' = [u \in Thread |-> pc'[u]]
      /\ \A u \in Thread : u # t => pc'[u] = pc[u]
      /\ pc'[t] = IF repeat[k] > 1 THEN p ELSE "clr"
      /\ UNCHANGED <<value, waiters, lk, old, status>>
      /\ repeat' \in [Lock -> Nat] /\ holder' \in [Lock -> Thread \cup {NoThread}]
      /\ \A m \in Lock : /\ repeat'[m] = IF m = k /\ repeat[k] > 1 THEN repeat[k] - 1 ELSE repeat[m]
                         /\ holder'[m] = IF m = k /\ ~(repeat[k] > 1) THEN NoThread ELSE holder[m]
  BY <1>0 DEF ReleaseAt, At, Goto, Run
<1>2. /\ \A u \in Thread, m \in Lock : Holds(u, m)' <=> Holds(u, m)
      /\ \A m \in Lock : Holds(t, m) <=> m = k
      /\ \A u \in Thread : u # t => ~Holds(u, k)
      /\ p \notin {"got", "rep", "clr", "up", "wait"}
      /\ holder[k] = t /\ repeat[k] \in Nat /\ repeat[k] >= 1
  <2>1. \A m \in Lock : (Holds(t, m) <=> m = k) /\ (Holds(t, m)' <=> m = k)
    BY <1>0, <1>1 DEF Holds, Own, Neutral, Trying
  <2>2. \A u \in Thread : u # t => ~Holds(u, k) /\ holder[k] # u
    BY <1>0, <2>1 DEF LockInv, OneHolds, HolderField
  <2>3. ASSUME NEW u \in Thread, u # t, NEW m \in Lock PROVE Holds(u, m)' <=> Holds(u, m)
    BY <1>0, <1>1, <2>2, <2>3 DEF Holds
  <2>4. p \notin {"got", "rep", "clr", "up", "wait"}
    BY DEF Own, Trying
  <2>5. holder[k] = t /\ repeat[k] \in Nat /\ repeat[k] >= 1
    BY <1>0, <1>1, <2>1, <2>4 DEF LockInv, HolderField, RepeatField
  <2> QED
    BY <2>1, <2>2, <2>3, <2>4, <2>5
<1> HIDE DEF k
<1>3. LockType'
  BY <1>1 DEF LockInv, LockType
<1>4. OneHolds'
  BY <1>1, <1>2 DEF LockInv, OneHolds
<1>5. ValueCounts'
  BY <1>1, <1>2 DEF LockInv, LockType, ValueCounts
<1>6. HolderField'
  <2> SUFFICES ASSUME NEW m \in Lock, NEW u \in Thread
               PROVE  holder'[m] = u <=> Holds(u, m)' /\ pc'[u] \notin {"got", "clr", "up"}
    BY DEF HolderField
  <2>1. CASE u = t
    BY <1>0, <1>1, <1>2, <2>1 DEF LockInv, HolderField
  <2>2. CASE u # t
    BY <1>0, <1>1, <1>2, <2>2 DEF LockInv, HolderField
  <2> QED
    BY <2>1, <2>2
<1>7. RepeatField'
  <2> SUFFICES ASSUME NEW m \in Lock
               PROVE  /\ (\A u \in Thread : ~Holds(u, m)') => repeat'[m] = 0
                      /\ \A u \in Thread : Holds(u, m)' =>
                           /\ pc'[u] \in {"got", "rep", "up"} => repeat'[m] = 0
                           /\ pc'[u] = "clr" => repeat'[m] = 1
                           /\ pc'[u] \notin {"got", "rep", "up", "clr"} => repeat'[m] >= 1
    BY DEF RepeatField
  <2>1. CASE m = k
    BY <1>0, <1>1, <1>2, <2>1
  <2>2. CASE m # k
    BY <1>0, <1>1, <1>2, <2>2 DEF LockInv, RepeatField
  <2> QED
    BY <2>1, <2>2
<1>8. WaitersOnce'
  BY <1>1 DEF LockInv, WaitersOnce, NoRepeats
<1>9. WaitersOK'
  BY <1>1, <1>2 DEF LockInv, WaitersOK, Contains
<1>10. WaitersExist'
  BY <1>1, <1>2 DEF LockInv, WaitersExist
<1>11. WakeupOK'
  BY <1>1, <1>2 DEF LockInv, WakeupOK
<1> QED
  BY <1>3, <1>4, <1>5, <1>6, <1>7, <1>8, <1>9, <1>10, <1>11 DEF LockInv

LEMMA ParkKeeps ==
  ASSUME SchedAssumption, IInv, LockInv, OutsideOK,
         NEW t \in Thread, cur = t, t # Idle, pc[t] \in {"down", "wait"},
         Park(t), old' \in [Thread -> BOOLEAN], UNCHANGED <<holder, repeat, lk>>
  PROVE  LockInv'
<1> DEFINE k == lk[t]
<1>0. /\ pc = [u \in Thread |-> pc[u]] /\ lk \in [Thread -> Lock] /\ k \in Lock
      /\ waiters \in [Lock -> Seq(Thread)] /\ status[t] = "RUNNING"
  BY DEF LockInv, LockType, IInv
<1>1. /\ pc'[t] = "wait" /\ pc' = [u \in Thread |-> pc'[u]]
      /\ \A u \in Thread : u # t => pc'[u] = pc[u]
      /\ UNCHANGED <<value, holder, repeat, lk>>
      /\ value[k] = 0 /\ waiters' = [waiters EXCEPT ![k] = Append(waiters[k], t)]
  BY <1>0 DEF Park, Goto
<1>2. \A u \in Thread, m \in Lock : Holds(u, m)' <=> Holds(u, m)
  <2>1. ASSUME NEW m \in Lock PROVE ~Holds(t, m) /\ ~Holds(t, m)'
    BY <1>0, <1>1 DEF Holds, Neutral, Trying
  <2>2. ASSUME NEW u \in Thread, u # t, NEW m \in Lock PROVE Holds(u, m)' <=> Holds(u, m)
    BY <1>1, <2>2 DEF Holds
  <2> QED
    BY <2>1, <2>2
<1>3. status'[t] = "BLOCKED" /\ \A u \in Thread : u # t /\ pc[u] = "wait" => Kept(u)
  <2>1. Block("BLOCKED", TRUE, ~Contains(waiters[k], t))
    BY DEF Park
  <2>2. (\A u \in Thread \ {cur, Idle} : Kept(u)) /\ status'[cur] = "BLOCKED"
    BY <2>1, BlockKeeps
  <2> QED
    BY <2>2 DEF OutsideOK
<1>4. ~Contains(waiters[k], t) /\ NoRepeats(waiters[k]) /\ waiters[k] \in Seq(Thread)
  BY <1>0 DEF LockInv, WaitersOK, WaitersOnce
<1>5. /\ NoRepeats(waiters'[k]) /\ waiters'[k] \in Seq(Thread)
      /\ \A u \in Thread : Contains(waiters'[k], u) <=> Contains(waiters[k], u) \/ u = t
      /\ \A m \in Lock : m # k => waiters'[m] = waiters[m]
  BY <1>0, <1>1, <1>4, AppendWaiter
<1> HIDE DEF k
<1>6. LockType'
  BY <1>0, <1>1, <1>5 DEF LockInv, LockType
<1>7. OneHolds' /\ ValueCounts'
  BY <1>1, <1>2 DEF LockInv, OneHolds, ValueCounts
<1>8. \A u \in Thread, m \in Lock : Holds(u, m) => u # t
  BY <1>0 DEF Holds, Neutral, Trying
<1>9. HolderField'
  BY <1>1, <1>2, <1>8 DEF LockInv, HolderField
<1>10. RepeatField'
  BY <1>1, <1>2, <1>8 DEF LockInv, RepeatField
<1>11. WaitersOnce'
  BY <1>5 DEF LockInv, WaitersOnce
<1>12. WaitersOK'
  <2> SUFFICES ASSUME NEW u \in Thread, NEW m \in Lock
               PROVE  Contains(waiters'[m], u) <=> pc'[u] = "wait" /\ lk[u] = m /\ status'[u] = "BLOCKED"
    BY <1>1 DEF WaitersOK
  <2>1. CASE u = t
    <3>1. Contains(waiters'[m], t) <=> m = k
      BY <1>0, <1>5 DEF LockInv, WaitersOK
    <3> QED
      BY <1>1, <1>3, <2>1, <3>1 DEF k
  <2>2. CASE u # t
    <3>1. Contains(waiters'[m], u) <=> Contains(waiters[m], u)
      BY <1>5, <2>2
    <3> QED
      BY <1>1, <1>3, <2>2, <3>1 DEF LockInv, WaitersOK, Kept
  <2> QED
    BY <2>1, <2>2
<1>13. WaitersExist'
  BY <1>1, <1>3 DEF LockInv, WaitersExist, Kept, Awake
<1>14. WakeupOK'
  <2> SUFFICES ASSUME NEW m \in Lock, waiters'[m] # <<>>, value'[m] = 1
               PROVE  \E u \in Thread : pc'[u] = "wait" /\ lk[u] = m /\ status'[u] # "BLOCKED"
    BY <1>1 DEF WakeupOK
  <2>1. m # k /\ waiters[m] # <<>> /\ value[m] = 1
    BY <1>1, <1>5
  <2>2. PICK u \in Thread : pc[u] = "wait" /\ lk[u] = m /\ status[u] # "BLOCKED"
    BY <2>1 DEF LockInv, WakeupOK
  <2>3. u # t
    BY <2>1, <2>2 DEF k
  <2> QED
    BY <1>1, <1>3, <2>2, <2>3 DEF Kept
<1> QED
  BY <1>6, <1>7, <1>9, <1>10, <1>11, <1>12, <1>13, <1>14 DEF LockInv

LEMMA SemaUpKeeps ==
  ASSUME LockInv, NEW t \in Thread, NEW p, p \in Neutral, SemaUpTo(t, p),
         status \in [Thread -> Status]
  PROVE  LockInv'
<1> DEFINE k == lk[t]
           w == Head(waiters[k])
<1>0. /\ pc = [u \in Thread |-> pc[u]] /\ lk \in [Thread -> Lock] /\ k \in Lock
      /\ waiters \in [Lock -> Seq(Thread)] /\ value \in [Lock -> {0, 1}]
  BY DEF LockInv, LockType
<1>1. /\ pc[t] = "up" /\ pc'[t] = p /\ pc' = [u \in Thread |-> pc'[u]]
      /\ \A u \in Thread : u # t => pc'[u] = pc[u]
      /\ UNCHANGED <<holder, repeat, lk, old>>
      /\ value' = [value EXCEPT ![k] = value[k] + 1]
  BY <1>0 DEF SemaUpTo, At, Goto
<1>2. /\ \A m \in Lock : (Holds(t, m) <=> m = k) /\ ~Holds(t, m)'
      /\ \A u \in Thread, m \in Lock : Holds(u, m)' <=> Holds(u, m) /\ u # t
      /\ \A u \in Thread : u # t => ~Holds(u, k)
      /\ value[k] = 0 /\ repeat[k] = 0 /\ \A m \in Lock : holder[m] # t
  <2>1. \A m \in Lock : (Holds(t, m) <=> m = k) /\ ~Holds(t, m)'
    BY <1>0, <1>1 DEF Holds, Neutral, Trying
  <2>2. ASSUME NEW u \in Thread, u # t, NEW m \in Lock PROVE Holds(u, m)' <=> Holds(u, m)
    BY <1>1, <2>2 DEF Holds
  <2>3. (\A u \in Thread : u # t => ~Holds(u, k)) /\ value[k] = 0 /\ repeat[k] = 0
    BY <1>0, <1>1, <2>1 DEF LockInv, OneHolds, ValueCounts, RepeatField
  <2>4. \A m \in Lock : holder[m] # t
    BY <1>1 DEF LockInv, HolderField
  <2> QED
    BY <2>1, <2>2, <2>3, <2>4
<1>3. value' \in [Lock -> {0, 1}] /\ \A m \in Lock : value'[m] = IF m = k THEN 1 ELSE value[m]
  BY <1>0, <1>1, <1>2
<1>4. waiters' \in [Lock -> Seq(Thread)] => LockType'
  BY <1>0, <1>1, <1>3 DEF LockInv, LockType
<1>5. OneHolds'
  BY <1>2 DEF LockInv, OneHolds
<1>6. ValueCounts'
  <2> SUFFICES ASSUME NEW m \in Lock PROVE value'[m] = 0 <=> \E u \in Thread : Holds(u, m)'
    BY DEF ValueCounts
  <2>1. CASE m = k
    BY <1>2, <1>3, <2>1
  <2>2. CASE m # k
    BY <1>2, <1>3, <2>2 DEF LockInv, ValueCounts
  <2> QED
    BY <2>1, <2>2
<1>7. HolderField'
  BY <1>1, <1>2 DEF LockInv, HolderField
<1>8. RepeatField'
  <2> SUFFICES ASSUME NEW m \in Lock
               PROVE  /\ (\A u \in Thread : ~Holds(u, m)') => repeat[m] = 0
                      /\ \A u \in Thread : Holds(u, m)' =>
                           /\ pc'[u] \in {"got", "rep", "up"} => repeat[m] = 0
                           /\ pc'[u] = "clr" => repeat[m] = 1
                           /\ pc'[u] \notin {"got", "rep", "up", "clr"} => repeat[m] >= 1
    BY <1>1 DEF RepeatField
  <2>1. CASE m = k
    BY <1>2, <2>1
  <2>2. CASE m # k
    BY <1>1, <1>2, <2>2 DEF LockInv, RepeatField
  <2> QED
    BY <2>1, <2>2
<1>9. CASE waiters[k] = <<>>
  <2>1. UNCHANGED <<waiters, status>>
    BY <1>9 DEF SemaUpTo
  <2>2. WaitersOnce' /\ LockType'
    BY <1>0, <1>4, <2>1 DEF LockInv, WaitersOnce, NoRepeats
  <2>3. WaitersOK' /\ WaitersExist'
    BY <1>1, <2>1 DEF LockInv, WaitersOK, WaitersExist, Neutral
  <2>4. WakeupOK'
    <3> HIDE DEF k
    <3> SUFFICES ASSUME NEW m \in Lock, waiters[m] # <<>>, value'[m] = 1
                 PROVE  \E u \in Thread : pc'[u] = "wait" /\ lk[u] = m /\ status[u] # "BLOCKED"
      BY <1>1, <2>1 DEF WakeupOK
    <3>1. value[m] = 1
      BY <1>3, <1>9
    <3>2. PICK u \in Thread : pc[u] = "wait" /\ lk[u] = m /\ status[u] # "BLOCKED"
      BY <3>1 DEF LockInv, WakeupOK
    <3> QED
      BY <1>1, <3>2
  <2> QED
    BY <1>5, <1>6, <1>7, <1>8, <2>2, <2>3, <2>4 DEF LockInv
<1>10. CASE waiters[k] # <<>>
  <2>1. /\ NoRepeats(Tail(waiters[k])) /\ Tail(waiters[k]) \in Seq(Thread)
        /\ w \in Thread /\ Contains(waiters[k], w)
        /\ \A u \in Thread : Contains(Tail(waiters[k]), u) <=> Contains(waiters[k], u) /\ u # w
    BY <1>0, <1>10, PopWaiter DEF LockInv, WaitersOnce
  <2>2. waiters' = [waiters EXCEPT ![k] = Tail(waiters[k])] /\ status' = [status EXCEPT ![w] = "READY"]
    BY <1>10 DEF SemaUpTo, Unblock
  <2>3. pc[w] = "wait" /\ lk[w] = k /\ w # t
    BY <1>0, <1>1, <2>1 DEF LockInv, WaitersOK
  <2> HIDE DEF k, w
  <2>4. /\ waiters' \in [Lock -> Seq(Thread)]
        /\ \A m \in Lock : waiters'[m] = IF m = k THEN Tail(waiters[k]) ELSE waiters[m]
        /\ \A u \in Thread : status'[u] = IF u = w THEN "READY" ELSE status[u]
    BY <1>0, <2>1, <2>2
  <2>5. LockType' /\ WaitersOnce'
    BY <1>4, <2>1, <2>4 DEF LockInv, WaitersOnce
  <2>6. WaitersOK'
    <3> SUFFICES ASSUME NEW u \in Thread, NEW m \in Lock
                 PROVE  Contains(waiters'[m], u) <=> pc'[u] = "wait" /\ lk[u] = m /\ status'[u] = "BLOCKED"
      BY <1>1 DEF WaitersOK
    <3>1. Contains(waiters[m], u) <=> pc[u] = "wait" /\ lk[u] = m /\ status[u] = "BLOCKED"
      BY DEF LockInv, WaitersOK
    <3>2. CASE m = k
      BY <1>1, <2>1, <2>3, <2>4, <3>1, <3>2 DEF Neutral
    <3>3. CASE m # k
      BY <1>1, <2>1, <2>3, <2>4, <3>1, <3>3 DEF Neutral
    <3> QED
      BY <3>2, <3>3
  <2>7. WaitersExist'
    BY <1>1, <2>4 DEF LockInv, WaitersExist, Awake, Neutral
  <2>8. WakeupOK'
    <3> SUFFICES ASSUME NEW m \in Lock, waiters'[m] # <<>>, value'[m] = 1
                 PROVE  \E u \in Thread : pc'[u] = "wait" /\ lk[u] = m /\ status'[u] # "BLOCKED"
      BY <1>1 DEF WakeupOK
    <3>1. CASE m = k
      BY <1>1, <2>1, <2>3, <2>4, <3>1
    <3>2. CASE m # k
      <4>0. waiters[m] # <<>> /\ value[m] = 1
        BY <1>3, <2>4, <3>2
      <4>1. PICK u \in Thread : pc[u] = "wait" /\ lk[u] = m /\ status[u] # "BLOCKED"
        BY <4>0 DEF LockInv, WakeupOK
      <4> QED
        BY <1>1, <2>4, <4>1
    <3> QED
      BY <3>1, <3>2
  <2> QED
    BY <1>5, <1>6, <1>7, <1>8, <2>5, <2>6, <2>7, <2>8 DEF LockInv
<1> QED
  BY <1>9, <1>10
-----------------------------------------------------------------------------
(* Every step is a step of the scheduler, or none of its business: this    *)
(* includes that no ASSERT of sync.c fails.                                *)

(* cli, sti, popf and the gates.                                           *)
LEMMA FlagIsSched ==
  ASSUME IInv, cur # Idle, intr' \in BOOLEAN,
         UNCHANGED <<cur, status, ready, slice, saved, idlepc, panic>>
  PROVE  [Next]_vars
<1>1. intr \in BOOLEAN /\ cur \in Thread /\ ~panic
  BY DEF IInv, TypeOK
<1>2. CASE intr' = intr
  BY <1>2 DEF vars
<1>3. CASE intr' = TRUE /\ intr = FALSE
  BY <1>1, <1>3 DEF Next, IntrEnable, Client, SetIntr
<1>4. CASE intr' = FALSE /\ intr = TRUE
  BY <1>1, <1>4 DEF Next, IntrDisable, Client, SetIntr
<1> QED
  BY <1>1, <1>2, <1>3, <1>4

LEMMA ParkIsSched ==
  ASSUME IInv, LockInv, NEW t \in Thread, cur = t, t # Idle, Park(t)
  PROVE  [Next]_vars
<1>1. status[t] = "RUNNING" /\ lk[t] \in Lock /\ ~panic
  BY DEF IInv, LockInv, LockType
<1>2. (~Contains(waiters[lk[t]], t)) = TRUE
  BY <1>1 DEF LockInv, WaitersOK
<1>3. Block("BLOCKED", TRUE, TRUE) /\ UNCHANGED idlepc
  BY <1>2 DEF Park
<1> QED
  BY <1>1, <1>3 DEF Next, ClientBlock, Client

LEMMA DecrementIsSched ==
  ASSUME IInv, LockInv, NEW t \in Thread, cur = t, t # Idle,
         NEW flag \in BOOLEAN, Decrement(t, flag)
  PROVE  [Next]_vars
<1>1. value[lk[t]] = 1 /\ ~panic /\ panic \in BOOLEAN
  BY DEF LockInv, LockType, Decrement, IInv, TypeOK
<1>2. panic' = FALSE /\ intr' \in BOOLEAN /\ UNCHANGED <<cur, status, ready, slice, saved, idlepc>>
  BY <1>1 DEF Decrement
<1> QED
  BY <1>1, <1>2, FlagIsSched

LEMMA SetRepeatIsSched ==
  ASSUME IInv, LockInv, NEW t \in Thread, SetRepeat(t)
  PROVE  UNCHANGED vars
<1>1. pc[t] = "rep" /\ lk[t] \in Lock /\ panic = FALSE
  BY DEF SetRepeat, At, LockInv, LockType, IInv, TypeOK
<1>2. Holds(t, lk[t])
  BY <1>1 DEF Holds, Neutral, Trying
<1>3. repeat[lk[t]] = 0
  BY <1>1, <1>2 DEF LockInv, RepeatField
<1> QED
  BY <1>1, <1>3 DEF SetRepeat, Run, vars

LEMMA ReleaseIsSched ==
  ASSUME IInv, LockInv, NEW t \in Thread, NEW p, Own(p), ReleaseAt(t, p)
  PROVE  UNCHANGED vars
<1> DEFINE k == lk[t]
<1>1. pc[t] = p /\ k \in Lock /\ panic = FALSE /\ repeat[k] \in Nat
  BY DEF ReleaseAt, At, LockInv, LockType, IInv, TypeOK
<1>2. Holds(t, k) /\ p \notin {"got", "rep", "clr", "up"}
  BY <1>1 DEF Holds, Own
<1>3. holder[k] = t /\ repeat[k] >= 1
  BY <1>1, <1>2 DEF LockInv, HolderField, RepeatField
<1>4. panic' = FALSE
  <2>1. CASE repeat[k] > 1
    BY <1>3, <2>1 DEF ReleaseAt
  <2>2. CASE ~(repeat[k] > 1)
    <3>1. repeat[k] = 1
      BY <1>1, <1>3, <2>2
    <3> QED
      BY <1>3, <2>2, <3>1 DEF ReleaseAt
  <2> QED
    BY <2>1, <2>2
<1> QED
  BY <1>1, <1>4 DEF ReleaseAt, Run, vars

LEMMA SemaUpIsSched ==
  ASSUME IInv, LockInv, OutsideOK, NEW t \in Thread, NEW p, SemaUpTo(t, p)
  PROVE  [Next]_vars
<1> DEFINE k == lk[t]
           w == Head(waiters[k])
<1>1. pc[t] = "up" /\ cur = t /\ t # Idle /\ k \in Lock /\ panic = FALSE
  BY DEF SemaUpTo, At, LockInv, LockType, IInv, TypeOK
<1>2. Holds(t, k)
  BY <1>1 DEF Holds, Neutral, Trying
<1>3. value[k] = 0
  BY <1>1, <1>2 DEF LockInv, ValueCounts
<1>4. CASE waiters[k] = <<>>
  BY <1>1, <1>3, <1>4 DEF SemaUpTo, vars
<1>5. CASE waiters[k] # <<>>
  <2>1. w \in Thread /\ Contains(waiters[k], w)
    BY <1>1, <1>5, PopWaiter DEF LockInv, LockType, WaitersOnce
  <2>2. status[w] = "BLOCKED" /\ pc[w] = "wait"
    BY <1>1, <2>1 DEF LockInv, WaitersOK
  <2>3. w # Idle
    BY <2>2 DEF OutsideOK
  <2>4. (value[k] = 0) = TRUE
    BY <1>3
  <2>5. Unblock(w, TRUE) /\ UNCHANGED <<intr, idlepc>>
    BY <1>5, <2>4 DEF SemaUpTo
  <2> HIDE DEF w
  <2> QED
    BY <1>1, <2>1, <2>2, <2>3, <2>5 DEF Next, ClientUnblock, Client, Asleep
<1> QED
  BY <1>4, <1>5

(* The steps that Sync shares with the modules built on it: the timer and  *)
(* idle, the steps that are about no lock, and those of lock_acquire.      *)
LocksOK == IInv /\ LockInv /\ OutsideOK

(* They put nobody to sleep and wake nobody but in sema_down and sema_up.  *)
SleepKept ==
  \A u \in Thread : pc[u] \notin {"wait", "out"} /\ pc'[u] # "wait" => Kept(u)

LEMMA BackgroundStep ==
  ASSUME LocksOK, Tick \/ IdleBlock \/ IdleHalt, UNCHANGED <<lockVars, pc, lk, old>>
  PROVE  LockInv' /\ [Next]_vars /\ SleepKept
<1>0. IInv /\ LockInv /\ pc[Idle] = "out" /\ SchedAssumption /\ ~panic
  BY SchedAssumption DEF LocksOK, OutsideOK, IInv
<1>1. UNCHANGED <<value, waiters, holder, repeat, pc, lk, old>>
  BY DEF lockVars
<1>2. pc' = [u \in Thread |-> pc'[u]] /\ old' \in [Thread -> BOOLEAN]
  BY <1>0, <1>1 DEF LockInv, LockType
<1>3. \A u \in Thread : pc[u] # "out" => Kept(u)
  <2>1. CASE UNCHANGED status
    BY <2>1 DEF Kept
  <2>2. CASE Tick /\ slice[cur] = 0
    <3>1. Dispatch([status EXCEPT ![cur] = "READY"], Append(ready, cur), ~InReady(cur))
      BY <2>2 DEF Tick
    <3> QED
      BY <1>0, <3>1, PreemptKeeps
  <2>3. CASE IdleBlock
    <3>1. cur = Idle /\ Block("BLOCKED", FALSE, TRUE)
      BY <2>3 DEF IdleBlock
    <3> QED
      BY <1>0, <3>1, BlockKeeps
  <2> QED
    BY <2>1, <2>2, <2>3 DEF Tick, IdleHalt
<1> QED
  BY <1>0, <1>1, <1>2, <1>3, LockKept DEF Next, SleepKept

LEMMA PlainStep ==
  ASSUME LocksOK, NEW t \in Thread,
         BootDone(t) \/ SysEnter(t) \/ SysExit(t) \/ Fork(t) \/ ThreadStart(t)
  PROVE  LockInv' /\ [Next]_vars /\ SleepKept
<1>0. /\ IInv /\ LockInv /\ pc = [u \in Thread |-> pc[u]] /\ old \in [Thread -> BOOLEAN] /\ ~panic
      /\ status \in [Thread -> Status] /\ Kernel \subseteq Thread
  BY SyncAssumption DEF LocksOK, LockInv, LockType, IInv, TypeOK, SyncAssumption
<1>1. CASE BootDone(t) \/ SysEnter(t) \/ SysExit(t)
  <2>1. /\ UNCHANGED <<value, waiters, holder, repeat, lk, old, status>>
        /\ pc[t] \in {"boot", "sys", "out"}
        /\ \E p \in {"sys", "out"} : pc' = [pc EXCEPT ![t] = p]
    BY <1>1 DEF BootDone, SysEnter, SysExit, At, SetIntr, Goto, lockVars
  <2>2. pc' = [u \in Thread |-> pc'[u]] /\ \A u \in Thread :
          pc'[u] = pc[u] \/ (pc[u] \in Neutral /\ pc'[u] \in Neutral)
    BY <1>0, <2>1 DEF Neutral
  <2>3. LockInv'
    BY <1>0, <2>1, <2>2, LockKept DEF Kept
  <2>4. cur # Idle /\ intr' \in BOOLEAN /\ UNCHANGED <<cur, status, ready, slice, saved, idlepc, panic>>
    BY <1>1 DEF BootDone, SysEnter, SysExit, At, SetIntr
  <2> QED
    BY <1>0, <2>1, <2>3, <2>4, FlagIsSched DEF SleepKept, Kept
<1>2. CASE Fork(t) \/ ThreadStart(t)
  <2>1. /\ UNCHANGED <<value, waiters, holder, repeat, lk, pc, old>>
        /\ cur # Idle /\ UNCHANGED idlepc /\ \E u \in Thread : status[u] = "NEW" /\ Start(u)
    BY <1>0, <1>2 DEF Fork, ThreadStart, lockVars, At
  <2>2. \A v \in Thread : pc[v] # "out" => Kept(v)
    BY <1>0, <2>1 DEF LocksOK, OutsideOK, Start, Kept
  <2>3. LockInv'
    BY <1>0, <2>1, <2>2, LockKept
  <2> QED
    BY <1>0, <2>1, <2>2, <2>3 DEF Next, ClientStart, Client, SleepKept
<1> QED
  BY <1>1, <1>2

LEMMA AcquireStep ==
  ASSUME LocksOK, NEW t \in Thread,
         \/ TestHolder(t) \/ SemaDown(t) \/ SemaDownAgain(t)
         \/ SetHolder(t) \/ SetRepeat(t) \/ ClearRepeat(t)
  PROVE  LockInv' /\ [Next]_vars /\ SleepKept
<1>0. /\ IInv /\ LockInv /\ OutsideOK /\ SchedAssumption
      /\ old \in [Thread -> BOOLEAN] /\ intr \in BOOLEAN
  BY SchedAssumption DEF LocksOK, LockInv, LockType, IInv, TypeOK
<1>1. CASE TestHolder(t) \/ SetHolder(t) \/ ClearRepeat(t)
  <2>1. LockInv'
    BY <1>0, <1>1, TestHolderKeeps, SetHolderKeeps, ClearRepeatKeeps
  <2>2. UNCHANGED vars /\ UNCHANGED status
    BY <1>1 DEF TestHolder, SetHolder, ClearRepeat, Run, vars
  <2> QED
    BY <2>1, <2>2 DEF SleepKept, Kept
<1>2. CASE SetRepeat(t)
  BY <1>0, <1>2, SetRepeatKeeps, SetRepeatIsSched DEF SleepKept, Kept, vars
<1>3. CASE SemaDown(t) \/ SemaDownAgain(t)
  <2>1. /\ cur = t /\ t # Idle /\ pc[t] \in {"down", "wait"}
        /\ old' = [old EXCEPT ![t] = intr] \/ old' = old
        /\ UNCHANGED <<holder, repeat, lk>>
    BY <1>3 DEF SemaDown, SemaDownAgain, At
  <2>2. old' \in [Thread -> BOOLEAN] /\ old[t] \in BOOLEAN
    BY <1>0, <2>1
  <2>3. CASE Park(t)
    <3>1. LockInv' /\ [Next]_vars
      BY <1>0, <2>1, <2>2, <2>3, ParkKeeps, ParkIsSched
    <3>2. \A u \in Thread \ {cur, Idle} : Kept(u)
      BY <1>0, <2>3, BlockKeeps DEF Park
    <3>3. pc[Idle] = "out" /\ pc'[t] = "wait"
      BY <1>0, <2>3 DEF OutsideOK, Park, Goto, LockInv, LockType
    <3> QED
      BY <2>1, <3>1, <3>2, <3>3 DEF SleepKept
  <2>4. ASSUME NEW flag \in BOOLEAN, Decrement(t, flag) PROVE LockInv' /\ [Next]_vars /\ SleepKept
    <3>1. UNCHANGED status
      BY <2>4 DEF Decrement
    <3> QED
      BY <1>0, <2>1, <2>2, <2>4, <3>1, DecrementKeeps, DecrementIsSched DEF SleepKept, Kept
  <2> QED
    BY <1>0, <1>3, <2>2, <2>3, <2>4 DEF SemaDown, SemaDownAgain
<1> QED
  BY <1>1, <1>2, <1>3

(* lock_release, whose two ends are where the callers differ.              *)
LEMMA ReleaseStep ==
  ASSUME LocksOK, NEW t \in Thread, NEW p, Own(p), ReleaseAt(t, p)
  PROVE  LockInv' /\ [Next]_vars /\ SleepKept
BY ReleaseKeeps, ReleaseIsSched DEF LocksOK, SleepKept, Kept, vars

LEMMA SemaUpStep ==
  ASSUME LocksOK, NEW t \in Thread, NEW p, p \in Neutral, SemaUpTo(t, p)
  PROVE  LockInv' /\ [Next]_vars /\ SleepKept
<1>1. IInv /\ LockInv /\ OutsideOK /\ status \in [Thread -> Status]
  BY DEF LocksOK, IInv, TypeOK
<1>2. SleepKept
  <2> DEFINE k == lk[t]
             w == Head(waiters[k])
  <2>1. k \in Lock /\ waiters \in [Lock -> Seq(Thread)]
    BY <1>1 DEF LockInv, LockType
  <2>2. CASE waiters[k] = <<>>
    BY <2>2 DEF SemaUpTo, SleepKept, Kept
  <2>3. CASE waiters[k] # <<>>
    <3>1. w \in Thread /\ Contains(waiters[k], w)
      BY <1>1, <2>1, <2>3, PopWaiter DEF LockInv, WaitersOnce
    <3>2. pc[w] = "wait"
      BY <1>1, <2>1, <3>1 DEF LockInv, WaitersOK
    <3>3. status' = [status EXCEPT ![w] = "READY"]
      BY <2>3 DEF SemaUpTo, Unblock
    <3> HIDE DEF w
    <3> QED
      BY <1>1, <3>2, <3>3 DEF SleepKept, Kept
  <2> QED
    BY <2>2, <2>3
<1> QED
  BY <1>1, <1>2, SemaUpKeeps, SemaUpIsSched

LEMMA YieldStep ==
  ASSUME LocksOK, NEW t \in Thread, cur = t, t # Idle, Yield,
         UNCHANGED <<idlepc, lockVars, pc, lk, old>>
  PROVE  LockInv' /\ [Next]_vars /\ SleepKept
<1>0. IInv /\ LockInv /\ SchedAssumption /\ ~panic
  BY SchedAssumption DEF LocksOK, IInv
<1>1. /\ UNCHANGED <<value, waiters, holder, repeat, lk, pc, old>>
      /\ Dispatch([status EXCEPT ![cur] = "READY"], Append(ready, cur), ~InReady(cur))
  BY DEF Yield, lockVars
<1>2. \A v \in Thread : Kept(v)
  BY <1>0, <1>1, PreemptKeeps
<1>3. pc' = [u \in Thread |-> pc'[u]] /\ old' \in [Thread -> BOOLEAN]
  BY <1>0, <1>1 DEF LockInv, LockType
<1> QED
  BY <1>0, <1>1, <1>2, <1>3, LockKept DEF Next, ClientYield, Client, SleepKept

LEMMA SyncStepIsSched ==
  ASSUME SyncInv, [SyncNext]_syncVars
  PROVE  LockInv' /\ [Next]_vars
<1>0. LocksOK /\ LockInv /\ pc = [u \in Thread |-> pc[u]]
  BY DEF SyncInv, LocksOK, LockInv, LockType
<1>1. CASE UNCHANGED syncVars
  <2>1. UNCHANGED <<value, waiters, holder, repeat, lk, pc, old, status>> /\ UNCHANGED vars
    BY <1>1 DEF syncVars, vars
  <2>2. pc' = [u \in Thread |-> pc'[u]] /\ old' \in [Thread -> BOOLEAN]
    BY <1>0, <2>1 DEF LockInv, LockType
  <2> QED
    BY <1>0, <2>1, <2>2, LockKept DEF Kept
<1>2. CASE Background
  BY <1>0, <1>2, BackgroundStep DEF Background
<1>3. ASSUME NEW t \in Thread, ThreadStep(t) PROVE LockInv' /\ [Next]_vars
  <2>1. CASE BootDone(t) \/ SysEnter(t) \/ SysExit(t) \/ Fork(t) \/ ThreadStart(t)
    BY <1>0, <2>1, PlainStep
  <2>2. CASE YieldCpu(t)
    BY <1>0, <2>2, YieldStep DEF YieldCpu, At
  <2>3. ASSUME NEW l \in Lock, Acquire(t, l) PROVE LockInv' /\ [Next]_vars
    <3>1. /\ pc[t] \in {"out", "sys"} \/ (pc[t] = "own" /\ lk[t] = l)
          /\ pc' = [pc EXCEPT ![t] = "acq"] /\ lk' = [lk EXCEPT ![t] = l]
          /\ UNCHANGED <<value, waiters, holder, repeat, old, status>> /\ UNCHANGED vars
      BY <2>3 DEF Acquire, At, Caller, Goto, Run, lockVars, vars
    <3>2. pc[t] \in Neutral \/ (Own(pc[t]) /\ lk[t] = l)
      BY <3>1 DEF Own, Neutral, Trying
    <3> QED
      BY <1>0, <3>1, <3>2, AcquireKeeps
  <2>4. CASE TestHolder(t) \/ SemaDown(t) \/ SemaDownAgain(t) \/ SetHolder(t) \/ SetRepeat(t) \/ ClearRepeat(t)
    BY <1>0, <2>4, AcquireStep
  <2>5. CASE Release(t)
    BY <1>0, <2>5, ReleaseStep DEF Release, Own, Neutral, Trying
  <2>6. CASE SemaUp(t)
    BY <1>0, <2>6, SemaUpStep DEF SemaUp, Caller, Neutral
  <2> QED
    BY <1>3, <2>1, <2>2, <2>3, <2>4, <2>5, <2>6 DEF ThreadStep, LockStep
<1> QED
  BY <1>1, <1>2, <1>3 DEF SyncNext
-----------------------------------------------------------------------------
(* What a step of the scheduler does to the interrupt flags of the threads *)
(* that are not on the CPU, and to those that have not begun.              *)
LEMMA DispatchFlag ==
  ASSUME NEW f, TypeOK, saved' = [saved EXCEPT ![cur] = f], intr' = saved'[cur']
  PROVE  \A u \in Thread : Flag(u)' = IF u = cur THEN f ELSE saved[u]
<1>1. \A u \in Thread : saved'[u] = IF u = cur THEN f ELSE saved[u]
  BY DEF TypeOK
<1> QED
  BY <1>1 DEF Flag

LEMMA OthersFlag ==
  ASSUME SchedAssumption, IInv, [Next]_vars
  PROVE  /\ \A u \in Thread : status'[u] = "NEW" => status[u] = "NEW" /\ u # cur
         /\ \A u \in Thread : u # cur => \/ status[u] # "NEW" /\ Flag(u)' = Flag(u)
                                         \/ status[u] = "NEW" /\ status'[u] = "NEW"
                                         \/ status[u] = "NEW" /\ Flag(u)' = TRUE
<1>0. /\ TypeOK /\ cur \in Thread /\ status \in [Thread -> Status] /\ saved \in [Thread -> BOOLEAN]
      /\ \A u \in Thread : status[u] = "RUNNING" <=> u = cur
      /\ Idle \in Thread /\ status[Idle] # "NEW"
  BY DEF IInv, TypeOK, SchedAssumption
<1> DEFINE News  == \A u \in Thread : status'[u] = "NEW" => status[u] = "NEW" /\ u # cur
           Flags == \A u \in Thread : u # cur => \/ status[u] # "NEW" /\ Flag(u)' = Flag(u)
                                                 \/ status[u] = "NEW" /\ status'[u] = "NEW"
                                                 \/ status[u] = "NEW" /\ Flag(u)' = TRUE
<1>1. ASSUME NEW off, NEW ok, Block("BLOCKED", off, ok) PROVE News /\ Flags
  <2>1. PICK f : saved' = [saved EXCEPT ![cur] = f] /\ intr' = saved'[cur']
    BY <1>1 DEF Block, Dispatch
  <2>2. \A u \in Thread : u # cur => Flag(u)' = saved[u] /\ Flag(u) = saved[u]
    BY <1>0, <2>1, DispatchFlag DEF Flag
  <2>3. \A u \in Thread : (status'[u] = "NEW" <=> status[u] = "NEW")
    BY <1>0, <1>1, BlockKeeps DEF Kept
  <2> QED
    BY <1>0, <2>2, <2>3
<1>2. ASSUME NEW ok, NEW f, saved' = [saved EXCEPT ![cur] = f],
             Dispatch([status EXCEPT ![cur] = "READY"], Append(ready, cur), ok)
      PROVE  News /\ Flags
  <2>1. \A u \in Thread : u # cur => Flag(u)' = saved[u] /\ Flag(u) = saved[u]
    BY <1>0, <1>2, DispatchFlag DEF Flag, Dispatch
  <2>2. \A u \in Thread : (status'[u] = "NEW" <=> status[u] = "NEW")
    BY <1>0, <1>2, PreemptKeeps DEF Kept
  <2> QED
    BY <1>0, <2>1, <2>2
<1>3. ASSUME UNCHANGED <<cur, status, saved>> PROVE News /\ Flags
  BY <1>0, <1>3 DEF Flag
<1>4. ASSUME NEW v \in Thread, status[v] \in Asleep, NEW ok, Unblock(v, ok) PROVE News /\ Flags
  <2>1. cur' = cur /\ saved' = saved /\ status' = [status EXCEPT ![v] = "READY"]
    BY <1>4 DEF Unblock
  <2> QED
    BY <1>0, <1>4, <2>1 DEF Flag, Asleep
<1>5. ASSUME NEW v \in Thread, status[v] = "NEW", Start(v) PROVE News /\ Flags
  <2>1. /\ cur' = cur /\ saved' = [saved EXCEPT ![v] = TRUE]
        /\ status' = [status EXCEPT ![v] = "READY"]
    BY <1>5 DEF Start
  <2> QED
    BY <1>0, <1>5, <2>1 DEF Flag
<1>6. CASE ClientYield
  BY <1>2, <1>6 DEF ClientYield, Yield
<1>7. CASE Tick
  BY <1>2, <1>3, <1>7 DEF Tick
<1>8. CASE ClientBlock \/ IdleBlock
  BY <1>1, <1>8 DEF ClientBlock, IdleBlock
<1>9. CASE ClientUnblock \/ Device
  BY <1>4, <1>9 DEF ClientUnblock, Device, DeviceIntr
<1>10. CASE ClientStart
  BY <1>5, <1>10 DEF ClientStart
<1>11. CASE IdleHalt \/ DeviceOnly \/ IntrDisable \/ (\E t \in Thread : IntrEnable(t)) \/ UNCHANGED vars
  BY <1>3, <1>11 DEF IdleHalt, DeviceOnly, IntrDisable, IntrEnable, SetIntr, vars
<1> QED
  BY <1>6, <1>7, <1>8, <1>9, <1>10, <1>11 DEF Next

(* The thread on the CPU is the only one that moves.                       *)
LEMMA OutsideStep ==
  ASSUME SchedAssumption, IInv, OutsideOK, [Next]_vars,
         \A u \in Thread : u # cur => pc'[u] = pc[u], cur = Idle => pc'[Idle] = pc[Idle]
  PROVE  OutsideOK'
<1>1. Idle \in Thread
  BY DEF SchedAssumption
<1> QED
  BY <1>1, OthersFlag DEF OutsideOK

(* Then every flag is as the callers expect if its own flag is.            *)
LEMMA FlagStep ==
  ASSUME SchedAssumption, IInv, OutsideOK, FlagInv, [Next]_vars, NEW t \in Thread, cur = t,
         \A u \in Thread : u # t => pc'[u] = pc[u] /\ old'[u] = old[u],
         t # Idle /\ pc'[t] # "boot" => Flag(t)' = ExpectedFlag(t)',
         t = Idle => pc'[t] = pc[t],
         pc'[t] = "wait" => old'[t] = (t \in Kernel)
  PROVE  FlagInv' /\ OutsideOK'
<1>0. /\ cur = t /\ status[t] = "RUNNING" /\ Idle \in Thread
      /\ \A u \in Thread : status'[u] = "NEW" => status[u] = "NEW" /\ u # t
      /\ \A u \in Thread : u # t => \/ status[u] # "NEW" /\ Flag(u)' = Flag(u)
                                    \/ status[u] = "NEW" /\ status'[u] = "NEW"
                                    \/ status[u] = "NEW" /\ Flag(u)' = TRUE
  <2>1. cur = t /\ status[t] = "RUNNING" /\ Idle \in Thread
    BY DEF IInv, TypeOK, SchedAssumption
  <2> QED
    BY <2>1, OthersFlag
<1>1. OutsideOK'
  BY <1>0, OutsideStep
<1>2. ASSUME NEW u \in Thread, u # t, u # Idle, status'[u] # "NEW", pc'[u] # "boot"
      PROVE  Flag(u)' = ExpectedFlag(u)'
  <2>1. pc'[u] = pc[u] /\ ExpectedFlag(u)' = ExpectedFlag(u)
    BY <1>2 DEF ExpectedFlag
  <2>2. CASE status[u] # "NEW"
    <3>1. Flag(u) = ExpectedFlag(u)
      BY <1>2, <2>1, <2>2 DEF FlagInv, InterruptFlag
    <3> QED
      BY <1>0, <1>2, <2>1, <2>2, <3>1
  <2>3. CASE status[u] = "NEW"
    <3>1. pc[u] = "out"
      BY <2>3 DEF OutsideOK
    <3>2. ExpectedFlag(u) = TRUE
      BY <3>1 DEF ExpectedFlag
    <3> QED
      BY <1>0, <1>2, <2>1, <2>3, <3>2
  <2> QED
    BY <2>2, <2>3
<1>3. InterruptFlag'
  BY <1>0, <1>2 DEF InterruptFlag
<1>4. \A u \in Thread : pc'[u] = "wait" => old'[u] = (u \in Kernel)
  BY DEF FlagInv
<1> QED
  BY <1>1, <1>3, <1>4 DEF FlagInv

LEMMA SyncStepKeepsFlags ==
  ASSUME SyncInv, [SyncNext]_syncVars
  PROVE  FlagInv' /\ OutsideOK' /\ PlacesOK'
<1>0. /\ IInv /\ LockInv /\ OutsideOK /\ FlagInv /\ SchedAssumption
      /\ pc \in [Thread -> PC] /\ old \in [Thread -> BOOLEAN] /\ lk \in [Thread -> Lock]
      /\ intr \in BOOLEAN /\ TypeOK
      /\ cur \in Thread /\ status[cur] = "RUNNING"
      /\ \A t \in Thread : pc[t] = "wait" => old[t] = (t \in Kernel)
  BY SchedAssumption DEF SyncInv, LockInv, LockType, IInv, TypeOK, PlacesOK, FlagInv
<1>1. [Next]_vars
  BY SyncStepIsSched
<1>2. cur # Idle /\ pc[cur] # "boot" => intr = ExpectedFlag(cur)
  BY <1>0 DEF FlagInv, InterruptFlag, Flag
<1>3. CASE UNCHANGED syncVars
  BY <1>0, <1>3 DEF syncVars, FlagInv, InterruptFlag, OutsideOK, PlacesOK, Flag, ExpectedFlag
<1>4. CASE Background
  <2>1. UNCHANGED <<pc, old>>
    BY <1>4 DEF Background
  <2>2. ASSUME NEW t \in Thread, cur = t, t # Idle, pc[t] # "boot" PROVE Flag(t)' = ExpectedFlag(t)'
    <3>0. ExpectedFlag(t)' = ExpectedFlag(t) /\ intr = ExpectedFlag(t)
      BY <1>2, <2>1, <2>2 DEF ExpectedFlag
    <3>1. Tick
      BY <1>4, <2>2 DEF Background, IdleBlock, IdleHalt
    <3>2. CASE slice[cur] = 0
      <4>1. saved' = [saved EXCEPT ![cur] = TRUE] /\ intr' = saved'[cur']
        BY <3>1, <3>2 DEF Tick, Dispatch
      <4>2. Flag(t)' = TRUE
        BY <1>0, <2>2, <4>1, DispatchFlag
      <4>3. intr = TRUE
        BY <1>0, <3>1 DEF Tick
      <4> QED
        BY <3>0, <4>2, <4>3
    <3>3. CASE slice[cur] # 0
      BY <2>2, <3>0, <3>1, <3>3 DEF Tick, Flag
    <3> QED
      BY <3>2, <3>3
  <2> QED
    BY <1>0, <1>1, <2>1, <2>2, FlagStep DEF PlacesOK
<1>5. ASSUME NEW t \in Thread, ThreadStep(t) PROVE FlagInv' /\ OutsideOK' /\ PlacesOK'
  <2>0. cur = t /\ t # Idle
    BY <1>5 DEF ThreadStep, LockStep, BootDone, TestHolder, SemaDown, SemaDownAgain, SetHolder, SetRepeat,
                Release, ReleaseAt, ClearRepeat, SemaUp, SemaUpTo, SysExit, SysEnter, Fork, ThreadStart,
                YieldCpu, Acquire, At
  <2> DEFINE Good == /\ \E p \in PC : pc' = [pc EXCEPT ![t] = p]
                     /\ old' = [old EXCEPT ![t] = old'[t]]
                     /\ pc'[t] # "boot" => Flag(t)' = ExpectedFlag(t)'
                     /\ pc'[t] = "wait" => old'[t] = (t \in Kernel)
  <2>1. Good => FlagInv' /\ OutsideOK' /\ PlacesOK'
    <3> SUFFICES ASSUME Good PROVE FlagInv' /\ OutsideOK' /\ PlacesOK'
      OBVIOUS
    <3>1. PlacesOK'
      BY <1>0 DEF PlacesOK
    <3>2. \A u \in Thread : u # t => pc'[u] = pc[u] /\ old'[u] = old[u]
      BY <1>0, <2>0
    <3>3. FlagInv' /\ OutsideOK'
      BY <1>0, <1>1, <2>0, <3>2, FlagStep
    <3> QED
      BY <3>1, <3>3
  <2>2. ASSUME NEW p \in PC, pc' = [pc EXCEPT ![t] = p], old' = old, p \notin {"boot", "wait"},
               UNCHANGED cur, intr' = (IF t \in Kernel THEN TRUE ELSE p = "out")
        PROVE  Good
    <3>1. pc'[t] = p /\ old' = [old EXCEPT ![t] = old'[t]]
      BY <1>0, <2>2
    <3>2. Flag(t)' = ExpectedFlag(t)'
      BY <2>0, <2>2, <3>1 DEF Flag, ExpectedFlag
    <3> QED
      BY <2>2, <3>1, <3>2
  <2>3. ASSUME NEW p \in PC \ {"wait"}, pc' = [pc EXCEPT ![t] = p], old' = old,
               UNCHANGED <<cur, intr>>, pc[t] # "boot",
               IF t \in Kernel THEN p # "boot" /\ pc[t] # "wait" ELSE p = "out" <=> pc[t] = "out"
        PROVE  Good
    <3>1. pc'[t] = p /\ old' = [old EXCEPT ![t] = old'[t]]
      BY <1>0, <2>3
    <3>2. Flag(t)' = intr /\ intr = ExpectedFlag(t)
      BY <1>2, <2>0, <2>3 DEF Flag
    <3>3. ExpectedFlag(t)' = ExpectedFlag(t)
      BY <2>3, <3>1 DEF ExpectedFlag
    <3> QED
      BY <2>3, <3>1, <3>2, <3>3
  <2>4. CASE BootDone(t) \/ SysExit(t)
    <3>1. pc' = [pc EXCEPT ![t] = "out"] /\ old' = old /\ cur' = cur /\ intr' = TRUE
      BY <2>4 DEF BootDone, SysExit, Goto, SetIntr
    <3> QED
      BY <2>1, <2>2, <3>1 DEF PC
  <2>5. CASE SysEnter(t)
    <3>1. /\ pc' = [pc EXCEPT ![t] = "sys"] /\ old' = old /\ cur' = cur /\ intr' = FALSE
          /\ t \notin Kernel
      BY <2>5 DEF SysEnter, Goto, SetIntr
    <3> QED
      BY <2>1, <2>2, <3>1 DEF PC
  <2>6. CASE Fork(t) \/ TestHolder(t) \/ SetHolder(t) \/ SetRepeat(t) \/ Release(t) \/ ClearRepeat(t)
    <3>1. /\ \E p \in PC \ {"boot", "out", "wait"} : pc' = [pc EXCEPT ![t] = p]
          /\ pc[t] \notin {"boot", "out", "wait"} /\ old' = old /\ UNCHANGED <<cur, intr>>
      BY <1>0, <2>6 DEF Fork, Start, TestHolder, SetHolder, SetRepeat, Release, ReleaseAt, ClearRepeat,
                        At, Goto, Run, PC
    <3> QED
      BY <2>1, <2>3, <3>1
  <2>7. CASE ThreadStart(t)
    <3>1. pc' = pc /\ old' = old /\ pc[t] = "boot"
      BY <2>7 DEF ThreadStart, At
    <3> QED
      BY <1>0, <2>1, <3>1 DEF PC
  <2>8. CASE YieldCpu(t)
    <3>1. pc' = pc /\ old' = old /\ pc[t] \in {"sys", "own"}
      BY <2>8 DEF YieldCpu, At
    <3>2. Flag(t)' = intr
      BY <1>0, <2>0, <2>8, DispatchFlag DEF YieldCpu, Yield, Dispatch
    <3>3. ExpectedFlag(t)' = intr
      BY <1>2, <2>0, <3>1 DEF ExpectedFlag
    <3> QED
      BY <1>0, <2>1, <3>1, <3>2, <3>3 DEF PC
  <2>9. ASSUME NEW l \in Lock, Acquire(t, l) PROVE Good
    <3>1. /\ pc' = [pc EXCEPT ![t] = "acq"] /\ old' = old /\ UNCHANGED <<cur, intr>>
          /\ pc[t] \in {Caller(t), "own"}
      BY <2>9 DEF Acquire, At, Goto, Run
    <3> QED
      BY <2>3, <3>1 DEF PC, Caller
  <2>10. CASE SemaUp(t)
    <3>1. /\ pc' = [pc EXCEPT ![t] = Caller(t)] /\ old' = old /\ UNCHANGED intr
          /\ UNCHANGED cur /\ pc[t] = "up"
      BY <2>10 DEF SemaUp, SemaUpTo, At, Goto, Unblock
    <3>2. intr' = (IF t \in Kernel THEN TRUE ELSE Caller(t) = "out")
      BY <1>2, <2>0, <3>1 DEF ExpectedFlag, Caller
    <3>3. Caller(t) \in PC /\ Caller(t) \notin {"boot", "wait"}
      BY DEF PC, Caller
    <3> QED
      BY <2>1, <2>2, <3>1, <3>2, <3>3
  <2>11. CASE SemaDown(t) \/ SemaDownAgain(t)
    <3>1. /\ pc[t] \in {"down", "wait"}
          /\ \/ pc[t] = "down" /\ old' = [old EXCEPT ![t] = intr]
             \/ pc[t] = "wait" /\ old' = old
          /\ Park(t) \/ Decrement(t, old'[t])
      <4>1. CASE SemaDown(t)
        <5>1. old' = [old EXCEPT ![t] = intr] /\ pc[t] = "down" /\ (Park(t) \/ Decrement(t, intr))
          BY <4>1 DEF SemaDown, At
        <5>2. old'[t] = intr
          BY <1>0, <5>1
        <5>3. Decrement(t, intr) => Decrement(t, old'[t])
          BY <5>2 DEF Decrement
        <5> QED
          BY <5>1, <5>3
      <4>2. CASE SemaDownAgain(t)
        BY <4>2 DEF SemaDownAgain, At
      <4> QED
        BY <2>11, <4>1, <4>2
    <3>2. old'[t] = (t \in Kernel) /\ old' = [old EXCEPT ![t] = old'[t]]
      BY <1>0, <1>2, <2>0, <3>1 DEF ExpectedFlag
    <3>3. CASE Park(t)
      <4>1. pc' = [pc EXCEPT ![t] = "wait"] /\ intr' = saved'[cur']
        BY <3>3 DEF Park, Block, Goto, Dispatch
      <4>2. saved' = [saved EXCEPT ![cur] = FALSE]
        BY <3>3 DEF Park, Block
      <4>3. Flag(t)' = FALSE
        BY <1>0, <2>0, <4>1, <4>2, DispatchFlag
      <4>4. pc'[t] = "wait" /\ ExpectedFlag(t)' = FALSE
        BY <1>0, <4>1 DEF ExpectedFlag
      <4> QED
        BY <2>1, <3>2, <4>1, <4>3, <4>4 DEF PC
    <3>4. CASE Decrement(t, old'[t])
      <4>1. pc' = [pc EXCEPT ![t] = "got"] /\ intr' = old'[t] /\ UNCHANGED cur
        BY <3>4 DEF Decrement, Goto
      <4>2. Flag(t)' = (t \in Kernel)
        BY <2>0, <3>2, <4>1 DEF Flag
      <4>3. pc'[t] = "got" /\ ExpectedFlag(t)' = (t \in Kernel)
        BY <1>0, <4>1 DEF ExpectedFlag
      <4> QED
        BY <2>1, <3>2, <4>1, <4>2, <4>3 DEF PC
    <3> QED
      BY <3>1, <3>3, <3>4
  <2> QED
    BY <1>5, <2>1, <2>4, <2>5, <2>6, <2>7, <2>8, <2>9, <2>10, <2>11 DEF ThreadStep, LockStep
<1> QED
  BY <1>3, <1>4, <1>5 DEF SyncNext
-----------------------------------------------------------------------------
LEMMA SyncInvInit == SyncInit => SyncInv
<1> SUFFICES ASSUME SyncInit PROVE SyncInv
  OBVIOUS
<1>0. /\ Main \in Thread /\ Idle \in Thread /\ Main # Idle /\ NoThread \notin Thread
      /\ Main \in Kernel /\ Kernel \subseteq Thread /\ Lock # {} /\ (CHOOSE l \in Lock : TRUE) \in Lock
  BY SchedAssumption, SyncAssumption DEF SchedAssumption, SyncAssumption
<1>1. IInv
  BY SchedAssumption, IInvInit DEF SyncInit
<1>2. /\ \A t \in Thread : pc[t] = (IF t = Main THEN "boot" ELSE "out") /\ lk[t] \in Lock /\ old[t] = TRUE
      /\ pc = [t \in Thread |-> pc[t]] /\ lk \in [Thread -> Lock] /\ old \in [Thread -> BOOLEAN]
      /\ \A l \in Lock : value[l] = 1 /\ waiters[l] = <<>> /\ holder[l] = NoThread /\ repeat[l] = 0
  BY <1>0 DEF SyncInit
<1>3. /\ \A t \in Thread, l \in Lock : ~Holds(t, l)
      /\ \A t \in Thread : pc[t] # "wait"
  BY <1>2 DEF Holds, Neutral, Trying
<1>4. LockType
  BY <1>0, <1>2 DEF SyncInit, LockType
<1>5. OneHolds /\ ValueCounts /\ HolderField /\ RepeatField
  BY <1>0, <1>2, <1>3 DEF OneHolds, ValueCounts, HolderField, RepeatField
<1>6. WaitersOnce /\ WaitersOK /\ WaitersExist /\ WakeupOK
  BY <1>2, <1>3 DEF WaitersOnce, WaitersOK, WaitersExist, WakeupOK, NoRepeats, Contains
<1>7. OutsideOK
  <2>1. status[Main] = "RUNNING"
    BY <1>0 DEF SyncInit, Init
  <2> QED
    BY <1>0, <1>2, <2>1 DEF OutsideOK
<1>8. FlagInv
  <2>1. ASSUME NEW t \in Thread, pc[t] # "boot" PROVE Flag(t) = TRUE /\ ExpectedFlag(t) = TRUE
    <3>1. t # Main /\ pc[t] = "out" /\ cur = Main /\ saved[t] = TRUE
      BY <1>2, <2>1 DEF SyncInit, Init
    <3>2. Flag(t) = TRUE
      BY <3>1 DEF Flag
    <3>3. ExpectedFlag(t) = TRUE
      BY <3>1 DEF ExpectedFlag
    <3> QED
      BY <3>2, <3>3
  <2> QED
    BY <1>3, <2>1 DEF FlagInv, InterruptFlag
<1>9. PlacesOK
  BY <1>2 DEF PlacesOK, PC
<1> QED
  BY <1>1, <1>4, <1>5, <1>6, <1>7, <1>8, <1>9 DEF SyncInv, LockInv

(* Whatever the threads, the timer and the processes do, the semaphore,    *)
(* the fields of every lock, its waiters and the interrupt flags are as    *)
(* the place of each thread in lock_acquire and lock_release says.         *)
THEOREM SyncInvariant == SyncSpec => []SyncInv
<1>1. SyncInit => SyncInv
  BY SyncInvInit
<1>2. SyncInv /\ [SyncNext]_syncVars => SyncInv'
  <2> SUFFICES ASSUME SyncInv, [SyncNext]_syncVars PROVE SyncInv'
    OBVIOUS
  <2>1. IInv'
    BY SchedAssumption, SyncStepIsSched, IInvNext DEF SyncInv
  <2>2. LockInv'
    BY SyncStepIsSched
  <2>3. FlagInv' /\ OutsideOK' /\ PlacesOK'
    BY SyncStepKeepsFlags
  <2> QED
    BY <2>1, <2>2, <2>3 DEF SyncInv
<1> QED
  BY <1>1, <1>2, PTL DEF SyncSpec

(* The locks never misuse the scheduler: every step of a program of kernel *)
(* threads and processes that take locks is a step the scheduler allows.   *)
(* In particular no ASSERT of sync.c, list.c or thread.c fails.            *)
THEOREM SyncImplementsSched == SyncSpec => ImplementsSched
<1>1. SyncInit => Init
  BY DEF SyncInit
<1>2. SyncInv /\ [SyncNext]_syncVars => [Next]_vars
  BY SyncStepIsSched
<1> QED
  BY <1>1, <1>2, SyncInvariant, PTL DEF SyncSpec, ImplementsSched, Spec

(* No ASSERT of sema_down, sema_up, lock_acquire or lock_release fails:    *)
(* a caller is never already in the waiters, the value is 0 when sema_up   *)
(* is called, and the counter of a lock just taken is 0.                   *)
THEOREM SyncNoPanic == SyncSpec => []NoPanic
<1>1. SyncInv => NoPanic
  BY DEF SyncInv, IInv, NoPanic
<1> QED
  BY <1>1, SyncInvariant, PTL

(* At most one thread is between sema_down and sema_up of a lock, and the  *)
(* semaphore is 0 exactly while there is one.                              *)
THEOREM SyncMutualExclusion == SyncSpec => []MutualExclusion
<1>1. SyncInv => MutualExclusion
  <2> SUFFICES ASSUME SyncInv PROVE MutualExclusion
    OBVIOUS
  <2>1. \A t \in Thread, l \in Lock : t \in Inside(l) <=> Holds(t, l)
    BY DEF SyncInv, PlacesOK, PC, Inside, Holds, Neutral, Trying
  <2>2. \A l \in Lock : Inside(l) \subseteq Thread
    BY DEF Inside
  <2> QED
    BY <2>1, <2>2 DEF SyncInv, LockInv, OneHolds, ValueCounts, MutualExclusion
<1> QED
  BY <1>1, SyncInvariant, PTL

(* sema_up raises the value without handing it over: while the lock is     *)
(* free and threads wait for it, one of them has been woken and has still  *)
(* to retry.                                                               *)
THEOREM SyncNoLostWakeup == SyncSpec => []NoLostWakeup
<1>1. SyncInv => NoLostWakeup
  BY DEF SyncInv, LockInv, WakeupOK, WaitersExist, NoLostWakeup, Awake
<1> QED
  BY <1>1, SyncInvariant, PTL

(* A thread is in a list of waiters exactly while it sleeps in sema_down   *)
(* of that lock.                                                           *)
THEOREM SyncWaitersSleep == SyncSpec => []WaitersSleep
<1>1. SyncInv => WaitersSleep
  BY DEF SyncInv, LockInv, WaitersOK, WaitersSleep, Waits
<1> QED
  BY <1>1, SyncInvariant, PTL

(* sema_down and sema_up give back the interrupt flag they found: on for a *)
(* kernel thread, off inside the system call of a process.                 *)
THEOREM SyncInterruptFlag == SyncSpec => []InterruptFlag
<1>1. SyncInv => InterruptFlag
  BY DEF SyncInv, FlagInv
<1> QED
  BY <1>1, SyncInvariant, PTL
-----------------------------------------------------------------------------
(* The abstract mutex.  A thread that writes pc, holder or repeat changes  *)
(* the owner or the depth of no lock it does not hold.                     *)
LEMMA OtherLocksSame ==
  ASSUME LockInv, NEW t \in Thread, NEW k \in Lock,
         \A u \in Thread : u # t => pc'[u] = pc[u],
         holder' \in [Lock -> Thread \cup {NoThread}], repeat' \in [Lock -> Nat],
         \A m \in Lock : m # k => holder'[m] = holder[m] /\ repeat'[m] = repeat[m],
         \A m \in Lock : m # k => holder[m] # t
  PROVE  /\ \A m \in Lock : m # k => DepthBar'[m] = DepthBar[m]
         /\ DepthBar' = [DepthBar EXCEPT ![k] = DepthBar'[k]]
         /\ holder' = [holder EXCEPT ![k] = holder'[k]]
<1>1. holder \in [Lock -> Thread \cup {NoThread}]
  BY DEF LockInv, LockType
<1>2. \A m \in Lock : m # k => DepthBar'[m] = DepthBar[m]
  BY <1>1 DEF DepthBar
<1>3. /\ DepthBar = [m \in Lock |-> DepthBar[m]]
      /\ DepthBar' = [m \in Lock |-> DepthBar'[m]]
  BY DEF DepthBar
<1>4. DepthBar' = [DepthBar EXCEPT ![k] = DepthBar'[k]]
  BY <1>2, <1>3
<1>5. holder' = [holder EXCEPT ![k] = holder'[k]]
  BY <1>1
<1> QED
  BY <1>2, <1>4, <1>5

(* A step of t that writes pc[t] alone, away from the point between the    *)
(* two assignments of lock_acquire.                                        *)
LEMMA OwnerSame ==
  ASSUME LockInv, NEW t \in Thread, UNCHANGED <<holder, repeat>>,
         \A u \in Thread : u # t => pc'[u] = pc[u], pc[t] # "rep", pc'[t] # "rep"
  PROVE  UNCHANGED M!mutexVars
<1>1. \A m \in Lock : DepthBar'[m] = DepthBar[m]
  <2> SUFFICES ASSUME NEW m \in Lock PROVE DepthBar'[m] = DepthBar[m]
    OBVIOUS
  <2>1. holder[m] \in Thread \cup {NoThread}
    BY DEF LockInv, LockType
  <2> QED
    BY <2>1 DEF DepthBar
<1>2. DepthBar' = DepthBar
  BY <1>1 DEF DepthBar
<1> QED
  BY <1>2 DEF M!mutexVars

LEMMA SyncStepIsMutex ==
  ASSUME SyncInv, LockInv', [SyncNext]_syncVars
  PROVE  [M!MutexNext]_(M!mutexVars)
<1>0. /\ LockInv /\ pc \in [Thread -> PC] /\ lk \in [Thread -> Lock]
      /\ holder \in [Lock -> Thread \cup {NoThread}] /\ repeat \in [Lock -> Nat]
      /\ holder' \in [Lock -> Thread \cup {NoThread}] /\ repeat' \in [Lock -> Nat]
      /\ NoThread \notin Thread
  BY SyncAssumption DEF SyncInv, PlacesOK, LockInv, LockType, SyncAssumption
<1>1. ASSUME UNCHANGED <<holder, repeat, pc>> PROVE UNCHANGED M!mutexVars
  BY <1>1 DEF M!mutexVars, DepthBar
<1>2. CASE UNCHANGED syncVars \/ Background
  BY <1>1, <1>2 DEF syncVars, Background, lockVars
<1>3. ASSUME NEW t \in Thread, ThreadStep(t) PROVE [M!MutexNext]_(M!mutexVars)
  <2> DEFINE k == lk[t]
  <2>0. k \in Lock
    BY <1>0
  <2>1. CASE Fork(t) \/ ThreadStart(t) \/ YieldCpu(t)
    BY <1>1, <2>1 DEF Fork, ThreadStart, YieldCpu, lockVars
  <2>2. CASE \/ BootDone(t) \/ SysEnter(t) \/ SysExit(t) \/ SemaDown(t) \/ SemaDownAgain(t) \/ SemaUp(t)
             \/ (TestHolder(t) /\ holder[k] # t) \/ \E l \in Lock : Acquire(t, l)
    <3>1. /\ UNCHANGED <<holder, repeat>> /\ pc[t] # "rep"
          /\ \E p \in PC \ {"rep"} : pc' = [pc EXCEPT ![t] = p]
      BY <2>2 DEF BootDone, SysEnter, SysExit, SemaDown, SemaDownAgain, Park, Decrement, SemaUp, SemaUpTo,
                  TestHolder, Acquire, At, Goto, Caller, lockVars, PC
    <3>2. pc'[t] # "rep" /\ \A u \in Thread : u # t => pc'[u] = pc[u]
      BY <1>0, <3>1
    <3> QED
      BY <1>0, <3>1, <3>2, OwnerSame
  <2>3. CASE \/ TestHolder(t) /\ holder[k] = t
             \/ SetHolder(t) \/ SetRepeat(t) \/ Release(t) \/ ClearRepeat(t)
    <3>1. /\ \A u \in Thread : u # t => pc'[u] = pc[u]
          /\ \A m \in Lock : m # k => holder'[m] = holder[m] /\ repeat'[m] = repeat[m]
          /\ pc[t] \in {"acq", "got", "rep", "own", "clr"}
      BY <1>0, <2>3 DEF TestHolder, SetHolder, SetRepeat, Release, ReleaseAt, ClearRepeat, At, Goto
    <3>2. \A m \in Lock : m # k => holder[m] # t
      BY <1>0 DEF LockInv, HolderField, Holds
    <3>3. /\ DepthBar' = [DepthBar EXCEPT ![k] = DepthBar'[k]]
          /\ holder' = [holder EXCEPT ![k] = holder'[k]]
      BY <1>0, <2>0, <3>1, <3>2, OtherLocksSame
    <3>4. /\ DepthBar[k] = IF holder[k] = NoThread THEN 0 ELSE IF pc[holder[k]] = "rep" THEN 1 ELSE repeat[k]
          /\ DepthBar'[k] = IF holder'[k] = NoThread THEN 0 ELSE IF pc'[holder'[k]] = "rep" THEN 1 ELSE repeat'[k]
      BY <2>0 DEF DepthBar
    <3>5. CASE TestHolder(t) /\ holder[k] = t
      <4>1. holder' = holder /\ repeat'[k] = repeat[k] + 1 /\ pc'[t] = "own" /\ pc[t] = "acq"
        BY <1>0, <2>0, <3>5 DEF TestHolder, At, Goto
      <4>2. DepthBar'[k] = DepthBar[k] + 1
        BY <1>0, <3>4, <3>5, <4>1
      <4>3. M!TakeAgain(t, k)
        BY <3>3, <3>5, <4>1, <4>2 DEF M!TakeAgain
      <4> QED
        BY <2>0, <4>3 DEF M!MutexNext
    <3>6. CASE SetHolder(t)
      <4>1. pc[t] = "got" /\ pc'[t] = "rep" /\ holder'[k] = t
        BY <1>0, <2>0, <3>6 DEF SetHolder, At, Goto
      <4>2. holder[k] = NoThread
        <5>1. Holds(t, k)
          BY <4>1 DEF Holds, Neutral, Trying
        <5> QED
          BY <1>0, <2>0, <4>1, <5>1 DEF LockInv, HolderField, OneHolds
      <4>3. M!Take(t, k)
        BY <1>0, <3>3, <3>4, <4>1, <4>2 DEF M!Take
      <4> QED
        BY <2>0, <4>3 DEF M!MutexNext
    <3>7. CASE SetRepeat(t)
      <4>1. pc[t] = "rep" /\ pc'[t] = "own" /\ holder' = holder /\ repeat'[k] = 1
        BY <1>0, <2>0, <3>7 DEF SetRepeat, At, Goto
      <4>2. holder[k] = t
        BY <1>0, <2>0, <4>1 DEF LockInv, HolderField, Holds, Neutral, Trying
      <4>3. DepthBar'[k] = DepthBar[k]
        BY <1>0, <3>4, <4>1, <4>2
      <4> QED
        BY <3>3, <4>1, <4>3 DEF M!mutexVars, DepthBar
    <3>8. CASE Release(t)
      <4>1. pc[t] = "own"
        BY <3>8 DEF Release, ReleaseAt, At
      <4>2. Holds(t, k)
        BY <4>1 DEF Holds, Neutral, Trying
      <4>3. holder[k] = t /\ repeat[k] >= 1 /\ repeat[k] \in Nat
        BY <1>0, <2>0, <4>1, <4>2 DEF LockInv, HolderField, RepeatField
      <4>4. DepthBar[k] = repeat[k]
        BY <1>0, <3>4, <4>1, <4>3
      <4>5. CASE repeat[k] > 1
        <5>1. holder' = holder /\ pc' = pc /\ repeat'[k] = repeat[k] - 1
          BY <1>0, <2>0, <3>8, <4>5 DEF Release, ReleaseAt
        <5>2. DepthBar'[k] = DepthBar[k] - 1
          BY <1>0, <3>4, <4>1, <4>3, <4>4, <5>1
        <5>3. M!Give(t, k)
          BY <3>3, <4>3, <4>4, <4>5, <5>1, <5>2 DEF M!Give
        <5> QED
          BY <2>0, <5>3 DEF M!MutexNext
      <4>6. CASE ~(repeat[k] > 1)
        <5>1. repeat[k] = 1
          BY <4>3, <4>6
        <5>2. holder'[k] = NoThread
          BY <1>0, <2>0, <3>8, <4>6 DEF Release, ReleaseAt
        <5>3. M!Give(t, k)
          BY <3>3, <3>4, <4>3, <4>4, <5>1, <5>2 DEF M!Give
        <5> QED
          BY <2>0, <5>3 DEF M!MutexNext
      <4> QED
        BY <4>5, <4>6
    <3>9. CASE ClearRepeat(t)
      <4>1. pc[t] = "clr" /\ pc'[t] = "up" /\ holder' = holder
        BY <1>0, <2>0, <3>9 DEF ClearRepeat, At, Goto
      <4>2. holder[k] = NoThread
        <5>1. Holds(t, k)
          BY <4>1 DEF Holds, Neutral, Trying
        <5> QED
          BY <1>0, <2>0, <4>1, <5>1 DEF LockInv, HolderField, OneHolds
      <4>3. DepthBar'[k] = DepthBar[k]
        BY <3>4, <4>1, <4>2
      <4> QED
        BY <3>3, <4>1, <4>3 DEF M!mutexVars, DepthBar
    <3> QED
      BY <2>3, <3>5, <3>6, <3>7, <3>8, <3>9
  <2> QED
    BY <1>3, <2>1, <2>2, <2>3 DEF ThreadStep, LockStep
<1> QED
  BY <1>2, <1>3 DEF SyncNext

(* A struct lock is a mutex that its owner may take again: the holder and  *)
(* the counter of lock.c, read at the points where both are set, change as *)
(* the owner and the depth of the abstract mutex do.                       *)
THEOREM SyncImplementsMutex == SyncSpec => ImplementsMutex
<1>1. SyncInit => M!MutexInit
  <2> SUFFICES ASSUME SyncInit PROVE M!MutexInit
    OBVIOUS
  <2>1. holder = [l \in Lock |-> NoThread] /\ \A l \in Lock : DepthBar[l] = 0
    BY DEF SyncInit, DepthBar
  <2>2. DepthBar = [l \in Lock |-> 0]
    BY <2>1 DEF DepthBar
  <2> QED
    BY <2>1, <2>2 DEF M!MutexInit
<1>2. SyncInv /\ SyncInv' /\ [SyncNext]_syncVars => [M!MutexNext]_(M!mutexVars)
  BY SyncStepIsMutex DEF SyncInv
<1> QED
  BY <1>1, <1>2, SyncInvariant, PTL DEF SyncSpec, ImplementsMutex, M!MutexSpec
=============================================================================
