------------------------------- MODULE Mutex -------------------------------
(***************************************************************************)
(* What a struct lock promises its callers: at most one owner, who may     *)
(* take it again and gives it up by as many releases.                      *)
(***************************************************************************)
EXTENDS Naturals

CONSTANTS Thread, Lock, NoThread

VARIABLES owner, depth

mutexVars == <<owner, depth>>

MutexInit == owner = [l \in Lock |-> NoThread] /\ depth = [l \in Lock |-> 0]

Take(t, l) ==
  /\ owner[l] = NoThread
  /\ owner' = [owner EXCEPT ![l] = t]
  /\ depth' = [depth EXCEPT ![l] = 1]

TakeAgain(t, l) ==
  /\ owner[l] = t
  /\ depth' = [depth EXCEPT ![l] = @ + 1]
  /\ UNCHANGED owner

Give(t, l) ==
  /\ owner[l] = t
  /\ depth' = [depth EXCEPT ![l] = @ - 1]
  /\ owner' = IF depth[l] = 1 THEN [owner EXCEPT ![l] = NoThread] ELSE owner

MutexNext == \E t \in Thread, l \in Lock : Take(t, l) \/ TakeAgain(t, l) \/ Give(t, l)

MutexSpec == MutexInit /\ [][MutexNext]_mutexVars
=============================================================================
