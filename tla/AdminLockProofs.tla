-------------------------- MODULE AdminLockProofs --------------------------
(***************************************************************************)
(* Proofs about AdminLock, for any number of setups, tasks and any timeout.*)
(*                                                                         *)
(* The inductive invariant adds to the two statements about tasks          *)
(*   Timing: what is left of a pending task's sleep and the time since the *)
(*     unlock that armed it add up to the timeout at least;                *)
(*   HandlesOwned: a handle names a task its own entity armed, so cancelling *)
(*     it cannot hit the task of another entity;                           *)
(*   Unborn: the entities that a later reload will add are untouched, which*)
(*     is what lets a reload show "locked" at once.                        *)
(***************************************************************************)
EXTENDS AdminLock, TLAPS

Timing == \A t \in pending : left[t] + sinceUnlock[owner[t]] >= Timeout

HandlesOwned ==
  \A e \in Entity : autoLockTask[e] # NoTask => owner[autoLockTask[e]] = e

Unborn == /\ \A e \in Entity : e > live => isLocked[e] /\ autoLockTask[e] = NoTask
          /\ \A t \in pending : owner[t] <= live

IndInv == /\ TypeOK
          /\ AutoLockArmed
          /\ OneTaskPerEntity
          /\ NeverShownLockedWhileOpen
          /\ Timing
          /\ HandlesOwned
          /\ Unborn

-----------------------------------------------------------------------------
(* A task armed by an unlock is fresh: neither pending nor held. *)
LEMMA FreshTaskIsNew ==
  ASSUME NEW t \in FreshTask
  PROVE  /\ t \in Tasks
         /\ t \notin pending
         /\ \A e \in Entity : autoLockTask[e] # t
BY DEF FreshTask

(* The initial states satisfy the invariant (src/lock.py:17-27). *)
LEMMA InitInv == Init => IndInv
BY SetupsAssumption, TimeoutAssumption
   DEF Init, IndInv, TypeOK, AutoLockArmed, OneTaskPerEntity,
       NeverShownLockedWhileOpen, Timing, HandlesOwned, Unborn, StateOf, Entity, Changer

(* Locking by hand preserves the invariant, although it leaves the pending *)
(* task of the last unlock alone (src/lock.py:37-44).                      *)
LEMMA LockInv ==
  ASSUME IndInv, NEW code \in Code, Lock(code)
  PROVE  IndInv'
<1> USE DEF IndInv, TypeOK, Lock, SetLocked, Entity, Changer, StateOf
<1>1. TypeOK'
  OBVIOUS
<1>2. AutoLockArmed' /\ OneTaskPerEntity'
  BY DEF AutoLockArmed, OneTaskPerEntity
<1>3. NeverShownLockedWhileOpen'
  BY DEF NeverShownLockedWhileOpen
<1>4. Timing' /\ HandlesOwned' /\ Unborn'
  BY DEF Timing, HandlesOwned, Unborn
<1> QED
  BY <1>1, <1>2, <1>3, <1>4

(* Unlocking cancels the one pending task of the entity and arms a fresh   *)
(* one (src/lock.py:46-59).                                                *)
LEMMA UnlockInv ==
  ASSUME IndInv, NEW code \in Code, Unlock(code)
  PROVE  IndInv'
<1>1. PICK t \in FreshTask :
        /\ pending' = (pending \ {autoLockTask[live]}) \cup {t}
        /\ autoLockTask' = [autoLockTask EXCEPT ![live] = t]
        /\ owner' = [owner EXCEPT ![t] = live]
        /\ left' = [left EXCEPT ![t] = Timeout]
  BY DEF Unlock
<1>2. /\ t \in Tasks
      /\ t \notin pending
      /\ \A e \in Entity : autoLockTask[e] # t
  BY FreshTaskIsNew
<1>3. /\ live \in Entity
      /\ isLocked' = [isLocked EXCEPT ![live] = FALSE]
      /\ changedBy' = [changedBy EXCEPT ![live] = "user"]
      /\ shown' = [locked |-> FALSE, changedBy |-> "user"]
      /\ sinceUnlock' = [sinceUnlock EXCEPT ![live] = 0]
      /\ event' = "unlocked"
      /\ live' = live
  BY DEF Unlock, IndInv, TypeOK, StateOf
<1>4. TypeOK'
  BY <1>1, <1>2, <1>3, TimeoutAssumption DEF IndInv, TypeOK, Changer
\* Every pending task but the new one was pending, and kept its entity: its
\* entity is not live, since the only task of live was cancelled.
<1>5. \A u \in pending' : u # t => /\ u \in pending
                                   /\ owner'[u] = owner[u]
                                   /\ left'[u] = left[u]
                                   /\ owner[u] \in Entity
                                   /\ owner[u] # live
  BY <1>1, <1>2, <1>3 DEF IndInv, TypeOK, OneTaskPerEntity
<1>6. /\ t \in pending'
      /\ owner'[t] = live
      /\ left'[t] = Timeout
      /\ autoLockTask'[live] = t
  BY <1>1, <1>2, <1>3 DEF IndInv, TypeOK
<1>7. \A e \in Entity : e # live => /\ autoLockTask'[e] = autoLockTask[e]
                                    /\ isLocked'[e] = isLocked[e]
                                    /\ sinceUnlock'[e] = sinceUnlock[e]
  BY <1>1, <1>3 DEF IndInv, TypeOK
<1>8. AutoLockArmed'
  <2> SUFFICES ASSUME NEW e \in Entity, ~isLocked'[e]
               PROVE  autoLockTask'[e] \in pending' /\ owner'[autoLockTask'[e]] = e
    BY DEF AutoLockArmed
  <2>1. CASE e = live
    BY <2>1, <1>6
  <2>2. CASE e # live
    <3>1. /\ autoLockTask[e] \in pending
          /\ owner[autoLockTask[e]] = e
      BY <2>2, <1>7 DEF IndInv, AutoLockArmed
    <3>2. autoLockTask[e] # autoLockTask[live]
      BY <3>1, <2>2, <1>3, TaskAssumption DEF IndInv, TypeOK, HandlesOwned
    <3> QED
      BY <3>1, <3>2, <2>2, <1>1, <1>2, <1>7 DEF IndInv, TypeOK
  <2> QED
    BY <2>1, <2>2
<1>9. OneTaskPerEntity'
  BY <1>5, <1>6, <1>7 DEF IndInv, OneTaskPerEntity
<1>10. NeverShownLockedWhileOpen'
  BY <1>3 DEF NeverShownLockedWhileOpen
<1>11. Timing'
  <2> SUFFICES ASSUME NEW u \in pending'
               PROVE  left'[u] + sinceUnlock'[owner'[u]] >= Timeout
    BY DEF Timing
  <2>1. CASE u = t
    BY <2>1, <1>3, <1>6, TimeoutAssumption DEF IndInv, TypeOK
  <2>2. CASE u # t
    BY <2>2, <1>5, <1>7 DEF IndInv, Timing
  <2> QED
    BY <2>1, <2>2
<1>12. Unborn'
  <2>1. \A e \in Entity : e > live' => isLocked'[e] /\ autoLockTask'[e] = NoTask
    BY <1>3, <1>7 DEF IndInv, Unborn, Entity
  <2>2. \A u \in pending' : owner'[u] <= live'
    BY <1>3, <1>5, <1>6, SetupsAssumption DEF IndInv, Unborn, Entity
  <2> QED
    BY <2>1, <2>2 DEF Unborn
<1>13. HandlesOwned'
  BY <1>1, <1>2, <1>3, <1>6, <1>7, TaskAssumption DEF IndInv, TypeOK, HandlesOwned
<1> QED
  BY <1>4, <1>8, <1>9, <1>10, <1>11, <1>12, <1>13 DEF IndInv

(* A task that ends locks the entity that armed it (src/lock.py:61-63). *)
LEMMA AutoLockInv ==
  ASSUME IndInv, NEW t \in Tasks, AutoLock(t)
  PROVE  IndInv'
<1> USE DEF IndInv, TypeOK, AutoLock, SetLocked, Changer
<1>1. TypeOK'
  OBVIOUS
<1>2. AutoLockArmed'
  BY DEF AutoLockArmed
<1>3. OneTaskPerEntity'
  BY DEF OneTaskPerEntity
<1>4. NeverShownLockedWhileOpen'
  BY DEF NeverShownLockedWhileOpen
<1>5. Timing' /\ HandlesOwned' /\ Unborn'
  BY DEF Timing, HandlesOwned, Unborn
<1> QED
  BY <1>1, <1>2, <1>3, <1>4, <1>5

(* The clock keeps the sum of Timing: what a sleep loses, the time since   *)
(* the unlock gains, until it is capped at the timeout.                    *)
LEMMA TickInv ==
  ASSUME IndInv, Tick
  PROVE  IndInv'
<1> USE DEF IndInv, TypeOK, Tick, Entity
<1>1. TypeOK'
  BY TimeoutAssumption
<1>2. AutoLockArmed' /\ OneTaskPerEntity' /\ NeverShownLockedWhileOpen'
      /\ HandlesOwned' /\ Unborn'
  BY DEF AutoLockArmed, OneTaskPerEntity, NeverShownLockedWhileOpen, HandlesOwned,
         Unborn
<1>3. Timing'
  <2> SUFFICES ASSUME NEW t \in pending
               PROVE  left'[t] + sinceUnlock'[owner[t]] >= Timeout
    BY DEF Timing
  <2>1. /\ left[t] \in 0..Timeout
        /\ sinceUnlock[owner[t]] \in 0..Timeout
        /\ left[t] + sinceUnlock[owner[t]] >= Timeout
    BY DEF Timing
  <2>2. /\ left'[t] = IF left[t] > 0 THEN left[t] - 1 ELSE 0
        /\ sinceUnlock'[owner[t]] = IF sinceUnlock[owner[t]] < Timeout
                                    THEN sinceUnlock[owner[t]] + 1 ELSE Timeout
    OBVIOUS
  <2> QED
    BY <2>1, <2>2, TimeoutAssumption
<1> QED
  BY <1>1, <1>2, <1>3

(* A reload shows a locked lock, and no task runs for the new entity yet. *)
LEMMA ReloadInv ==
  ASSUME IndInv, Reload
  PROVE  IndInv'
<1> USE DEF IndInv, TypeOK, Reload, Entity, StateOf, Changer
<1>1. TypeOK'
  BY SetupsAssumption
<1>2. AutoLockArmed' /\ OneTaskPerEntity' /\ Timing' /\ HandlesOwned'
  BY DEF AutoLockArmed, OneTaskPerEntity, Timing, HandlesOwned
<1>3. NeverShownLockedWhileOpen'
  <2>1. live + 1 \in Entity /\ live + 1 > live
    BY SetupsAssumption
  <2>2. isLocked[live + 1]
    BY <2>1 DEF Unborn
  <2> QED
    BY <2>2 DEF NeverShownLockedWhileOpen
<1>4. Unborn'
  <2>1. \A e \in Entity : e > live' => isLocked'[e] /\ autoLockTask'[e] = NoTask
    BY SetupsAssumption DEF Unborn
  <2>2. \A t \in pending' : owner'[t] <= live'
    BY SetupsAssumption DEF Unborn
  <2> QED
    BY <2>1, <2>2 DEF Unborn
<1> QED
  BY <1>1, <1>2, <1>3, <1>4

(* Every step preserves the invariant. *)
LEMMA NextInv == IndInv /\ [Next]_lockVars => IndInv'
<1> SUFFICES ASSUME IndInv, [Next]_lockVars
             PROVE  IndInv'
  OBVIOUS
<1>1. ASSUME NEW code \in Code, Lock(code) PROVE IndInv'
  BY <1>1, LockInv
<1>2. ASSUME NEW code \in Code, Unlock(code) PROVE IndInv'
  BY <1>2, UnlockInv
<1>3. ASSUME NEW code \in Code, Refuse(code) PROVE IndInv'
  BY <1>3 DEF Refuse, IndInv, TypeOK, AutoLockArmed, OneTaskPerEntity,
              NeverShownLockedWhileOpen, Timing, HandlesOwned, Unborn
<1>4. ASSUME NEW t \in Tasks, AutoLock(t) PROVE IndInv'
  BY <1>4, AutoLockInv
<1>5. CASE Poll
  BY <1>5 DEF Poll, IndInv, TypeOK, AutoLockArmed, OneTaskPerEntity,
              NeverShownLockedWhileOpen, Timing, HandlesOwned, Unborn, StateOf
<1>6. CASE Tick
  BY <1>6, TickInv
<1>7. CASE Reload
  BY <1>7, ReloadInv
<1>8. CASE UNCHANGED lockVars
  BY <1>8 DEF lockVars, IndInv, TypeOK, AutoLockArmed, OneTaskPerEntity,
              NeverShownLockedWhileOpen, Timing, HandlesOwned, Unborn
<1> QED
  BY <1>1, <1>2, <1>3, <1>4, <1>5, <1>6, <1>7, <1>8 DEF Next

-----------------------------------------------------------------------------
(* Every reachable state satisfies the inductive invariant. *)
THEOREM Invariance == Spec => []IndInv
BY InitInv, NextInv, PTL DEF Spec

(* The variables of the lock, its tasks and its shown state keep their     *)
(* types.                                                                  *)
THEOREM TypeCorrect == Spec => []TypeOK
<1>1. IndInv => TypeOK
  BY DEF IndInv
<1> QED
  BY <1>1, Invariance, PTL

(* An unlocked lock has a pending task of its own that will lock it, for   *)
(* any interleaving of unlocks, hand locks, expiries and reloads.          *)
THEOREM Armed == Spec => []AutoLockArmed
<1>1. IndInv => AutoLockArmed
  BY DEF IndInv
<1> QED
  BY <1>1, Invariance, PTL

(* The cancel in async_unlock always finds the only pending task. *)
THEOREM OneTask == Spec => []OneTaskPerEntity
<1>1. IndInv => OneTaskPerEntity
  BY DEF IndInv
<1> QED
  BY <1>1, Invariance, PTL

(* Home Assistant never shows a lock closed that is open. *)
THEOREM ShownIsSafe == Spec => []NeverShownLockedWhileOpen
<1>1. IndInv => NeverShownLockedWhileOpen
  BY DEF IndInv
<1> QED
  BY <1>1, Invariance, PTL

(* No task armed by an earlier unlock closes the lock before the timeout   *)
(* of the last one is over.                                                *)
THEOREM NoEarlyLock == Spec => NeverEarly
<1> DEFINE Late == \A e \in Entity :
                     ~isLocked[e] /\ isLocked'[e] => \/ sinceUnlock[e] = Timeout
                                                    \/ \E code \in Code : Lock(code)
<1>1. IndInv /\ [Next]_lockVars => [Late]_lockVars
  <2> SUFFICES ASSUME IndInv, Next, NEW e \in Entity, ~isLocked[e], isLocked'[e]
               PROVE  \/ sinceUnlock[e] = Timeout
                      \/ \E code \in Code : Lock(code)
    BY DEF lockVars
  <2>1. ASSUME NEW code \in Code, Unlock(code) PROVE FALSE
    BY <2>1 DEF Unlock, IndInv, TypeOK
  <2>2. ASSUME NEW code \in Code, Refuse(code) PROVE FALSE
    BY <2>2 DEF Refuse
  <2>3. ASSUME NEW t \in Tasks, AutoLock(t) PROVE sinceUnlock[e] = Timeout
    <3>1. owner[t] = e /\ t \in pending /\ left[t] = 0
      BY <2>3 DEF AutoLock, SetLocked, IndInv, TypeOK
    <3> QED
      BY <3>1, TimeoutAssumption DEF IndInv, TypeOK, Timing
  <2>4. CASE Poll \/ Tick \/ Reload
    BY <2>4 DEF Poll, Tick, Reload
  <2> QED
    BY <2>1, <2>2, <2>3, <2>4 DEF Next
<1> QED
  BY <1>1, Invariance, PTL DEF Spec, NeverEarly

-----------------------------------------------------------------------------
(* Initially the lock is the closed lock of the contract. *)
LEMMA InitRefines == Init => Contract!Init
BY SetupsAssumption DEF Init, Contract!Init, StateOf, Entity

(* A step of the lock is a step of the contract, or changes nothing of it: *)
(* what an old entity's task does is not seen, and the task that closes the*)
(* live entity closes it at the age the contract names.                    *)
LEMMA StepRefines ==
  ASSUME IndInv, [Next]_lockVars
  PROVE  [Contract!Next]_(Contract!contractVars)
<1> USE DEF IndInv, TypeOK, Contract!Next, Contract!contractVars, StateOf
<1>1. ASSUME NEW code \in Code, Lock(code) PROVE Contract!Close
  BY <1>1 DEF Lock, SetLocked, Contract!Close
<1>2. ASSUME NEW code \in Code, Unlock(code) PROVE Contract!Open
  BY <1>2 DEF Unlock, Contract!Open
<1>3. ASSUME NEW code \in Code, Refuse(code) PROVE UNCHANGED Contract!contractVars
  BY <1>3 DEF Refuse
<1>4. ASSUME NEW t \in Tasks, AutoLock(t)
      PROVE  Contract!Expire \/ UNCHANGED Contract!contractVars
  <2>1. CASE owner[t] = live /\ ~isLocked[live]
    <3>1. sinceUnlock[live] = Timeout
      BY <1>4, <2>1, TimeoutAssumption DEF AutoLock, Timing
    <3> QED
      BY <1>4, <2>1, <3>1 DEF AutoLock, SetLocked, Contract!Expire
  <2>2. CASE ~(owner[t] = live /\ ~isLocked[live])
    <3>1. isLocked'[live] = isLocked[live]
      BY <1>4, <2>2 DEF AutoLock, SetLocked
    <3> QED
      BY <1>4, <3>1 DEF AutoLock
  <2> QED
    BY <2>1, <2>2
<1>5. CASE Poll
  BY <1>5 DEF Poll, Contract!Show
<1>6. CASE Tick
  <2>1. sinceUnlock'[live] = IF sinceUnlock[live] < Timeout
                             THEN sinceUnlock[live] + 1 ELSE Timeout
    BY <1>6 DEF Tick
  <2>2. CASE sinceUnlock[live] < Timeout
    BY <1>6, <2>1, <2>2 DEF Tick, Contract!Tick
  <2>3. CASE sinceUnlock[live] = Timeout
    BY <1>6, <2>1, <2>3, TimeoutAssumption DEF Tick
  <2> QED
    BY <2>2, <2>3, TimeoutAssumption
<1>7. CASE Reload
  <2>1. live + 1 \in Entity /\ live + 1 > live
    BY <1>7, SetupsAssumption DEF Reload, Entity
  <2>2. isLocked[live + 1] /\ sinceUnlock[live + 1] \in 0..Timeout
    BY <2>1 DEF Unborn
  <2> QED
    BY <1>7, <2>2 DEF Reload, Contract!Replace
<1>8. CASE UNCHANGED lockVars
  BY <1>8 DEF lockVars
<1> QED
  BY <1>1, <1>2, <1>3, <1>4, <1>5, <1>6, <1>7, <1>8 DEF Next

(* src/lock.py implements the safety of the contract, for any number of    *)
(* reloads, any supply of tasks and any timeout.                           *)
THEOREM Implements == Spec => Contract!Spec
BY InitRefines, StepRefines, Invariance, PTL DEF Spec, Contract!Spec
=============================================================================
