----------------------------- MODULE AdminLock -----------------------------
(***************************************************************************)
(* The admin lock: TISControlLock (src/lock.py) as Home Assistant's lock   *)
(* component drives it.                                                    *)
(*                                                                         *)
(* A correct code unlocks the lock and arms an asyncio task that locks it  *)
(* again after _attr_timeout seconds; unlocking again cancels the task of  *)
(* the previous unlock and arms a new one.  Locking by hand leaves the     *)
(* task alone.  Every lock and unlock fires the event "admin_lock".        *)
(*                                                                         *)
(* Reloading the integration replaces the entity.  Nothing cancels the     *)
(* task of the entity that was removed, so its auto_lock still runs, on    *)
(* an object nobody shows any more, and still fires the event.             *)
(*                                                                         *)
(* Each action is one uninterrupted run of the event loop.  The service    *)
(* path never suspends between the call and the write of the state, since  *)
(* none of the coroutines on it awaits anything that is not already done.  *)
(* async_open is not an action: the entity does not declare the feature    *)
(* OPEN, so the component refuses the service before reaching it.          *)
(***************************************************************************)
EXTENDS Integers

CONSTANTS MaxSetups,  \* bound: how many times the platform is set up
          Tasks,      \* identities of asyncio tasks
          NoTask,     \* the handle of an entity that never armed a task
          Timeout     \* _attr_timeout, in ticks of the clock

ASSUME SetupsAssumption == MaxSetups \in Nat \ {0}
ASSUME TaskAssumption == NoTask \notin Tasks
ASSUME TimeoutAssumption == Timeout \in Nat \ {0}

VARIABLES live,          \* the entity Home Assistant shows and polls
          isLocked,      \* _attr_is_locked, per entity
          changedBy,     \* _attr_changed_by, per entity
          autoLockTask,  \* _auto_lock_task, per entity
          pending,       \* tasks still asleep, or woken but not yet resumed
          owner,         \* the entity whose auto_lock a task runs
          left,          \* ticks before a pending task's sleep is over
          shown,         \* the state machine's record of the live entity
          event,         \* the admin_lock event of the last step, if any
          sinceUnlock    \* history: ticks since each entity's last unlock

lockVars == <<live, isLocked, changedBy, autoLockTask, pending, owner, left,
              shown, event, sinceUnlock>>

Entity == 1..MaxSetups
Code == {"right", "wrong", "missing"}
Changer == {"nobody", "user"}

-----------------------------------------------------------------------------
\* What Home Assistant's state machine holds for a lock: state and attribute.
StateOf(locked, changer) == [locked |-> locked, changedBy |-> changer]

TypeOK ==
  /\ live \in Entity
  /\ isLocked \in [Entity -> BOOLEAN]
  /\ changedBy \in [Entity -> Changer]
  /\ autoLockTask \in [Entity -> Tasks \cup {NoTask}]
  /\ pending \in SUBSET Tasks
  /\ owner \in [Tasks -> Entity]
  /\ left \in [Tasks -> 0..Timeout]
  /\ shown \in [locked : BOOLEAN, changedBy : Changer]
  /\ event \in {"none", "locked", "unlocked"}
  /\ sinceUnlock \in [Entity -> 0..Timeout]

Init ==
  /\ live = 1
  /\ isLocked = [e \in Entity |-> TRUE]
  /\ changedBy = [e \in Entity |-> "nobody"]
  /\ autoLockTask = [e \in Entity |-> NoTask]
  /\ pending = {}
  /\ owner = [t \in Tasks |-> 1]
  /\ left = [t \in Tasks |-> 0]
  /\ shown = StateOf(TRUE, "nobody")
  /\ event = "none"
  /\ sinceUnlock = [e \in Entity |-> 0]

-----------------------------------------------------------------------------
\* async_lock with the right code.
SetLocked(e) ==
  /\ isLocked' = [isLocked EXCEPT ![e] = TRUE]
  /\ changedBy' = [changedBy EXCEPT ![e] = "user"]
  /\ event' = "locked"

\* The service lock.lock: async_lock, then the state is written because the
\* entity is polled.
Lock(code) ==
  /\ code = "right"
  /\ SetLocked(live)
  /\ shown' = StateOf(TRUE, "user")
  /\ UNCHANGED <<live, autoLockTask, pending, owner, left, sinceUnlock>>

\* Task identities that no entity holds a handle on.
FreshTask == Tasks \ (pending \cup {autoLockTask[e] : e \in Entity})

\* Mutations of Unlock that the runs must detect: the previous task is not
\* cancelled; the handle is overwritten before the cancel, which then hits the
\* new task; the state is not written after the call.
UnlockKeepingOldTask(code) ==
  /\ code = "right"
  /\ \E t \in FreshTask :
       /\ pending' = pending \cup {t}
       /\ autoLockTask' = [autoLockTask EXCEPT ![live] = t]
       /\ owner' = [owner EXCEPT ![t] = live]
       /\ left' = [left EXCEPT ![t] = Timeout]
  /\ isLocked' = [isLocked EXCEPT ![live] = FALSE]
  /\ changedBy' = [changedBy EXCEPT ![live] = "user"]
  /\ event' = "unlocked"
  /\ shown' = StateOf(FALSE, "user")
  /\ sinceUnlock' = [sinceUnlock EXCEPT ![live] = 0]
  /\ UNCHANGED live

UnlockCancellingNewTask(code) ==
  /\ code = "right"
  /\ \E t \in FreshTask : autoLockTask' = [autoLockTask EXCEPT ![live] = t]
  /\ isLocked' = [isLocked EXCEPT ![live] = FALSE]
  /\ changedBy' = [changedBy EXCEPT ![live] = "user"]
  /\ event' = "unlocked"
  /\ shown' = StateOf(FALSE, "user")
  /\ sinceUnlock' = [sinceUnlock EXCEPT ![live] = 0]
  /\ UNCHANGED <<live, pending, owner, left>>

UnlockWithoutWrite(code) ==
  /\ code = "right"
  /\ \E t \in FreshTask :
       /\ pending' = (pending \ {autoLockTask[live]}) \cup {t}
       /\ autoLockTask' = [autoLockTask EXCEPT ![live] = t]
       /\ owner' = [owner EXCEPT ![t] = live]
       /\ left' = [left EXCEPT ![t] = Timeout]
  /\ isLocked' = [isLocked EXCEPT ![live] = FALSE]
  /\ changedBy' = [changedBy EXCEPT ![live] = "user"]
  /\ event' = "unlocked"
  /\ sinceUnlock' = [sinceUnlock EXCEPT ![live] = 0]
  /\ UNCHANGED <<live, shown>>

\* The service lock.unlock: cancel the previous task, arm a new one.
\* cancel() also stops a task whose sleep is over but which has not resumed.
Unlock(code) ==
  /\ code = "right"
  /\ \E t \in FreshTask :
       /\ pending' = (pending \ {autoLockTask[live]}) \cup {t}
       /\ autoLockTask' = [autoLockTask EXCEPT ![live] = t]
       /\ owner' = [owner EXCEPT ![t] = live]
       /\ left' = [left EXCEPT ![t] = Timeout]
  /\ isLocked' = [isLocked EXCEPT ![live] = FALSE]
  /\ changedBy' = [changedBy EXCEPT ![live] = "user"]
  /\ event' = "unlocked"
  /\ shown' = StateOf(FALSE, "user")
  /\ sinceUnlock' = [sinceUnlock EXCEPT ![live] = 0]
  /\ UNCHANGED live

\* Either service with a wrong code, or none: ValueError, nothing is changed.
Refuse(code) ==
  /\ code # "right"
  /\ event' = "none"
  /\ UNCHANGED <<live, isLocked, changedBy, autoLockTask, pending, owner,
                 left, shown, sinceUnlock>>

\* auto_lock resumes after its sleep and calls async_lock; it does not write
\* the state.
AutoLock(t) ==
  /\ t \in pending
  /\ left[t] = 0
  /\ pending' = pending \ {t}
  /\ SetLocked(owner[t])
  /\ UNCHANGED <<live, autoLockTask, owner, left, shown, sinceUnlock>>

\* Mutation: the entity answers should_poll = False.
NoPoll == FALSE

\* The platform's poll writes whatever the entity holds.
Poll ==
  /\ shown' = StateOf(isLocked[live], changedBy[live])
  /\ event' = "none"
  /\ UNCHANGED <<live, isLocked, changedBy, autoLockTask, pending, owner,
                 left, sinceUnlock>>

\* Mutation: the sleep goes on below zero.
TickPastDue ==
  /\ left' = [t \in Tasks |-> left[t] - 1]
  /\ event' = "none"
  /\ UNCHANGED <<live, isLocked, changedBy, autoLockTask, pending, owner,
                 shown, sinceUnlock>>

\* One tick of the clock.  A task whose sleep is over may resume late.
Tick ==
  /\ left' = [t \in Tasks |-> IF left[t] > 0 THEN left[t] - 1 ELSE 0]
  /\ sinceUnlock' = [e \in Entity |-> IF sinceUnlock[e] < Timeout
                                      THEN sinceUnlock[e] + 1
                                      ELSE Timeout]
  /\ event' = "none"
  /\ UNCHANGED <<live, isLocked, changedBy, autoLockTask, pending, owner,
                 shown>>

\* The config entry is reloaded: a new TISControlLock is added.  The tasks of
\* the old one stay.
Reload ==
  /\ live < MaxSetups
  /\ live' = live + 1
  /\ shown' = StateOf(TRUE, "nobody")
  /\ event' = "none"
  /\ UNCHANGED <<isLocked, changedBy, autoLockTask, pending, owner, left,
                 sinceUnlock>>

Next ==
  \/ \E code \in Code : Lock(code) \/ Unlock(code) \/ Refuse(code)
  \/ \E t \in Tasks : AutoLock(t)
  \/ Poll
  \/ Tick
  \/ Reload

Spec == Init /\ [][Next]_lockVars

\* The event loop runs its timers and its ready tasks, and the platform polls.
\* Users and reloads owe nothing.
Fairness ==
  /\ WF_lockVars(Tick)
  /\ WF_lockVars(Poll)
  /\ \A t \in Tasks : WF_lockVars(AutoLock(t))

LiveSpec == Spec /\ Fairness
-----------------------------------------------------------------------------
\* An entity that is unlocked has a task of its own that will lock it again,
\* whatever unlocks, hand locks and reloads came in between.
AutoLockArmed ==
  \A e \in Entity : ~isLocked[e] => /\ autoLockTask[e] \in pending
                                   /\ owner[autoLockTask[e]] = e

\* No entity has two tasks that will lock it: the only one pending is the one
\* its handle names, so that the next unlock can cancel it.
OneTaskPerEntity == \A t \in pending : autoLockTask[owner[t]] = t

\* The state machine may show a lock open that has closed by itself, never
\* closed one that is open.
NeverShownLockedWhileOpen == shown.locked => isLocked[live]

\* An open lock is closed by a user, or when the full timeout has passed since
\* it was last unlocked: no task armed by an earlier unlock closes it early.
NeverEarly ==
  [][\A e \in Entity :
       ~isLocked[e] /\ isLocked'[e] => \/ sinceUnlock[e] = Timeout
                                      \/ \E code \in Code : Lock(code)]_lockVars

\* What all of this is for: seen through the live entity, the lock is one that
\* closes by itself at the end of the timeout of its last unlock.
Contract == INSTANCE RelockingLock WITH
  open <- ~isLocked[live], age <- sinceUnlock[live], shownOpen <- ~shown.locked

\* src/lock.py implements that contract, its fairness included.
ImplementsContract == Contract!LiveSpec
=============================================================================
