---------------------------- MODULE LockedPanel ----------------------------
(***************************************************************************)
(* The admin lock (AdminLock) and the security panel (SecurityPanel) on    *)
(* Home Assistant's event bus.                                             *)
(*                                                                         *)
(* The bus runs the listeners of an event before the code that fired it    *)
(* goes on.  What a step of the lock leaves of the panel's protection is   *)
(* therefore decided by the last event of the step, in this order:         *)
(*   - the call_service event, when a service started the step;            *)
(*   - the admin_lock event, if one was fired;                             *)
(*   - the state_changed event, if the lock's record was written and       *)
(*     differs (an equal one fires state_reported, which listeners to      *)
(*     every event do not receive).                                        *)
(***************************************************************************)
EXTENDS Integers

CONSTANTS MaxSetups, Tasks, NoTask, Timeout,
          Options, Disarm, UnknownMode, NoPacket, Calls, MaxWire

VARIABLES live, isLocked, changedBy, autoLockTask, pending, owner, left,
          shown, event, sinceUnlock,
          readOnly, option, packet, applied, mode, wire, held, clean,
          locker  \* history: the entity whose async_lock last fired "locked"

Lock == INSTANCE AdminLock
Panel == INSTANCE SecurityPanel

lockVars == <<live, isLocked, changedBy, autoLockTask, pending, owner, left,
              shown, event, sinceUnlock>>
panelVars == <<readOnly, option, packet, applied, mode, wire, held, clean>>
vars == <<lockVars, panelVars, locker>>

\* What AdminLock and SecurityPanel assume of their constants.
ASSUME LockAssumption ==
  MaxSetups \in Nat \ {0} /\ NoTask \notin Tasks /\ Timeout \in Nat \ {0}
ASSUME PanelAssumption == Panel!ConstantsOK

TypeOK == Lock!TypeOK /\ Panel!TypeOK /\ locker \in Lock!Entity

Init == Lock!Init /\ Panel!Init /\ locker = 1

-----------------------------------------------------------------------------
\* The protection after a service of the lock.
AfterService ==
  \/ event' = "locked" /\ shown' = shown /\ Panel!AdminLockEvent(TRUE)
  \/ event' = "unlocked" /\ shown' = shown /\ Panel!AdminLockEvent(FALSE)
  \/ (event' = "none" \/ shown' # shown) /\ Panel!OtherEvent

LockService(code) ==
  /\ Lock!Lock(code)
  /\ AfterService
  /\ locker' = live

UnlockService(code) ==
  /\ Lock!Unlock(code)
  /\ AfterService
  /\ UNCHANGED locker

RefusedService(code) ==
  /\ Lock!Refuse(code)
  /\ AfterService
  /\ UNCHANGED locker

\* auto_lock writes no state: its admin_lock event is the last one.
AutoLock(t) ==
  /\ Lock!AutoLock(t)
  /\ Panel!AdminLockEvent(TRUE)
  /\ locker' = owner[t]

Poll ==
  /\ Lock!Poll
  /\ IF shown' = shown THEN UNCHANGED panelVars ELSE Panel!OtherEvent
  /\ UNCHANGED locker

Tick == Lock!Tick /\ UNCHANGED <<panelVars, locker>>

\* A step of the panel that no step of the lock causes.
PanelStep ==
  /\ \/ Panel!OtherEvent
     \/ \E m \in Panel!Modes : \/ Panel!SecurityFeedback(m)
                               \/ Panel!Keypad(m)
                               \/ Panel!LoseFeedback(m)
     \/ \E c \in Calls : \/ \E opt \in Options : Panel!SelectOption(c, opt)
                         \/ Panel!Acknowledged(c)
                         \/ Panel!NotAcknowledged(c)
                         \/ Panel!Apply(c)
  /\ UNCHANGED <<lockVars, locker>>

\* Both platforms are reloaded together.  The new entities' first writes come
\* after the panel's listener is registered.
Reload ==
  /\ Lock!Reload
  /\ Panel!Reload
  /\ UNCHANGED locker

Next ==
  \/ \E code \in Lock!Code : \/ LockService(code)
                             \/ UnlockService(code)
                             \/ RefusedService(code)
  \/ \E t \in Tasks : AutoLock(t)
  \/ Poll
  \/ Tick
  \/ PanelStep
  \/ Reload

Spec == Init /\ [][Next]_vars

-----------------------------------------------------------------------------
\* The panel is not left read only by a lock that is open, unless the entity
\* that fired the last "locked" is one that a reload has replaced: the task
\* it left behind protects the new panel whatever the new lock's state.
ReadOnlyOnlyWhileLocked == readOnly => isLocked[live] \/ locker # live

\* What the ValueError at src/select.py:114 says: the panel is protected while
\* the admin lock is locked, so no select is sent then.
LockedPanelSendsNothing ==
  [][\A c \in Calls : c \notin Panel!InFlight /\ c \in Panel!InFlight'
                        => ~isLocked[live]]_vars
=============================================================================
