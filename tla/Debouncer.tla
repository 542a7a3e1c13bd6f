------------------------------ MODULE Debouncer ------------------------------
(***************************************************************************)
(* Debouncer (src/homeassistant/helpers/debounce.py), through which the    *)
(* update coordinator asks for a refresh.                                  *)
(*                                                                         *)
(* A request runs the function at once, or is remembered and served when   *)
(* the cooldown timer fires, or is dropped because the function is running *)
(* already.  The function is awaited with a lock held; what happens during *)
(* the await is decided by three fields: the timer, the flag that asks for *)
(* a run at the end of the timer, and the lock.                            *)
(*                                                                         *)
(* async_call and async_schedule_call do the same to that state: the       *)
(* latter goes through _on_debounce, whose task is started eagerly.  The   *)
(* function may end without suspending.                                    *)
(***************************************************************************)
EXTENDS Naturals

CONSTANTS Timers,   \* identities of timers of the event loop
          NoTimer,  \* _timer_task is None
          Cooldown  \* cooldown, in ticks of the clock

DebouncerConstantsOK == NoTimer \notin Timers /\ Cooldown \in Nat

VARIABLES immediate,     \* immediate, fixed when the debouncer is created
          timer,         \* _timer_task: the timer that can be cancelled
          pending,       \* timers of this debouncer in the event loop
          left,          \* ticks before a pending timer is due
          executeAtEnd,  \* _execute_at_end_of_timer
          executing,     \* _execute_lock is held: the function is awaited
          shutdown,      \* _shutdown_requested
          ran,           \* the last step started the function
          sinceEnd,      \* history: ticks since the function last ended
          released       \* history: a cooldown was cancelled since then

vars == <<immediate, timer, pending, left, executeAtEnd, executing, shutdown,
          ran, sinceEnd, released>>

TypeOK ==
  /\ immediate \in BOOLEAN
  /\ timer \in Timers \cup {NoTimer}
  /\ pending \in SUBSET Timers
  /\ left \in [Timers -> 0..Cooldown]
  /\ executeAtEnd \in BOOLEAN
  /\ executing \in BOOLEAN
  /\ shutdown \in BOOLEAN
  /\ ran \in BOOLEAN
  /\ sinceEnd \in 0..Cooldown
  /\ released \in BOOLEAN

Init ==
  /\ immediate \in BOOLEAN
  /\ timer = NoTimer
  /\ pending = {}
  /\ left = [t \in Timers |-> 0]
  /\ executeAtEnd = FALSE
  /\ executing = FALSE
  /\ shutdown = FALSE
  /\ ran = FALSE
  /\ sinceEnd = Cooldown
  /\ released = FALSE

-----------------------------------------------------------------------------
\* _schedule_timer, when the timers left are the ones in live and _timer_task
\* is handle: it looks at neither.
ScheduleTimer(live, handle) ==
  IF shutdown
  THEN timer' = handle /\ pending' = live /\ UNCHANGED left
  ELSE \E t \in Timers \ live :
         /\ timer' = t
         /\ pending' = live \cup {t}
         /\ left' = [left EXCEPT ![t] = Cooldown]

\* Mutation: the cooldown is not started when the function ends.
EndWithoutCooldown(live) ==
  /\ timer' = NoTimer /\ pending' = live /\ UNCHANGED left
  /\ sinceEnd' = 0
  /\ released' = FALSE

\* The function ends, or raises, or its caller is cancelled: the finally clause.
EndOfRun(live) ==
  /\ ScheduleTimer(live, NoTimer)
  /\ sinceEnd' = 0
  /\ released' = FALSE

\* The function is started, with the lock held.
Run(live) ==
  /\ ran' = TRUE
  /\ \/ executing' = FALSE /\ EndOfRun(live)
     \/ /\ executing' = TRUE
        /\ timer' = NoTimer /\ pending' = live
        /\ UNCHANGED <<left, sinceEnd, released>>

-----------------------------------------------------------------------------
\* A request: a run is in progress, or shutdown was requested.
RequestIgnored ==
  /\ shutdown \/ (timer = NoTimer /\ executing)
  /\ ran' = FALSE
  /\ UNCHANGED <<immediate, timer, pending, left, executeAtEnd, executing,
                 shutdown, sinceEnd, released>>

\* Mutation: every request starts the cooldown anew.
DeferredAnew ==
  /\ ~shutdown /\ timer # NoTimer
  /\ executeAtEnd' = TRUE
  /\ left' = [left EXCEPT ![timer] = Cooldown]
  /\ ran' = FALSE
  /\ UNCHANGED <<immediate, timer, pending, executing, shutdown, sinceEnd, released>>

\* A request: a timer is set, which will serve it.
RequestDeferred ==
  /\ ~shutdown /\ timer # NoTimer
  /\ executeAtEnd' = TRUE
  /\ ran' = FALSE
  /\ UNCHANGED <<immediate, timer, pending, left, executing, shutdown,
                 sinceEnd, released>>

\* A request that has to wait for a cooldown of its own.
RequestArmed ==
  /\ ~shutdown /\ timer = NoTimer /\ ~executing /\ ~immediate
  /\ executeAtEnd' = TRUE
  /\ ScheduleTimer(pending, timer)
  /\ ran' = FALSE
  /\ UNCHANGED <<immediate, executing, shutdown, sinceEnd, released>>

\* A request that is served at once.
RequestServed ==
  /\ ~shutdown /\ timer = NoTimer /\ ~executing /\ immediate
  /\ Run(pending)
  /\ UNCHANGED <<immediate, executeAtEnd, shutdown>>

\* The await of the function is over.
Return ==
  /\ executing
  /\ executing' = FALSE
  /\ EndOfRun(pending)
  /\ ran' = FALSE
  /\ UNCHANGED <<immediate, executeAtEnd, shutdown>>

\* A timer fires: _on_debounce, _handle_timer_finish.
TimerFires(t) ==
  /\ t \in pending /\ left[t] = 0
  /\ executeAtEnd' = FALSE
  /\ IF executeAtEnd /\ ~executing
     THEN Run(pending \ {t})
     ELSE /\ pending' = pending \ {t}
          /\ timer' = NoTimer
          /\ ran' = FALSE
          /\ UNCHANGED <<left, executing, sinceEnd, released>>
  /\ UNCHANGED <<immediate, shutdown>>

\* Mutation: the request is not forgotten with its timer.
CancelKeepingRequest ==
  /\ pending' = pending \ {timer}
  /\ timer' = NoTimer
  /\ released' = (released \/ timer # NoTimer)
  /\ ran' = FALSE
  /\ UNCHANGED <<immediate, left, executeAtEnd, executing, sinceEnd>>

\* async_cancel, which async_shutdown also calls.
CancelTimer ==
  /\ pending' = pending \ {timer}
  /\ timer' = NoTimer
  /\ executeAtEnd' = FALSE
  /\ released' = (released \/ timer # NoTimer)
  /\ ran' = FALSE
  /\ UNCHANGED <<immediate, left, executing, sinceEnd>>

Cancel == CancelTimer /\ UNCHANGED shutdown

Shutdown == CancelTimer /\ shutdown' = TRUE

\* One tick of the clock.  A timer that is due may fire late.
Tick ==
  /\ left' = [t \in Timers |-> IF left[t] > 0 THEN left[t] - 1 ELSE 0]
  /\ sinceEnd' = IF sinceEnd < Cooldown THEN sinceEnd + 1 ELSE Cooldown
  /\ ran' = FALSE
  /\ UNCHANGED <<immediate, timer, pending, executeAtEnd, executing, shutdown,
                 released>>

Next ==
  \/ RequestIgnored \/ RequestDeferred \/ RequestArmed \/ RequestServed
  \/ Return
  \/ \E t \in Timers : TimerFires(t)
  \/ Cancel \/ Shutdown
  \/ Tick

Spec == Init /\ [][Next]_vars

\* The event loop runs its timers.  Nothing obliges the function to end.
LiveSpec == Spec /\ WF_vars(Tick) /\ \A t \in Timers : WF_vars(TimerFires(t))

-----------------------------------------------------------------------------
\* No timer escapes: the one the event loop holds is the one that can be
\* cancelled.  _schedule_timer overwrites the handle without looking at it.
OneTimer == pending = {timer} \ {NoTimer}

\* A request that is remembered has a timer that will serve it: no sequence of
\* calls, cancels and ends of runs leaves one that nothing wakes.
RememberedIsArmed == executeAtEnd => timer \in pending

\* No timer is set while the function runs, so that the two aborts for a timer
\* "set while we're waiting for the lock" (l. 109, l. 133) never lose a request.
NoTimerDuringRun == executing => pending = {} /\ ~executeAtEnd

\* Two runs are at least one cooldown apart, from the end of one to the start
\* of the next, unless the cooldown was cancelled in between.
RateLimited == [][ran' => sinceEnd = Cooldown \/ released]_vars

\* A remembered request is served by a run, unless it is cancelled...
NeverForgotten ==
  [][executeAtEnd /\ ~executeAtEnd' => ran' \/ Cancel \/ Shutdown]_vars

\* ... and it is not remembered for ever.
EventuallyServed == executeAtEnd ~> ~executeAtEnd
=============================================================================
