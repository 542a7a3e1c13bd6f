-------------------------- MODULE UpdateCoordinator --------------------------
(***************************************************************************)
(* DataUpdateCoordinator (src/homeassistant/helpers/update_coordinator.py),*)
(* which polls the TIS health sensors.                                     *)
(*                                                                         *)
(* A refresh is started by a timer of the event loop or by a request (the  *)
(* request debouncer, the service homeassistant.update_entity); it awaits  *)
(* the data and then reschedules itself.  Nothing stops two refreshes from *)
(* being in flight at once.  The timer exists only while somebody listens. *)
(*                                                                         *)
(* Data are abstracted to the success of the fetch, which is what makes    *)
(* the entities available.  always_update is True and polling is enabled,  *)
(* as the integration leaves them.                                         *)
(***************************************************************************)
EXTENDS Naturals, FiniteSets

CONSTANTS Listeners,  \* entities' callbacks that may be registered
          Refreshes,  \* bound: refreshes that may be in flight at once
          Timers,     \* identities of timers of the event loop
          NoTimer     \* _unsub_refresh is None

ASSUME TimerAssumption == NoTimer \notin Timers

VARIABLES listeners,   \* _listeners
          timers,      \* timers of this coordinator pending in the event loop
          unsub,       \* _unsub_refresh: the timer it can cancel
          fetching,    \* refreshes awaiting their data
          previous,    \* previous_update_success of a refresh in flight
          success,     \* last_update_success
          shutdown,    \* _shutdown_requested
          stopping,    \* hass.is_stopping
          seen,        \* history: the success each listener was last told
          authFailed,  \* history: the last refresh to end failed to authenticate
          overlapped   \* history: a refresh or a push came during a refresh, and no
                       \* outcome was told since with no other one in flight

coordinatorVars == <<listeners, timers, unsub, fetching, previous, success,
                     shutdown, stopping, seen, authFailed, overlapped>>

Outcome == {"success", "failure", "auth_failure"}

TypeOK ==
  /\ listeners \in SUBSET Listeners
  /\ timers \in SUBSET Timers
  /\ unsub \in Timers \cup {NoTimer}
  /\ fetching \in SUBSET Refreshes
  /\ previous \in [Refreshes -> BOOLEAN]
  /\ success \in BOOLEAN
  /\ shutdown \in BOOLEAN
  /\ stopping \in BOOLEAN
  /\ seen \in [Listeners -> BOOLEAN]
  /\ authFailed \in BOOLEAN
  /\ overlapped \in BOOLEAN

Init ==
  /\ listeners = {}
  /\ timers = {}
  /\ unsub = NoTimer
  /\ fetching = {}
  /\ previous = [r \in Refreshes |-> TRUE]
  /\ success = TRUE
  /\ shutdown = FALSE
  /\ stopping = FALSE
  /\ seen = [l \in Listeners |-> TRUE]
  /\ authFailed = FALSE
  /\ overlapped = FALSE

-----------------------------------------------------------------------------
\* _async_unsub_refresh, when the timers left are the ones in live.
Unschedule(live) == timers' = live \ {unsub} /\ unsub' = NoTimer

\* Mutation: the pending timer is not cancelled first.
ScheduleAnother(live) ==
  \E t \in Timers \ timers : timers' = live \cup {t} /\ unsub' = t

\* _schedule_refresh: cancel the pending timer, then set a new one.
Schedule(live) ==
  \E t \in Timers \ timers : timers' = (live \ {unsub}) \cup {t} /\ unsub' = t

\* async_update_listeners: every entity writes its state.
Tell == seen' = [l \in Listeners |-> IF l \in listeners THEN success' ELSE seen[l]]

\* Mutation: the first listener does not set up the interval.
AddListenerIdle(l) ==
  /\ l \notin listeners
  /\ listeners' = listeners \cup {l}
  /\ seen' = [seen EXCEPT ![l] = success]
  /\ UNCHANGED <<timers, unsub, fetching, previous, success, shutdown, stopping,
                 authFailed, overlapped>>

\* async_add_listener; the entity then writes its state for the first time.
AddListener(l) ==
  /\ l \notin listeners
  /\ listeners' = listeners \cup {l}
  /\ IF listeners = {} THEN Schedule(timers) ELSE UNCHANGED <<timers, unsub>>
  /\ seen' = [seen EXCEPT ![l] = success]
  /\ UNCHANGED <<fetching, previous, success, shutdown, stopping, authFailed,
                 overlapped>>

\* The function async_add_listener returned.
RemoveListener(l) ==
  /\ l \in listeners
  /\ listeners' = listeners \ {l}
  /\ IF listeners' = {} THEN Unschedule(timers) ELSE UNCHANGED <<timers, unsub>>
  /\ UNCHANGED <<fetching, previous, success, shutdown, stopping, seen,
                 authFailed, overlapped>>

\* _async_refresh up to its await.
Begin(live, scheduled) ==
  /\ Unschedule(live)
  /\ IF shutdown \/ (scheduled /\ stopping)
     THEN UNCHANGED <<fetching, previous, overlapped>>
     ELSE \E r \in Refreshes \ fetching :
            /\ fetching' = fetching \cup {r}
            /\ previous' = [previous EXCEPT ![r] = success]
            /\ overlapped' = (overlapped \/ fetching # {})
  /\ UNCHANGED <<listeners, success, shutdown, stopping, seen, authFailed>>

\* A timer fires: __wrap_handle_refresh_interval, _handle_refresh_interval,
\* which forgets the handle.
TimerFires(t) ==
  /\ t \in timers
  /\ timers' = timers \ {t}
  /\ unsub' = NoTimer
  /\ IF shutdown \/ stopping
     THEN UNCHANGED <<fetching, previous, overlapped>>
     ELSE \E r \in Refreshes \ fetching :
            /\ fetching' = fetching \cup {r}
            /\ previous' = [previous EXCEPT ![r] = success]
            /\ overlapped' = (overlapped \/ fetching # {})
  /\ UNCHANGED <<listeners, success, shutdown, stopping, seen, authFailed>>

\* async_refresh, from the debouncer or a service.
RequestRefresh == Begin(timers, FALSE)

\* Mutation: a failed refresh does not reschedule.
RescheduleOnSuccess(o) ==
  IF o = "success" /\ listeners # {} /\ ~stopping
  THEN Schedule(timers) ELSE UNCHANGED <<timers, unsub>>

\* The finally clause of _async_refresh.
Reschedule(o) ==
  IF o # "auth_failure" /\ listeners # {} /\ ~stopping
  THEN Schedule(timers) ELSE UNCHANGED <<timers, unsub>>

\* Mutation: the listeners are told only of data, not of failures.
TellOfSuccess(r) == IF success' THEN Tell ELSE UNCHANGED seen

\* The last lines of _async_refresh: a failure after a failure is not told.
Untold(r) == ~success' /\ ~previous[r]
TellOutcome(r) == IF Untold(r) THEN UNCHANGED seen ELSE Tell

\* The await of a refresh returns or raises.
Return(r, o) ==
  /\ r \in fetching
  /\ fetching' = fetching \ {r}
  /\ success' = (o = "success")
  /\ authFailed' = (o = "auth_failure")
  /\ Reschedule(o)
  /\ TellOutcome(r)
  /\ overlapped' = (overlapped /\ (fetching' # {} \/ Untold(r)))
  /\ UNCHANGED <<listeners, previous, shutdown, stopping>>

\* Mutation: a refresh that is cancelled does not reschedule.
CancelForGood(r) ==
  /\ r \in fetching
  /\ fetching' = fetching \ {r}
  /\ authFailed' = FALSE
  /\ UNCHANGED <<listeners, timers, unsub, previous, success, shutdown, stopping, seen,
                 overlapped>>

\* The task of a refresh is cancelled, as unloading the entry does: only the
\* finally clause runs.
Cancel(r) ==
  /\ r \in fetching
  /\ fetching' = fetching \ {r}
  /\ authFailed' = FALSE
  /\ Reschedule("cancelled")
  /\ UNCHANGED <<listeners, previous, success, shutdown, stopping, seen,
                 overlapped>>

\* async_set_updated_data: data were pushed.
SetUpdatedData ==
  /\ success' = TRUE
  /\ IF listeners # {} THEN Schedule(timers) ELSE Unschedule(timers)
  /\ Tell
  /\ overlapped' = (fetching # {})
  /\ UNCHANGED <<listeners, fetching, previous, shutdown, stopping, authFailed>>

\* async_set_update_error.
SetUpdateError ==
  /\ success
  /\ success' = FALSE
  /\ Tell
  /\ overlapped' = (overlapped /\ fetching # {})
  /\ UNCHANGED <<listeners, timers, unsub, fetching, previous, shutdown,
                 stopping, authFailed>>

\* async_shutdown: the config entry is unloaded.
Shutdown ==
  /\ shutdown' = TRUE
  /\ Unschedule(timers)
  /\ UNCHANGED <<listeners, fetching, previous, success, stopping, seen,
                 authFailed, overlapped>>

\* Home Assistant stops.
Stop ==
  /\ stopping' = TRUE
  /\ UNCHANGED <<listeners, timers, unsub, fetching, previous, success,
                 shutdown, seen, authFailed, overlapped>>

Next ==
  \/ \E l \in Listeners : AddListener(l) \/ RemoveListener(l)
  \/ \E t \in Timers : TimerFires(t)
  \/ RequestRefresh
  \/ \E r \in Refreshes : Cancel(r) \/ \E o \in Outcome : Return(r, o)
  \/ SetUpdatedData \/ SetUpdateError
  \/ Shutdown \/ Stop

Spec == Init /\ [][Next]_coordinatorVars

-----------------------------------------------------------------------------
\* While somebody listens, the next poll is under way or its timer is set,
\* unless the last refresh failed to authenticate (a new login reloads the
\* entry) or the coordinator or Home Assistant is shutting down.
PollArmed ==
  listeners # {} /\ ~shutdown /\ ~stopping /\ ~authFailed
    => unsub \in timers \/ fetching # {}

\* No timer escapes: the only one pending is the one that can be cancelled.
OneTimer == timers \subseteq {unsub}

\* As long as no refresh or push comes during another refresh, every listener was
\* told whether the last update succeeded, so that no entity stays available over
\* dead data; and where one does come, what the listeners missed is made good by
\* the next outcome that is told with no other refresh in flight, as each success is.
ListenersToldUnlessOverlapped ==
  ~overlapped => \A l \in listeners : seen[l] = success

=============================================================================
