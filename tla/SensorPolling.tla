---------------------------- MODULE SensorPolling ----------------------------
(***************************************************************************)
(* The polling of one TIS health-sensor device across reloads of the       *)
(* integration: get_coordinator and the sensors of src/sensor.py, the      *)
(* coordinator (UpdateCoordinator) and the config entry that owns it.      *)
(*                                                                         *)
(* The coordinator is created once and cached in a module global; creating *)
(* it registers its async_shutdown with the entry.  Unloading the entry    *)
(* shuts it down; the next setup takes it from the cache as it is.         *)
(*                                                                         *)
(* A sensor registers its callback twice (CoordinatorEntity does, then     *)
(* BaseSensorEntity again), in one run and removed together: the pair is   *)
(* one listener here.  The integration pushes no data and its fetch raises *)
(* no authentication error.                                                *)
(***************************************************************************)
EXTENDS Naturals, FiniteSets

CONSTANTS Sensors,    \* sensors of the device
          Refreshes, Timers, NoTimer

VARIABLES listeners, timers, unsub, fetching, previous, success, shutdown,
          stopping, seen, authFailed, overlapped,
          phase,     \* the config entry: unloaded, loaded or unloading
          cached,    \* the device is a key of coordinators
          onUnload   \* the entry's _on_unload holds async_shutdown

Coordinator == INSTANCE UpdateCoordinator WITH Listeners <- Sensors

coordinatorVars == <<listeners, timers, unsub, fetching, previous, success,
                     shutdown, stopping, seen, authFailed, overlapped>>
vars == <<coordinatorVars, phase, cached, onUnload>>

TypeOK ==
  /\ Coordinator!TypeOK
  /\ phase \in {"unloaded", "loaded", "unloading"}
  /\ cached \in BOOLEAN
  /\ onUnload \in BOOLEAN

Init ==
  /\ Coordinator!Init
  /\ phase = "unloaded"
  /\ cached = FALSE
  /\ onUnload = FALSE

-----------------------------------------------------------------------------
\* async_setup_entry of the platform: get_coordinator for the sensors' device.
Setup ==
  /\ phase = "unloaded"
  /\ phase' = "loaded"
  /\ cached' = TRUE
  /\ onUnload' = ~cached
  /\ UNCHANGED coordinatorVars

\* async_added_to_hass of a sensor.
SensorAdded(s) ==
  /\ phase = "loaded"
  /\ Coordinator!AddListener(s)
  /\ UNCHANGED <<phase, cached, onUnload>>

\* The platform is unloaded: every sensor is removed.
Unload ==
  /\ phase = "loaded"
  /\ phase' = "unloading"
  /\ UNCHANGED <<coordinatorVars, cached, onUnload>>

\* A sensor is removed, by the unload or one by one: its on_remove callbacks.
SensorRemoved(s) ==
  /\ phase # "unloaded"
  /\ Coordinator!RemoveListener(s)
  /\ UNCHANGED <<phase, cached, onUnload>>

\* _async_process_on_unload of the entry, after the platforms are gone.
ProcessOnUnload ==
  /\ phase = "unloading"
  /\ listeners = {}
  /\ phase' = "unloaded"
  /\ onUnload' = FALSE
  /\ IF onUnload THEN Coordinator!Shutdown ELSE UNCHANGED coordinatorVars
  /\ UNCHANGED cached

\* It also cancels the entry's background tasks, which fetch for the timer.
CancelFetch(r) ==
  /\ phase = "unloaded"
  /\ Coordinator!Cancel(r)
  /\ UNCHANGED <<phase, cached, onUnload>>

TimerFires ==
  /\ \E t \in Timers : Coordinator!TimerFires(t)
  /\ UNCHANGED <<phase, cached, onUnload>>

\* The service homeassistant.update_entity on a sensor.
UpdateEntity ==
  /\ listeners # {}
  /\ Coordinator!RequestRefresh
  /\ UNCHANGED <<phase, cached, onUnload>>

\* send_packet returns, or raises.
Fetched(r) ==
  /\ \E o \in {"success", "failure"} : Coordinator!Return(r, o)
  /\ UNCHANGED <<phase, cached, onUnload>>

Next ==
  \/ Setup \/ Unload \/ ProcessOnUnload \/ TimerFires \/ UpdateEntity
  \/ \E s \in Sensors : SensorAdded(s) \/ SensorRemoved(s)
  \/ \E r \in Refreshes : CancelFetch(r) \/ Fetched(r)

\* The event loop runs the timers; the socket's send ends.  Nothing obliges
\* the user to load, unload or refresh.
Fairness ==
  /\ WF_vars(TimerFires)
  /\ \A r \in Refreshes : WF_vars(Fetched(r))

Spec == Init /\ [][Next]_vars /\ Fairness

-----------------------------------------------------------------------------
Idle == phase = "loaded" /\ listeners # {} /\ fetching = {}
Served == fetching # {} \/ listeners = {} \/ phase # "loaded"

\* Until then, the timer of the next poll is set whenever nothing is being fetched;
\* and what was unloaded once is shut down, whoever takes it from the cache.
PollIsArmed ==
  /\ Idle /\ ~shutdown => unsub \in timers
  /\ cached /\ ~onUnload => shutdown

\* From the first unload on nothing new is fetched.
NoneAfterUnload == [][shutdown => shutdown' /\ fetching' \subseteq fetching]_vars

\* From the first setup to the first unload, an idle device that has a sensor
\* is polled again, whether the fetches before succeeded or not.
PolledUntilFirstUnload == (Idle /\ ~shutdown) ~> Served

\* What the comment at update_coordinator.py:158 says, for the integration:
\* registering the first listener sets up the interval, so that a device that
\* has a sensor is polled again and again (manifest.json: local_polling).
PolledWhileLoaded == Idle ~> Served
=============================================================================
