-------------------------- MODULE RequestedRefresh --------------------------
(***************************************************************************)
(* The update coordinator with the debouncer that it asks for refreshes    *)
(* (src/homeassistant/helpers/update_coordinator.py:105-118): entities     *)
(* call async_request_refresh, the debouncer runs async_refresh, and each  *)
(* refresh, push or shutdown cancels what the debouncer has in mind.       *)
(*                                                                         *)
(* A step of one component is a step of the other, or leaves it alone.     *)
(* The debounced function always awaits its data, so that the debouncer's  *)
(* lock is held for as long as the refresh it started is in flight.        *)
(***************************************************************************)
EXTENDS UpdateCoordinator

CONSTANTS CooldownTimers, Cooldown

VARIABLES immediate, timer, pending, left, executeAtEnd, executing, ran,
          sinceEnd, released,   \* the debouncer
          debounced,            \* the refresh that it awaits
          unserved              \* history: since the last request no fetch began, no data was pushed

D == INSTANCE Debouncer WITH Timers <- CooldownTimers

ASSUME RequestAssumption == NoTimer \notin CooldownTimers

ofDebouncer == <<immediate, timer, pending, left, executeAtEnd, executing, ran, sinceEnd, released>>
requestVars == <<coordinatorVars, ofDebouncer, debounced, unserved>>

RequestTypeOK ==
  /\ TypeOK /\ D!TypeOK
  /\ debounced \subseteq Refreshes /\ unserved \in BOOLEAN

RequestInit == Init /\ D!Init /\ debounced = {} /\ unserved = FALSE

-----------------------------------------------------------------------------
\* The debouncer starts the refresh, by a request or at the end of a cooldown.
StartsRefresh ==
  /\ RequestRefresh
  /\ debounced' = fetching' \ fetching /\ unserved' = FALSE

\* async_request_refresh, which debouncer and coordinator do not turn into a fetch.
RequestWaits ==
  /\ D!RequestIgnored \/ D!RequestDeferred \/ D!RequestArmed
  /\ unserved' = TRUE /\ UNCHANGED <<coordinatorVars, debounced>>

\* async_request_refresh, served at once.
RequestStarts == D!RequestServed /\ executing' /\ StartsRefresh

\* The cooldown is over.
CooldownEnds(t) ==
  /\ D!TimerFires(t)
  /\ IF ran' THEN executing' /\ StartsRefresh ELSE UNCHANGED <<coordinatorVars, debounced, unserved>>

\* Every other refresh, by the coordinator's timer or by a direct call of
\* async_refresh, first cancels what the debouncer has in mind.
PollFires(t) ==
  /\ TimerFires(t) /\ D!Cancel
  /\ unserved' = (unserved /\ fetching' = fetching) /\ UNCHANGED debounced

DirectRefresh ==
  /\ RequestRefresh /\ D!Cancel
  /\ unserved' = (unserved /\ fetching' = fetching) /\ UNCHANGED debounced

\* A refresh ends; if it is the debouncer's, a cooldown begins.
Ends(r) ==
  /\ IF r \in debounced THEN D!Return ELSE UNCHANGED ofDebouncer
  /\ debounced' = debounced \ {r} /\ UNCHANGED unserved

RefreshReturns(r, o) == Return(r, o) /\ Ends(r)

\* Mutation: only a return lets go of the lock.
RefreshCancelledHolding(r) ==
  /\ Cancel(r)
  /\ debounced' = debounced \ {r} /\ UNCHANGED <<ofDebouncer, unserved>>

RefreshCancelled(r) == Cancel(r) /\ Ends(r)

\* A push, and the last listener's leaving, cancel it too; data that was pushed
\* is taken for the answer.
PushData == SetUpdatedData /\ D!Cancel /\ unserved' = FALSE /\ UNCHANGED debounced
PushError == SetUpdateError /\ UNCHANGED <<ofDebouncer, debounced, unserved>>
Listen(l) == AddListener(l) /\ UNCHANGED <<ofDebouncer, debounced, unserved>>
Leave(l) ==
  /\ RemoveListener(l)
  /\ IF listeners' = {} THEN D!Cancel ELSE UNCHANGED ofDebouncer
  /\ UNCHANGED <<debounced, unserved>>

ShutdownBoth == Shutdown /\ D!Shutdown /\ UNCHANGED <<debounced, unserved>>
StopHass == Stop /\ UNCHANGED <<ofDebouncer, debounced, unserved>>
Clock == D!Tick /\ UNCHANGED <<coordinatorVars, debounced, unserved>>

RequestNext ==
  \/ RequestWaits \/ RequestStarts \/ DirectRefresh
  \/ \E t \in CooldownTimers : CooldownEnds(t)
  \/ \E t \in Timers : PollFires(t)
  \/ \E r \in Refreshes : RefreshCancelled(r) \/ \E o \in Outcome : RefreshReturns(r, o)
  \/ PushData \/ PushError \/ ShutdownBoth \/ StopHass \/ Clock
  \/ \E l \in Listeners : Listen(l) \/ Leave(l)

\* Timers fire and fetches end.
RequestFairness ==
  /\ WF_requestVars(Clock)
  /\ \A t \in CooldownTimers : WF_requestVars(CooldownEnds(t))
  /\ \A t \in Timers : WF_requestVars(PollFires(t))
  /\ \A r \in Refreshes : WF_requestVars(\E o \in Outcome : RefreshReturns(r, o))

RequestSpec == RequestInit /\ [][RequestNext]_requestVars /\ RequestFairness

-----------------------------------------------------------------------------
\* The debouncer's lock is held exactly while a refresh that it started is in
\* flight: none is forgotten, and none holds the lock after its end.
LockIsRefresh == executing <=> debounced # {}

\* A request is followed by a fetch that began after it, or by a push, although
\* the debouncer drops what is asked while it awaits one ("Any call is good",
\* debounce.py:91) and every refresh and push cancels what it remembers: the poll
\* comes, at the latest, while somebody listens and a login is not what is missing.
Attended == listeners # {} /\ ~shutdown /\ ~stopping /\ ~authFailed
RequestedIsFetched == (unserved /\ Attended) ~> (~unserved \/ ~Attended)
=============================================================================
