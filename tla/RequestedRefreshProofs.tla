----------------------- MODULE RequestedRefreshProofs -----------------------
(***************************************************************************)
(* Proofs about RequestedRefresh: the coordinator and the debouncer it     *)
(* asks, for any number of listeners, refreshes in flight, and timers.     *)
(*                                                                         *)
(* Of the coordinator, the statements about timers are inductive together  *)
(* with the types.  The one about listeners needs                          *)
(*   AtMostOne: without an overlap at most one refresh is in flight;       *)
(*   Remembers: and when it remembers a failure, nothing has succeeded     *)
(*     since it began, so that the failure it then keeps quiet about is the*)
(*     one that the listeners know.                                        *)
(*                                                                         *)
(* That the lock of the debouncer is the refresh it started needs, of the  *)
(* debouncer, that no timer of it is set while it runs or after a shutdown:*)
(* a cooldown that ends would otherwise take the lock for a refresh that   *)
(* never begins.                                                           *)
(***************************************************************************)
EXTENDS RequestedRefresh, TLAPS

AtMostOne == ~overlapped => \A q, r \in fetching : q = r

Remembers == ~overlapped => \A r \in fetching : success => previous[r]

CoordinatorInv ==
  /\ TypeOK /\ PollArmed /\ OneTimer /\ ListenersToldUnlessOverlapped
  /\ AtMostOne /\ Remembers

-----------------------------------------------------------------------------
\* _schedule_refresh leaves one timer, a new one, and its handle.
LEMMA ScheduleIsExact ==
  ASSUME TypeOK, OneTimer, Schedule(timers)
  PROVE  unsub' \in Timers /\ timers' = {unsub'}
BY DEF Schedule, OneTimer, TypeOK

\* _async_unsub_refresh leaves none.
LEMMA UnscheduleIsExact ==
  ASSUME OneTimer, Unschedule(timers)
  PROVE  timers' = {} /\ unsub' = NoTimer
BY DEF Unschedule, OneTimer

\* Telling the listeners leaves none that believes something else.
LEMMA TellTellsAll ==
  ASSUME TypeOK, Tell, success' \in BOOLEAN
  PROVE  /\ seen' \in [Listeners -> BOOLEAN]
         /\ \A l \in listeners : seen'[l] = success'
BY DEF Tell, TypeOK

LEMMA CoordinatorInit == Init => CoordinatorInv
BY DEF Init, CoordinatorInv, TypeOK, PollArmed, OneTimer, ListenersToldUnlessOverlapped,
       AtMostOne, Remembers

\* The first listener arms the poll, the last one to leave disarms it
\* (src/homeassistant/helpers/update_coordinator.py:143-163).
LEMMA ListenersInv ==
  ASSUME CoordinatorInv, NEW l \in Listeners, AddListener(l) \/ RemoveListener(l)
  PROVE  CoordinatorInv'
<1> USE DEF CoordinatorInv
<1>1. /\ unsub' \in Timers \cup {NoTimer}
      /\ timers' \in SUBSET Timers
      /\ OneTimer'
      /\ listeners' # {} => (UNCHANGED <<timers, unsub>> \/ unsub' \in timers')
  <2>1. CASE UNCHANGED <<timers, unsub>>
    BY <2>1 DEF TypeOK, OneTimer
  <2>2. CASE Schedule(timers)
    BY <2>2, ScheduleIsExact DEF OneTimer
  <2>3. CASE Unschedule(timers) /\ listeners' = {}
    BY <2>3, UnscheduleIsExact DEF OneTimer
  <2> QED
    BY <2>1, <2>2, <2>3 DEF AddListener, RemoveListener
<1>2. UNCHANGED <<fetching, previous, success, shutdown, stopping, authFailed, overlapped>>
  BY DEF AddListener, RemoveListener
<1>3. TypeOK'
  BY <1>1, <1>2 DEF TypeOK, AddListener, RemoveListener
<1>4. PollArmed'
  <2>1. CASE listeners = {}
    <3>1. AddListener(l) => Schedule(timers)
      BY <2>1 DEF AddListener
    <3>2. RemoveListener(l) => FALSE
      BY <2>1 DEF RemoveListener
    <3> QED
      BY <3>1, <3>2, ScheduleIsExact DEF PollArmed
  <2>2. CASE listeners # {}
    BY <2>2, <1>1, <1>2 DEF PollArmed
  <2> QED
    BY <2>1, <2>2
<1>5. ListenersToldUnlessOverlapped'
  BY <1>2 DEF ListenersToldUnlessOverlapped, AddListener, RemoveListener, TypeOK
<1>6. AtMostOne' /\ Remembers'
  BY <1>2 DEF AtMostOne, Remembers
<1> QED
  BY <1>1, <1>3, <1>4, <1>5, <1>6

\* A refresh that begins takes the place of the timer, unless the coordinator or
\* Home Assistant is shutting down (lines 239-258, 293-311).
LEMMA BeginInv ==
  ASSUME CoordinatorInv, RequestRefresh \/ \E t \in Timers : TimerFires(t)
  PROVE  CoordinatorInv'
<1> USE DEF CoordinatorInv
<1>1. timers' = {} /\ unsub' = NoTimer
  <2>1. CASE RequestRefresh
    BY <2>1, UnscheduleIsExact DEF RequestRefresh, Begin
  <2>2. ASSUME NEW t \in Timers, TimerFires(t) PROVE timers' = {} /\ unsub' = NoTimer
    BY <2>2 DEF TimerFires, OneTimer
  <2> QED
    BY <2>1, <2>2
<1>2. UNCHANGED <<listeners, success, shutdown, stopping, seen, authFailed>>
  BY DEF RequestRefresh, Begin, TimerFires
<1>3. \/ UNCHANGED <<fetching, previous, overlapped>> /\ (shutdown \/ stopping)
      \/ \E r \in Refreshes \ fetching :
           /\ fetching' = fetching \cup {r}
           /\ previous' = [previous EXCEPT ![r] = success]
           /\ overlapped' = (overlapped \/ fetching # {})
  BY DEF RequestRefresh, Begin, TimerFires
<1>4. CASE UNCHANGED <<fetching, previous, overlapped>> /\ (shutdown \/ stopping)
  BY <1>1, <1>2, <1>4 DEF TypeOK, PollArmed, OneTimer, ListenersToldUnlessOverlapped,
                          AtMostOne, Remembers
<1>5. ASSUME NEW r \in Refreshes \ fetching,
             fetching' = fetching \cup {r},
             previous' = [previous EXCEPT ![r] = success],
             overlapped' = (overlapped \/ fetching # {})
      PROVE  CoordinatorInv'
  <2>1. TypeOK'
    BY <1>1, <1>2, <1>5 DEF TypeOK
  <2>2. PollArmed' /\ OneTimer'
    BY <1>1, <1>5 DEF PollArmed, OneTimer
  <2>3. ListenersToldUnlessOverlapped'
    BY <1>2, <1>5 DEF ListenersToldUnlessOverlapped, TypeOK
  <2>4. ~overlapped' => fetching' = {r}
    BY <1>5 DEF TypeOK
  <2>5. previous'[r] = success
    BY <1>5 DEF TypeOK
  <2>6. AtMostOne' /\ Remembers'
    BY <1>2, <2>4, <2>5 DEF AtMostOne, Remembers
  <2> QED
    BY <2>1, <2>2, <2>3, <2>6
<1> QED
  BY <1>3, <1>4, <1>5

\* A refresh that ends, with data, with a failure or cancelled, arms the next poll
\* and tells the listeners what they do not know (lines 311-415).
LEMMA EndInv ==
  ASSUME CoordinatorInv, NEW r \in Refreshes,
         Cancel(r) \/ \E o \in Outcome : Return(r, o)
  PROVE  CoordinatorInv'
<1> USE DEF CoordinatorInv
<1>1. /\ r \in fetching /\ fetching' = fetching \ {r}
      /\ UNCHANGED <<listeners, previous, shutdown, stopping>>
      /\ success' \in BOOLEAN /\ authFailed' \in BOOLEAN
      /\ overlapped' \in BOOLEAN /\ (~overlapped => ~overlapped')
      /\ overlapped /\ ~overlapped' => fetching' = {}
  <2>1. CASE Cancel(r)
    BY <2>1 DEF Cancel, TypeOK
  <2>2. ASSUME NEW o \in Outcome, Return(r, o)
        PROVE  /\ overlapped' \in BOOLEAN /\ (~overlapped => ~overlapped')
               /\ overlapped /\ ~overlapped' => fetching' = {}
    BY <2>2, Zenon DEF Return
  <2>3. ASSUME NEW o \in Outcome, Return(r, o)
        PROVE  /\ r \in fetching /\ fetching' = fetching \ {r}
               /\ UNCHANGED <<listeners, previous, shutdown, stopping>>
               /\ success' \in BOOLEAN /\ authFailed' \in BOOLEAN
    BY <2>3 DEF Return
  <2> QED
    BY <2>1, <2>2, <2>3
<1>2. \/ UNCHANGED <<timers, unsub>> /\ (authFailed' \/ listeners = {} \/ stopping)
      \/ Schedule(timers)
  BY DEF Cancel, Return, Reschedule
<1>3. /\ timers' \in SUBSET Timers /\ unsub' \in Timers \cup {NoTimer}
      /\ OneTimer'
      /\ PollArmed'
  <2>1. CASE UNCHANGED <<timers, unsub>> /\ (authFailed' \/ listeners = {} \/ stopping)
    BY <1>1, <2>1 DEF TypeOK, OneTimer, PollArmed
  <2>2. CASE Schedule(timers)
    BY <2>2, ScheduleIsExact DEF OneTimer, PollArmed
  <2> QED
    BY <1>2, <2>1, <2>2
<1>4. seen' \in [Listeners -> BOOLEAN] /\ ListenersToldUnlessOverlapped'
  <2>1. CASE Cancel(r)
    BY <2>1 DEF Cancel, TypeOK, ListenersToldUnlessOverlapped
  <2>2. CASE \E o \in Outcome : Return(r, o) /\ Tell
    BY <1>1, <2>2, TellTellsAll DEF ListenersToldUnlessOverlapped
  <2>3. CASE \E o \in Outcome : Return(r, o) /\ Untold(r) /\ seen' = seen
    <3>1. ~overlapped' => success = FALSE
      BY <1>1, <2>3 DEF Return, Untold, Remembers, TypeOK
    <3>2. success' = FALSE /\ overlapped' = overlapped
      BY <1>1, <2>3 DEF Return, Untold, TypeOK
    <3> QED
      BY <1>1, <2>3, <3>1, <3>2 DEF ListenersToldUnlessOverlapped, TypeOK
  <2> QED
    BY <2>1, <2>2, <2>3 DEF Return, TellOutcome
<1>5. TypeOK'
  BY <1>1, <1>3, <1>4 DEF TypeOK
<1>6. AtMostOne'
  BY <1>1 DEF AtMostOne
\* What success is remembered of is what the listeners knew when the refresh began,
\* unless none is left in flight.
<1>7. Remembers'
  BY <1>1, <1>6 DEF AtMostOne, Remembers
<1> QED
  BY <1>3, <1>4, <1>5, <1>6, <1>7

\* Pushed data arm the next poll; a pushed error leaves it as it is (lines
\* 426-457).
LEMMA PushInv ==
  ASSUME CoordinatorInv, SetUpdatedData \/ SetUpdateError
  PROVE  CoordinatorInv'
<1> USE DEF CoordinatorInv
<1>1. /\ UNCHANGED <<listeners, fetching, previous, shutdown, stopping, authFailed>>
      /\ success' \in BOOLEAN /\ Tell
      /\ overlapped' \in BOOLEAN /\ (fetching # {} /\ overlapped => overlapped')
  BY DEF SetUpdatedData, SetUpdateError, TypeOK
<1>2. /\ timers' \in SUBSET Timers /\ unsub' \in Timers \cup {NoTimer}
      /\ OneTimer' /\ PollArmed'
  <2>1. CASE UNCHANGED <<timers, unsub>>
    BY <1>1, <2>1 DEF TypeOK, OneTimer, PollArmed
  <2>2. CASE Schedule(timers)
    BY <2>2, ScheduleIsExact DEF OneTimer, PollArmed
  <2>3. CASE Unschedule(timers) /\ listeners = {}
    BY <1>1, <2>3, UnscheduleIsExact DEF OneTimer, PollArmed
  <2> QED
    BY <2>1, <2>2, <2>3 DEF SetUpdatedData, SetUpdateError
<1>3. /\ seen' \in [Listeners -> BOOLEAN]
      /\ ListenersToldUnlessOverlapped'
  BY <1>1, TellTellsAll DEF ListenersToldUnlessOverlapped
<1>4. TypeOK'
  BY <1>1, <1>2, <1>3 DEF TypeOK
<1>5. AtMostOne' /\ Remembers'
  BY <1>1 DEF AtMostOne, Remembers, SetUpdatedData, SetUpdateError
<1> QED
  BY <1>2, <1>3, <1>4, <1>5

\* Every step preserves the invariant.
LEMMA CoordinatorStep == CoordinatorInv /\ [Next]_coordinatorVars => CoordinatorInv'
<1> SUFFICES ASSUME CoordinatorInv, [Next]_coordinatorVars
             PROVE  CoordinatorInv'
  OBVIOUS
<1>1. ASSUME NEW l \in Listeners, AddListener(l) \/ RemoveListener(l) PROVE CoordinatorInv'
  BY <1>1, ListenersInv
<1>2. CASE RequestRefresh \/ \E t \in Timers : TimerFires(t)
  BY <1>2, BeginInv
<1>3. ASSUME NEW r \in Refreshes, Cancel(r) \/ \E o \in Outcome : Return(r, o)
      PROVE  CoordinatorInv'
  BY <1>3, EndInv
<1>4. CASE SetUpdatedData \/ SetUpdateError
  BY <1>4, PushInv
<1>5. CASE Shutdown
  <2>1. timers' = {} /\ unsub' = NoTimer
    BY <1>5, UnscheduleIsExact DEF Shutdown, CoordinatorInv
  <2> QED
    BY <1>5, <2>1 DEF Shutdown, CoordinatorInv, TypeOK, PollArmed, OneTimer,
                      ListenersToldUnlessOverlapped, AtMostOne, Remembers
<1>6. CASE Stop
  BY <1>6 DEF Stop, CoordinatorInv, TypeOK, PollArmed, OneTimer,
              ListenersToldUnlessOverlapped,
              AtMostOne, Remembers
<1>7. CASE UNCHANGED coordinatorVars
  BY <1>7 DEF coordinatorVars, CoordinatorInv, TypeOK, PollArmed, OneTimer,
              ListenersToldUnlessOverlapped, AtMostOne, Remembers
<1> QED
  BY <1>1, <1>2, <1>3, <1>4, <1>5, <1>6, <1>7 DEF Next

-----------------------------------------------------------------------------
\* The timers of the debouncer: the one it knows, none while it runs, and none
\* after a shutdown.
DebouncerTimers ==
  /\ timer \in CooldownTimers \cup {NoTimer} /\ D!OneTimer
  /\ executing => pending = {}
  /\ shutdown => pending = {}

RequestInv ==
  /\ CoordinatorInv /\ DebouncerTimers
  /\ LockIsRefresh /\ executing \in BOOLEAN
  /\ debounced \subseteq fetching /\ \A q, r \in debounced : q = r

\* The coordinator of the composition is the coordinator alone: each step is one of
\* UpdateCoordinator's or leaves its variables as they are.
LEMMA CoordinatorIsAlone ==
  ASSUME [RequestNext]_requestVars
  PROVE  [Next]_coordinatorVars
<1> USE DEF Next
<1>1. CASE RequestWaits \/ RequestStarts \/ DirectRefresh
  BY <1>1 DEF RequestWaits, RequestStarts, StartsRefresh, DirectRefresh
<1>2. CASE (\E t \in CooldownTimers : CooldownEnds(t)) \/ \E t \in Timers : PollFires(t)
  BY <1>2 DEF CooldownEnds, StartsRefresh, PollFires
<1>3. CASE \E r \in Refreshes : RefreshCancelled(r) \/ \E o \in Outcome : RefreshReturns(r, o)
  BY <1>3 DEF RefreshCancelled, RefreshReturns
<1>4. CASE PushData \/ PushError \/ ShutdownBoth \/ StopHass \/ Clock
  BY <1>4 DEF PushData, PushError, ShutdownBoth, StopHass, Clock
<1>5. CASE \E l \in Listeners : Listen(l) \/ Leave(l)
  BY <1>5 DEF Listen, Leave
<1>6. CASE UNCHANGED requestVars
  BY <1>6 DEF requestVars
<1> QED
  BY <1>1, <1>2, <1>3, <1>4, <1>5, <1>6 DEF RequestNext

\* So is its debouncer the debouncer alone.
LEMMA DebouncerIsAlone ==
  ASSUME [RequestNext]_requestVars
  PROVE  [D!Next]_(D!vars)
<1> USE DEF D!Next, D!vars, ofDebouncer
<1>1. CASE RequestWaits \/ RequestStarts \/ DirectRefresh
  BY <1>1 DEF RequestWaits, RequestStarts, DirectRefresh
<1>2. CASE (\E t \in CooldownTimers : CooldownEnds(t)) \/ \E t \in Timers : PollFires(t)
  BY <1>2 DEF CooldownEnds, PollFires
<1>3. CASE \E r \in Refreshes : RefreshCancelled(r) \/ \E o \in Outcome : RefreshReturns(r, o)
  BY <1>3 DEF RefreshCancelled, RefreshReturns, Ends, Return, Cancel
<1>4. CASE PushData \/ PushError \/ ShutdownBoth \/ StopHass \/ Clock
  BY <1>4 DEF PushData, PushError, ShutdownBoth, StopHass, Clock, SetUpdateError, Stop
<1>5. CASE \E l \in Listeners : Listen(l) \/ Leave(l)
  BY <1>5 DEF Listen, Leave, AddListener, RemoveListener
<1>6. CASE UNCHANGED requestVars
  BY <1>6 DEF requestVars, coordinatorVars
<1> QED
  BY <1>1, <1>2, <1>3, <1>4, <1>5, <1>6 DEF RequestNext

\* Wherever a timer of the debouncer is set, it was the only one, nothing ran, and
\* no shutdown was requested (src/homeassistant/helpers/debounce.py).
LEMMA TimersStep ==
  ASSUME NoTimer \notin CooldownTimers, DebouncerTimers, [D!Next]_(D!vars)
  PROVE  DebouncerTimers'
<1> USE DEF DebouncerTimers, D!OneTimer
<1>1. ASSUME NEW live, live = {}, D!EndOfRun(live), ~executing', UNCHANGED shutdown
      PROVE  DebouncerTimers'
  BY <1>1 DEF D!EndOfRun, D!ScheduleTimer
<1>2. ASSUME NEW live, live = {}, D!Run(live), UNCHANGED shutdown PROVE DebouncerTimers'
  BY <1>1, <1>2 DEF D!Run
<1>3. CASE D!RequestIgnored \/ D!RequestDeferred \/ D!Tick
  BY <1>3 DEF D!RequestIgnored, D!RequestDeferred, D!Tick
<1>4. CASE D!RequestArmed
  BY <1>4 DEF D!RequestArmed, D!ScheduleTimer
<1>5. CASE D!RequestServed
  BY <1>2, <1>5 DEF D!RequestServed
<1>6. CASE D!Return
  BY <1>1, <1>6 DEF D!Return
<1>7. ASSUME NEW t \in CooldownTimers, D!TimerFires(t) PROVE DebouncerTimers'
  <2>1. pending \ {t} = {} /\ ~executing
    BY <1>7 DEF D!TimerFires
  <2> QED
    BY <1>2, <1>7, <2>1 DEF D!TimerFires
<1>8. CASE D!Cancel \/ D!Shutdown
  BY <1>8 DEF D!Cancel, D!Shutdown, D!CancelTimer
<1>9. CASE UNCHANGED D!vars
  BY <1>9 DEF D!vars
<1> QED
  BY <1>3, <1>4, <1>5, <1>6, <1>7, <1>8, <1>9 DEF D!Next

\* A refresh that the debouncer starts begins, for it starts none after a shutdown,
\* and it is the only one.
LEMMA StartsOne ==
  ASSUME RequestInv, StartsRefresh, ~shutdown, debounced = {}, executing' = TRUE
  PROVE  /\ LockIsRefresh' /\ executing' \in BOOLEAN
         /\ debounced' \subseteq fetching' /\ \A q, r \in debounced' : q = r
<1>1. PICK r \in Refreshes \ fetching : fetching' = fetching \cup {r}
  BY DEF StartsRefresh, RequestRefresh, Begin
<1>2. debounced' = {r}
  BY <1>1 DEF StartsRefresh
<1> QED
  BY <1>1, <1>2 DEF LockIsRefresh

\* The lock is held from the start of the debouncer's refresh to its end, whether that
\* returns or is cancelled.
LEMMA LockStep ==
  ASSUME RequestInv, [RequestNext]_requestVars
  PROVE  /\ LockIsRefresh' /\ executing' \in BOOLEAN
         /\ debounced' \subseteq fetching' /\ \A q, r \in debounced' : q = r
<1> USE DEF RequestInv
<1> DEFINE Held == /\ LockIsRefresh /\ executing \in BOOLEAN
                   /\ debounced \subseteq fetching /\ \A q, r \in debounced : q = r
<1> SUFFICES Held'
  OBVIOUS
<1>a. ASSUME UNCHANGED <<executing, debounced>>, fetching \subseteq fetching' PROVE Held'
  BY <1>a DEF LockIsRefresh
<1>1. CASE RequestWaits
  BY <1>1, <1>a DEF RequestWaits, D!RequestIgnored, D!RequestDeferred, D!RequestArmed,
                    coordinatorVars
<1>2. CASE RequestStarts
  BY <1>2, StartsOne DEF RequestStarts, D!RequestServed, D!Run, LockIsRefresh
<1>3. ASSUME NEW t \in CooldownTimers, CooldownEnds(t) PROVE Held'
  <2>1. ~shutdown /\ ~executing
    BY <1>3 DEF CooldownEnds, D!TimerFires, DebouncerTimers
  <2>2. CASE ran'
    BY <1>3, <2>1, <2>2, StartsOne DEF CooldownEnds, D!TimerFires, D!Run, LockIsRefresh
  <2>3. CASE ~ran'
    BY <1>3, <1>a, <2>3 DEF CooldownEnds, D!TimerFires, D!Run, coordinatorVars
  <2> QED
    BY <2>2, <2>3
<1>4. CASE DirectRefresh \/ (\E t \in Timers : PollFires(t)) \/ PushData \/ ShutdownBoth
  <2>1. UNCHANGED <<executing, debounced>>
    BY <1>4 DEF DirectRefresh, PollFires, PushData, ShutdownBoth, D!Cancel, D!Shutdown,
                D!CancelTimer
  <2>2. fetching \subseteq fetching'
    BY <1>4 DEF DirectRefresh, PollFires, PushData, ShutdownBoth, RequestRefresh, Begin,
                TimerFires, SetUpdatedData, Shutdown
  <2> QED
    BY <1>a, <2>1, <2>2
<1>5. ASSUME NEW r \in Refreshes,
             RefreshCancelled(r) \/ \E o \in Outcome : RefreshReturns(r, o)
      PROVE  Held'
  <2>1. Ends(r) /\ fetching' = fetching \ {r}
    BY <1>5 DEF RefreshCancelled, RefreshReturns, Cancel, Return
  <2>2. CASE r \in debounced
    <3>1. executing' = FALSE /\ debounced' = {}
      BY <2>1, <2>2 DEF Ends, D!Return
    <3> QED
      BY <3>1 DEF LockIsRefresh
  <2>3. CASE r \notin debounced
    BY <2>1, <2>3 DEF Ends, ofDebouncer, LockIsRefresh
  <2> QED
    BY <2>2, <2>3
<1>6. CASE PushError \/ StopHass \/ (\E l \in Listeners : Listen(l) \/ Leave(l))
  <2>1. UNCHANGED <<executing, debounced>>
    BY <1>6 DEF PushError, StopHass, Listen, Leave, ofDebouncer, D!Cancel, D!CancelTimer
  <2>2. fetching' = fetching
    BY <1>6 DEF PushError, StopHass, Listen, Leave, SetUpdateError, Stop, AddListener,
                RemoveListener
  <2> QED
    BY <1>a, <2>1, <2>2
<1>7. CASE Clock \/ UNCHANGED requestVars
  BY <1>7, <1>a DEF Clock, D!Tick, requestVars, coordinatorVars, ofDebouncer
<1> QED
  BY <1>1, <1>2, <1>3, <1>4, <1>5, <1>6, <1>7 DEF RequestNext

\* Every step of the composition preserves the invariant.
LEMMA RequestStep ==
  NoTimer \notin CooldownTimers /\ RequestInv /\ [RequestNext]_requestVars => RequestInv'
<1> SUFFICES ASSUME NoTimer \notin CooldownTimers, RequestInv, [RequestNext]_requestVars
             PROVE  RequestInv'
  OBVIOUS
<1>1. CoordinatorInv'
  BY CoordinatorIsAlone, CoordinatorStep DEF RequestInv
<1>2. DebouncerTimers'
  BY DebouncerIsAlone, TimersStep DEF RequestInv
<1> QED
  BY <1>1, <1>2, LockStep DEF RequestInv

-----------------------------------------------------------------------------
\* The inductive invariant of the composition.
THEOREM Invariant == RequestSpec => []RequestInv
<1>1. RequestInit => RequestInv
  BY CoordinatorInit DEF RequestInit, RequestInv, D!Init, DebouncerTimers, D!OneTimer,
                         LockIsRefresh
<1> QED
  BY <1>1, RequestStep, RequestAssumption, PTL DEF RequestSpec

\* The fields of the coordinator keep their types.
THEOREM TypeCorrect == RequestSpec => []TypeOK
<1>1. RequestInv => TypeOK
  BY DEF RequestInv, CoordinatorInv
<1> QED
  BY <1>1, Invariant, PTL

\* The debouncer's lock is held exactly while a refresh that it started is in flight:
\* none is forgotten, and none holds the lock after its end (debounce.py:105-141).
THEOREM LockIsTheRefresh == RequestSpec => []LockIsRefresh
<1>1. RequestInv => LockIsRefresh
  BY DEF RequestInv
<1> QED
  BY <1>1, Invariant, PTL

\* While somebody listens the next poll is armed or under way, for any interleaving
\* of refreshes, requests, pushes, cancels and listeners.
THEOREM PollsGoOn == RequestSpec => []PollArmed
<1>1. RequestInv => PollArmed
  BY DEF RequestInv, CoordinatorInv
<1> QED
  BY <1>1, Invariant, PTL

\* _unsub_refresh names the only timer there is: none polls on unseen.
THEOREM NoTimerEscapes == RequestSpec => []OneTimer
<1>1. RequestInv => OneTimer
  BY DEF RequestInv, CoordinatorInv
<1> QED
  BY <1>1, Invariant, PTL

\* What is said of the polls, the timer and the listeners needs no debouncer: it holds
\* of a coordinator by itself, and so of the polling of the sensors, which is one
\* (PollingIsCoordination of IntegrationProofs).
THEOREM CoordinatorAlone ==
  Spec => [](PollArmed /\ OneTimer /\ ListenersToldUnlessOverlapped)
<1>1. CoordinatorInv => PollArmed /\ OneTimer /\ ListenersToldUnlessOverlapped
  BY DEF CoordinatorInv
<1> QED
  BY <1>1, CoordinatorInit, CoordinatorStep, PTL DEF Spec

\* Without overlaps no entity stays available over dead data, or the other way round.
THEOREM ListenersAreTold == RequestSpec => []ListenersToldUnlessOverlapped
<1>1. RequestInv => ListenersToldUnlessOverlapped
  BY DEF RequestInv, CoordinatorInv
<1> QED
  BY <1>1, Invariant, PTL

\* The composition takes nothing from its parts: every behaviour of it is one of the
\* coordinator and one of the debouncer, so that what is proved of those alone (of the
\* debouncer in MCCore) holds here.
THEOREM PartsAreUnaffected == RequestSpec => Spec /\ D!Spec
<1>1. RequestInit => Init /\ D!Init
  BY DEF RequestInit
<1>2. [RequestNext]_requestVars => [Next]_coordinatorVars /\ [D!Next]_(D!vars)
  BY CoordinatorIsAlone, DebouncerIsAlone
<1> QED
  BY <1>1, <1>2, PTL DEF RequestSpec, Spec, D!Spec
=============================================================================
