------------------------------ MODULE CoreProofs ------------------------------
(***************************************************************************)
(* Proofs about MCCore: that what its run checks of the debouncer, of the  *)
(* store, of an entity, of the setup of components and of the runs of a    *)
(* script holds for any cooldown, any number of identifiers, domains,      *)
(* tasks and runs, and any dependencies.                                   *)
(*                                                                         *)
(* Each part has an invariant of its own, which its steps preserve and     *)
(* which a part that rests keeps; CoreInv is their conjunction.  That of   *)
(* the store is in StoreProofs.                                            *)
(***************************************************************************)
EXTENDS MCCore, StoreProofs, TLAPS, FiniteSetTheorems, SequenceTheorems

-----------------------------------------------------------------------------
(* Debouncer.                                                              *)

\* What is left of the timer and the time since the last run make up the cooldown;
\* when no timer is set and nothing runs, it is over or was cancelled.
Spacing ==
  /\ timer # NoTimer => sinceEnd + left[timer] >= Cooldown
  /\ timer = NoTimer /\ ~executing /\ ~shutdown => sinceEnd = Cooldown \/ released

\* The invariant of the debouncer.
DebouncerInv ==
  D!TypeOK /\ D!OneTimer /\ D!RememberedIsArmed /\ D!NoTimerDuringRun /\ Spacing

(* A handle is a timer or nothing. *)
LEMMA DebouncerConstants == NoTimer \notin Timers /\ Cooldown \in Nat
BY CoreAssumption DEF D!DebouncerConstantsOK

-----------------------------------------------------------------------------
(* The end of a run, with no timer left, sets the one that starts the      *)
(* cooldown, unless shutdown was requested (l. 181-185).                   *)
LEMMA EndOfRunArms ==
  ASSUME D!TypeOK, D!EndOfRun({})
  PROVE  /\ timer' \in Timers \cup {NoTimer}
         /\ armed' = {timer'} \ {NoTimer}
         /\ left' \in [Timers -> 0..Cooldown]
         /\ timer' # NoTimer => left'[timer'] = Cooldown
         /\ timer' = NoTimer => shutdown
         /\ sinceEnd' = 0 /\ released' = FALSE
<1>1. sinceEnd' = 0 /\ released' = FALSE
  BY DEF D!EndOfRun
<1>2. CASE shutdown
  BY <1>1, <1>2 DEF D!EndOfRun, D!ScheduleTimer, D!TypeOK
<1>3. CASE ~shutdown
  <2>1. PICK t \in Timers : /\ timer' = t
                            /\ armed' = {t}
                            /\ left' = [left EXCEPT ![t] = Cooldown]
    BY <1>3 DEF D!EndOfRun, D!ScheduleTimer
  <2>2. left' \in [Timers -> 0..Cooldown] /\ left'[t] = Cooldown
    BY <2>1, DebouncerConstants DEF D!TypeOK
  <2> QED
    BY <1>1, <2>1, <2>2, DebouncerConstants
<1> QED
  BY <1>2, <1>3

(* A run that starts when no timer is left preserves the invariant,        *)
(* whether the function suspends or not.                                   *)
LEMMA RunInv ==
  ASSUME D!TypeOK, D!Run({}), executeAtEnd' = FALSE,
         immediate' = immediate, shutdown' = shutdown
  PROVE  DebouncerInv'
<1>1. CASE executing' = FALSE /\ D!EndOfRun({})
  <2>1. /\ timer' \in Timers \cup {NoTimer}
        /\ armed' = {timer'} \ {NoTimer}
        /\ left' \in [Timers -> 0..Cooldown]
        /\ timer' # NoTimer => left'[timer'] = Cooldown
        /\ timer' = NoTimer => shutdown
        /\ sinceEnd' = 0 /\ released' = FALSE
    BY <1>1, EndOfRunArms
  <2>2. D!TypeOK'
    <3>1. sinceEnd' \in 0..Cooldown
      BY <2>1, DebouncerConstants
    <3> QED
      BY <1>1, <2>1, <3>1 DEF D!TypeOK, D!Run
  <2>3. D!OneTimer' /\ D!RememberedIsArmed' /\ D!NoTimerDuringRun'
    BY <1>1, <2>1 DEF D!OneTimer, D!RememberedIsArmed, D!NoTimerDuringRun
  <2>4. Spacing'
    BY <1>1, <2>1, DebouncerConstants DEF Spacing
  <2> QED
    BY <2>2, <2>3, <2>4 DEF DebouncerInv
<1>2. CASE /\ executing' = TRUE
           /\ timer' = NoTimer /\ armed' = {}
           /\ UNCHANGED <<left, sinceEnd, released>>
  <2>1. D!TypeOK'
    BY <1>2 DEF D!TypeOK, D!Run
  <2>2. D!OneTimer' /\ D!RememberedIsArmed' /\ D!NoTimerDuringRun' /\ Spacing'
    BY <1>2 DEF D!OneTimer, D!RememberedIsArmed, D!NoTimerDuringRun, Spacing
  <2> QED
    BY <2>1, <2>2 DEF DebouncerInv
<1> QED
  BY <1>1, <1>2 DEF D!Run

(* The initial states satisfy the invariant (l. 21-54). *)
LEMMA DebouncerInit == D!Init => DebouncerInv
<1> SUFFICES ASSUME D!Init PROVE DebouncerInv
  OBVIOUS
<1>1. D!TypeOK
  <2>1. left \in [Timers -> 0..Cooldown] /\ sinceEnd \in 0..Cooldown
    BY DebouncerConstants DEF D!Init
  <2> QED
    BY <2>1 DEF D!Init, D!TypeOK
<1>2. D!OneTimer /\ D!RememberedIsArmed /\ D!NoTimerDuringRun /\ Spacing
  BY DEF D!Init, D!OneTimer, D!RememberedIsArmed, D!NoTimerDuringRun, Spacing
<1> QED
  BY <1>1, <1>2 DEF DebouncerInv

-----------------------------------------------------------------------------
(* Requests. *)
LEMMA RequestsInv ==
  ASSUME DebouncerInv,
         D!RequestIgnored \/ D!RequestDeferred \/ D!RequestArmed \/ D!RequestServed
  PROVE  DebouncerInv'
<1> USE DEF DebouncerInv
<1>1. CASE D!RequestIgnored
  BY <1>1 DEF D!RequestIgnored, D!TypeOK, D!OneTimer, D!RememberedIsArmed,
              D!NoTimerDuringRun, Spacing
\* A timer is set, so nothing runs: the request is served when it fires.
<1>2. CASE D!RequestDeferred
  <2>1. timer \in armed /\ ~executing
    BY <1>2 DEF D!RequestDeferred, D!OneTimer, D!NoTimerDuringRun, D!TypeOK
  <2>2. D!TypeOK'
    BY <1>2 DEF D!RequestDeferred, D!TypeOK
  <2> QED
    BY <1>2, <2>1, <2>2 DEF D!RequestDeferred, D!OneTimer, D!RememberedIsArmed,
                            D!NoTimerDuringRun, Spacing
<1>3. CASE D!RequestArmed
  <2>1. armed = {}
    BY <1>3 DEF D!RequestArmed, D!OneTimer
  <2>2. PICK t \in Timers : /\ timer' = t
                            /\ armed' = {t}
                            /\ left' = [left EXCEPT ![t] = Cooldown]
    BY <1>3, <2>1 DEF D!RequestArmed, D!ScheduleTimer
  <2>3. t # NoTimer /\ left'[t] = Cooldown
    BY <2>2, DebouncerConstants DEF D!TypeOK
  <2>4. D!TypeOK'
    <3>1. left' \in [Timers -> 0..Cooldown]
      BY <2>2, DebouncerConstants DEF D!TypeOK
    <3> QED
      BY <1>3, <2>2, <3>1 DEF D!RequestArmed, D!TypeOK
  <2>5. D!OneTimer' /\ D!RememberedIsArmed' /\ D!NoTimerDuringRun'
    BY <1>3, <2>2, <2>3 DEF D!RequestArmed, D!OneTimer, D!RememberedIsArmed,
                            D!NoTimerDuringRun
  <2>6. Spacing'
    BY <1>3, <2>2, <2>3, DebouncerConstants DEF D!RequestArmed, Spacing, D!TypeOK
  <2> QED
    BY <2>4, <2>5, <2>6
<1>4. CASE D!RequestServed
  <2>1. armed = {} /\ executeAtEnd = FALSE
    BY <1>4 DEF D!RequestServed, D!OneTimer, D!RememberedIsArmed, D!TypeOK
  <2> QED
    BY <1>4, <2>1, RunInv DEF D!RequestServed
<1> QED
  BY <1>1, <1>2, <1>3, <1>4

(* The end of a run that suspended. *)
LEMMA ReturnInv ==
  ASSUME DebouncerInv, D!Return
  PROVE  DebouncerInv'
<1>1. armed = {} /\ executeAtEnd = FALSE
  BY DEF D!Return, DebouncerInv, D!NoTimerDuringRun, D!TypeOK
<1>2. /\ timer' \in Timers \cup {NoTimer}
      /\ armed' = {timer'} \ {NoTimer}
      /\ left' \in [Timers -> 0..Cooldown]
      /\ timer' # NoTimer => left'[timer'] = Cooldown
      /\ timer' = NoTimer => shutdown
      /\ sinceEnd' = 0 /\ released' = FALSE
  BY <1>1, EndOfRunArms DEF D!Return, DebouncerInv
<1>3. D!TypeOK'
  <2>1. sinceEnd' \in 0..Cooldown
    BY <1>2, DebouncerConstants
  <2> QED
    BY <1>1, <1>2, <2>1 DEF D!Return, DebouncerInv, D!TypeOK
<1>4. D!OneTimer' /\ D!RememberedIsArmed' /\ D!NoTimerDuringRun'
  BY <1>1, <1>2 DEF D!Return, D!OneTimer, D!RememberedIsArmed, D!NoTimerDuringRun
<1>5. Spacing'
  BY <1>2, DebouncerConstants DEF D!Return, Spacing
<1> QED
  BY <1>3, <1>4, <1>5 DEF DebouncerInv

(* A timer that fires is the one the handle names; nothing runs then, so   *)
(* that the test of the lock in _handle_timer_finish never drops a request.*)
LEMMA TimerIsTheHandle ==
  ASSUME DebouncerInv, NEW t \in Timers, D!TimerFires(t)
  PROVE  t = timer /\ armed \ {t} = {} /\ ~executing /\ sinceEnd = Cooldown
<1>1. t = timer /\ t # NoTimer /\ armed \ {t} = {} /\ left[t] = 0
  BY DEF D!TimerFires, DebouncerInv, D!OneTimer
<1>2. ~executing
  BY DEF D!TimerFires, DebouncerInv, D!NoTimerDuringRun
<1>3. sinceEnd = Cooldown
  BY <1>1, DebouncerConstants DEF DebouncerInv, Spacing, D!TypeOK
<1> QED
  BY <1>1, <1>2, <1>3

(* A timer fires: the cooldown is over, whether it runs the function or not. *)
LEMMA TimerFiresInv ==
  ASSUME DebouncerInv, NEW t \in Timers, D!TimerFires(t)
  PROVE  DebouncerInv'
<1>1. t = timer /\ armed \ {t} = {} /\ ~executing /\ sinceEnd = Cooldown
  BY TimerIsTheHandle
<1>2. CASE executeAtEnd
  <2>1. D!Run({}) /\ executeAtEnd' = FALSE /\ immediate' = immediate /\ shutdown' = shutdown
    BY <1>1, <1>2 DEF D!TimerFires
  <2> QED
    BY <2>1, RunInv DEF DebouncerInv
<1>3. CASE ~executeAtEnd
  <2>1. /\ armed' = {} /\ timer' = NoTimer /\ executeAtEnd' = FALSE
        /\ ran' = FALSE
        /\ UNCHANGED <<left, executing, sinceEnd, released, immediate, shutdown>>
    BY <1>1, <1>3 DEF D!TimerFires
  <2>2. D!TypeOK'
    BY <2>1 DEF DebouncerInv, D!TypeOK
  <2>3. D!OneTimer' /\ D!RememberedIsArmed' /\ D!NoTimerDuringRun' /\ Spacing'
    BY <1>1, <2>1 DEF D!OneTimer, D!RememberedIsArmed, D!NoTimerDuringRun, Spacing
  <2> QED
    BY <2>2, <2>3 DEF DebouncerInv
<1> QED
  BY <1>2, <1>3

(* async_cancel and async_shutdown leave neither a timer nor a request. *)
LEMMA CancelInv ==
  ASSUME DebouncerInv, D!Cancel \/ D!Shutdown
  PROVE  DebouncerInv'
<1>1. /\ armed' = {} /\ timer' = NoTimer /\ executeAtEnd' = FALSE
      /\ released' = (released \/ timer # NoTimer)
      /\ ran' = FALSE
      /\ UNCHANGED <<immediate, left, executing, sinceEnd>>
      /\ shutdown' = shutdown \/ shutdown' = TRUE
  BY DEF D!Cancel, D!Shutdown, D!CancelTimer, DebouncerInv, D!OneTimer
<1>2. D!TypeOK'
  BY <1>1 DEF DebouncerInv, D!TypeOK
<1>3. D!OneTimer' /\ D!RememberedIsArmed' /\ D!NoTimerDuringRun'
  BY <1>1 DEF D!OneTimer, D!RememberedIsArmed, D!NoTimerDuringRun
<1>4. Spacing'
  BY <1>1 DEF DebouncerInv, Spacing
<1> QED
  BY <1>2, <1>3, <1>4 DEF DebouncerInv

(* A tick takes from the timer what it gives to the time since the run. *)
LEMMA TickInv ==
  ASSUME DebouncerInv, D!Tick
  PROVE  DebouncerInv'
<1>0. left' \in [Timers -> 0..Cooldown] /\ sinceEnd' \in 0..Cooldown
  BY DebouncerConstants DEF DebouncerInv, D!TypeOK, D!Tick
<1>1. D!TypeOK'
  BY <1>0 DEF DebouncerInv, D!TypeOK, D!Tick
<1>2. D!OneTimer' /\ D!RememberedIsArmed' /\ D!NoTimerDuringRun'
  BY DEF DebouncerInv, D!Tick, D!OneTimer, D!RememberedIsArmed, D!NoTimerDuringRun
<1>3. timer' # NoTimer => sinceEnd' + left'[timer'] >= Cooldown
  BY DebouncerConstants DEF DebouncerInv, D!TypeOK, D!Tick, Spacing
<1>4. timer' = NoTimer /\ ~executing' /\ ~shutdown' => sinceEnd' = Cooldown \/ released'
  BY DebouncerConstants DEF DebouncerInv, D!TypeOK, D!Tick, Spacing
<1> QED
  BY <1>1, <1>2, <1>3, <1>4 DEF DebouncerInv, Spacing

(* Every step preserves the invariant. *)
LEMMA DebouncerStep ==
  ASSUME DebouncerInv, D!Next
  PROVE  DebouncerInv'
<1>1. CASE D!RequestIgnored \/ D!RequestDeferred \/ D!RequestArmed \/ D!RequestServed
  BY <1>1, RequestsInv
<1>2. CASE D!Return
  BY <1>2, ReturnInv
<1>3. ASSUME NEW t \in Timers, D!TimerFires(t) PROVE DebouncerInv'
  BY <1>3, TimerFiresInv
<1>4. CASE D!Cancel \/ D!Shutdown
  BY <1>4, CancelInv
<1>5. CASE D!Tick
  BY <1>5, TickInv
<1> QED
  BY <1>1, <1>2, <1>3, <1>4, <1>5 DEF D!Next

(* A debouncer that rests keeps the invariant. *)
LEMMA DebouncerSame ==
  ASSUME DebouncerInv, UNCHANGED ofDebouncer
  PROVE  DebouncerInv'
BY DEF ofDebouncer, DebouncerInv, D!TypeOK, D!OneTimer, D!RememberedIsArmed,
       D!NoTimerDuringRun, Spacing

(* A run starts when the cooldown is over, or was cancelled. *)
LEMMA RateStep ==
  ASSUME DebouncerInv, D!Next, ran'
  PROVE  sinceEnd = Cooldown \/ released
<1>1. CASE D!RequestServed
  BY <1>1 DEF D!RequestServed, DebouncerInv, Spacing
<1>2. ASSUME NEW t \in Timers, D!TimerFires(t) PROVE sinceEnd = Cooldown
  BY <1>2, TimerIsTheHandle
<1>3. CASE \/ D!RequestIgnored \/ D!RequestDeferred \/ D!RequestArmed \/ D!Return
           \/ D!Cancel \/ D!Shutdown \/ D!Tick
  BY <1>3 DEF D!RequestIgnored, D!RequestDeferred, D!RequestArmed, D!Return,
              D!Cancel, D!Shutdown, D!CancelTimer, D!Tick
<1> QED
  BY <1>1, <1>2, <1>3 DEF D!Next

(* A remembered request ends in a run or in a cancel. *)
LEMMA KeptStep ==
  ASSUME DebouncerInv, D!Next, executeAtEnd, ~executeAtEnd'
  PROVE  ran' \/ D!Cancel \/ D!Shutdown
<1>1. ASSUME NEW t \in Timers, D!TimerFires(t) PROVE ran'
  BY <1>1, TimerIsTheHandle DEF D!TimerFires, D!Run
<1>2. CASE \/ D!RequestIgnored \/ D!RequestDeferred \/ D!RequestArmed
           \/ D!RequestServed \/ D!Return \/ D!Tick
  BY <1>2 DEF D!RequestIgnored, D!RequestDeferred, D!RequestArmed, D!RequestServed,
              D!Return, D!Tick
<1> QED
  BY <1>1, <1>2 DEF D!Next
-----------------------------------------------------------------------------
(* EntityLife.                                                             *)

\* What an object is, in whatever order it is loaded, added, removed and renamed:
\* what it wrote is under its own entity_id.
Shape ==
  /\ phase # "unloaded" => load \in Life!Objects
  /\ placed = Life!Heard
  /\ \A e \in placed : id[e] \in Ids
  /\ \A e \in removing : object[e] = "removed" /\ id[e] \in Ids
  /\ \A e \in failed : object[e] = "removed" /\ e \notin removing
  /\ \A e \in Life!Objects : e > load => object[e] = "new" /\ e \notin adding
  /\ disabled => placed = {}

\* A state under an entity_id is of an object that has it.
Written ==
  \A i \in Ids : states[i] \in Life!Objects => id[states[i]] = i /\ states[i] <= load

\* Only the object of the last load is at work, and none between two loads.
LastOne ==
  /\ placed \cup again \subseteq {load}
  /\ phase \in {"unloading", "unloaded"} => placed = {} /\ again = {}

\* What an object that is added shows.
Shown ==
  \A e \in placed :
    /\ registry = id[e]
    /\ states[id[e]] = e \/ (e \in adding /\ states[id[e]] \in {Reserved, Restored})

\* The unload waits for e.
Awaited(e) == phase = "unloading" /\ unloading = e

\* What an object that is being removed still shows, and that it does not keep the
\* entity_id of the next.
Leaving ==
  \A e \in removing :
    /\ states[id[e]] = e \/ (Awaited(e) /\ states[id[e]] \in {Reserved, Restored})
    /\ disabled \/ id[e] # registry \/ e \in again \/ Awaited(e)

\* An entity_id is reserved for the object at work.
ReservedForOne ==
  failed = {} =>
    \A i \in Ids : states[i] = Reserved =>
      /\ load \in Life!Objects /\ id[load] = i
      /\ (load \in placed /\ load \in adding) \/ (load \in removing /\ Awaited(load))

\* What holds as long as the registry did not change while an object was added.
Undisturbed == ~crossed => LastOne /\ Shown /\ Leaving /\ ReservedForOne

\* The invariant of an entity.
LifeInv == Life!LifeTypeOK /\ Shape /\ Written /\ Life!NoGhost /\ Undisturbed

(* An object is a number, and no mark of a state. *)
LEMMA LifeConstants ==
  /\ MaxLoads \in Nat /\ Life!Objects \subseteq Nat \ {0}
  /\ None \notin Ids
  /\ {None, Reserved, Restored} \cap Life!Objects = {}
  /\ None # Reserved /\ None # Restored /\ Reserved # Restored
BY CoreAssumption DEF Life!LifeConstantsOK, Life!Objects

(* Nothing is loaded. *)
LEMMA LifeInit == Life!Init => LifeInv
<1> SUFFICES ASSUME Life!Init PROVE LifeInv
  OBVIOUS
<1>1. Life!LifeTypeOK
  <2>1. /\ load \in 0..MaxLoads /\ unloading \in Life!Objects \cup {0}
        /\ phase \in {"unloaded", "loading", "loaded", "unloading"}
    BY LifeConstants DEF Life!Init
  <2>2. /\ object \in [Life!Objects -> {"new", "added", "removed"}]
        /\ id \in [Life!Objects -> Ids \cup {None}]
        /\ states \in [Ids -> {None, Reserved, Restored} \cup Life!Objects]
    BY DEF Life!Init
  <2> QED
    BY <2>1, <2>2 DEF Life!Init, Life!LifeTypeOK
<1>2. Shape /\ Written
  BY LifeConstants DEF Life!Init, Shape, Written, Life!Heard
<1>3. Life!NoGhost /\ Undisturbed
  BY LifeConstants DEF Life!Init, Life!NoGhost, Undisturbed, LastOne, Shown, Leaving,
     ReservedForOne
<1> QED
  BY <1>1, <1>2, <1>3 DEF LifeInv

(* What becomes of an object that is placed, and of the states            *)
(* (src/homeassistant/helpers/entity_platform.py:750-798).                 *)
LEMMA PlaceOutcome ==
  ASSUME Life!LifeTypeOK, Written, NEW e \in Life!Objects, NEW i \in Ids, NEW before,
         before \in [Ids -> {None, Reserved, Restored} \cup Life!Objects],
         Life!Place(e, i, before)
  PROVE  /\ registry' = i /\ id'[e] = i
         /\ id' \in [Life!Objects -> Ids \cup {None}]
         /\ object' \in [Life!Objects -> {"new", "added", "removed"}]
         /\ states' \in [Ids -> {None, Reserved, Restored} \cup Life!Objects]
         /\ \A x \in Life!Objects : x # e => id'[x] = id[x] /\ object'[x] = object[x]
         /\ \A j \in Ids : states'[j] = before[j] \/ (j = i /\ states'[j] = Reserved)
         /\ \/ /\ object'[e] = "added" /\ ~disabled
               /\ placed' = placed \cup {e} /\ adding' = adding \cup {e}
               /\ before[i] \in {None, Restored} /\ states'[i] \in {Reserved, Restored}
            \/ /\ object'[e] = "removed" /\ states' = before
               /\ placed' = placed /\ adding' = adding
               /\ disabled \/ before[i] \notin {None, Restored}
<1>1. CASE Life!MayTake(before[i]) /\ ~disabled
  <2>1. before[i] \in {None, Restored}
    BY <1>1 DEF Life!MayTake
  <2>2. /\ states' = [before EXCEPT ![i] = IF before[i] = None THEN Reserved ELSE before[i]]
        /\ object' = [object EXCEPT ![e] = "added"]
        /\ placed' = placed \cup {e} /\ adding' = adding \cup {e}
        /\ registry' = i /\ id' = [id EXCEPT ![e] = i]
    BY <1>1 DEF Life!Place
  <2>3. /\ states'[i] \in {Reserved, Restored}
        /\ states' \in [Ids -> {None, Reserved, Restored} \cup Life!Objects]
        /\ \A j \in Ids : j # i => states'[j] = before[j]
        /\ states'[i] = before[i] \/ states'[i] = Reserved
    BY <2>1, <2>2
  <2>4. /\ id' \in [Life!Objects -> Ids \cup {None}] /\ id'[e] = i
        /\ object' \in [Life!Objects -> {"new", "added", "removed"}]
        /\ object'[e] = "added"
        /\ \A x \in Life!Objects : x # e => id'[x] = id[x] /\ object'[x] = object[x]
    BY <2>2 DEF Life!LifeTypeOK
  <2> QED
    BY <1>1, <2>1, <2>2, <2>3, <2>4
<1>2. CASE ~(Life!MayTake(before[i]) /\ ~disabled)
  <2>1. /\ object' = [object EXCEPT ![e] = "removed"] /\ states' = before
        /\ placed' = placed /\ adding' = adding
        /\ registry' = i /\ id' = [id EXCEPT ![e] = i]
    BY <1>2 DEF Life!Place
  <2>2. disabled \/ before[i] \notin {None, Restored}
    BY <1>2 DEF Life!MayTake
  <2>3. /\ id' \in [Life!Objects -> Ids \cup {None}] /\ id'[e] = i
        /\ object' \in [Life!Objects -> {"new", "added", "removed"}]
        /\ object'[e] = "removed"
        /\ \A x \in Life!Objects : x # e => id'[x] = id[x] /\ object'[x] = object[x]
    BY <2>1 DEF Life!LifeTypeOK
  <2> QED
    BY <2>1, <2>2, <2>3
<1> QED
  BY <1>1, <1>2

(* Whatever else is at work, an object that is placed, and that shows      *)
(* nothing any more, leaves each object with what it wrote.                *)
LEMMA PlaceKeepsShape ==
  ASSUME LifeInv, NEW e \in Life!Objects, NEW i \in Ids, NEW before,
         before \in [Ids -> {None, Reserved, Restored} \cup Life!Objects],
         \A j \in Ids : before[j] \in Life!Objects => states[j] = before[j] /\ before[j] # e,
         Life!Place(e, i, before),
         load' \in 0..MaxLoads, load <= load', e <= load', object[e] # "added",
         phase' \in {"unloaded", "loading", "loaded", "unloading"},
         phase' # "unloaded" => load' \in Life!Objects,
         e \notin failed,
         removing' = removing \ {e}, forced' = forced \ {e}, again' = again \ {e},
         UNCHANGED <<unloading, disabled, failed, crossed>>
  PROVE  Life!LifeTypeOK' /\ Shape' /\ Written' /\ Life!NoGhost'
<1> USE DEF LifeInv
<1>1. /\ registry' = i /\ id'[e] = i
      /\ id' \in [Life!Objects -> Ids \cup {None}]
      /\ object' \in [Life!Objects -> {"new", "added", "removed"}]
      /\ states' \in [Ids -> {None, Reserved, Restored} \cup Life!Objects]
      /\ \A x \in Life!Objects : x # e => id'[x] = id[x] /\ object'[x] = object[x]
      /\ \A j \in Ids : states'[j] = before[j] \/ (j = i /\ states'[j] = Reserved)
      /\ \/ /\ object'[e] = "added" /\ ~disabled
            /\ placed' = placed \cup {e} /\ adding' = adding \cup {e}
         \/ /\ object'[e] = "removed"
            /\ placed' = placed /\ adding' = adding
  BY PlaceOutcome
<1>2. Life!LifeTypeOK'
  BY <1>1 DEF Life!LifeTypeOK
<1>3. Life!Objects \subseteq Nat /\ load \in Nat /\ load' \in Nat
  BY LifeConstants DEF Life!LifeTypeOK
<1>4. Shape'
  <2>1. placed' = Life!Heard'
    BY <1>1 DEF Shape, Life!Heard
  <2>2. \A x \in Life!Objects : x > load' => object'[x] = "new" /\ x \notin adding'
    BY <1>1, <1>3 DEF Shape
  <2>3. /\ \A x \in placed' : id'[x] \in Ids
        /\ \A x \in removing' : object'[x] = "removed" /\ id'[x] \in Ids
        /\ \A x \in failed' : object'[x] = "removed" /\ x \notin removing'
        /\ disabled' => placed' = {}
    BY <1>1 DEF Shape, Life!LifeTypeOK, Life!Heard
  <2> QED
    BY <2>1, <2>2, <2>3 DEF Shape
<1>5. \A j \in Ids : states'[j] \in Life!Objects =>
        states'[j] = states[j] /\ states'[j] # e
  BY <1>1, LifeConstants
<1>6. Written'
  <2> SUFFICES ASSUME NEW j \in Ids, states'[j] \in Life!Objects
               PROVE  id'[states'[j]] = j /\ states'[j] <= load'
    BY DEF Written
  <2>1. states'[j] = states[j] /\ states'[j] # e
    BY <1>5
  <2>2. id[states[j]] = j /\ states[j] <= load
    BY <2>1 DEF Written
  <2>3. states[j] \in Nat
    BY <1>3, <2>1
  <2> QED
    BY <1>1, <1>3, <2>1, <2>2, <2>3
<1>7. Life!NoGhost'
  BY <1>1, <1>5 DEF Life!NoGhost, Life!LifeTypeOK
<1> QED
  BY <1>2, <1>4, <1>6, <1>7

(* If it is the only one at work, it alone will be shown.                  *)
LEMMA PlaceUndisturbed ==
  ASSUME Life!LifeTypeOK, Written, Shape, NEW e \in Life!Objects, NEW i \in Ids, NEW before,
         before \in [Ids -> {None, Reserved, Restored} \cup Life!Objects],
         Life!Place(e, i, before), UNCHANGED <<disabled, failed>>,
         e = load', placed = {}, again' = {}, phase' \notin {"unloading", "unloaded"},
         removing' = removing \ {e},
         \A x \in removing' : before[id[x]] = x /\ (disabled \/ id[x] # i),
         failed = {} => \A j \in Ids : before[j] # Reserved
  PROVE  LastOne' /\ Shown' /\ Leaving' /\ ReservedForOne'
<1>1. /\ registry' = i /\ id'[e] = i
      /\ \A x \in Life!Objects : x # e => id'[x] = id[x]
      /\ \A j \in Ids : states'[j] = before[j] \/ (j = i /\ states'[j] = Reserved)
      /\ \/ /\ placed' = {e} /\ adding' = adding \cup {e}
            /\ before[i] \in {None, Restored} /\ states'[i] \in {Reserved, Restored}
         \/ placed' = {} /\ states' = before
  BY PlaceOutcome
<1>2. LastOne' /\ Shown'
  BY <1>1 DEF LastOne, Shown
<1>3. Leaving'
  <2> SUFFICES ASSUME NEW x \in removing' PROVE states'[id'[x]] = x /\ (disabled' \/ id'[x] # registry')
    BY DEF Leaving
  <2>1. x \in Life!Objects /\ x # e /\ id[x] \in Ids /\ x \notin {None, Restored, Reserved}
    BY LifeConstants DEF Shape, Life!LifeTypeOK
  <2> QED
    BY <1>1, <2>1
<1>4. ReservedForOne'
  BY <1>1 DEF ReservedForOne
<1> QED
  BY <1>2, <1>3, <1>4

\* The entity_ids that are offered are free, unless the registry knows one.
LEMMA OfferedIds ==
  ASSUME Life!LifeTypeOK, NEW i \in Life!Offered
  PROVE  i \in Ids /\ (i = registry \/ (registry = None /\ states[i] = None))
<1>1. CASE registry # None
  BY <1>1 DEF Life!Offered, Life!LifeTypeOK
<1>2. CASE registry = None
  BY <1>2 DEF Life!Offered
<1> QED
  BY <1>1, <1>2

(* A load makes a new object. *)
LEMMA LoadInv ==
  ASSUME LifeInv, Life!Load
  PROVE  LifeInv'
<1>1. PICK i \in Life!Offered : Life!Place(load + 1, i, states)
  BY DEF Life!Load
<1> DEFINE e == load + 1
<1>2. e \in Life!Objects /\ load \in Nat /\ load' = e /\ phase' = "loading"
  BY LifeConstants DEF Life!Load, Life!Objects, LifeInv, Life!LifeTypeOK
<1>3. i \in Ids /\ (i = registry \/ (registry = None /\ states[i] = None))
  BY <1>1, OfferedIds DEF LifeInv
<1>4. object[e] = "new"
  BY <1>2 DEF LifeInv, Shape
<1>5. e \notin failed /\ e \notin removing /\ e \notin again /\ e \notin forced
  BY <1>4 DEF LifeInv, Shape, Life!LifeTypeOK
<1>6. \A j \in Ids : states[j] \in Life!Objects => states[j] # e
  BY <1>2, LifeConstants DEF LifeInv, Written
<1>7. /\ removing' = removing \ {e} /\ forced' = forced \ {e} /\ again' = again \ {e}
      /\ UNCHANGED <<unloading, disabled, failed, crossed>>
  BY <1>5 DEF Life!Load, Life!removal
<1>8. load' \in 0..MaxLoads /\ load <= load' /\ e <= load'
  BY <1>2, LifeConstants DEF Life!Objects
<1>9. states \in [Ids -> {None, Reserved, Restored} \cup Life!Objects]
  BY DEF LifeInv, Life!LifeTypeOK
<1> HIDE DEF e
<1>10. Life!Place(e, i, states)
  BY <1>1 DEF e
<1>11. Life!LifeTypeOK' /\ Shape' /\ Written' /\ Life!NoGhost'
  BY <1>2, <1>3, <1>4, <1>5, <1>6, <1>7, <1>8, <1>9, <1>10, PlaceKeepsShape
<1>12. ASSUME ~crossed PROVE LastOne' /\ Shown' /\ Leaving' /\ ReservedForOne'
  <2>1. LastOne /\ Leaving /\ ReservedForOne /\ phase = "unloaded"
    BY <1>12 DEF LifeInv, Undisturbed, Life!Load
  <2>2. placed = {} /\ again' = {}
    BY <1>7, <2>1 DEF LastOne
  <2>3. \A x \in removing' : states[id[x]] = x /\ (disabled \/ id[x] # i)
    <3> SUFFICES ASSUME NEW x \in removing' PROVE states[id[x]] = x /\ (disabled \/ id[x] # i)
      OBVIOUS
    <3>1. states[id[x]] = x /\ (disabled \/ id[x] # registry) /\ x # None
      BY <1>7, <2>1, LifeConstants DEF Leaving, LastOne, Awaited, LifeInv, Life!LifeTypeOK
    <3> QED
      BY <1>3, <3>1
  <2>4. failed = {} => \A j \in Ids : states[j] # Reserved
    BY <2>1, <2>2 DEF ReservedForOne, Awaited
  <2> QED
    BY <1>2, <1>3, <1>7, <1>9, <1>10, <2>2, <2>3, <2>4, PlaceUndisturbed DEF LifeInv
<1> QED
  BY <1>7, <1>11, <1>12 DEF LifeInv, Undisturbed

(* An object is added again with a new entity_id: what it left is gone.    *)
LEMMA AddedAgainInv ==
  ASSUME LifeInv, NEW e \in Life!Objects, Life!AddedAgain(e)
  PROVE  LifeInv'
<1> DEFINE before == [states EXCEPT ![id[e]] = None]
<1>1. PICK i \in Life!Offered : Life!Place(e, i, before)
  BY DEF Life!AddedAgain
<1>2. /\ e \in again /\ e \in removing /\ object[e] = "removed" /\ id[e] \in Ids
      /\ e \notin failed /\ e \notin placed
  BY DEF Life!AddedAgain, LifeInv, Life!LifeTypeOK, Shape, Life!Heard
<1>3. i \in Ids /\ (i = registry \/ (registry = None /\ states[i] = None))
  BY <1>1, OfferedIds DEF LifeInv
<1>4. /\ removing' = removing \ {e} /\ forced' = forced \ {e} /\ again' = again \ {e}
      /\ UNCHANGED <<load, phase, unloading, disabled, failed, crossed>>
  BY DEF Life!AddedAgain, Life!NotRemoving
<1>5. /\ load' \in 0..MaxLoads /\ load <= load' /\ e <= load'
      /\ phase' \in {"unloaded", "loading", "loaded", "unloading"}
      /\ phase' # "unloaded" => load' \in Life!Objects
  BY <1>2, <1>4, LifeConstants DEF LifeInv, Life!LifeTypeOK, Shape
<1>6. /\ states \in [Ids -> {None, Reserved, Restored} \cup Life!Objects]
      /\ before \in [Ids -> {None, Reserved, Restored} \cup Life!Objects]
      /\ before[id[e]] = None
      /\ \A j \in Ids : j # id[e] => before[j] = states[j]
  BY <1>2 DEF LifeInv, Life!LifeTypeOK
<1>7. \A j \in Ids : before[j] \in Life!Objects => states[j] = before[j] /\ before[j] # e
  BY <1>2, <1>6, LifeConstants DEF LifeInv, Written
<1> HIDE DEF before
<1>8. Life!LifeTypeOK' /\ Shape' /\ Written' /\ Life!NoGhost'
  BY <1>1, <1>2, <1>3, <1>4, <1>5, <1>6, <1>7, PlaceKeepsShape
<1>9. ASSUME ~crossed PROVE LastOne' /\ Shown' /\ Leaving' /\ ReservedForOne'
  <2>1. LastOne /\ Leaving /\ ReservedForOne
    BY <1>9 DEF LifeInv, Undisturbed
  <2>2. /\ e = load /\ placed = {} /\ again = {e}
        /\ phase \notin {"unloading", "unloaded"}
    BY <1>2, <2>1 DEF LastOne
  <2>3. \A x \in removing' : before[id[x]] = x /\ (disabled \/ id[x] # i)
    <3> SUFFICES ASSUME NEW x \in removing' PROVE before[id[x]] = x /\ (disabled \/ id[x] # i)
      OBVIOUS
    <3>1. /\ states[id[x]] = x /\ (disabled \/ id[x] # registry)
          /\ x # None /\ id[x] \in Ids
      BY <1>4, <2>1, <2>2, LifeConstants DEF Leaving, Awaited, LifeInv, Life!LifeTypeOK,
          Shape
    <3>2. states[id[e]] = e
      BY <1>2, <2>1, <2>2 DEF Leaving, Awaited
    <3> QED
      BY <1>3, <1>4, <1>6, <3>1, <3>2
  <2>4. failed = {} => \A j \in Ids : before[j] # Reserved
    BY <1>6, <2>1, <2>2, LifeConstants DEF ReservedForOne, Awaited
  <2> QED
    BY <1>1, <1>3, <1>4, <1>6, <2>2, <2>3, <2>4, PlaceUndisturbed DEF LifeInv
<1> QED
  BY <1>4, <1>8, <1>9 DEF LifeInv, Undisturbed
(* The end of async_added_to_hass, and packets: an object writes its state *)
(* if it is there, whoever else is.                                        *)
LEMMA WritesInv ==
  ASSUME LifeInv, NEW e \in Life!Objects, NEW seen \in SUBSET {e}, adding' = adding \ seen,
         states' = IF Life!Writes(e) THEN [states EXCEPT ![id[e]] = e] ELSE states,
         UNCHANGED <<load, phase, object, id, placed, removing, forced, again,
                     unloading, registry, disabled, failed, crossed>>
  PROVE  LifeInv'
<1> USE DEF LifeInv
<1>1. CASE ~Life!Writes(e)
  <2>1. states' = states
    BY <1>1
  <2>2. Life!LifeTypeOK' /\ Written' /\ Life!NoGhost'
    BY <2>1 DEF Life!LifeTypeOK, Written, Life!NoGhost
  <2>3. Shape'
    BY DEF Shape, Life!Heard
  <2>4. e \notin placed
    BY <1>1 DEF Life!Writes, Shape, Life!Heard
  <2>5. ASSUME ~crossed PROVE LastOne' /\ Shown' /\ Leaving' /\ ReservedForOne'
    <3>1. LastOne /\ Shown /\ Leaving /\ ReservedForOne
      BY <2>5 DEF Undisturbed
    <3> QED
      BY <2>1, <2>4, <3>1 DEF LastOne, Shown, Leaving, ReservedForOne, Awaited
  <2> QED
    BY <2>2, <2>3, <2>5 DEF Undisturbed
<1>2. CASE Life!Writes(e)
  <2>1. e \in placed /\ id[e] \in Ids /\ object[e] = "added" /\ e <= load /\ e \notin removing
    BY <1>2, LifeConstants DEF Life!Writes, Shape, Life!Heard, Life!LifeTypeOK
  <2>2. /\ states' \in [Ids -> {None, Reserved, Restored} \cup Life!Objects]
        /\ states'[id[e]] = e /\ \A j \in Ids : j # id[e] => states'[j] = states[j]
    BY <1>2, <2>1 DEF Life!LifeTypeOK
  <2>3. Life!LifeTypeOK'
    BY <2>2 DEF Life!LifeTypeOK
  <2>4. Written' /\ Life!NoGhost'
    BY <2>1, <2>2 DEF Written, Life!NoGhost
  <2>5. Shape'
    BY DEF Shape, Life!Heard
  <2>6. ASSUME ~crossed PROVE LastOne' /\ Shown' /\ Leaving' /\ ReservedForOne'
    <3>1. LastOne /\ Shown /\ Leaving /\ ReservedForOne
      BY <2>6 DEF Undisturbed
    <3>2. /\ e = load /\ placed = {load} /\ phase # "unloading"
          /\ states[id[e]] \in {e, Reserved, Restored}
      BY <2>1, <3>1 DEF LastOne, Shown
    <3>3. ASSUME NEW x \in removing
          PROVE  /\ states'[id[x]] = x
                 /\ disabled \/ id[x] # registry \/ x \in again
      <4>1. /\ states[id[x]] = x /\ x # e /\ x \notin {Reserved, Restored} /\ id[x] \in Ids
            /\ disabled \/ id[x] # registry \/ x \in again
        BY <2>1, <3>1, <3>2, LifeConstants DEF Leaving, Awaited, Shape, Life!LifeTypeOK
      <4> QED
        BY <2>2, <3>2, <4>1
    <3>4. LastOne' /\ Shown' /\ Leaving'
      BY <2>1, <2>2, <3>1, <3>2, <3>3 DEF LastOne, Shown, Leaving
    <3>5. ReservedForOne'
      <4> SUFFICES ASSUME failed = {}, NEW j \in Ids, states'[j] = Reserved PROVE FALSE
        BY DEF ReservedForOne
      <4>1. j # id[e] /\ states[j] = Reserved
        BY <2>1, <2>2, LifeConstants
      <4>2. id[load] = j
        BY <3>1, <4>1 DEF ReservedForOne
      <4> QED
        BY <3>2, <4>1, <4>2
    <3> QED
      BY <3>4, <3>5
  <2> QED
    BY <2>3, <2>4, <2>5, <2>6 DEF Undisturbed
<1> QED
  BY <1>1, <1>2

(* async_added_to_hass raises: the object stays, and from then on no order *)
(* is promised.                                                            *)
LEMMA AddedRaisesInv ==
  ASSUME LifeInv, NEW e \in Life!Objects, Life!AddedRaises(e)
  PROVE  LifeInv'
BY DEF Life!AddedRaises, Life!removal, LifeInv, Undisturbed, Life!LifeTypeOK, Shape,
       Life!Heard,
       Written, Life!NoGhost

(* An unload takes the object that is there                                *)
(* (src/homeassistant/helpers/entity_platform.py, async_reset).            *)
LEMMA UnloadInv ==
  ASSUME LifeInv, Life!Unload
  PROVE  LifeInv'
<1> USE DEF LifeInv
<1>1. /\ phase = "loaded" /\ phase' = "unloading" /\ load \in Life!Objects
      /\ crossed' = (crossed \/ again # {})
      /\ UNCHANGED <<load, id, adding, forced, again, states, registry, disabled, failed>>
  BY DEF Life!Unload, Shape
<1>2. CASE load \in placed
  <2>1. /\ object' = [object EXCEPT ![load] = "removed"]
        /\ placed' = placed \ {load} /\ removing' = removing \cup {load} /\ unloading' = load
    BY <1>2 DEF Life!Unload, Life!Remove
  <2>2. Life!LifeTypeOK' /\ object[load] = "added" /\ id[load] \in Ids
    BY <1>1, <1>2, <2>1 DEF Life!LifeTypeOK, Shape, Life!Heard
  <2>3. Shape'
    <3>1. placed' = Life!Heard'
      BY <1>1, <2>1 DEF Shape, Life!Heard, Life!LifeTypeOK
    <3> QED
      BY <1>1, <2>1, <2>2, <3>1, LifeConstants DEF Shape, Life!LifeTypeOK
  <2>4. Written' /\ Life!NoGhost'
    BY <1>1, <2>1 DEF Written, Life!NoGhost, Life!LifeTypeOK
  <2>5. ASSUME ~crossed' PROVE LastOne' /\ Shown' /\ Leaving' /\ ReservedForOne'
    <3>1. LastOne /\ Shown /\ Leaving /\ ReservedForOne /\ again = {}
      BY <1>1, <2>5 DEF Undisturbed
    <3>2. LastOne' /\ Shown'
      BY <1>1, <2>1, <3>1 DEF LastOne, Shown
    <3>3. Leaving'
      BY <1>1, <1>2, <2>1, <3>1 DEF Leaving, Awaited, Shown
    <3>4. ReservedForOne'
      BY <1>1, <2>1, <3>1 DEF ReservedForOne, Awaited
    <3> QED
      BY <3>2, <3>3, <3>4
  <2> QED
    BY <2>2, <2>3, <2>4, <2>5 DEF Undisturbed
<1>3. CASE load \notin placed
  <2>1. unloading' = 0 /\ UNCHANGED <<object, placed, removing>>
    BY <1>3 DEF Life!Unload
  <2>2. Life!LifeTypeOK' /\ Shape' /\ Written' /\ Life!NoGhost'
    BY <1>1, <2>1 DEF Life!LifeTypeOK, Shape, Life!Heard, Written, Life!NoGhost
  <2>3. ASSUME ~crossed' PROVE LastOne' /\ Shown' /\ Leaving' /\ ReservedForOne'
    <3>1. LastOne /\ Shown /\ Leaving /\ ReservedForOne /\ again = {}
      BY <1>1, <2>3 DEF Undisturbed
    <3> QED
      BY <1>1, <1>3, <2>1, <3>1 DEF LastOne, Shown, Leaving, ReservedForOne, Awaited
  <2> QED
    BY <2>2, <2>3 DEF Undisturbed
<1> QED
  BY <1>2, <1>3

(* The platform has waited: for its entities, or for the one it removed.   *)
LEMMA WaitedInv ==
  ASSUME LifeInv, Life!Loaded \/ Life!Unloaded
  PROVE  LifeInv'
<1> USE DEF LifeInv
<1>1. /\ UNCHANGED <<load, object, id, placed, adding, removing, forced, again, unloading,
                     states, registry, disabled, failed, crossed>>
      /\ \/ phase = "loading" /\ phase' = "loaded"
         \/ phase = "unloading" /\ phase' = "unloaded" /\ unloading \notin removing
  BY DEF Life!Loaded, Life!Unloaded, Life!removal
<1>2. Life!LifeTypeOK' /\ Shape' /\ Written' /\ Life!NoGhost'
  BY <1>1 DEF Life!LifeTypeOK, Shape, Life!Heard, Written, Life!NoGhost
<1>3. ASSUME ~crossed PROVE LastOne' /\ Shown' /\ Leaving' /\ ReservedForOne'
  <2>1. LastOne /\ Shown /\ Leaving /\ ReservedForOne
    BY <1>3 DEF Undisturbed
  <2> QED
    BY <1>1, <2>1 DEF LastOne, Shown, Leaving, ReservedForOne, Awaited
<1> QED
  BY <1>1, <1>2, <1>3 DEF Undisturbed

(* The end of async_remove takes no other object's state away.             *)
LEMMA RemovedInv ==
  ASSUME LifeInv, NEW e \in Life!Objects, Life!Removed(e)
  PROVE  LifeInv'
<1> USE DEF LifeInv
<1>1. /\ e \in removing /\ e \notin again
      /\ removing' = removing \ {e} /\ forced' = forced \ {e} /\ again' = again
      /\ UNCHANGED <<load, phase, object, id, placed, adding, unloading, registry,
                     disabled, failed, crossed>>
  BY DEF Life!Removed, Life!NotRemoving
<1>2. id[e] \in Ids /\ Life!LeftBehind(e) \in {None, Restored}
  BY <1>1 DEF Shape, Life!LeftBehind
<1>3. /\ states' \in [Ids -> {None, Reserved, Restored} \cup Life!Objects]
      /\ states'[id[e]] \in {None, Restored}
      /\ \A j \in Ids : j # id[e] => states'[j] = states[j]
  BY <1>2 DEF Life!Removed, Life!LifeTypeOK
<1>4. Life!LifeTypeOK'
  BY <1>1, <1>3 DEF Life!LifeTypeOK
<1>5. Shape'
  BY <1>1 DEF Shape, Life!Heard
<1>6. \A j \in Ids : states'[j] \in Life!Objects => states'[j] = states[j] /\ j # id[e]
  BY <1>3, LifeConstants
<1>7. Written'
  BY <1>1, <1>6 DEF Written
<1>8. Life!NoGhost'
  BY <1>1, <1>6 DEF Life!NoGhost, Written
<1>9. ASSUME ~crossed PROVE LastOne' /\ Shown' /\ Leaving' /\ ReservedForOne'
  <2>1. LastOne /\ Shown /\ Leaving /\ ReservedForOne
    BY <1>9 DEF Undisturbed
  <2>2. Shown'
    <3> SUFFICES ASSUME NEW x \in placed
                 PROVE  /\ registry = id[x] /\ states'[id[x]] = states[id[x]]
                        /\ states[id[x]] = x \/ (x \in adding /\ states[id[x]] \in {Reserved, Restored})
      BY <1>1 DEF Shown
    <3>1. /\ states[id[e]] = e /\ x # e /\ e \notin {Reserved, Restored} /\ id[x] \in Ids
          /\ x \in Life!Objects
      BY <1>1, <2>1, LifeConstants DEF Leaving, Awaited, LastOne, Shape, Life!Heard
    <3> QED
      BY <1>3, <2>1, <3>1 DEF Shown
  <2>3. Leaving'
    <3> SUFFICES ASSUME NEW x \in removing, x # e
                 PROVE  states'[id[x]] = states[id[x]]
      BY <1>1, <2>1 DEF Leaving, Awaited
    <3>1. x \notin {Reserved, Restored} /\ e \notin {Reserved, Restored} /\ id[x] \in Ids
      BY <1>1, LifeConstants DEF Shape, Life!LifeTypeOK
    <3>2. id[x] # id[e]
      BY <1>1, <2>1, <3>1 DEF Leaving, Awaited
    <3> QED
      BY <1>3, <3>1, <3>2
  <2>4. ReservedForOne'
    <3> SUFFICES ASSUME failed = {}, NEW j \in Ids, states'[j] = Reserved
                 PROVE  /\ load \in Life!Objects /\ id[load] = j
                        /\ \/ load \in placed /\ load \in adding
                           \/ load \in removing' /\ Awaited(load)
      BY <1>1 DEF ReservedForOne, Awaited
    <3>1. j # id[e] /\ states[j] = Reserved
      BY <1>3, LifeConstants
    <3> QED
      BY <1>1, <2>1, <3>1 DEF ReservedForOne
  <2>5. LastOne'
    BY <1>1, <2>1 DEF LastOne
  <2> QED
    BY <2>2, <2>3, <2>4, <2>5
<1> QED
  BY <1>1, <1>4, <1>5, <1>7, <1>8, <1>9 DEF Undisturbed

(* A removal that raises leaves the state of its object.                   *)
LEMMA RemovalRaisesInv ==
  ASSUME LifeInv, NEW e \in Life!Objects, Life!RemovalRaises(e)
  PROVE  LifeInv'
<1> USE DEF LifeInv
<1>1. /\ e \in removing /\ failed' = failed \cup {e}
      /\ removing' = removing \ {e} /\ forced' = forced \ {e} /\ again' = again \ {e}
      /\ UNCHANGED <<load, phase, object, id, placed, adding, unloading, states, registry,
                     disabled, crossed>>
  BY DEF Life!RemovalRaises, Life!NotRemoving
<1>2. Life!LifeTypeOK' /\ Shape' /\ Written' /\ Life!NoGhost'
  BY <1>1 DEF Life!LifeTypeOK, Shape, Life!Heard, Written, Life!NoGhost
<1>3. ASSUME ~crossed PROVE LastOne' /\ Shown' /\ Leaving' /\ ReservedForOne'
  <2>1. LastOne /\ Shown /\ Leaving
    BY <1>3 DEF Undisturbed
  <2> QED
    BY <1>1, <2>1 DEF LastOne, Shown, Leaving, ReservedForOne, Awaited
<1> QED
  BY <1>1, <1>2, <1>3 DEF Undisturbed

-----------------------------------------------------------------------------
(* Who hears that it is to go is removed.                                  *)
LEMMA HeardToGoOutcome ==
  ASSUME LifeInv, Life!HeardToGo
  PROVE  /\ object' \in [Life!Objects -> {"new", "added", "removed"}]
         /\ placed' = {} /\ Life!Heard' = {}
         /\ removing' = removing \cup placed /\ forced' = forced \cup placed
         /\ \A e \in placed : object'[e] = "removed"
         /\ \A e \in Life!Objects : e \notin placed => object'[e] = object[e]
BY DEF LifeInv, Life!HeardToGo, Life!Heard, Shape, Life!LifeTypeOK

\* What is at work when nobody is added or removed.
LEMMA Quiet ==
  ASSUME LifeInv, ~crossed, ~Life!Busy
  PROVE  /\ adding = {} /\ removing = {} /\ again = {}
         /\ LastOne /\ \A e \in placed : id[e] = registry /\ states[id[e]] = e
         /\ failed = {} => \A i \in Ids : states[i] # Reserved
BY DEF LifeInv, Life!Busy, Undisturbed, Life!LifeTypeOK, Shown, ReservedForOne

(* The user deletes the entity. *)
LEMMA DeleteInv ==
  ASSUME LifeInv, Life!Delete
  PROVE  LifeInv'
<1> USE DEF LifeInv
<1>1. /\ registry \in Ids /\ registry' = None /\ disabled' = FALSE
      /\ crossed' = (crossed \/ Life!Busy)
      /\ UNCHANGED <<load, phase, id, adding, again, unloading, failed>>
  BY DEF Life!Delete, Life!LifeTypeOK
<1>2. /\ object' \in [Life!Objects -> {"new", "added", "removed"}]
      /\ placed' = {} /\ Life!Heard' = {}
      /\ removing' = removing \cup placed /\ forced' = forced \cup placed
      /\ \A e \in placed : object'[e] = "removed"
      /\ \A e \in Life!Objects : e \notin placed => object'[e] = object[e]
  BY HeardToGoOutcome DEF Life!Delete
<1>3. /\ states' \in [Ids -> {None, Reserved, Restored} \cup Life!Objects]
      /\ \A i \in Ids : states'[i] = states[i] \/ (states[i] = Restored /\ states'[i] = None)
  BY <1>1 DEF Life!Delete, Life!LifeTypeOK
<1>4. \A i \in Ids : states'[i] \in Life!Objects => states'[i] = states[i]
  BY <1>3, LifeConstants
<1>5. Life!LifeTypeOK'
  BY <1>1, <1>2, <1>3 DEF Life!LifeTypeOK
<1>6. Shape'
  BY <1>1, <1>2 DEF Shape, Life!LifeTypeOK, Life!Heard
<1>7. Written'
  BY <1>1, <1>4 DEF Written
<1>8. Life!NoGhost'
  BY <1>1, <1>2, <1>4 DEF Life!NoGhost, Shape, Life!Heard
<1>9. ASSUME ~crossed' PROVE LastOne' /\ Shown' /\ Leaving' /\ ReservedForOne'
  <2>1. /\ adding = {} /\ removing = {} /\ again = {}
        /\ LastOne /\ \A e \in placed : id[e] = registry /\ states[id[e]] = e
        /\ failed = {} => \A i \in Ids : states[i] # Reserved
    BY <1>1, <1>9, Quiet
  <2>2. LastOne' /\ Shown'
    BY <1>1, <1>2, <2>1 DEF LastOne, Shown
  <2>3. Leaving'
    BY <1>1, <1>2, <1>3, <2>1, LifeConstants DEF Leaving, Life!LifeTypeOK
  <2>4. ReservedForOne'
    BY <1>1, <1>3, <2>1, LifeConstants DEF ReservedForOne
  <2> QED
    BY <2>2, <2>3, <2>4
<1> QED
  BY <1>5, <1>6, <1>7, <1>8, <1>9 DEF Undisturbed

(* The user disables it, or enables it. *)
LEMMA DisableInv ==
  ASSUME LifeInv, Life!Disable
  PROVE  LifeInv'
<1> USE DEF LifeInv
<1>1. /\ disabled' = ~disabled /\ disabled \in BOOLEAN
      /\ crossed' = (crossed \/ Life!Busy)
      /\ UNCHANGED <<load, phase, id, adding, again, unloading, states, registry, failed>>
  BY DEF Life!Disable, Life!LifeTypeOK
<1>2. /\ object' \in [Life!Objects -> {"new", "added", "removed"}]
      /\ placed' = {} /\ Life!Heard' = {}
      /\ removing' = removing \cup placed
      /\ forced' \subseteq removing' /\ forced \subseteq forced'
      /\ \A e \in placed : object'[e] = "removed"
      /\ \A e \in Life!Objects : e \notin placed => object'[e] = object[e]
  <2>1. CASE disabled
    BY <2>1 DEF Life!Disable, Shape, Life!LifeTypeOK, Life!Heard
  <2>2. CASE ~disabled
    BY <2>2, HeardToGoOutcome DEF Life!Disable, Life!LifeTypeOK
  <2> QED
    BY <2>1, <2>2
<1>3. disabled' \/ placed = {}
  BY <1>1 DEF Shape
<1>4. Life!LifeTypeOK'
  BY <1>1, <1>2 DEF Life!LifeTypeOK
<1>5. Shape'
  BY <1>1, <1>2 DEF Shape, Life!LifeTypeOK, Life!Heard
<1>6. Written' /\ Life!NoGhost'
  BY <1>1, <1>2 DEF Written, Life!NoGhost, Shape, Life!Heard
<1>7. ASSUME ~crossed' PROVE LastOne' /\ Shown' /\ Leaving' /\ ReservedForOne'
  <2>1. /\ adding = {} /\ removing = {} /\ again = {}
        /\ LastOne /\ \A e \in placed : id[e] = registry /\ states[id[e]] = e
        /\ failed = {} => \A i \in Ids : states[i] # Reserved
    BY <1>1, <1>7, Quiet
  <2> QED
    BY <1>1, <1>2, <1>3, <2>1 DEF LastOne, Shown, Leaving, ReservedForOne
<1> QED
  BY <1>4, <1>5, <1>6, <1>7 DEF Undisturbed

(* The user gives it another entity_id. *)
LEMMA RenameInv ==
  ASSUME LifeInv, NEW i \in Ids, Life!Rename(i)
  PROVE  LifeInv'
<1> USE DEF LifeInv
<1>1. /\ states[i] = None /\ registry' = i
      /\ crossed' = (crossed \/ Life!Busy) /\ again' = again \cup placed
      /\ UNCHANGED <<load, phase, id, adding, unloading, states, disabled, failed>>
  BY DEF Life!Rename, Shape
<1>2. /\ object' \in [Life!Objects -> {"new", "added", "removed"}]
      /\ placed' = {} /\ Life!Heard' = {}
      /\ removing' = removing \cup placed /\ forced' = forced \cup placed
      /\ \A e \in placed : object'[e] = "removed"
      /\ \A e \in Life!Objects : e \notin placed => object'[e] = object[e]
  BY HeardToGoOutcome DEF Life!Rename
<1>3. Life!LifeTypeOK'
  BY <1>1, <1>2 DEF Life!LifeTypeOK
<1>4. Shape'
  BY <1>1, <1>2 DEF Shape, Life!LifeTypeOK, Life!Heard
<1>5. Written' /\ Life!NoGhost'
  BY <1>1, <1>2 DEF Written, Life!NoGhost, Shape, Life!Heard
<1>6. ASSUME ~crossed' PROVE LastOne' /\ Shown' /\ Leaving' /\ ReservedForOne'
  <2>1. /\ adding = {} /\ removing = {} /\ again = {}
        /\ LastOne /\ \A e \in placed : id[e] = registry /\ states[id[e]] = e
        /\ failed = {} => \A j \in Ids : states[j] # Reserved
    BY <1>1, <1>6, Quiet
  <2> QED
    BY <1>1, <1>2, <2>1 DEF LastOne, Shown, Leaving, ReservedForOne
<1> QED
  BY <1>3, <1>4, <1>5, <1>6 DEF Undisturbed

(* An entity that rests keeps the invariant. *)
LEMMA LifeSame == LifeInv /\ UNCHANGED Life!vars => LifeInv'
<1> SUFFICES ASSUME LifeInv, UNCHANGED Life!vars PROVE LifeInv'
  OBVIOUS
<1>1. Life!LifeTypeOK' /\ Shape' /\ Written' /\ Life!NoGhost'
  BY DEF LifeInv, Life!vars, Life!removal, Life!LifeTypeOK, Shape, Life!Heard, Written,
         Life!NoGhost
<1>2. Undisturbed'
  BY DEF LifeInv, Life!vars, Life!removal, Undisturbed, LastOne, Shown, Leaving,
         ReservedForOne, Awaited
<1> QED
  BY <1>1, <1>2 DEF LifeInv

(* Every step preserves the invariant. *)
LEMMA LifeStep == LifeInv /\ Life!Next => LifeInv'
<1> SUFFICES ASSUME LifeInv, Life!Next PROVE LifeInv'
  OBVIOUS
<1>1. CASE Life!Load
  BY <1>1, LoadInv
<1>2. CASE Life!Loaded \/ Life!Unloaded
  BY <1>2, WaitedInv
<1>3. CASE Life!Unload
  BY <1>3, UnloadInv
<1>4. ASSUME NEW e \in Life!Objects, Life!Added(e) PROVE LifeInv'
  BY <1>4, WritesInv DEF Life!Added, Life!removal
<1>5. ASSUME NEW e \in Life!Objects, Life!Feedback(e) PROVE LifeInv'
  <2>1. adding' = adding \ {}
    BY <1>5 DEF Life!Feedback
  <2> QED
    BY <1>5, <2>1, WritesInv DEF Life!Feedback, Life!removal
<1>6. ASSUME NEW e \in Life!Objects, Life!AddedRaises(e) PROVE LifeInv'
  BY <1>6, AddedRaisesInv
<1>7. ASSUME NEW e \in Life!Objects, Life!Removed(e) PROVE LifeInv'
  BY <1>7, RemovedInv
<1>8. ASSUME NEW e \in Life!Objects, Life!RemovalRaises(e) PROVE LifeInv'
  BY <1>8, RemovalRaisesInv
<1>9. ASSUME NEW e \in Life!Objects, Life!AddedAgain(e) PROVE LifeInv'
  BY <1>9, AddedAgainInv
<1>10. CASE Life!Delete \/ Life!Disable
  BY <1>10, DeleteInv, DisableInv
<1>11. ASSUME NEW i \in Ids, Life!Rename(i) PROVE LifeInv'
  BY <1>11, RenameInv
<1>12. CASE Life!Finished
  BY <1>12, LifeSame DEF Life!Finished
<1> QED
  BY <1>1, <1>2, <1>3, <1>4, <1>5, <1>6, <1>7, <1>8, <1>9, <1>10, <1>11, <1>12
     DEF Life!Next

\* Cardinality of an instance is that of FiniteSets.
LEMMA SameCardinality == \A S : Life!Cardinality(S) = Cardinality(S)
BY DEF Life!Cardinality, Cardinality

(* What the invariant says of the entity. *)
LEMMA LifeSafe ==
  ASSUME LifeInv
  PROVE  Life!NoGhost /\ Life!OneObject /\ Life!LoadedIsShown
<1>1. Life!OneObject
  <2> SUFFICES ASSUME ~crossed PROVE Life!Cardinality(placed) <= 1
    BY DEF LifeInv, Shape, Life!OneObject
  <2>1. placed = {} \/ placed = {load}
    BY DEF LifeInv, Undisturbed, LastOne
  <2> QED
    <3>1. Life!Cardinality(placed) = Cardinality(placed)
      BY SameCardinality
    <3>2. Cardinality(placed) = 0 \/ Cardinality(placed) = 1
      BY <2>1, FS_EmptySet, FS_Singleton
    <3> QED
      BY <3>1, <3>2
<1>2. Life!LoadedIsShown
  BY DEF LifeInv, Shape, Undisturbed, Life!LoadedIsShown, Life!Busy, Life!Heard, Shown
<1> QED
  BY <1>1, <1>2 DEF LifeInv

(* A load is not kept out by what the last one left.                       *)
LEMMA LoadAdds ==
  ASSUME LifeInv, Life!Next, load' # load, ~crossed, failed = {}, ~disabled
  PROVE  load' \in placed'
<1> USE DEF LifeInv
<1>1. Life!Load
  BY DEF Life!Next, Life!Loaded, Life!Unload, Life!Unloaded, Life!Added, Life!AddedRaises,
         Life!Feedback, Life!Removed, Life!RemovalRaises, Life!AddedAgain, Life!Delete,
         Life!Disable, Life!Rename, Life!Finished, Life!vars
<1>2. PICK i \in Life!Offered : Life!Place(load + 1, i, states)
  BY <1>1 DEF Life!Load
<1>3. load + 1 \in Life!Objects /\ load' = load + 1 /\ phase = "unloaded"
  BY <1>1, LifeConstants DEF Life!Load, Life!Objects, Life!LifeTypeOK
<1>4. i \in Ids /\ (i = registry \/ (registry = None /\ states[i] = None))
  BY <1>2, OfferedIds
<1>5. states[i] \in {None, Restored}
  <2>1. placed = {} /\ Leaving /\ ReservedForOne /\ again = {}
    BY <1>3 DEF Undisturbed, LastOne
  <2>2. states[i] # Reserved
    BY <1>3, <1>4, <2>1 DEF ReservedForOne, Awaited
  <2>3. ASSUME states[i] \in Life!Objects, i = registry PROVE FALSE
    <3>1. states[i] \in removing /\ id[states[i]] = i
      BY <1>4, <2>1, <2>3 DEF Life!NoGhost, Written, Shape, Life!Heard
    <3> QED
      BY <1>3, <2>1, <2>3, <3>1 DEF Leaving, Awaited
  <2> QED
    BY <1>4, <2>2, <2>3 DEF Life!LifeTypeOK
<1>6. states \in [Ids -> {None, Reserved, Restored} \cup Life!Objects]
  BY DEF Life!LifeTypeOK
<1> QED
  BY <1>2, <1>3, <1>4, <1>5, <1>6, PlaceOutcome
-----------------------------------------------------------------------------
(* ComponentSetup.                                                         *)

\* What is true of the futures and of the components that are there.
Futures ==
  \A d \in Domains :
    /\ setupFuture[d] = "true" => d \in components
    /\ Components!Over(doneFuture[d]) => d \notin toBeLoaded
    /\ stage[d] = "entries" => d \in components

\* What a setup that waits does not wait for is there.
Awaits ==
  \A d \in Domains : stage[d] = "waiting" =>
    /\ deps[d] \subseteq components \cup waitsFor[d]
    /\ after[d] \cap toBeLoaded \subseteq components \cup waitsFor[d] \cup waitsAfter[d]

\* Who has not been answered, and has not begun, has not run.
Begun ==
  \A d \in Domains :
    /\ setupFuture[d] = "none" \/ stage[d] = "waiting" => runs[d] = 0
    /\ stage[d] # "none" => setupFuture[d] # "none"

\* The invariant of the setup of components.
ComponentsInv ==
  /\ Components!TypeOK /\ Futures /\ Awaits /\ Begun
  /\ Components!DependenciesFirst /\ Components!AfterDependenciesFirst
  /\ Components!SetUpOnce

(* The stage begins with nothing set up. *)
LEMMA ComponentsInit == Components!Init => ComponentsInv
<1> SUFFICES ASSUME Components!Init PROVE ComponentsInv
  OBVIOUS
<1>1. Components!TypeOK
  BY DEF Components!Init, Components!TypeOK, Components!Manifests, Components!Future
<1>2. Futures /\ Awaits /\ Begun
  BY DEF Components!Init, Futures, Awaits, Begun, Components!Over
<1>3. /\ Components!DependenciesFirst /\ Components!AfterDependenciesFirst
      /\ Components!SetUpOnce
  BY DEF Components!Init, Components!DependenciesFirst,
         Components!AfterDependenciesFirst, Components!SetUpOnce
<1> QED
  BY <1>1, <1>2, <1>3 DEF ComponentsInv

(* A setup is over: nobody waits for it any more                           *)
(* (src/homeassistant/setup.py:181-188).                                   *)
LEMMA FinishInv ==
  ASSUME ComponentsInv, NEW d \in Domains, NEW result \in {"true", "false", "raised"},
         Components!Finish(d, result), result = "true" => d \in components,
         UNCHANGED <<deps, after, asked, waitsFor, waitsAfter, components, runs>>
  PROVE  ComponentsInv'
<1> USE DEF ComponentsInv
<1>1. Components!TypeOK'
  BY DEF Components!TypeOK, Components!Finish, Components!Future
<1>2. /\ stage' = [stage EXCEPT ![d] = "over"]
      /\ setupFuture' = [setupFuture EXCEPT ![d] = result]
      /\ toBeLoaded' = toBeLoaded \ {d}
      /\ stage \in [Domains -> {"none", "waiting", "running", "entries", "over"}]
      /\ setupFuture \in [Domains -> Components!Future]
  BY DEF Components!Finish, Components!TypeOK
<1>3. \A x \in Domains : x # d => doneFuture'[x] = doneFuture[x]
  BY DEF Components!Finish, Components!TypeOK
<1>4. Futures'
  BY <1>2, <1>3 DEF Futures
<1>5. Awaits' /\ Begun'
  BY <1>2 DEF Awaits, Begun
<1>6. /\ Components!DependenciesFirst' /\ Components!AfterDependenciesFirst'
      /\ Components!SetUpOnce'
  BY <1>2 DEF Components!DependenciesFirst, Components!AfterDependenciesFirst,
              Components!SetUpOnce
<1> QED
  BY <1>1, <1>4, <1>5, <1>6

(* A component's own setup begins: with its dependencies there, and for    *)
(* the first time.                                                         *)
LEMMA RunsInv ==
  ASSUME ComponentsInv, NEW d \in Domains, Components!Run(d), runs[d] = 0,
         deps[d] \subseteq components,
         after[d] \cap toBeLoaded \subseteq components,
         asked' \subseteq Domains,
         setupFuture' \in [Domains -> Components!Future],
         setupFuture'[d] # "none", setupFuture'[d] # "true" \/ d \in components,
         \A x \in Domains : x # d => setupFuture'[x] = setupFuture[x],
         waitsFor' \in [Domains -> SUBSET Domains],
         waitsAfter' \in [Domains -> SUBSET Domains],
         \A x \in Domains :
           x # d => waitsFor'[x] = waitsFor[x] /\ waitsAfter'[x] = waitsAfter[x],
         UNCHANGED <<deps, after, doneFuture, toBeLoaded, components>>
  PROVE  ComponentsInv'
<1> USE DEF ComponentsInv
<1>1. /\ stage' = [stage EXCEPT ![d] = "running"]
      /\ runs' = [runs EXCEPT ![d] = 1]
      /\ stage \in [Domains -> {"none", "waiting", "running", "entries", "over"}]
      /\ runs \in [Domains -> Nat]
  BY DEF Components!Run, Components!TypeOK
<1>2. Components!TypeOK'
  BY <1>1 DEF Components!TypeOK
<1>3. Futures' /\ Awaits' /\ Begun'
  BY <1>1 DEF Futures, Awaits, Begun
<1>4. /\ Components!DependenciesFirst' /\ Components!AfterDependenciesFirst'
      /\ Components!SetUpOnce'
  BY <1>1 DEF Components!DependenciesFirst, Components!AfterDependenciesFirst,
              Components!SetUpOnce
<1> QED
  BY <1>2, <1>3, <1>4

(* The dependencies are gathered (src/homeassistant/setup.py:208-262).     *)
LEMMA StartInv ==
  ASSUME ComponentsInv, NEW d \in Domains, Components!Start(d)
  PROVE  ComponentsInv'
<1> USE DEF ComponentsInv
<1> DEFINE missing == Components!Missing(d)
           pending_ == Components!Pending(d)
<1>0. d \notin components /\ setupFuture[d] = "none" /\ runs[d] = 0 /\ stage[d] = "none"
  BY DEF Components!Start, Components!MayStart, Begun, Components!TypeOK
<1>1. CASE /\ Components!Finish(d, "false")
           /\ UNCHANGED <<asked, waitsFor, waitsAfter, runs>>
  BY <1>1, FinishInv DEF Components!Start, Components!manifests
<1>2. CASE /\ setupFuture' = [setupFuture EXCEPT ![d] = "pending"]
           /\ waitsFor' = [waitsFor EXCEPT ![d] = missing]
           /\ waitsAfter' = [waitsAfter EXCEPT ![d] = pending_]
           /\ asked' = asked \cup missing
           /\ IF missing \cup pending_ = {}
                THEN Components!Run(d)
                ELSE /\ stage' = [stage EXCEPT ![d] = "waiting"]
                     /\ UNCHANGED runs
           /\ UNCHANGED <<doneFuture, toBeLoaded>>
  <2>1. /\ missing \subseteq Domains /\ pending_ \subseteq Domains
        /\ deps[d] \subseteq components \cup missing
        /\ after[d] \cap toBeLoaded \subseteq components \cup missing \cup pending_
    BY DEF Components!Missing, Components!Pending, Components!TypeOK
  <2> HIDE DEF missing, pending_
  <2>2. /\ setupFuture' \in [Domains -> Components!Future]
        /\ waitsFor' \in [Domains -> SUBSET Domains]
        /\ waitsAfter' \in [Domains -> SUBSET Domains]
        /\ setupFuture'[d] = "pending" /\ waitsFor'[d] = missing /\ waitsAfter'[d] = pending_
        /\ asked' \subseteq Domains
        /\ \A x \in Domains : x # d => /\ waitsFor'[x] = waitsFor[x]
                                       /\ waitsAfter'[x] = waitsAfter[x]
                                       /\ setupFuture'[x] = setupFuture[x]
    BY <1>2, <2>1 DEF Components!TypeOK, Components!Future
  <2>3. UNCHANGED <<deps, after, doneFuture, toBeLoaded, components>>
    BY <1>2 DEF Components!Start, Components!manifests
  <2>4. CASE missing \cup pending_ = {}
    <3>1. Components!Run(d)
      BY <1>2, <2>4
    <3> QED
      BY <1>0, <2>1, <2>2, <2>3, <2>4, <3>1, RunsInv
  <2>5. CASE missing \cup pending_ # {}
    <3>1. stage' = [stage EXCEPT ![d] = "waiting"] /\ runs' = runs
      BY <1>2, <2>5
    <3>2. Components!TypeOK'
      BY <2>2, <2>3, <3>1 DEF Components!TypeOK
    <3>3. stage \in [Domains -> {"none", "waiting", "running", "entries", "over"}]
      BY DEF Components!TypeOK
    <3>4. Futures' /\ Begun'
      BY <1>0, <2>2, <2>3, <3>1, <3>3 DEF Futures, Begun
    <3>5. Awaits'
      BY <2>1, <2>2, <2>3, <3>1, <3>3 DEF Awaits
    <3>6. /\ Components!DependenciesFirst' /\ Components!AfterDependenciesFirst'
          /\ Components!SetUpOnce'
      BY <2>3, <3>1, <3>3 DEF Components!DependenciesFirst,
         Components!AfterDependenciesFirst, Components!SetUpOnce
    <3> QED
      BY <3>2, <3>4, <3>5, <3>6
  <2> QED
    BY <2>4, <2>5
<1> QED
  BY <1>1, <1>2 DEF Components!Start

(* The gather is over: what was waited for is there, or has failed; a      *)
(* future that is resolved is no longer to be loaded.                      *)
LEMMA DependenciesDoneInv ==
  ASSUME ComponentsInv, NEW d \in Domains, Components!DependenciesDone(d)
  PROVE  ComponentsInv'
<1> USE DEF ComponentsInv
<1>0. UNCHANGED <<deps, after, asked, waitsFor, waitsAfter, components>>
  BY DEF Components!DependenciesDone, Components!manifests
<1>1. CASE Components!Finish(d, "raised") /\ UNCHANGED runs
  BY <1>0, <1>1, FinishInv
<1>2. CASE Components!Finish(d, "false") /\ UNCHANGED runs
  BY <1>0, <1>2, FinishInv
<1>3. CASE /\ \A f \in Components!Gathered(d) : f \in {"true", "false"}
           /\ ~\E x \in waitsFor[d] : setupFuture[x] = "false"
           /\ Components!Run(d) /\ UNCHANGED <<setupFuture, doneFuture, toBeLoaded>>
  <2>1. /\ waitsFor[d] \subseteq Domains /\ waitsAfter[d] \subseteq Domains
        /\ stage[d] = "waiting"
    BY DEF Components!DependenciesDone, Components!TypeOK
  <2>2. waitsFor[d] \subseteq components
    <3> SUFFICES ASSUME NEW x \in waitsFor[d] PROVE x \in components
      OBVIOUS
    <3>1. setupFuture[x] \in Components!Gathered(d)
      BY DEF Components!Gathered
    <3> QED
      BY <1>3, <2>1, <3>1 DEF Futures
  <2>3. \A x \in waitsAfter[d] : x \notin toBeLoaded
    <3> SUFFICES ASSUME NEW x \in waitsAfter[d] PROVE x \notin toBeLoaded
      OBVIOUS
    <3>1. doneFuture[x] \in Components!Gathered(d)
      BY DEF Components!Gathered
    <3> QED
      BY <1>3, <2>1, <3>1 DEF Futures, Components!Over
  <2>4. /\ deps[d] \subseteq components
        /\ after[d] \cap toBeLoaded \subseteq components
        /\ runs[d] = 0 /\ setupFuture[d] # "none"
    BY <2>1, <2>2, <2>3 DEF Awaits, Begun
  <2>5. /\ asked' \subseteq Domains
        /\ setupFuture' \in [Domains -> Components!Future]
        /\ waitsFor' \in [Domains -> SUBSET Domains]
        /\ waitsAfter' \in [Domains -> SUBSET Domains]
        /\ setupFuture' = setupFuture /\ waitsFor' = waitsFor /\ waitsAfter' = waitsAfter
        /\ setupFuture[d] # "true" \/ d \in components
    BY <1>0, <1>3 DEF Components!TypeOK, Futures
  <2> QED
    BY <1>0, <1>3, <2>4, <2>5, RunsInv
<1> QED
  BY <1>1, <1>2, <1>3 DEF Components!DependenciesDone

(* A request, or the component's own setup goes on. *)
LEMMA ComponentGoesOnInv ==
  ASSUME ComponentsInv, NEW d \in Domains,
         \/ Components!Ask(d) \/ Components!SetupFails(d)
         \/ Components!SetupSucceeds(d) \/ Components!EntriesDone(d)
  PROVE  ComponentsInv'
<1> USE DEF ComponentsInv
<1>1. CASE Components!Ask(d)
  BY <1>1 DEF Components!Ask, Components!manifests, Components!TypeOK, Futures, Awaits,
     Begun, Components!DependenciesFirst, Components!AfterDependenciesFirst,
     Components!SetUpOnce
<1>2. CASE Components!SetupFails(d)
  BY <1>2, FinishInv DEF Components!SetupFails, Components!manifests
<1>3. CASE Components!SetupSucceeds(d)
  <2>1. /\ stage[d] = "running"
        /\ components' = components \cup {d}
        /\ stage' = [stage EXCEPT ![d] = "entries"]
        /\ UNCHANGED <<deps, after, asked, setupFuture, doneFuture, toBeLoaded,
                       waitsFor, waitsAfter, runs>>
        /\ stage \in [Domains -> {"none", "waiting", "running", "entries", "over"}]
    BY <1>3 DEF Components!SetupSucceeds, Components!manifests, Components!TypeOK
  <2>2. Components!TypeOK'
    BY <2>1 DEF Components!TypeOK
  <2>3. Futures' /\ Awaits' /\ Begun'
    BY <2>1 DEF Futures, Awaits, Begun
  <2>4. /\ Components!DependenciesFirst' /\ Components!AfterDependenciesFirst'
        /\ Components!SetUpOnce'
    BY <2>1 DEF Components!DependenciesFirst, Components!AfterDependenciesFirst,
                Components!SetUpOnce
  <2> QED
    BY <2>2, <2>3, <2>4
<1>4. CASE Components!EntriesDone(d)
  <2>1. d \in components
    BY <1>4 DEF Components!EntriesDone, Futures
  <2> QED
    BY <1>4, <2>1, FinishInv DEF Components!EntriesDone, Components!manifests
<1> QED
  BY <1>1, <1>2, <1>3, <1>4

(* Components that rest keep the invariant. *)
LEMMA ComponentsSame == ComponentsInv /\ UNCHANGED Components!vars => ComponentsInv'
BY DEF ComponentsInv, Components!vars, Components!manifests, Components!TypeOK, Futures,
   Awaits, Begun, Components!DependenciesFirst, Components!AfterDependenciesFirst,
   Components!SetUpOnce

(* Every step preserves the invariant. *)
LEMMA ComponentsStep == ComponentsInv /\ Components!Next => ComponentsInv'
<1> SUFFICES ASSUME ComponentsInv, Components!Next PROVE ComponentsInv'
  OBVIOUS
<1>1. ASSUME NEW d \in Domains, Components!Ask(d) \/ Components!Step(d)
      PROVE  ComponentsInv'
  BY <1>1, StartInv, DependenciesDoneInv, ComponentGoesOnInv DEF Components!Step
<1>2. CASE Components!Finished
  BY <1>2, ComponentsSame DEF Components!Finished
<1> QED
  BY <1>1, <1>2 DEF Components!Next
-----------------------------------------------------------------------------
(* Who asks for a component is answered.                                   *)

\* What a setup has to do with its futures, and with those it waits for.
Resolves ==
  \A d \in Domains :
    /\ stage[d] = "none" <=> setupFuture[d] = "none"
    /\ stage[d] \in {"waiting", "running", "entries"} <=> setupFuture[d] = "pending"
    /\ d \in components => setupFuture[d] # "none"
    /\ doneFuture[d] = "pending" => d \in toBeLoaded
    /\ d \in toBeLoaded => d \in asked /\ ~Components!Over(setupFuture[d])

\* What a setup waits for has been asked for, and what has a circle never waits.
Reaches ==
  \A d \in Domains :
    /\ d \notin after[d]
    /\ stage[d] = "waiting" => ~Components!Circular(d)
    /\ waitsFor[d] \subseteq deps[d] \cap asked
    /\ waitsAfter[d] \subseteq after[d]
    /\ \A x \in waitsAfter[d] : doneFuture[x] # "none"
    /\ d \in toBeLoaded => doneFuture[d] # "none"

\* The setups that wait for a future which is not resolved, ...
Blocked == {d \in Domains : stage[d] = "waiting" /\ ~Components!GatherOver(d)}

\* ... those of them that one waits for, ...
Ahead(d) == (waitsFor[d] \cup waitsAfter[d]) \cap Blocked

\* ... and those it waits for in the end.
Leading(d) ==
  {q \in Blocked : \A S \in SUBSET Blocked :
     (d \in S /\ \A p \in S : Ahead(p) \subseteq S) => q \in S}

(* Somebody is ahead of whoever is blocked, unless a step can be taken.    *)
LEMMA BlockedByBlocked ==
  ASSUME Components!TypeOK, Resolves, Reaches,
         \A x \in Domains : ~Components!MayGoOn(x),
         NEW d \in Blocked
  PROVE  Ahead(d) # {}
<1>1. /\ d \in Domains /\ stage[d] = "waiting"
      /\ "raised" \notin Components!Gathered(d)
      /\ ~\A f \in Components!Gathered(d) : f \in {"true", "false"}
  BY DEF Blocked, Components!GatherOver
<1>2. PICK f \in Components!Gathered(d) : f \notin {"true", "false", "raised"}
  BY <1>1
<1>3. ASSUME NEW x \in waitsFor[d] \cup waitsAfter[d],
             x \in asked, setupFuture[x] \in {"none", "pending"}
      PROVE  x \in Blocked
  <2>1. x \in Domains
    BY <1>1, <1>3 DEF Components!TypeOK
  <2>2. ~Components!MayStart(x) /\ ~Components!GatherOver(x)
        /\ stage[x] \notin {"running", "entries"}
    BY <2>1 DEF Components!MayGoOn
  <2>3. setupFuture[x] = "pending"
    BY <1>3, <2>1, <2>2 DEF Components!MayStart, Resolves
  <2>4. stage[x] = "waiting"
    BY <2>1, <2>2, <2>3 DEF Resolves
  <2> QED
    BY <2>1, <2>2, <2>4 DEF Blocked
<1>4. CASE \E x \in waitsFor[d] : f = setupFuture[x]
  <2>1. PICK x \in waitsFor[d] : f = setupFuture[x]
    BY <1>4
  <2>2. x \in Domains /\ x \in asked
    BY <1>1, <2>1 DEF Components!TypeOK, Reaches
  <2>3. setupFuture[x] \in {"none", "pending"}
    BY <1>2, <2>1, <2>2 DEF Components!TypeOK, Components!Future
  <2>4. x \in Blocked
    BY <1>3, <2>2, <2>3
  <2> QED
    BY <2>1, <2>4 DEF Ahead
<1>5. CASE \E x \in waitsAfter[d] : f = doneFuture[x]
  <2>1. PICK x \in waitsAfter[d] : f = doneFuture[x]
    BY <1>5
  <2>2. x \in Domains
    BY <1>1, <2>1 DEF Components!TypeOK
  <2>3. doneFuture[x] = "pending"
    BY <1>1, <1>2, <2>1, <2>2 DEF Components!TypeOK, Components!Future, Reaches
  <2>4. x \in asked /\ setupFuture[x] \in {"none", "pending"}
    BY <2>2, <2>3 DEF Resolves, Components!TypeOK, Components!Future, Components!Over
  <2>5. x \in Blocked
    BY <1>3, <2>4
  <2> QED
    BY <2>1, <2>5 DEF Ahead
<1> QED
  BY <1>2, <1>4, <1>5 DEF Components!Gathered

(* If somebody has no answer and no step can be taken, somebody is blocked. *)
LEMMA SomebodyBlocked ==
  ASSUME Components!TypeOK, Resolves,
         \A x \in Domains : ~Components!MayGoOn(x), ~Components!AllOver
  PROVE  Blocked # {}
<1>1. PICK d \in asked : ~Components!Over(setupFuture[d])
  BY DEF Components!AllOver
<1>2. d \in Domains /\ setupFuture[d] \in {"none", "pending"}
  BY <1>1 DEF Components!TypeOK, Components!Future, Components!Over
<1>3. /\ ~Components!MayStart(d) /\ ~Components!GatherOver(d)
      /\ stage[d] \notin {"running", "entries"}
  BY <1>2 DEF Components!MayGoOn
<1>4. setupFuture[d] = "pending"
  BY <1>1, <1>2, <1>3 DEF Components!MayStart, Resolves
<1>5. stage[d] = "waiting"
  BY <1>2, <1>3, <1>4 DEF Resolves
<1> QED
  BY <1>2, <1>3, <1>5 DEF Blocked

(* What leads to d is closed, and no larger than the way of d.             *)
LEMMA LeadingCloses ==
  ASSUME NEW d \in Blocked
  PROVE  /\ d \in Leading(d) /\ Leading(d) \subseteq Blocked
         /\ \A x \in Leading(d) : Ahead(x) \subseteq Leading(d)
         /\ \A x \in Leading(d) : Leading(x) \subseteq Leading(d)
<1>1. Leading(d) \subseteq Blocked /\ d \in Leading(d)
  <2>1. \A S \in SUBSET Blocked : (d \in S /\ \A p \in S : Ahead(p) \subseteq S) => d \in S
    OBVIOUS
  <2> QED
    BY <2>1, Zenon DEF Leading
<1>2. ASSUME NEW x \in Leading(d) PROVE Ahead(x) \subseteq Leading(d)
  <2> SUFFICES ASSUME NEW q \in Ahead(x), NEW S \in SUBSET Blocked, d \in S,
                      \A p \in S : Ahead(p) \subseteq S
               PROVE  q \in S
    BY <1>1 DEF Leading, Ahead
  <2>1. x \in S
    BY <1>2 DEF Leading
  <2> QED
    BY <2>1
<1>3. ASSUME NEW x \in Leading(d) PROVE Leading(x) \subseteq Leading(d)
  <2>1. Leading(d) \in SUBSET Blocked
    BY <1>1
  <2> QED
    BY <1>2, <1>3, <2>1 DEF Leading
<1> QED
  BY <1>1, <1>2, <1>3

(* Whom d waits for in the end is on its way.                              *)
LEMMA LeadingOnWay ==
  ASSUME Components!TypeOK, Reaches, NEW d \in Blocked
  PROVE  Leading(d) \subseteq Components!WayOf(d)
<1> SUFFICES ASSUME NEW q \in Leading(d), NEW S \in SUBSET Domains,
                    d \in S, \A p \in S : deps[p] \cup after[p] \subseteq S
             PROVE  q \in S
  BY DEF Components!WayOf, Leading, Blocked
<1>1. S \cap Blocked \in SUBSET Blocked /\ d \in S \cap Blocked
  OBVIOUS
<1>2. ASSUME NEW p \in S \cap Blocked PROVE Ahead(p) \subseteq S \cap Blocked
  BY <1>2 DEF Ahead, Blocked, Reaches
<1> QED
  BY <1>1, <1>2 DEF Leading

(* There is a blocked setup that all those it waits for in the end wait for. *)
LEMMA LastKnot ==
  ASSUME Blocked # {}
  PROVE  \E d \in Blocked : \A x \in Leading(d) : Leading(x) = Leading(d)
<1>1. IsFiniteSet(Domains) /\ Blocked \subseteq Domains
  BY CoreAssumption DEF Blocked
<1>2. IsWellFoundedOn(StrictSubsetOrdering(Domains), SUBSET Domains)
  BY <1>1, FS_StrictSubsetOrderingWellFounded, FS_FiniteSubsetsOfFinite
<1> DEFINE T == {Leading(d) : d \in Blocked}
<1>3. T \subseteq SUBSET Domains /\ T # {}
  <2>1. \A d \in Blocked : Leading(d) \subseteq Domains
    BY <1>1, LeadingCloses
  <2> QED
    BY <2>1
<1> HIDE DEF T
<1>4. PICK L \in T : \A M \in T : <<M, L>> \notin StrictSubsetOrdering(Domains)
  BY <1>2, <1>3, WFMin
<1>5. PICK d \in Blocked : L = Leading(d)
  BY <1>4 DEF T
<1>6. ASSUME NEW x \in Leading(d) PROVE Leading(x) = Leading(d)
  <2>1. x \in Blocked /\ Leading(x) \subseteq Leading(d)
    BY <1>6, LeadingCloses
  <2>2. Leading(x) \in T
    BY <2>1 DEF T
  <2>3. Leading(x) \subseteq Domains /\ Leading(d) \subseteq Domains
    BY <1>1 DEF Leading
  <2> QED
    BY <1>4, <1>5, <2>1, <2>2, <2>3 DEF StrictSubsetOrdering
<1> QED
  BY <1>5, <1>6

(* Along a knot with one after_dependency at most, there would be a circle *)
(* that resolve_dependencies refuses.                                      *)
LEMMA KnotHasTwo ==
  ASSUME Components!TypeOK, Reaches, NEW d \in Blocked,
         \A x \in Leading(d) : Leading(x) = Leading(d) /\ Ahead(x) # {}
  PROVE  \E e, f \in Leading(d) \X Leading(d) :
           e # f /\ e[2] \in after[e[1]] /\ f[2] \in after[f[1]]
<1> DEFINE K == Leading(d)
           L == {e \in K \X K : e[2] \in waitsAfter[e[1]]}
<1>1. /\ d \in K /\ K \subseteq Blocked /\ K \subseteq Domains
      /\ \A x \in K : Ahead(x) \subseteq K
  BY LeadingCloses DEF Blocked
<1>2. \A x \in K : Ahead(x) # {} /\ Leading(x) = K
  OBVIOUS
<1> HIDE DEF K
<1>3. \A e \in L : e[1] \in K /\ e[2] \in K /\ e[2] \in after[e[1]]
  BY <1>1 DEF Reaches
<1>4. ASSUME \A e, f \in L : e = f PROVE FALSE
\* Who is asked for from s on is reached by dependencies, but for one step at most.
  <2>1. ASSUME NEW s \in K, NEW S \in SUBSET Domains, deps[s] \subseteq S,
               \A p \in S : deps[p] \subseteq S,
               \A e \in L : e[2] = s
        PROVE  K \subseteq S \cup {s}
    <3> DEFINE C == (S \cup {s}) \cap K
    <3>1. C \in SUBSET Blocked /\ s \in C
      BY <1>1, <2>1
    <3>2. ASSUME NEW p \in C, NEW x \in Ahead(p) PROVE x \in C
      <4>1. x \in K /\ p \in K /\ p \in Domains
        BY <1>1, <3>2
      <4>2. CASE x \in waitsFor[p]
        BY <2>1, <4>1, <4>2 DEF Reaches
      <4>3. CASE x \in waitsAfter[p]
        <5>1. <<p, x>> \in L
          BY <4>1, <4>3
        <5>2. x = s
          BY <2>1, <5>1
        <5> QED
          BY <4>1, <5>2
      <4> QED
        BY <3>2, <4>2, <4>3 DEF Ahead
    <3> HIDE DEF C
    <3>3. Leading(s) \subseteq C
      BY <3>1, <3>2 DEF Leading
    <3> QED
      BY <1>2, <2>1, <3>3 DEF C
  <2>2. ASSUME NEW s \in K PROVE ~Components!Circular(s) /\ s \in Domains /\ s \notin after[s]
    BY <1>1, <2>2 DEF Reaches, Blocked
  <2>3. CASE L = {}
    <3>1. PICK s \in Ahead(d) : s \in K /\ d \in Domains
      BY <1>1, <1>2
    <3>2. <<d, s>> \notin L
      BY <2>3
    <3>3. s \in deps[d]
      BY <1>1, <3>1, <3>2 DEF Ahead, Reaches
    <3>4. s \in Components!AllDependencies(s)
      <4> SUFFICES ASSUME NEW S \in SUBSET Domains, deps[s] \subseteq S,
                          \A p \in S : deps[p] \subseteq S
                   PROVE  s \in S
        BY <2>2, <3>1 DEF Components!AllDependencies
      <4>1. d \in S \cup {s}
        BY <1>1, <2>1, <2>3, <3>1
      <4> QED
        BY <3>3, <4>1
    <3> QED
      BY <2>2, <3>1, <3>4 DEF Components!Circular
  <2>4. CASE L # {}
    <3>1. PICK e \in L : TRUE
      BY <2>4
    <3>2. PICK p \in K, s \in K : p = e[1] /\ s = e[2] /\ s \in after[p]
      BY <1>3, <3>1
    <3>3. p \in Components!AllDependencies(s)
      <4> SUFFICES ASSUME NEW S \in SUBSET Domains, deps[s] \subseteq S,
                          \A x \in S : deps[x] \subseteq S
                   PROVE  p \in S
        BY <2>2 DEF Components!AllDependencies
      <4>1. \A f \in L : f[2] = s
        BY <1>4, <3>1, <3>2
      <4>2. p \in S \cup {s}
        BY <2>1, <4>1
      <4> QED
        BY <2>2, <3>2, <4>2
    <3> QED
      BY <2>2, <3>2, <3>3 DEF Components!Circular
  <2> QED
    BY <2>3, <2>4
<1>5. PICK e, f \in L : e # f
  BY <1>4
<1> QED
  BY <1>3, <1>5 DEF K

(* Until all have their answer a step can be taken, or two                 *)
(* after_dependencies lead to each other.                                  *)
LEMMA StepOrCircle ==
  ASSUME Components!TypeOK, Resolves, Reaches
  PROVE  Components!AskedIsAnswered
<1> SUFFICES ASSUME ~Components!AllOver, \A x \in Domains : ~Components!MayGoOn(x)
             PROVE  Components!Circle
  BY DEF Components!AskedIsAnswered
<1>1. Blocked # {}
  BY SomebodyBlocked
<1>2. PICK d \in Blocked : \A x \in Leading(d) : Leading(x) = Leading(d)
  BY <1>1, LastKnot
<1>3. \A x \in Leading(d) : x \in Blocked /\ x \in Domains /\ Ahead(x) # {}
  BY LeadingCloses, BlockedByBlocked DEF Blocked
<1>4. PICK e, f \in Leading(d) \X Leading(d) :
        e # f /\ e[2] \in after[e[1]] /\ f[2] \in after[f[1]]
  BY <1>2, <1>3, KnotHasTwo
<1>5. /\ e[1] \in Leading(d) /\ e[2] \in Leading(d) /\ f[1] \in Leading(d) /\ f[2] \in Leading(d)
      /\ e \in Domains \X Domains /\ f \in Domains \X Domains
  BY <1>3, <1>4
<1>6. e \in Components!Edges(after) /\ f \in Components!Edges(after)
  BY <1>4, <1>5 DEF Components!Edges
<1>7. f[1] \in Components!WayOf(e[2]) /\ e[1] \in Components!WayOf(f[2])
  <2>1. f[1] \in Leading(e[2]) /\ e[1] \in Leading(f[2])
    BY <1>2, <1>5
  <2>2. e[2] \in Blocked /\ f[2] \in Blocked
    BY <1>3, <1>5
  <2> QED
    BY <2>1, <2>2, LeadingOnWay
<1> QED
  BY <1>4, <1>6, <1>7 DEF Components!Circle

(* Nothing is waited for when the stage begins. *)
LEMMA AnswersInit == Components!Init => Resolves /\ Reaches
BY DEF Components!Init, Components!Manifests, Components!Over, Resolves, Reaches

(* What a component depends on, with a circle or not, stays.               *)
LEMMA CircularStays ==
  ASSUME UNCHANGED Components!manifests
  PROVE  \A d \in Domains : Components!Circular(d)' <=> Components!Circular(d)
<1>1. deps' = deps /\ after' = after
  BY DEF Components!manifests
<1> QED
  BY <1>1 DEF Components!Circular, Components!AllDependencies

(* Whose setup is over is answered (src/homeassistant/setup.py:181-188).   *)
LEMMA FinishAnswers ==
  ASSUME Components!TypeOK, Resolves, Reaches,
         NEW d \in Domains, NEW result \in {"true", "false", "raised"},
         Components!Finish(d, result),
         UNCHANGED <<Components!manifests, asked, waitsFor, waitsAfter, components>>
  PROVE  Resolves' /\ Reaches'
<1>1. /\ stage' = [stage EXCEPT ![d] = "over"]
      /\ setupFuture' = [setupFuture EXCEPT ![d] = result]
      /\ toBeLoaded' = toBeLoaded \ {d}
      /\ stage \in [Domains -> {"none", "waiting", "running", "entries", "over"}]
      /\ setupFuture \in [Domains -> Components!Future]
      /\ doneFuture \in [Domains -> Components!Future]
      /\ waitsAfter \in [Domains -> SUBSET Domains]
  BY DEF Components!Finish, Components!TypeOK
<1>2. \A x \in Domains : \/ doneFuture'[x] = doneFuture[x]
                         \/ x = d /\ doneFuture'[x] = result
  BY <1>1 DEF Components!Finish
<1>3. deps' = deps /\ after' = after
  BY DEF Components!manifests
<1>4. d \in toBeLoaded => doneFuture'[d] = result
  BY <1>1 DEF Components!Finish
<1>5. Resolves'
  BY <1>1, <1>2, <1>4 DEF Resolves, Components!Over
<1>6. Reaches'
  BY <1>1, <1>2, <1>3, CircularStays DEF Reaches
<1> QED
  BY <1>5, <1>6

(* The dependencies are asked for, and gathered if there is no circle      *)
(* (src/homeassistant/setup.py:208-262).                                   *)
LEMMA StartAnswers ==
  ASSUME Components!TypeOK, Resolves, Reaches, NEW d \in Domains, Components!Start(d)
  PROVE  Resolves' /\ Reaches'
<1>0. /\ d \in asked /\ setupFuture[d] = "none" /\ stage[d] = "none"
      /\ d \notin components
      /\ UNCHANGED <<Components!manifests, components>>
  BY DEF Components!Start, Components!MayStart, Resolves
<1>1. CASE /\ Components!Finish(d, "false")
           /\ UNCHANGED <<asked, waitsFor, waitsAfter, runs>>
  BY <1>0, <1>1, FinishAnswers
<1> DEFINE missing == Components!Missing(d)
           pending_ == Components!Pending(d)
<1>2. CASE /\ ~Components!Circular(d)
           /\ setupFuture' = [setupFuture EXCEPT ![d] = "pending"]
           /\ waitsFor' = [waitsFor EXCEPT ![d] = missing]
           /\ waitsAfter' = [waitsAfter EXCEPT ![d] = pending_]
           /\ asked' = asked \cup missing
           /\ IF missing \cup pending_ = {}
                THEN Components!Run(d)
                ELSE /\ stage' = [stage EXCEPT ![d] = "waiting"]
                     /\ UNCHANGED runs
           /\ UNCHANGED <<doneFuture, toBeLoaded>>
  <2>1. missing \subseteq deps[d] /\ pending_ \subseteq after[d] \cap toBeLoaded
    BY DEF Components!Missing, Components!Pending
  <2> HIDE DEF missing, pending_
  <2>2. PICK s \in {"running", "waiting"} : stage' = [stage EXCEPT ![d] = s]
    BY <1>2 DEF Components!Run
  <2>3. /\ stage \in [Domains -> {"none", "waiting", "running", "entries", "over"}]
        /\ setupFuture \in [Domains -> Components!Future]
        /\ waitsFor \in [Domains -> SUBSET Domains]
        /\ waitsAfter \in [Domains -> SUBSET Domains]
        /\ toBeLoaded \subseteq Domains
    BY DEF Components!TypeOK
  <2>4. Resolves'
    BY <1>0, <1>2, <2>2, <2>3 DEF Resolves, Components!Over
  <2>5. deps' = deps /\ after' = after
    BY <1>0 DEF Components!manifests
  <2>6. \A x \in Domains : x # d => /\ waitsFor'[x] = waitsFor[x]
                                    /\ waitsAfter'[x] = waitsAfter[x]
                                    /\ stage'[x] = stage[x]
    BY <1>2, <2>2, <2>3
  <2>7. waitsFor'[d] = missing /\ waitsAfter'[d] = pending_
    BY <1>2, <2>3
  <2>8. Reaches'
    <3> SUFFICES ASSUME NEW x \in Domains
                 PROVE  /\ x \notin after'[x]
                        /\ stage'[x] = "waiting" => ~Components!Circular(x)'
                        /\ waitsFor'[x] \subseteq deps'[x] \cap asked'
                        /\ waitsAfter'[x] \subseteq after'[x]
                        /\ \A y \in waitsAfter'[x] : doneFuture'[y] # "none"
                        /\ x \in toBeLoaded' => doneFuture'[x] # "none"
      BY DEF Reaches
    <3>1. CASE x = d
      BY <1>0, <1>2, <2>1, <2>3, <2>5, <2>7, <3>1, CircularStays DEF Reaches
    <3>2. CASE x # d
      BY <1>0, <1>2, <2>5, <2>6, <3>2, CircularStays DEF Reaches
    <3> QED
      BY <3>1, <3>2
  <2> QED
    BY <2>4, <2>8
<1> QED
  BY <1>1, <1>2 DEF Components!Start

(* Components that rest keep their futures. *)
LEMMA AnswersSame ==
  Components!TypeOK /\ Resolves /\ Reaches /\ UNCHANGED Components!vars => Resolves' /\ Reaches'
<1> SUFFICES ASSUME Components!TypeOK, Resolves, Reaches, UNCHANGED Components!vars
             PROVE  Resolves' /\ Reaches'
  OBVIOUS
<1>1. UNCHANGED <<Components!manifests, deps, after, asked, stage, setupFuture, doneFuture,
                  toBeLoaded, waitsFor, waitsAfter, components>>
  BY DEF Components!vars, Components!manifests
<1>2. Resolves'
  BY <1>1 DEF Resolves, Components!Over
<1>3. Reaches'
  BY <1>1, CircularStays DEF Reaches
<1> QED
  BY <1>2, <1>3

(* Every step keeps what a setup has to do with its futures. *)
LEMMA AnswersStep ==
  ASSUME Components!TypeOK, Resolves, Reaches, Components!Next
  PROVE  Resolves' /\ Reaches'
<1>1. ASSUME NEW d \in Domains, Components!Ask(d) PROVE Resolves' /\ Reaches'
  <2>1. /\ asked' = asked \cup {d}
        /\ UNCHANGED <<Components!manifests, deps, after, stage, setupFuture, doneFuture,
                       toBeLoaded, waitsFor, waitsAfter, components>>
    BY <1>1 DEF Components!Ask, Components!manifests
  <2>2. Resolves'
    BY <2>1 DEF Resolves, Components!Over
  <2>3. Reaches'
    BY <2>1, CircularStays DEF Reaches
  <2> QED
    BY <2>2, <2>3
<1>2. ASSUME NEW d \in Domains, Components!Start(d) PROVE Resolves' /\ Reaches'
  BY <1>2, StartAnswers
<1>3. ASSUME NEW d \in Domains, NEW result \in {"true", "false", "raised"},
             Components!Finish(d, result),
             UNCHANGED <<Components!manifests, asked, waitsFor, waitsAfter, components>>
      PROVE  Resolves' /\ Reaches'
  BY <1>3, FinishAnswers
<1>4. ASSUME NEW d \in Domains, NEW s \in {"running", "entries"},
             stage[d] \in {"waiting", "running"}, stage' = [stage EXCEPT ![d] = s],
             components' \in {components, components \cup {d}},
             UNCHANGED <<Components!manifests, asked, setupFuture, doneFuture, toBeLoaded,
                         waitsFor, waitsAfter>>
      PROVE  Resolves' /\ Reaches'
  <2>1. /\ stage \in [Domains -> {"none", "waiting", "running", "entries", "over"}]
        /\ deps' = deps /\ after' = after /\ components' \subseteq components \cup {d}
    BY <1>4 DEF Components!TypeOK, Components!manifests
  <2>2. Resolves'
    BY <1>4, <2>1 DEF Resolves, Components!Over
  <2>3. Reaches'
    BY <1>4, <2>1, CircularStays DEF Reaches
  <2> QED
    BY <2>2, <2>3
<1>5. ASSUME NEW d \in Domains, Components!DependenciesDone(d) PROVE Resolves' /\ Reaches'
  BY <1>3, <1>4, <1>5 DEF Components!DependenciesDone, Components!Run
<1>6. ASSUME NEW d \in Domains,
             Components!SetupFails(d) \/ Components!SetupSucceeds(d) \/ Components!EntriesDone(d)
      PROVE  Resolves' /\ Reaches'
  BY <1>3, <1>4, <1>6 DEF Components!SetupFails, Components!SetupSucceeds, Components!EntriesDone
<1>7. CASE Components!Finished
  BY <1>7, AnswersSame DEF Components!Finished
<1> QED
  BY <1>1, <1>2, <1>5, <1>6, <1>7 DEF Components!Next, Components!Step

(* No setup goes back, and every step brings one further or asks for one.  *)
LEMMA SetupAdvances ==
  ASSUME Components!TypeOK, Resolves, Components!Next, ~UNCHANGED Components!vars
  PROVE  /\ asked \subseteq asked'
         /\ \A d \in Domains : Components!Rank(stage[d]) <= Components!Rank(stage'[d])
         /\ \/ asked # asked'
            \/ \E d \in Domains : Components!Rank(stage[d]) < Components!Rank(stage'[d])
<1> DEFINE Advances ==
      /\ asked \subseteq asked'
      /\ \A d \in Domains : Components!Rank(stage[d]) <= Components!Rank(stage'[d])
      /\ \/ asked # asked'
         \/ \E d \in Domains : Components!Rank(stage[d]) < Components!Rank(stage'[d])
<1>1. stage \in [Domains -> {"none", "waiting", "running", "entries", "over"}]
  BY DEF Components!TypeOK
<1>2. ASSUME NEW d \in Domains, NEW s \in {"waiting", "running", "entries", "over"},
             stage' = [stage EXCEPT ![d] = s],
             Components!Rank(stage[d]) < Components!Rank(s),
             asked \subseteq asked'
      PROVE  Advances
  <2>1. stage'[d] = s /\ \A x \in Domains : x # d => stage'[x] = stage[x]
    BY <1>1, <1>2
  <2>2. \A x \in Domains : Components!Rank(stage[x]) \in Nat
    BY <1>1 DEF Components!Rank
  <2> QED
    BY <1>2, <2>1, <2>2 DEF Components!Rank
<1> HIDE DEF Advances
<1>3. ASSUME NEW d \in Domains, Components!Ask(d) PROVE Advances
  <2>1. stage' = stage /\ asked' = asked \cup {d} /\ d \notin asked
    BY <1>3 DEF Components!Ask
  <2>2. \A x \in Domains : Components!Rank(stage[x]) \in Nat
    BY <1>1 DEF Components!Rank
  <2> QED
    BY <2>1, <2>2 DEF Advances
<1>4. ASSUME NEW d \in Domains, Components!Start(d) PROVE Advances
  <2>1. PICK s \in {"waiting", "running", "over"} : stage' = [stage EXCEPT ![d] = s]
    BY <1>4 DEF Components!Start, Components!Finish, Components!Run
  <2>2. stage[d] = "none"
    BY <1>4 DEF Components!Start, Components!MayStart, Resolves
  <2>3. asked \subseteq asked'
    BY <1>4 DEF Components!Start
  <2>4. Components!Rank(stage[d]) < Components!Rank(s)
    BY <2>1, <2>2 DEF Components!Rank
  <2> QED
    BY <1>2, <2>1, <2>3, <2>4
<1>5. ASSUME NEW d \in Domains,
             Components!DependenciesDone(d) \/ Components!SetupFails(d)
             \/ Components!SetupSucceeds(d) \/ Components!EntriesDone(d)
      PROVE  Advances
  <2>1. PICK s \in {"running", "entries", "over"} :
          /\ stage' = [stage EXCEPT ![d] = s]
          /\ \/ stage[d] = "waiting"
             \/ stage[d] = "running" /\ s # "running"
             \/ stage[d] = "entries" /\ s = "over"
    BY <1>5 DEF Components!DependenciesDone, Components!SetupFails, Components!SetupSucceeds,
               Components!EntriesDone, Components!Finish, Components!Run
  <2>2. asked' = asked
    BY <1>5 DEF Components!DependenciesDone, Components!SetupFails, Components!SetupSucceeds,
               Components!EntriesDone
  <2>3. Components!Rank(stage[d]) < Components!Rank(s)
    BY <2>1 DEF Components!Rank
  <2> QED
    BY <1>2, <2>1, <2>2, <2>3
<1>6. ~Components!Finished
  BY DEF Components!Finished
<1>7. Advances
  BY <1>3, <1>4, <1>5, <1>6 DEF Components!Next, Components!Step
<1> QED
  BY <1>7 DEF Advances

-----------------------------------------------------------------------------
(* ScriptRuns.                                                             *)

(* What is left of a list of different runs without the one that is over.  *)
LEMMA RemoveFirstOf ==
  ASSUME NEW s \in Seq(Runs), Scripts!IsInjective(s), NEW e \in Scripts!Range(s)
  PROVE  \E n \in 1..Len(s) :
           /\ s[n] = e
           /\ Scripts!RemoveFirst(s, e) \in Seq(Runs)
           /\ Len(Scripts!RemoveFirst(s, e)) = Len(s) - 1
           /\ \A i \in 1..Len(s) - 1 :
                Scripts!RemoveFirst(s, e)[i] = IF i < n THEN s[i] ELSE s[i + 1]
<1>1. PICK n \in 1..Len(s) : s[n] = e
  BY DEF Scripts!Range
<1>2. \A i \in 1..Len(s) : s[i] = e => i = n
  BY <1>1 DEF Scripts!IsInjective
<1> DEFINE I == {i \in 1..Len(s) : s[i] = e}
<1>3. I = {n}
  BY <1>1, <1>2
<1>4. Scripts!Min(I) = n
  BY <1>1, <1>3 DEF Scripts!Min
<1>5. Scripts!SelectInSeq(s, LAMBDA v : v = e) = n
  BY <1>3, <1>4 DEF Scripts!SelectInSeq
<1>6. Scripts!RemoveFirst(s, e) = SubSeq(s, 1, n - 1) \o SubSeq(s, n + 1, Len(s))
  BY <1>1, <1>5 DEF Scripts!RemoveFirst, Scripts!RemoveAt
<1> DEFINE u == SubSeq(s, 1, n - 1)
           v == SubSeq(s, n + 1, Len(s))
<1>7. u \in Seq(Runs) /\ Len(u) = n - 1 /\ \A i \in 1..n - 1 : u[i] = s[i]
  BY <1>1
<1>8. v \in Seq(Runs) /\ Len(v) = Len(s) - n /\ \A i \in 1..Len(s) - n : v[i] = s[n + i]
  BY <1>1
<1> HIDE DEF u, v
<1>9. u \o v \in Seq(Runs) /\ Len(u \o v) = Len(s) - 1
  BY <1>1, <1>7, <1>8
<1>10. ASSUME NEW i \in 1..Len(s) - 1
       PROVE  (u \o v)[i] = IF i < n THEN s[i] ELSE s[i + 1]
  <2>1. i \in 1..Len(u) + Len(v)
    BY <1>1, <1>7, <1>8
  <2>2. (u \o v)[i] = IF i <= Len(u) THEN u[i] ELSE v[i - Len(u)]
    BY <1>7, <1>8, <2>1, ConcatProperties
  <2>3. CASE i < n
    <3>1. i <= Len(u) /\ i \in 1..n - 1
      BY <1>1, <1>7, <2>3
    <3> QED
      BY <1>7, <2>2, <2>3, <3>1
  <2>4. CASE ~(i < n)
    <3>1. ~(i <= Len(u)) /\ i - (n - 1) \in 1..Len(s) - n /\ n + (i - (n - 1)) = i + 1
      BY <1>1, <1>7, <2>4
    <3>2. v[i - (n - 1)] = s[n + (i - (n - 1))]
      BY <1>8, <3>1
    <3> QED
      BY <1>7, <2>2, <2>4, <3>1, <3>2
  <2> QED
    BY <2>3, <2>4
<1>11. Scripts!RemoveFirst(s, e) = u \o v
  BY <1>6 DEF u, v
<1> QED
  BY <1>1, <1>9, <1>10, <1>11

\* What a mode never has.
ModeOf ==
  /\ mode = "single" => Len(listed) <= 1
  /\ mode # "restart" =>
       \A r \in Runs : where[r] \notin {"yields", "clears", "dead"} /\ clears[r] = {}
  /\ mode # "queued" => \A r \in Runs : where[r] # "waits"
  /\ mode \in {"restart", "queued"} => \A r \in Runs : caller[r] = None

\* Runs overlap in parallel mode only.
OneRuns == mode # "parallel" => \A r, s \in Scripts!In("runs") : r = s

\* A run that a restart left alone, and that will start or has started.
Goes(r) == where[r] \in {"clears", "runs"} /\ r \notin stop

\* A restart leaves one, which waits for those that run.
Restarts ==
  mode = "restart" =>
    /\ \A r, s \in Scripts!Listed : Goes(r) /\ Goes(s) => r = s
    /\ \A r, s \in Scripts!Listed :
         Goes(r) /\ where[r] = "clears" /\ where[s] = "runs" => s \in clears[r]

\* Who was called after one that still yields has crossed it.
Newer ==
  \A i, j \in 1..Len(listed) : i < j /\ where[listed[i]] = "yields" => listed[j] \in crossing

\* The stop leaves no run that is not told.
AllStopped == ending = "forbids" => Scripts!Listed \subseteq stop

\* The invariant of the runs of a script.
ScriptsInv == Scripts!TypeOK /\ ModeOf /\ OneRuns /\ Restarts /\ Newer /\ AllStopped

(* Nothing runs. *)
LEMMA ScriptsInit == Scripts!Init => ScriptsInv
<1> SUFFICES ASSUME Scripts!Init PROVE ScriptsInv
  OBVIOUS
<1>1. Len(listed) = 0 /\ Scripts!Listed = {}
  BY DEF Scripts!Init, Scripts!Listed, Scripts!Range
<1>2. Scripts!TypeOK
  BY <1>1 DEF Scripts!Init, Scripts!TypeOK, Scripts!Phases, Scripts!IsInjective
<1>3. ModeOf /\ OneRuns /\ Restarts /\ Newer /\ AllStopped
  BY <1>1 DEF Scripts!Init, ModeOf, OneRuns, Restarts, Newer, AllStopped, Scripts!In
<1> QED
  BY <1>2, <1>3 DEF ScriptsInv

\* The list of a run that is over.
LEMMA ListWithout ==
  ASSUME Scripts!TypeOK, NEW r \in Scripts!Listed, listed' = Scripts!RemoveFirst(listed, r)
  PROVE  /\ listed' \in Seq(Runs) /\ Scripts!IsInjective(listed)'
         /\ Len(listed') = Len(listed) - 1
         /\ Scripts!Listed' = Scripts!Listed \ {r}
         /\ \A i, j \in 1..Len(listed') : i < j =>
              \E k, l \in 1..Len(listed) :
                k < l /\ listed'[i] = listed[k] /\ listed'[j] = listed[l]
<1>1. listed \in Seq(Runs) /\ Scripts!IsInjective(listed) /\ r \in Scripts!Range(listed)
  BY DEF Scripts!TypeOK, Scripts!Listed
<1>2. PICK n \in 1..Len(listed) :
        /\ listed[n] = r /\ listed' \in Seq(Runs) /\ Len(listed') = Len(listed) - 1
        /\ \A i \in 1..Len(listed) - 1 : listed'[i] = IF i < n THEN listed[i] ELSE listed[i + 1]
  BY <1>1, RemoveFirstOf
<1>3. Len(listed) \in Nat /\ DOMAIN listed = 1..Len(listed) /\ DOMAIN listed' = 1..Len(listed')
  BY <1>1, <1>2
<1>4. \A i, j \in 1..Len(listed') : i < j =>
        \E k, l \in 1..Len(listed) :
          k < l /\ listed'[i] = listed[k] /\ listed'[j] = listed[l]
  <2> SUFFICES ASSUME NEW i \in 1..Len(listed'), NEW j \in 1..Len(listed'), i < j
               PROVE  \E k, l \in 1..Len(listed) :
                        k < l /\ listed'[i] = listed[k] /\ listed'[j] = listed[l]
    OBVIOUS
  <2>0. /\ i \in 1..Len(listed) - 1 /\ j \in 1..Len(listed) - 1
        /\ i \in 1..Len(listed) /\ j \in 1..Len(listed)
        /\ i + 1 \in 1..Len(listed) /\ j + 1 \in 1..Len(listed)
        /\ i < j + 1 /\ i + 1 < j + 1
    BY <1>2, <1>3
  <2>1. CASE j < n
    <3>1. listed'[i] = listed[i] /\ listed'[j] = listed[j]
      BY <1>2, <2>0, <2>1
    <3> QED
      BY <2>0, <3>1
  <2>2. CASE i < n /\ ~(j < n)
    <3>1. listed'[i] = listed[i] /\ listed'[j] = listed[j + 1]
      BY <1>2, <2>0, <2>2
    <3> QED
      BY <2>0, <3>1
  <2>3. CASE ~(i < n)
    <3>1. listed'[i] = listed[i + 1] /\ listed'[j] = listed[j + 1]
      BY <1>2, <2>0, <2>3
    <3> QED
      BY <2>0, <3>1
  <2> QED
    BY <2>1, <2>2, <2>3
<1>5. Scripts!IsInjective(listed)'
  <2> SUFFICES ASSUME NEW i \in 1..Len(listed'), NEW j \in 1..Len(listed'),
                      listed'[i] = listed'[j], i # j
               PROVE  FALSE
    BY <1>3 DEF Scripts!IsInjective
  <2>1. \A k, l \in 1..Len(listed) : k < l => listed[k] # listed[l]
    BY <1>1, <1>3 DEF Scripts!IsInjective
  <2>2. i < j \/ j < i
    BY <1>2, <1>3
  <2> QED
    BY <1>4, <2>1, <2>2
<1>6. Scripts!Listed' = Scripts!Listed \ {r}
  <2>1. ASSUME NEW x \in Scripts!Listed' PROVE x \in Scripts!Listed \ {r}
    <3>1. PICK i \in 1..Len(listed') : listed'[i] = x
      BY <1>3, <2>1 DEF Scripts!Listed, Scripts!Range
    <3>2. PICK k \in 1..Len(listed) : listed[k] = x /\ k # n
      BY <1>2, <1>3, <3>1
    <3> QED
      BY <1>1, <1>2, <1>3, <3>2 DEF Scripts!Listed, Scripts!Range, Scripts!IsInjective
  <2>2. ASSUME NEW x \in Scripts!Listed, x # r PROVE x \in Scripts!Listed'
    <3>1. PICK k \in 1..Len(listed) : listed[k] = x /\ k # n
      BY <1>2, <1>3, <2>2 DEF Scripts!Listed, Scripts!Range
    <3>2. \E i \in 1..Len(listed') : listed'[i] = x
      <4>1. CASE k < n
        BY <1>2, <1>3, <3>1, <4>1
      <4>2. CASE k > n
        <5>1. k - 1 \in 1..Len(listed) - 1 /\ ~(k - 1 < n) /\ (k - 1) + 1 = k
          BY <1>3, <4>2
        <5> QED
          BY <1>2, <3>1, <5>1
      <4> QED
        BY <1>3, <3>1, <4>1, <4>2
    <3> QED
      BY <1>3, <3>2 DEF Scripts!Listed, Scripts!Range
  <2> QED
    BY <2>1, <2>2
<1> QED
  BY <1>2, <1>4, <1>5, <1>6

(* A run is over (src/homeassistant/helpers/script.py, _finish): it leaves *)
(* nothing behind, and the others as they are.                             *)
LEMMA FinishesInv ==
  ASSUME ScriptsInv, NEW r \in Scripts!Listed, Scripts!Finishes(r), UNCHANGED <<mode,
         ending>>
  PROVE  ScriptsInv'
<1> USE DEF ScriptsInv
<1>1. /\ where' = [where EXCEPT ![r] = "free"]
      /\ clears' = [q \in Runs |-> IF q = r THEN {} ELSE clears[q] \ {r}]
      /\ caller' = [caller EXCEPT ![r] = None]
      /\ stop' = stop \ {r} /\ told' = told \ {r} /\ crossing' = crossing \ {r}
      /\ listed' = Scripts!RemoveFirst(listed, r)
  BY DEF Scripts!Finishes
<1>2. /\ listed' \in Seq(Runs) /\ Scripts!IsInjective(listed)'
      /\ Len(listed') = Len(listed) - 1
      /\ Scripts!Listed' = Scripts!Listed \ {r}
      /\ \A i, j \in 1..Len(listed') : i < j =>
           \E k, l \in 1..Len(listed) :
             k < l /\ listed'[i] = listed[k] /\ listed'[j] = listed[l]
  BY <1>1, ListWithout
<1>3. /\ Scripts!Listed \subseteq Runs /\ r \in Runs
      /\ where \in [Runs -> Scripts!Phases] /\ caller \in [Runs -> Runs \cup {None}]
      /\ Len(listed) \in Nat
  BY DEF Scripts!TypeOK, Scripts!Listed, Scripts!Range
<1>4. /\ where' \in [Runs -> Scripts!Phases] /\ caller' \in [Runs -> Runs \cup {None}]
      /\ \A q \in Runs : where'[q] = IF q = r THEN "free" ELSE where[q]
      /\ \A q \in Runs : caller'[q] = IF q = r THEN None ELSE caller[q]
  BY <1>1, <1>3 DEF Scripts!Phases
<1>5. Scripts!TypeOK'
  BY <1>1, <1>2, <1>3, <1>4 DEF Scripts!TypeOK
<1>6. ModeOf'
  BY <1>1, <1>2, <1>3, <1>4 DEF ModeOf
<1>7. OneRuns'
  BY <1>2, <1>3, <1>4 DEF OneRuns, Scripts!In
<1>8. Restarts'
  BY <1>1, <1>2, <1>3, <1>4 DEF Restarts, Goes
<1>9. Newer'
  <2> SUFFICES ASSUME NEW i \in 1..Len(listed'), NEW j \in 1..Len(listed'), i < j,
                      where'[listed'[i]] = "yields"
               PROVE  listed'[j] \in crossing'
    BY DEF Newer
  <2>1. PICK k, l \in 1..Len(listed) : k < l /\ listed'[i] = listed[k] /\ listed'[j] = listed[l]
    BY <1>2
  <2>2. listed'[i] \in Runs /\ listed'[j] \in Scripts!Listed'
    BY <1>2 DEF Scripts!Listed, Scripts!Range
  <2>3. where[listed[k]] = "yields"
    BY <1>4, <2>1, <2>2
  <2> QED
    BY <1>1, <1>2, <2>1, <2>2, <2>3 DEF Newer
<1>10. AllStopped'
  BY <1>1, <1>2 DEF AllStopped
<1> QED
  BY <1>5, <1>6, <1>7, <1>8, <1>9, <1>10

(* The task of a run starts when nothing else of the script runs, or is to *)
(* run; one that was told to stop ends.                                    *)
LEMMA StartsInv ==
  ASSUME ScriptsInv, NEW r \in Scripts!Listed, Scripts!Starts(r), UNCHANGED <<mode,
         ending>>,
         r \notin stop => /\ Scripts!In("runs") = {}
                          /\ mode = "restart" => \A s \in Scripts!Listed : Goes(s) => s = r
  PROVE  ScriptsInv'
<1>1. CASE r \in stop
  BY <1>1, FinishesInv DEF Scripts!Starts
<1>2. CASE r \notin stop
  <2> USE DEF ScriptsInv
  <2>1. /\ where' = [where EXCEPT ![r] = "runs"]
        /\ UNCHANGED <<listed, clears, caller, stop, told, crossing>>
    BY <1>2 DEF Scripts!Starts
  <2>2. /\ Scripts!Listed' = Scripts!Listed /\ Scripts!Listed \subseteq Runs /\ r \in Runs
        /\ where \in [Runs -> Scripts!Phases] /\ listed \in Seq(Runs)
    BY <2>1 DEF Scripts!TypeOK, Scripts!Listed, Scripts!Range
  <2>3. /\ where' \in [Runs -> Scripts!Phases]
        /\ \A q \in Runs : where'[q] = IF q = r THEN "runs" ELSE where[q]
    BY <2>1, <2>2 DEF Scripts!Phases
  <2>4. Scripts!TypeOK'
    BY <2>1, <2>2, <2>3 DEF Scripts!TypeOK
  <2>5. ModeOf'
    BY <2>1, <2>2, <2>3 DEF ModeOf
  <2>6. OneRuns'
    BY <1>2, <2>2, <2>3 DEF OneRuns, Scripts!In
  <2>7. Restarts'
    <3> SUFFICES ASSUME mode = "restart",
                        NEW q \in Scripts!Listed, Goes(q)', NEW s \in Scripts!Listed
                 PROVE  /\ Goes(s)' => q = s
                        /\ where'[q] = "clears" /\ where'[s] = "runs" => s \in clears'[q]
      BY <2>1, <2>2 DEF Restarts
    <3>1. \A x \in Scripts!Listed : Goes(x)' => x = r
      BY <1>2, <2>1, <2>2, <2>3 DEF Goes
    <3>2. q = r /\ where'[q] = "runs"
      BY <2>2, <2>3, <3>1
    <3> QED
      BY <3>1, <3>2
  <2>8. Newer'
    <3>1. \A i \in 1..Len(listed) : listed[i] \in Runs
      BY <2>2
    <3> QED
      BY <2>1, <2>3, <3>1 DEF Newer
  <2>9. AllStopped'
    BY <2>1, <2>2 DEF AllStopped
  <2> QED
    BY <2>4, <2>5, <2>6, <2>7, <2>8, <2>9
<1> QED
  BY <1>1, <1>2

(* The script is called (src/homeassistant/helpers/script.py, async_run).  *)
LEMMA AsyncRunInv ==
  ASSUME ScriptsInv, NEW r \in Runs, NEW q \in Runs \cup {None}, Scripts!AsyncRun(r, q)
  PROVE  ScriptsInv'
<1> USE DEF ScriptsInv
<1>1. /\ where[r] = "free" /\ listed' = Append(listed, r)
      /\ where' = [where EXCEPT ![r] = Scripts!Begins] /\ caller' = [caller EXCEPT ![r] = q]
      /\ crossing' = IF Scripts!In("yields") = {} THEN crossing ELSE crossing \cup {r}
      /\ UNCHANGED <<mode, stop, clears, ending, told>>
      /\ ending # "forbids"
      /\ mode = "single" => listed = <<>>
      /\ mode \in {"restart", "queued"} => q = None
  BY DEF Scripts!AsyncRun, Scripts!MayRun, Scripts!MayRecurse
<1>2. /\ listed \in Seq(Runs) /\ Scripts!IsInjective(listed) /\ r \notin Scripts!Listed
      /\ where \in [Runs -> Scripts!Phases] /\ mode \in Scripts!Modes
      /\ Scripts!Listed \subseteq Runs
  BY <1>1 DEF Scripts!TypeOK, Scripts!Listed, Scripts!Range
<1>3. /\ listed' \in Seq(Runs) /\ Len(listed') = Len(listed) + 1 /\ Len(listed) \in Nat
      /\ \A i \in 1..Len(listed) : listed'[i] = listed[i]
      /\ listed'[Len(listed) + 1] = r
  BY <1>1, <1>2
<1>4. Scripts!Listed' = Scripts!Listed \cup {r}
  BY <1>2, <1>3 DEF Scripts!Listed, Scripts!Range
<1>5. Scripts!IsInjective(listed)'
  BY <1>2, <1>3 DEF Scripts!IsInjective, Scripts!Listed, Scripts!Range
<1>6. /\ mode = "restart" => Scripts!Begins = "yields"
      /\ mode # "restart" => Scripts!Begins \in {"waits", "runs"}
      /\ mode # "queued" => Scripts!Begins # "waits"
      /\ mode = "queued" /\ Scripts!Begins = "runs" => Scripts!In("runs") = {}
      /\ Scripts!Begins \in Scripts!Phases \ {"free"}
  BY <1>2 DEF Scripts!Begins, Scripts!Modes, Scripts!Phases
<1>7. /\ where' \in [Runs -> Scripts!Phases] /\ where'[r] = Scripts!Begins
      /\ \A s \in Runs : s # r => where'[s] = where[s]
      /\ caller' \in [Runs -> Runs \cup {None}]
  BY <1>1, <1>2, <1>6 DEF Scripts!TypeOK
<1>8. Scripts!TypeOK'
  <2>1. crossing' \subseteq Scripts!Listed' /\ stop' \subseteq Scripts!Listed'
    BY <1>1, <1>4 DEF Scripts!TypeOK
  <2>2. \A s \in Runs : where'[s] = "free" <=> s \notin Scripts!Listed'
    BY <1>4, <1>6, <1>7 DEF Scripts!TypeOK
  <2> QED
    BY <1>1, <1>3, <1>5, <1>7, <2>1, <2>2 DEF Scripts!TypeOK
<1>9. ModeOf'
  <2>1. mode = "single" => Len(listed') <= 1
    BY <1>1, <1>3
  <2> QED
    BY <1>1, <1>6, <1>7, <2>1 DEF ModeOf, Scripts!TypeOK
<1>10. OneRuns'
  <2>1. CASE mode = "single"
    <3>1. Scripts!Listed = {}
      BY <1>1, <2>1 DEF Scripts!Listed, Scripts!Range
    <3> QED
      BY <1>4, <3>1 DEF OneRuns, Scripts!In
  <2>2. CASE mode # "single"
    BY <1>1, <1>2, <1>4, <1>6, <1>7, <2>2 DEF OneRuns, Scripts!In, Scripts!Modes
  <2> QED
    BY <2>1, <2>2
<1>11. Restarts'
  BY <1>1, <1>2, <1>4, <1>6, <1>7 DEF Restarts, Goes
<1>12. Newer'
  <2> SUFFICES ASSUME NEW i \in 1..Len(listed'), NEW j \in 1..Len(listed'), i < j,
                      where'[listed'[i]] = "yields"
               PROVE  listed'[j] \in crossing'
    BY DEF Newer
  <2>1. i \in 1..Len(listed) /\ listed'[i] = listed[i] /\ listed[i] \in Scripts!Listed
    BY <1>2, <1>3 DEF Scripts!Listed, Scripts!Range
  <2>2. where[listed[i]] = "yields"
    BY <1>2, <1>7, <2>1
  <2>3. CASE j \in 1..Len(listed)
    BY <1>1, <1>3, <2>1, <2>2, <2>3 DEF Newer
  <2>4. CASE j = Len(listed) + 1
    BY <1>1, <1>3, <2>1, <2>2, <2>4 DEF Scripts!In
  <2> QED
    BY <1>3, <2>3, <2>4
<1>13. AllStopped'
  BY <1>1 DEF AllStopped
<1> QED
  BY <1>8, <1>9, <1>10, <1>11, <1>12, <1>13
(* After the yield a restart stops all others (l. 1710-1724).              *)
LEMMA YieldedInv ==
  ASSUME ScriptsInv, NEW r \in Runs, Scripts!Yielded(r)
  PROVE  ScriptsInv'
<1> USE DEF ScriptsInv
<1>1. /\ where[r] = "yields" /\ UNCHANGED <<mode, ending>> /\ mode = "restart"
      /\ r \in Scripts!Listed /\ r \in Runs
      /\ where \in [Runs -> Scripts!Phases] /\ Scripts!Listed \subseteq Runs
      /\ listed \in Seq(Runs)
  <2>1. where[r] = "yields" /\ UNCHANGED <<mode, ending>>
    BY DEF Scripts!Yielded
  <2>2. mode = "restart"
    BY <2>1 DEF ModeOf
  <2>3. /\ r \in Scripts!Listed /\ where \in [Runs -> Scripts!Phases] /\ listed \in Seq(Runs)
    BY <2>1 DEF Scripts!TypeOK
  <2>4. Scripts!Listed \subseteq Runs
    BY <2>3 DEF Scripts!Listed, Scripts!Range
  <2> QED
    BY <2>1, <2>2, <2>3, <2>4
<1>2. CASE Scripts!Others(r) = {}
  <2>1. Scripts!Starts(r) /\ Scripts!Listed = {r}
    BY <1>1, <1>2 DEF Scripts!Yielded, Scripts!Others
  <2>2. Scripts!In("runs") = {}
    BY <1>1, <2>1 DEF Scripts!In
  <2> QED
    BY <1>1, <2>1, <2>2, StartsInv
<1>3. CASE Scripts!Others(r) # {}
  <2>1. /\ stop' = stop \cup Scripts!Others(r)
        /\ where' = [where EXCEPT ![r] = "clears"]
        /\ clears' = [q \in Runs |-> IF q = r THEN Scripts!Awaited(Scripts!Others(r))
                                              ELSE clears[q] \ {r}]
        /\ UNCHANGED <<listed, caller, told, crossing>>
    BY <1>3 DEF Scripts!Yielded
  <2>2. Scripts!Listed' = Scripts!Listed /\ Scripts!Others(r) = Scripts!Listed \ {r}
    BY <2>1 DEF Scripts!Listed, Scripts!Others
  <2>3. /\ where' \in [Runs -> Scripts!Phases]
        /\ \A q \in Runs : where'[q] = IF q = r THEN "clears" ELSE where[q]
    BY <1>1, <2>1 DEF Scripts!Phases
  <2>4. /\ clears' \in [Runs -> SUBSET Runs]
        /\ clears'[r] = {s \in Scripts!Listed \ {r} : where[s] \in {"runs", "yields"}}
    BY <1>1, <2>1, <2>2 DEF Scripts!Awaited, Scripts!TypeOK
  <2>5. Scripts!TypeOK'
    BY <1>1, <2>1, <2>2, <2>3, <2>4 DEF Scripts!TypeOK
  <2>6. ModeOf'
    BY <1>1, <2>1, <2>3 DEF ModeOf
  <2>7. OneRuns'
    BY <1>1, <2>2, <2>3 DEF OneRuns, Scripts!In
  <2>8. Restarts'
    <3>1. \A s \in Scripts!Listed : Goes(s)' => s = r
      BY <2>1, <2>2 DEF Goes
    <3>2. \A s \in Scripts!Listed : where'[s] = "runs" => s \in clears'[r]
      BY <1>1, <2>2, <2>3, <2>4
    <3> QED
      BY <2>2, <3>1, <3>2 DEF Restarts
  <2>9. Newer'
    <3>1. \A i \in 1..Len(listed) : listed[i] \in Runs
      BY <1>1
    <3> QED
      BY <2>1, <2>3, <3>1 DEF Newer
  <2>10. AllStopped'
    BY <1>1, <2>1, <2>2 DEF AllStopped
  <2> QED
    BY <2>5, <2>6, <2>7, <2>8, <2>9, <2>10
<1> QED
  BY <1>2, <1>3

(* A run goes on: those it waited for have stopped, the lock is its, or it *)
(* is over.                                                                *)
LEMMA GoesOnInv ==
  ASSUME ScriptsInv, NEW r \in Runs,
         Scripts!Cleared(r) \/ Scripts!Acquires(r) \/ Scripts!LeavesQueue(r) \/ Scripts!Ends(r)
  PROVE  ScriptsInv'
<1> USE DEF ScriptsInv
<1>1. \A x \in Runs : where[x] # "free" => x \in Scripts!Listed
  BY DEF Scripts!TypeOK
<1>2. CASE Scripts!Cleared(r)
  <2>1. /\ where[r] = "clears" /\ clears[r] = {} /\ Scripts!Starts(r)
        /\ UNCHANGED <<mode, ending>> /\ mode = "restart" /\ r \in Scripts!Listed
    BY <1>1, <1>2 DEF Scripts!Cleared, ModeOf
  <2>2. ASSUME r \notin stop
        PROVE  /\ Scripts!In("runs") = {}
               /\ \A s \in Scripts!Listed : Goes(s) => s = r
    BY <2>1, <2>2 DEF Restarts, Goes, Scripts!In
  <2> QED
    BY <2>1, <2>2, StartsInv
<1>3. CASE Scripts!Acquires(r)
  <2>1. /\ where[r] = "waits" /\ Scripts!In("runs") = {} /\ Scripts!Starts(r)
        /\ UNCHANGED <<mode, ending>> /\ mode = "queued" /\ r \in Scripts!Listed
    BY <1>1, <1>3 DEF Scripts!Acquires, ModeOf
  <2> QED
    BY <2>1, StartsInv
<1>4. CASE Scripts!LeavesQueue(r) \/ Scripts!Ends(r)
  <2>1. r \in Scripts!Listed /\ Scripts!Finishes(r) /\ UNCHANGED <<mode, ending>>
    BY <1>1, <1>4 DEF Scripts!LeavesQueue, Scripts!Ends
  <2> QED
    BY <2>1, FinishesInv
<1> QED
  BY <1>2, <1>3, <1>4

(* Who called is cancelled. *)
LEMMA CallCancelledInv ==
  ASSUME ScriptsInv, NEW r \in Runs, Scripts!CallCancelled(r)
  PROVE  ScriptsInv'
<1> USE DEF ScriptsInv
<1>1. /\ UNCHANGED <<mode, listed, ending, crossing>> /\ Scripts!Listed' = Scripts!Listed
      /\ where \in [Runs -> Scripts!Phases] /\ caller \in [Runs -> Runs \cup {None}]
      /\ listed \in Seq(Runs) /\ Scripts!Listed \subseteq Runs
      /\ where[r] # "free" => r \in Scripts!Listed
  BY DEF Scripts!CallCancelled, Scripts!TypeOK, Scripts!Listed, Scripts!Range
<1>2. CASE /\ where[r] \in {"runs", "waits"} /\ r \notin told
           /\ stop' = stop \cup {r} /\ told' = told \cup {r}
           /\ UNCHANGED <<where, clears, caller>>
  <2>1. Scripts!TypeOK'
    BY <1>1, <1>2 DEF Scripts!TypeOK
  <2>2. ModeOf' /\ OneRuns' /\ Newer' /\ AllStopped'
    BY <1>1, <1>2 DEF ModeOf, OneRuns, Scripts!In, Newer, AllStopped
  <2>3. Restarts'
    BY <1>1, <1>2 DEF Restarts, Goes
  <2> QED
    BY <2>1, <2>2, <2>3
<1>3. CASE /\ where[r] \in {"yields", "clears"}
           /\ where' = [where EXCEPT ![r] = "dead"]
           /\ clears' = [q \in Runs |-> IF q = r THEN {} ELSE clears[q] \ {r}]
           /\ caller' = [caller EXCEPT ![r] = None]
           /\ UNCHANGED <<stop, told>>
  <2>1. /\ where' \in [Runs -> Scripts!Phases]
        /\ \A q \in Runs : where'[q] = IF q = r THEN "dead" ELSE where[q]
        /\ caller' \in [Runs -> Runs \cup {None}]
        /\ \A q \in Runs : caller'[q] = IF q = r THEN None ELSE caller[q]
        /\ clears' \in [Runs -> SUBSET Runs]
    BY <1>1, <1>3 DEF Scripts!Phases, Scripts!TypeOK
  <2>2. Scripts!TypeOK'
    BY <1>1, <1>3, <2>1 DEF Scripts!TypeOK
  <2>3. mode = "restart"
    BY <1>3 DEF ModeOf
  <2>4. ModeOf'
    BY <1>1, <2>1, <2>3 DEF ModeOf
  <2>5. OneRuns'
    BY <1>1, <2>1 DEF OneRuns, Scripts!In
  <2>6. Restarts'
    BY <1>1, <1>3, <2>1 DEF Restarts, Goes
  <2>7. Newer'
    <3>1. \A i \in 1..Len(listed) : listed[i] \in Runs
      BY <1>1
    <3> QED
      BY <1>1, <2>1, <3>1 DEF Newer
  <2>8. AllStopped'
    BY <1>1, <1>3 DEF AllStopped
  <2> QED
    BY <2>2, <2>4, <2>5, <2>6, <2>7, <2>8
<1> QED
  BY <1>2, <1>3 DEF Scripts!CallCancelled

(* All runs are told to stop. *)
LEMMA StopInv ==
  ASSUME ScriptsInv,
         Scripts!AsyncStop \/ Scripts!StopAtShutdown \/ Scripts!StopAfterShutdown
  PROVE  ScriptsInv'
<1> USE DEF ScriptsInv
<1>1. /\ UNCHANGED <<mode, listed, where, clears, caller, crossing>>
      /\ Scripts!Listed' = Scripts!Listed
      /\ ending' \in {"up", "stopping", "forbids"}
      /\ \/ stop' = Scripts!Listed /\ told' = Scripts!Listed
         \/ ending' = "stopping" /\ UNCHANGED <<stop, told>>
  BY DEF Scripts!AsyncStop, Scripts!StopAtShutdown, Scripts!StopAfterShutdown,
         Scripts!AllTold, Scripts!Listed, Scripts!TypeOK
<1>2. Scripts!TypeOK'
  BY <1>1 DEF Scripts!TypeOK
<1>3. ModeOf' /\ OneRuns' /\ Newer' /\ AllStopped'
  BY <1>1 DEF ModeOf, OneRuns, Scripts!In, Newer, AllStopped
<1>4. Restarts'
  BY <1>1 DEF Restarts, Goes
<1> QED
  BY <1>2, <1>3, <1>4

(* Runs that rest keep the invariant. *)
LEMMA ScriptsSame == ScriptsInv /\ UNCHANGED Scripts!vars => ScriptsInv'
BY DEF ScriptsInv, Scripts!vars, Scripts!TypeOK, Scripts!Listed, ModeOf, OneRuns,
       Scripts!In,
       Newer, AllStopped, Restarts, Goes

(* Every step preserves the invariant. *)
LEMMA ScriptsStep == ScriptsInv /\ Scripts!Next => ScriptsInv'
<1> SUFFICES ASSUME ScriptsInv, Scripts!Next PROVE ScriptsInv'
  OBVIOUS
<1>1. ASSUME NEW r \in Runs, NEW q \in Runs \cup {None}, Scripts!AsyncRun(r, q)
      PROVE  ScriptsInv'
  BY <1>1, AsyncRunInv
<1>2. ASSUME NEW r \in Runs,
             Scripts!Resumes(r) \/ Scripts!Ends(r) \/ Scripts!CallCancelled(r)
      PROVE  ScriptsInv'
  BY <1>2, YieldedInv, GoesOnInv, CallCancelledInv DEF Scripts!Resumes
<1>3. CASE Scripts!AsyncStop \/ Scripts!StopAtShutdown \/ Scripts!StopAfterShutdown
  BY <1>3, StopInv
<1> QED
  BY <1>1, <1>2, <1>3 DEF Scripts!Next

(* What the invariant says of the runs. *)
LEMMA ScriptsSafe ==
  ASSUME ScriptsInv
  PROVE  Scripts!OneAtATime
<1> USE DEF ScriptsInv
<1>1. mode # "parallel" => \A r, s \in Scripts!In("runs") : r = s
  BY DEF OneRuns
<1>2. ASSUME mode = "restart", Scripts!In("yields") = {},
             NEW r \in Scripts!Listed \ (stop \cup Scripts!In("dead")),
             NEW s \in Scripts!Listed \ (stop \cup Scripts!In("dead"))
      PROVE  r = s
  <2>1. \A x \in Scripts!Listed \ (stop \cup Scripts!In("dead")) : Goes(x)
    <3> SUFFICES ASSUME NEW x \in Scripts!Listed \ (stop \cup Scripts!In("dead"))
                 PROVE  where[x] \in {"clears", "runs"} /\ x \notin stop
      BY DEF Goes
    <3>1. x \in Runs /\ where[x] \in Scripts!Phases
      BY DEF Scripts!TypeOK, Scripts!Listed, Scripts!Range
    <3>2. where[x] \notin {"free", "yields", "dead", "waits"}
      BY <1>2, <3>1 DEF Scripts!In, Scripts!TypeOK, ModeOf
    <3> QED
      BY <3>1, <3>2 DEF Scripts!Phases
  <2> QED
    BY <1>2, <2>1 DEF Restarts
<1>3. ASSUME NEW r \in Scripts!Listed
      PROVE  caller[r] \notin clears[r] /\ (where[r] = "waits" => caller[r] = None)
  <2>1. r \in Runs /\ clears[r] \subseteq Runs /\ None \notin Runs
    BY CoreAssumption DEF Scripts!TypeOK, Scripts!Listed, Scripts!Range
  <2> QED
    BY <2>1 DEF ModeOf
<1>4. ending = "forbids" => Scripts!Listed \subseteq stop
  BY DEF AllStopped
<1> QED
  BY <1>1, <1>2, <1>3, <1>4 DEF Scripts!OneAtATime

(* A restart does not stop the newest, unless they have crossed.           *)
LEMMA NewestIsLeft ==
  ASSUME ScriptsInv, Scripts!Next, NEW r \in stop' \ stop
  PROVE  r \in told' \cup crossing \/ r # Scripts!Last(listed)
<1> USE DEF ScriptsInv
<1>1. ASSUME NEW s \in Runs, Scripts!Yielded(s)
      PROVE  r \in crossing \/ r # Scripts!Last(listed)
  <2>1. s \in Scripts!Listed /\ where[s] = "yields" /\ listed \in Seq(Runs)
    BY <1>1 DEF Scripts!Yielded, Scripts!TypeOK
  <2>2. r \in Scripts!Listed /\ r # s
    BY <1>1 DEF Scripts!Yielded, Scripts!Starts, Scripts!Finishes, Scripts!Others
  <2>3. PICK i \in 1..Len(listed) : listed[i] = s
    BY <2>1 DEF Scripts!Listed, Scripts!Range
  <2>4. ASSUME r = Scripts!Last(listed) PROVE r \in crossing
    <3>1. Len(listed) \in 1..Len(listed) /\ listed[Len(listed)] = r
      BY <2>1, <2>3, <2>4 DEF Scripts!Last
    <3>2. i < Len(listed)
      BY <2>1, <2>2, <2>3, <3>1
    <3> QED
      BY <2>1, <2>3, <3>1, <3>2 DEF Newer
  <2> QED
    BY <2>4
<1>2. ASSUME NEW s \in Runs, NEW q \in Runs \cup {None}, Scripts!AsyncRun(s, q)
      PROVE  FALSE
  BY <1>2 DEF Scripts!AsyncRun
<1>3. ASSUME NEW s \in Runs, Scripts!Cleared(s) \/ Scripts!Acquires(s)
                             \/ Scripts!LeavesQueue(s) \/ Scripts!Ends(s)
      PROVE  FALSE
  BY <1>3 DEF Scripts!Cleared, Scripts!Acquires, Scripts!LeavesQueue, Scripts!Ends,
              Scripts!Starts, Scripts!Finishes
<1>4. ASSUME NEW s \in Runs, Scripts!CallCancelled(s) PROVE r \in told'
  BY <1>4 DEF Scripts!CallCancelled
<1>5. CASE Scripts!AsyncStop \/ Scripts!StopAtShutdown \/ Scripts!StopAfterShutdown
  BY <1>5 DEF Scripts!AsyncStop, Scripts!StopAtShutdown, Scripts!StopAfterShutdown,
              Scripts!AllTold
<1> QED
  BY <1>1, <1>2, <1>3, <1>4, <1>5 DEF Scripts!Next, Scripts!Resumes
-----------------------------------------------------------------------------
(* The five parts together.                                                *)
CoreInv ==
  /\ DebouncerInv /\ IndInv /\ LifeInv
  /\ ComponentsInv /\ Resolves /\ Reaches
  /\ ScriptsInv

(* The assumption on the constants of a store. *)
LEMMA StoreConstants == StoreConstantsOK
BY CoreAssumption

(* A store keeps its invariant, also while it rests. *)
LEMMA StoreStep ==
  ASSUME IndInv, [Next]_vars
  PROVE  IndInv'
BY StoreConstants, TypeStep, CoverageStep, ContentsStep DEF IndInv

(* Every part begins well. *)
LEMMA CoreInitInv == CoreInit => CoreInv
BY StoreConstants, DebouncerInit, InitIsInvariant, LifeInit, ComponentsInit, AnswersInit,
   ScriptsInit
   DEF CoreInit, CoreInv

(* A step is a step of one part, and leaves the others alone. *)
LEMMA CoreStep == CoreInv /\ [CoreNext]_allVars => CoreInv'
<1> SUFFICES ASSUME CoreInv, [CoreNext]_allVars PROVE CoreInv'
  OBVIOUS
<1>1. DebouncerInv /\ IndInv /\ LifeInv /\ ComponentsInv /\ ScriptsInv
  BY DEF CoreInv
<1>2. DebouncerInv'
  <2>1. CASE UNCHANGED ofDebouncer
    BY <1>1, <2>1, DebouncerSame
  <2>2. CASE OfDebouncer(D!Next)
    BY <1>1, <2>2, DebouncerStep DEF OfDebouncer
  <2> QED
    BY <2>1, <2>2 DEF CoreNext, OfStore, OfEntity, OfComponents, OfScripts, allVars
<1>3. IndInv'
  <2>1. CASE UNCHANGED vars
    BY <1>1, <2>1, StoreStep
  <2>2. CASE OfStore(Next)
    BY <1>1, <2>2, StoreStep DEF OfStore
  <2> QED
    BY <2>1, <2>2 DEF CoreNext, OfDebouncer, OfEntity, OfComponents, OfScripts, allVars
<1>4. LifeInv'
  <2>1. CASE UNCHANGED ofEntity
    <3>1. UNCHANGED Life!vars
      BY <2>1 DEF ofEntity, Life!vars, Life!removal
    <3> QED
      BY <1>1, <3>1, LifeSame
  <2>2. CASE OfEntity(Life!Next)
    BY <1>1, <2>2, LifeStep DEF OfEntity
  <2> QED
    BY <2>1, <2>2 DEF CoreNext, OfDebouncer, OfStore, OfComponents, OfScripts, allVars
<1>5. ComponentsInv'
  <2>1. CASE UNCHANGED ofComponents
    <3>1. UNCHANGED Components!vars
      BY <2>1 DEF ofComponents, Components!vars, Components!manifests
    <3> QED
      BY <1>1, <3>1, ComponentsSame
  <2>2. CASE OfComponents(Components!Next)
    BY <1>1, <2>2, ComponentsStep DEF OfComponents
  <2> QED
    BY <2>1, <2>2 DEF CoreNext, OfDebouncer, OfStore, OfEntity, OfScripts, allVars
<1>6. ScriptsInv'
  <2>1. CASE UNCHANGED ofScripts
    BY <1>1, <2>1, ScriptsSame DEF ofScripts, Scripts!vars
  <2>2. CASE OfScripts(Scripts!Next)
    BY <1>1, <2>2, ScriptsStep DEF OfScripts
  <2> QED
    BY <2>1, <2>2 DEF CoreNext, OfDebouncer, OfStore, OfEntity, OfComponents, allVars
<1>7. Resolves' /\ Reaches'
  <2>1. Components!TypeOK /\ Resolves /\ Reaches
    BY DEF CoreInv, ComponentsInv
  <2>2. CASE UNCHANGED ofComponents
    <3>1. UNCHANGED Components!vars
      BY <2>2 DEF ofComponents, Components!vars, Components!manifests
    <3> QED
      BY <2>1, <3>1, AnswersSame
  <2>3. CASE OfComponents(Components!Next)
    BY <2>1, <2>3, AnswersStep DEF OfComponents
  <2> QED
    BY <2>2, <2>3 DEF CoreNext, OfDebouncer, OfStore, OfEntity, OfScripts, allVars
<1> QED
  BY <1>2, <1>3, <1>4, <1>5, <1>6, <1>7 DEF CoreInv

(* Every reachable state satisfies the five invariants, whatever the parts  *)
(* do and however long they run.                                            *)
THEOREM Invariance == CoreSpec => []CoreInv
BY CoreInitInv, CoreStep, PTL DEF CoreSpec

-----------------------------------------------------------------------------
(* A remembered request always has a timer that will serve it (l. 95-135 of *)
(* helpers/debounce.py).                                                    *)
THEOREM RequestIsArmed == CoreSpec => []RememberedIsArmed
<1>1. CoreInv => RememberedIsArmed
  BY DEF CoreInv, DebouncerInv, RememberedIsArmed
<1> QED
  BY <1>1, Invariance, PTL

(* _schedule_timer never overwrites a handle whose timer is still set. *)
THEOREM NoTimerEscapes == CoreSpec => []D!OneTimer
<1>1. CoreInv => D!OneTimer
  BY DEF CoreInv, DebouncerInv
<1> QED
  BY <1>1, Invariance, PTL

(* The aborts for a timer set while a caller waited for the lock are dead. *)
THEOREM AbortsAreDead == CoreSpec => []D!NoTimerDuringRun
<1>1. CoreInv => D!NoTimerDuringRun
  BY DEF CoreInv, DebouncerInv
<1> QED
  BY <1>1, Invariance, PTL

(* Runs of the function are a cooldown apart, unless async_cancel cut the   *)
(* cooldown short.                                                          *)
THEOREM RateIsLimited == CoreSpec => RateLimited
<1>1. CoreInv /\ [CoreNext]_allVars => [ran' => sinceEnd = Cooldown \/ released]_(D!vars)
  <2> SUFFICES ASSUME CoreInv, [CoreNext]_allVars, ~UNCHANGED D!vars, ran'
               PROVE  sinceEnd = Cooldown \/ released
    OBVIOUS
  <2>1. D!Next
    BY DEF CoreNext, OfDebouncer, OfStore, OfEntity, OfComponents, OfScripts, allVars,
           ofDebouncer, D!vars
  <2> QED
    BY <2>1, RateStep DEF CoreInv
<1> QED
  BY <1>1, Invariance, PTL DEF CoreSpec, RateLimited, D!RateLimited

(* A remembered request is never dropped by a timer that finds a run in     *)
(* progress: it ends in a run or in a cancel.                               *)
THEOREM RequestsAreKept == CoreSpec => D!NeverForgotten
<1>1. CoreInv /\ [CoreNext]_allVars
        => [executeAtEnd /\ ~executeAtEnd' => ran' \/ D!Cancel \/ D!Shutdown]_(D!vars)
  <2> SUFFICES ASSUME CoreInv, [CoreNext]_allVars, ~UNCHANGED D!vars,
                      executeAtEnd, ~executeAtEnd'
               PROVE  ran' \/ D!Cancel \/ D!Shutdown
    OBVIOUS
  <2>1. D!Next
    BY DEF CoreNext, OfDebouncer, OfStore, OfEntity, OfComponents, OfScripts, allVars,
           ofDebouncer, D!vars
  <2> QED
    BY <2>1, KeptStep DEF CoreInv
<1> QED
  BY <1>1, Invariance, PTL DEF CoreSpec, D!NeverForgotten

-----------------------------------------------------------------------------
(* What is pending in a store will be written: by a task that waits for the *)
(* lock, by the timer or by the final write (l. 407-567 of                  *)
(* helpers/storage.py).                                                     *)
THEOREM SaveIsCoveredHere == CoreSpec => []PendingIsCovered
<1>1. CoreInv => PendingIsCovered
  BY DEF CoreInv, IndInv, Coverage
<1> QED
  BY <1>1, Invariance, PTL

(* When nothing is pending and no thread writes, the file holds what is in  *)
(* memory; a load finds what was in memory when it began, or newer.         *)
THEOREM NoSaveIsLost == CoreSpec => []SavesAreFound
<1>1. CoreInv => SavesAreFound
  <2> SUFFICES ASSUME CoreInv PROVE SavesAreFound
    OBVIOUS
  <2>1. NothingForgotten
    BY DEF CoreInv, IndInv, Contents, NothingForgotten, Saved, InOrder, Alive
  <2>2. LoadSeesLatest
    BY StoreConstants, LoadFinds DEF CoreInv
  <2> QED
    BY <2>1, <2>2 DEF SavesAreFound
<1> QED
  BY <1>1, Invariance, PTL

(* Through callers that overtake each other, stops, crashes and restarts    *)
(* the file follows the data as SavedCopy promises.                         *)
THEOREM TheStoreKeepsItsWord == CoreSpec => ImplementsContract
<1>1. CoreInit => Contract!Init
  <2> SUFFICES ASSUME CoreInit PROVE Contract!Init
    OBVIOUS
  <2>1. Init
    BY DEF CoreInit
  <2>2. ~Alive /\ ~Excused
    BY <2>1 DEF Init, Fresh, Alive, Up, Excused, Adrift
  <2> QED
    BY <2>1, <2>2 DEF Init, Fresh, Contract!Init
<1>2. CoreInv /\ CoreInv' /\ [CoreNext]_allVars => [Contract!Next]_(Contract!vars)
  <2> SUFFICES ASSUME CoreInv, CoreInv', [CoreNext]_allVars
               PROVE  [Contract!Next]_(Contract!vars)
    OBVIOUS
  <2>1. [Next]_vars
    BY DEF CoreNext, OfDebouncer, OfStore, OfEntity, OfComponents, OfScripts, allVars
  <2>2. IndInv /\ IndInv'
    BY DEF CoreInv
  <2> QED
    BY <2>1, <2>2, StoreConstants, ContractStep
<1> QED
  BY <1>1, <1>2, Invariance, PTL DEF CoreSpec, ImplementsContract, Contract!Spec

-----------------------------------------------------------------------------
(* No object that left shows a state, two are not added at once, and what   *)
(* is loaded is shown, through reloads, renames, removals and disablings    *)
(* that cross (l. 474-733 of helpers/entity_platform.py).                   *)
THEOREM ObjectsAndStatesAgree == CoreSpec => []NoGhost
<1>1. CoreInv => NoGhost
  BY LifeSafe DEF CoreInv, NoGhost
<1> QED
  BY <1>1, Invariance, PTL

(* What the last load left behind does not keep the object of the next one  *)
(* out.                                                                      *)
THEOREM AReloadAdds == CoreSpec => NewOneIsAdded
<1>1. CoreInv /\ [CoreNext]_allVars
        => [load' # load /\ ~crossed /\ failed = {} /\ ~disabled => load' \in placed']_(Life!vars)
  <2> SUFFICES ASSUME CoreInv, [CoreNext]_allVars, ~UNCHANGED Life!vars,
                      load' # load, ~crossed, failed = {}, ~disabled
               PROVE  load' \in placed'
    OBVIOUS
  <2>1. Life!Next
    BY DEF CoreNext, OfDebouncer, OfStore, OfEntity, OfComponents, OfScripts, allVars,
           ofEntity, Life!vars
  <2> QED
    BY <2>1, LoadAdds DEF CoreInv
<1> QED
  BY <1>1, Invariance, PTL DEF CoreSpec, NewOneIsAdded, Life!NewOneIsAdded

-----------------------------------------------------------------------------
(* A component is set up once, after those it depends on and after its      *)
(* after_dependencies, for any graph of either (l. 141-414 of setup.py).    *)
THEOREM SetupFollowsDependencies == CoreSpec => []DependenciesFirst
<1>1. CoreInv => DependenciesFirst
  BY DEF CoreInv, ComponentsInv, DependenciesFirst
<1> QED
  BY <1>1, Invariance, PTL

(* Who asks for a component is answered: for any finite number of them and  *)
(* any dependencies, until all have their answer the setup of one can go    *)
(* on, unless two after_dependencies lead to each other.  A setup waits for *)
(* none that waits for it, since resolve_dependencies has refused circles   *)
(* with one after_dependency or none (l. 141-414 of setup.py, l. 1582-1623  *)
(* of loader.py).                                                           *)
THEOREM WhoAsksIsAnswered == CoreSpec => []AskedIsAnswered
<1>1. CoreInv => AskedIsAnswered
  BY StepOrCircle DEF CoreInv, ComponentsInv, AskedIsAnswered
<1> QED
  BY <1>1, Invariance, PTL

(* Nor can they go on for ever: no setup goes back, and each step brings    *)
(* one further or asks for another component.  With the theorem above: in   *)
(* every behaviour, once nobody asks for more, all are answered after       *)
(* finitely many steps of the setups (l. 141-414 of setup.py).              *)
THEOREM SetupsEnd == CoreSpec => Components!SetupsAdvance
<1>1. CoreInv /\ [CoreNext]_allVars
        => [ /\ asked \subseteq asked'
             /\ \A d \in Domains : Components!Rank(stage[d]) <= Components!Rank(stage'[d])
             /\ \/ asked # asked'
                \/ \E d \in Domains : Components!Rank(stage[d]) < Components!Rank(stage'[d])
           ]_(Components!vars)
  <2> SUFFICES ASSUME CoreInv, [CoreNext]_allVars, ~UNCHANGED Components!vars
               PROVE  /\ asked \subseteq asked'
                      /\ \A d \in Domains :
                           Components!Rank(stage[d]) <= Components!Rank(stage'[d])
                      /\ \/ asked # asked'
                         \/ \E d \in Domains :
                              Components!Rank(stage[d]) < Components!Rank(stage'[d])
    OBVIOUS
  <2>1. Components!Next
    BY DEF CoreNext, OfDebouncer, OfStore, OfEntity, OfComponents, OfScripts, allVars,
           ofComponents, Components!vars, Components!manifests
  <2> QED
    BY <2>1, SetupAdvances DEF CoreInv, ComponentsInv
<1> QED
  BY <1>1, Invariance, PTL DEF CoreSpec, Components!SetupsAdvance

-----------------------------------------------------------------------------
(* Two runs of a script overlap in parallel mode only, none waits for       *)
(* itself, and the stop leaves none (l. 1697-1852 of helpers/script.py).    *)
THEOREM RunsDoNotOverlap == CoreSpec => []OneAtATime
<1>1. CoreInv => OneAtATime
  BY ScriptsSafe DEF CoreInv, OneAtATime
<1> QED
  BY <1>1, Invariance, PTL

(* An older restart never stops the newest one. *)
THEOREM TheNewestStays == CoreSpec => NewestWins
<1> DEFINE A == \A r \in stop' \ stop : r \in told' \cup crossing \/ r # Scripts!Last(listed)
<1>1. CoreInv /\ [CoreNext]_allVars => [A]_allVars
  <2> SUFFICES ASSUME CoreInv, [CoreNext]_allVars, NEW r \in stop' \ stop
               PROVE  r \in told' \cup crossing \/ r # Scripts!Last(listed)
    OBVIOUS
  <2>1. Scripts!Next
    BY DEF CoreNext, OfDebouncer, OfStore, OfEntity, OfComponents, OfScripts, allVars,
           ofScripts
  <2> QED
    BY <2>1, NewestIsLeft DEF CoreInv
<1> QED
  BY <1>1, Invariance, PTL DEF CoreSpec, NewestWins
=============================================================================
