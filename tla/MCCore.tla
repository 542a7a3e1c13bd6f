------------------------------- MODULE MCCore -------------------------------
(***************************************************************************)
(* Five parts of Home Assistant side by side: the debouncer, a file of     *)
(* .storage, the life of an entity, the setup of components and the runs   *)
(* of a script.  They share no state, so that interleaving them adds       *)
(* nothing: each behaviour is one of one of them, chosen at the start,     *)
(* while the others rest in an initial state.                              *)
(***************************************************************************)
EXTENDS Store

CONSTANTS Timers, NoTimer, Cooldown,
          MaxLoads, Ids, Reserved, Restored,
          Domains, MaxEdges,
          Runs, MaxRuns

VARIABLES part,
          immediate, timer, armed, left, executeAtEnd, executing, shutdown, ran,
          sinceEnd, released,
          load, phase, object, id, placed, adding, removing, forced, again,
          unloading, states, registry, disabled, failed, crossed,
          deps, after, asked, stage, setupFuture, doneFuture, toBeLoaded,
          waitsFor, waitsAfter, components, runs,
          mode, listed, where, stop, clears, caller, ending, told, crossing

D == INSTANCE Debouncer WITH pending <- armed
Life == INSTANCE EntityLife
Components == INSTANCE ComponentSetup
Scripts == INSTANCE ScriptRuns WITH
             runs <- listed, phase <- where, hass <- ending, crossed <- crossing

ASSUME CoreAssumption ==
  /\ D!DebouncerConstantsOK
  /\ StoreConstantsOK
  /\ Life!LifeConstantsOK
  /\ IsFiniteSet(Domains)
  /\ None \notin Runs

WithoutComponents ==
  \A d \in Domains : deps[d] = {} /\ after[d] = {} /\ d \notin asked

CoreInit ==
  /\ part \in {"debouncer", "store", "entity", "components", "scripts"}
  /\ D!Init /\ (part # "debouncer" => immediate)
  /\ Init /\ Life!Init
  /\ Components!Init /\ (part # "components" => WithoutComponents)
  /\ Scripts!Init /\ (part # "scripts" => mode = "single")

ofDebouncer == <<immediate, timer, armed, left, executeAtEnd, executing, shutdown,
                 ran, sinceEnd, released>>
ofEntity == <<load, phase, object, id, placed, adding, removing, forced, again,
              unloading, states, registry, disabled, failed, crossed>>
ofComponents == <<deps, after, asked, stage, setupFuture, doneFuture, toBeLoaded,
                  waitsFor, waitsAfter, components, runs>>
ofScripts == <<mode, listed, where, stop, clears, caller, ending, told, crossing>>
allVars == <<part, vars, ofDebouncer, ofEntity, ofComponents, ofScripts>>

OfDebouncer(A) ==
  part = "debouncer" /\ A /\ UNCHANGED <<part, vars, ofEntity, ofComponents, ofScripts>>
OfStore(A) ==
  part = "store" /\ A /\ UNCHANGED <<part, ofDebouncer, ofEntity, ofComponents, ofScripts>>
OfEntity(A) ==
  part = "entity" /\ A /\ UNCHANGED <<part, vars, ofDebouncer, ofComponents, ofScripts>>
OfComponents(A) ==
  part = "components" /\ A /\ UNCHANGED <<part, vars, ofDebouncer, ofEntity, ofScripts>>
OfScripts(A) ==
  part = "scripts" /\ A /\ UNCHANGED <<part, vars, ofDebouncer, ofEntity, ofComponents>>

CoreNext ==
  \/ OfDebouncer(D!Next) \/ OfStore(Next)
  \/ OfEntity(Life!Next) \/ OfComponents(Components!Next)
  \/ OfScripts(Scripts!Next)

\* The fairness of Debouncer, of Store and of ScriptRuns.
Fairness ==
  /\ WF_allVars(OfDebouncer(D!Tick))
  /\ \A t \in Timers : WF_allVars(OfDebouncer(D!TimerFires(t)))
  /\ WF_allVars(OfStore(Progress))
  /\ \A r \in Runs : WF_allVars(OfScripts(Scripts!Resumes(r)))

CoreSpec == CoreInit /\ [][CoreNext]_allVars /\ Fairness

-----------------------------------------------------------------------------
\* The properties of Debouncer (src/homeassistant/helpers/debounce.py): a request
\* that is remembered has a timer that will serve it, ...
RememberedIsArmed == D!RememberedIsArmed

\* ... is not remembered for ever, ...
EventuallyServed == D!EventuallyServed

\* ... and two runs are a cooldown apart, unless it was cancelled.
RateLimited == D!RateLimited

\* Of Store (src/homeassistant/helpers/storage.py): no save is forgotten, and a load
\* finds the last one.
SavesAreFound == NothingForgotten /\ LoadSeesLatest

\* The properties of EntityLife (src/homeassistant/helpers/entity_platform.py):
\* no object that is gone shows a state, two are not there at once, and what is
\* loaded is shown, ...
NoGhost == Life!NoGhost /\ Life!OneObject /\ Life!LoadedIsShown

\* ... as a reload ends with its new object added.
NewOneIsAdded == Life!NewOneIsAdded

\* The properties of ComponentSetup (src/homeassistant/setup.py): a component is
\* set up after those it depends on, and after those of its after_dependencies
\* that are to be loaded; it is set up once, however many ask for it, ...
DependenciesFirst ==
  /\ Components!DependenciesFirst /\ Components!AfterDependenciesFirst
  /\ Components!SetUpOnce

\* ... and who asks is answered, unless after_dependencies make a circle.
AskedIsAnswered == Components!AskedIsAnswered

\* The properties of ScriptRuns (src/homeassistant/helpers/script.py): runs overlap
\* in parallel mode only, none waits for itself, and the stop leaves none, ...
OneAtATime == Scripts!OneAtATime

\* ... the newest restart is not stopped by an older one, ...
NewestWins ==
  [][\A r \in stop' \ stop : r \in told' \cup crossing \/ r # Scripts!Last(listed)]_allVars

\* ... and no run waits for ever.  One stands for all: their names are interchangeable.
RunsGoOn == Scripts!GoesOn(CHOOSE r \in Runs : TRUE)
=============================================================================
