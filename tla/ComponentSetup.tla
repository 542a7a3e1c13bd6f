--------------------------- MODULE ComponentSetup ---------------------------
(***************************************************************************)
(* Setting up the components of one stage of the bootstrap:                *)
(* async_setup_component (src/homeassistant/setup.py), with the validation *)
(* of the dependencies (src/homeassistant/loader.py).                      *)
(*                                                                         *)
(* A setup is one future which everybody who asks for the component shares.*)
(* It sets up the dependencies first, and waits for those                  *)
(* after_dependencies that are to be loaded and not done yet.  A setup that*)
(* has failed is never tried again.                                        *)
(*                                                                         *)
(* Left out: platforms, the flows that process dependencies on their own,  *)
(* and the timeouts of the stage and of a setup, which cancel.             *)
(***************************************************************************)
EXTENDS Naturals, FiniteSets

CONSTANTS Domains,
          MaxEdges    \* bound of the dependencies in a graph

VARIABLES deps,        \* dependencies in the manifests
          after,       \* after_dependencies in the manifests
          asked,       \* who has been asked for
          stage,       \* how far _async_setup_component is
          setupFuture, \* DATA_SETUP: what who has asked waits for
          doneFuture,  \* DATA_SETUP_DONE: what after-dependents wait for
          toBeLoaded,  \* the keys of DATA_SETUP_DONE
          waitsFor,    \* the futures of dependencies a setup gathers
          waitsAfter,  \* the futures of after_dependencies it gathers
          components,  \* hass.config.components
          runs         \* history: how often the component's own setup began

manifests == <<deps, after>>
vars == <<manifests, asked, stage, setupFuture, doneFuture, toBeLoaded,
          waitsFor, waitsAfter, components, runs>>

Future == {"none", "pending", "true", "false", "raised"}
Over(f) == f \in {"true", "false", "raised"}

TypeOK ==
  /\ deps \in [Domains -> SUBSET Domains]
  /\ after \in [Domains -> SUBSET Domains]
  /\ asked \in SUBSET Domains
  /\ stage \in [Domains -> {"none", "waiting", "running", "entries", "over"}]
  /\ setupFuture \in [Domains -> Future]
  /\ doneFuture \in [Domains -> Future]
  /\ toBeLoaded \in SUBSET Domains
  /\ waitsFor \in [Domains -> SUBSET Domains]
  /\ waitsAfter \in [Domains -> SUBSET Domains]
  /\ components \in SUBSET Domains
  /\ runs \in [Domains -> Nat]

-----------------------------------------------------------------------------
\* What d depends on, directly or not.
AllDependencies(d) ==
  {q \in Domains : \A S \in SUBSET Domains :
     (deps[d] \subseteq S /\ \A p \in S : deps[p] \subseteq S) => q \in S}

\* resolve_dependencies raises CircularDependency: on a circle, and on a
\* dependency that is to come after what is being resolved.  (If a dependency is
\* to come after another one, which depends on it, it raises or not depending on
\* the order of its visits.  Start may fail in any case.)
Circular(d) ==
  \E q \in AllDependencies(d) : q \in AllDependencies(q) \/ d \in after[q]

\* The manifests: any, within the bound.
Edges(g) == {e \in Domains \X Domains : e[2] \in g[e[1]]}
Manifests == {g \in [Domains -> SUBSET Domains] : \A d \in Domains : d \notin g[d]}

\* The stage begins: async_set_domains_to_be_loaded and a task for each domain.
Init ==
  /\ deps \in Manifests /\ after \in Manifests
  /\ Cardinality(Edges(deps)) + Cardinality(Edges(after)) <= MaxEdges
  /\ toBeLoaded \in SUBSET Domains
  /\ \A d \in toBeLoaded : Circular(d) \/ AllDependencies(d) \subseteq toBeLoaded
  /\ asked = toBeLoaded
  /\ stage = [d \in Domains |-> "none"]
  /\ setupFuture = [d \in Domains |-> "none"]
  /\ doneFuture = [d \in Domains |-> IF d \in toBeLoaded THEN "pending" ELSE "none"]
  /\ waitsFor = [d \in Domains |-> {}]
  /\ waitsAfter = [d \in Domains |-> {}]
  /\ components = {}
  /\ runs = [d \in Domains |-> 0]

-----------------------------------------------------------------------------
\* A flow or another integration asks for d, and waits for the future that is
\* there if there is one.
Ask(d) ==
  /\ d \notin asked
  /\ asked' = asked \cup {d}
  /\ UNCHANGED <<manifests, stage, setupFuture, doneFuture, toBeLoaded,
                 waitsFor, waitsAfter, components, runs>>

\* Mutation: who fails may be asked for again.
FinishForgets(d, result) ==
  /\ stage' = [stage EXCEPT ![d] = "over"]
  /\ setupFuture' = [setupFuture EXCEPT ![d] = IF result = "true" THEN result ELSE "none"]
  /\ doneFuture' = IF d \in toBeLoaded THEN [doneFuture EXCEPT ![d] = result] ELSE doneFuture
  /\ toBeLoaded' = toBeLoaded \ {d}

\* Mutation: only who succeeds tells those that come after.
FinishKeepsDone(d, result) ==
  /\ stage' = [stage EXCEPT ![d] = "over"]
  /\ setupFuture' = [setupFuture EXCEPT ![d] = result]
  /\ IF d \in toBeLoaded /\ result = "true"
       THEN /\ doneFuture' = [doneFuture EXCEPT ![d] = result]
            /\ toBeLoaded' = toBeLoaded \ {d}
       ELSE UNCHANGED <<doneFuture, toBeLoaded>>

\* The end of async_setup_component: both futures are resolved.
Finish(d, result) ==
  /\ stage' = [stage EXCEPT ![d] = "over"]
  /\ setupFuture' = [setupFuture EXCEPT ![d] = result]
  /\ doneFuture' = IF d \in toBeLoaded THEN [doneFuture EXCEPT ![d] = result] ELSE doneFuture
  /\ toBeLoaded' = toBeLoaded \ {d}

\* The component's own setup begins.
Run(d) ==
  /\ stage' = [stage EXCEPT ![d] = "running"]
  /\ runs' = [runs EXCEPT ![d] = @ + 1]

\* Those of the dependencies, and of the after_dependencies, d has to wait for.
Missing(d) == deps[d] \ components

\* Mutation: an after_dependency is waited for once it has been started.
PendingOnceStarted(d) ==
  {x \in ((after[d] \cap toBeLoaded) \ components) \ Missing(d) : setupFuture[x] # "none"}

Pending(d) == ((after[d] \cap toBeLoaded) \ components) \ Missing(d)

\* Asked for, and no setup of it is under way or over.
MayStart(d) == d \in asked \ components /\ setupFuture[d] = "none"

\* async_setup_component: the integration is missing, disabled or circular, or
\* its dependencies are gathered.
Start(d) ==
  /\ MayStart(d)
  /\ \/ /\ Finish(d, "false")
        /\ UNCHANGED <<asked, waitsFor, waitsAfter, runs>>
     \/ /\ ~Circular(d)
        /\ setupFuture' = [setupFuture EXCEPT ![d] = "pending"]
        /\ waitsFor' = [waitsFor EXCEPT ![d] = Missing(d)]
        /\ waitsAfter' = [waitsAfter EXCEPT ![d] = Pending(d)]
        /\ asked' = asked \cup Missing(d)
        /\ IF Missing(d) \cup Pending(d) = {}
             THEN Run(d)
             ELSE /\ stage' = [stage EXCEPT ![d] = "waiting"]
                  /\ UNCHANGED runs
        /\ UNCHANGED <<doneFuture, toBeLoaded>>
  /\ UNCHANGED <<manifests, components>>

Gathered(d) ==
  {setupFuture[x] : x \in waitsFor[d]} \cup {doneFuture[x] : x \in waitsAfter[d]}

\* asyncio.gather goes on at the first exception, or when all have a result.
GatherOver(d) ==
  /\ stage[d] = "waiting"
  /\ "raised" \in Gathered(d) \/ \A f \in Gathered(d) : f \in {"true", "false"}

\* The gather is over: with an exception, with a dependency that has failed, or
\* with all there.
DependenciesDone(d) ==
  /\ stage[d] = "waiting"
  /\ \/ /\ "raised" \in Gathered(d)
        /\ Finish(d, "raised")
        /\ UNCHANGED runs
     \/ /\ \A f \in Gathered(d) : f \in {"true", "false"}
        /\ IF \E x \in waitsFor[d] : setupFuture[x] = "false"
             THEN Finish(d, "false") /\ UNCHANGED runs
             ELSE Run(d) /\ UNCHANGED <<setupFuture, doneFuture, toBeLoaded>>
  /\ UNCHANGED <<manifests, asked, waitsFor, waitsAfter, components>>

\* The requirements, the configuration or the component's own setup fail, or one
\* of them raises what nobody expects.
SetupFails(d) ==
  /\ stage[d] = "running"
  /\ Finish(d, "false") \/ Finish(d, "raised")
  /\ UNCHANGED <<manifests, asked, waitsFor, waitsAfter, components, runs>>

\* The component is set up, and its config entries are next.
SetupSucceeds(d) ==
  /\ stage[d] = "running"
  /\ components' = components \cup {d}
  /\ stage' = [stage EXCEPT ![d] = "entries"]
  /\ UNCHANGED <<manifests, asked, setupFuture, doneFuture, toBeLoaded,
                 waitsFor, waitsAfter, runs>>

\* They are set up.
EntriesDone(d) ==
  /\ stage[d] = "entries"
  /\ Finish(d, "true")
  /\ UNCHANGED <<manifests, asked, waitsFor, waitsAfter, components, runs>>

Step(d) ==
  Start(d) \/ DependenciesDone(d) \/ SetupFails(d) \/ SetupSucceeds(d) \/ EntriesDone(d)

\* When a step of d can be taken.
MayGoOn(d) == MayStart(d) \/ GatherOver(d) \/ stage[d] \in {"running", "entries"}

\* What d waits for in the end, by way of either kind of dependency.
WayOf(d) ==
  {q \in Domains : \A S \in SUBSET Domains :
     (d \in S /\ \A p \in S : deps[p] \cup after[p] \subseteq S) => q \in S}

\* Two after_dependencies lead to each other.
Circle ==
  \E e, f \in Edges(after) : e # f /\ f[1] \in WayOf(e[2]) /\ e[1] \in WayOf(f[2])

\* Everybody who has asked has an answer, or waits in a circle until the timeout
\* of the stage.
AllOver == \A d \in asked : Over(setupFuture[d])
Finished == (AllOver \/ Circle) /\ UNCHANGED vars

Next == (\E d \in Domains : Ask(d) \/ Step(d)) \/ Finished

Spec == Init /\ [][Next]_vars

-----------------------------------------------------------------------------
\* A component is set up, and its setup begins, with all its dependencies there.
DependenciesFirst ==
  \A d \in Domains :
    d \in components \/ stage[d] \in {"running", "entries"} => deps[d] \subseteq components

\* While a setup runs, no after_dependency is still to come.
AfterDependenciesFirst ==
  \A d \in Domains :
    stage[d] \in {"running", "entries"} => after[d] \cap toBeLoaded \subseteq components

\* However many ask, a component's own setup begins once.
SetUpOnce == \A d \in Domains : runs[d] <= 1

\* Nobody who asks waits for himself, or for what will not come, unless by way of
\* two after_dependencies: until all have their answer a setup goes on, and each
\* step of it brings its component nearer to the end.
AskedIsAnswered == AllOver \/ Circle \/ \E d \in Domains : MayGoOn(d)

\* Nor can they go on for ever: no setup goes back, and whatever happens brings one
\* further or asks for another component.
Rank(s) ==
  IF s = "none" THEN 0 ELSE IF s = "waiting" THEN 1 ELSE IF s = "running" THEN 2
  ELSE IF s = "entries" THEN 3 ELSE 4

SetupsAdvance ==
  [][ /\ asked \subseteq asked' /\ \A d \in Domains : Rank(stage[d]) <= Rank(stage'[d])
      /\ asked # asked' \/ \E d \in Domains : Rank(stage[d]) < Rank(stage'[d]) ]_vars
=============================================================================
