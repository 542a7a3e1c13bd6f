----------------------------- MODULE ScriptRuns -----------------------------
(***************************************************************************)
(* The runs of one script: Script and _ScriptRun                           *)
(* (src/homeassistant/helpers/script.py).  What a call does while the      *)
(* script runs is its mode: nothing (single), stop what runs and run       *)
(* instead (restart), run after it (queued) or beside it (parallel).       *)
(*                                                                         *)
(* A call is a task that adds a run to _runs, in restart mode yields once  *)
(* and waits for the others to stop, and then starts the run in a task of  *)
(* its own.  It may itself be a step of a run of the script.  Services,    *)
(* the stop of Home Assistant and callers that are cancelled stop runs     *)
(* meanwhile.  The steps are left out: a run that was not told to stop     *)
(* goes on for as long as it likes, and calls the script when it likes.    *)
(***************************************************************************)
EXTENDS Naturals, Sequences, SequencesExt

CONSTANTS Runs,    \* bound: runs at a time
          MaxRuns, \* max_runs of the script, where the mode has one
          None

VARIABLES mode,
          runs,     \* _runs, the oldest first
          phase,    \* where each run is; `dead' is one that nobody will start
          stop,     \* the runs whose _stop is set
          clears,   \* whom the call of a run waits for in restart mode
          caller,   \* the run, if any, whose step a call is
          hass,     \* Home Assistant runs, stops, or lets no script start
          told,     \* history: runs stopped by other than a restart
          crossed   \* history: restarts called while another had just yielded

vars == <<mode, runs, phase, stop, clears, caller, hass, told, crossed>>

Modes == {"single", "restart", "queued", "parallel"}
Phases == {"free", "yields", "clears", "waits", "runs", "dead"}
Listed == Range(runs)
In(p) == {r \in Listed : phase[r] = p}

TypeOK ==
  /\ mode \in Modes
  /\ runs \in Seq(Runs) /\ IsInjective(runs)
  /\ phase \in [Runs -> Phases]
  /\ \A r \in Runs : phase[r] = "free" <=> r \notin Listed
  /\ stop \subseteq Listed /\ told \subseteq stop /\ crossed \subseteq Listed
  /\ clears \in [Runs -> SUBSET Runs]
  /\ caller \in [Runs -> Runs \cup {None}]
  /\ hass \in {"up", "stopping", "forbids"}

Init ==
  /\ mode \in Modes
  /\ runs = <<>>
  /\ phase = [r \in Runs |-> "free"]
  /\ stop = {} /\ told = {} /\ crossed = {}
  /\ clears = [r \in Runs |-> {}]
  /\ caller = [r \in Runs |-> None]
  /\ hass = "up"

-----------------------------------------------------------------------------
\* The script is called, from elsewhere or by a step of its own run q.
MayRun ==
  /\ hass # "forbids"
  /\ mode = "single" => runs = <<>>
  /\ mode \in {"queued", "parallel"} => Len(runs) < MaxRuns

\* Mutation: a call may come from a run of the same script in every mode.
MayRecurseAlways == TRUE

\* A call that would wait for, or stop, the run it is part of is refused.
MayRecurse == mode \notin {"restart", "queued"}

\* The phase in which a new run leaves its caller: the steps up to the first await.
Begins ==
  CASE mode = "restart" -> "yields"
    [] mode = "queued" /\ In("runs") \cup In("waits") # {} -> "waits"
    [] OTHER -> "runs"

AsyncRun(r, q) ==
  /\ phase[r] = "free" /\ MayRun
  /\ q # None => q \in In("runs") \ stop /\ q \notin Range(caller) /\ MayRecurse
  /\ runs' = Append(runs, r)
  /\ phase' = [phase EXCEPT ![r] = Begins]
  /\ caller' = [caller EXCEPT ![r] = q]
  /\ crossed' = IF In("yields") = {} THEN crossed ELSE crossed \cup {r}
  /\ UNCHANGED <<mode, stop, clears, hass, told>>

\* A run is over: _finish.
Finishes(r) ==
  /\ runs' = RemoveFirst(runs, r)
  /\ phase' = [phase EXCEPT ![r] = "free"]
  /\ clears' = [q \in Runs |-> IF q = r THEN {} ELSE clears[q] \ {r}]
  /\ caller' = [caller EXCEPT ![r] = None]
  /\ stop' = stop \ {r} /\ told' = told \ {r} /\ crossed' = crossed \ {r}

\* The task of a run starts; one that was told to stop ends before its first step.
Starts(r) ==
  IF r \in stop THEN Finishes(r)
  ELSE /\ phase' = [phase EXCEPT ![r] = "runs"]
       /\ UNCHANGED <<runs, clears, caller, stop, told, crossed>>

\* Mutation: a restart waits for those that were never started, too.
AwaitedAll(S) == S

\* Whom a restart waits for when it stops the runs of S: those that were started,
\* and those that yield, who go on before it does.
Awaited(S) == {s \in S : phase[s] \in {"runs", "yields"}}

\* Mutation: a restart stops only those that were started.
OthersStarted(r) == In("runs") \ {r}

\* Mutation: itself, too.
OthersAndItself(r) == Listed

\* Whom it stops.
Others(r) == Listed \ {r}

\* After the yield, a restart stops all other runs; who yielded first is first.
Yielded(r) ==
  /\ phase[r] = "yields"
  /\ r = Head(SelectSeq(runs, LAMBDA s : phase[s] = "yields"))
  /\ IF Others(r) = {} THEN Starts(r)
     ELSE /\ stop' = stop \cup Others(r)
          /\ phase' = [phase EXCEPT ![r] = "clears"]
          /\ clears' = [q \in Runs |-> IF q = r THEN Awaited(Others(r))
                                                ELSE clears[q] \ {r}]
          /\ UNCHANGED <<runs, caller, told, crossed>>
  /\ UNCHANGED <<mode, hass>>

\* They have stopped.
Cleared(r) ==
  /\ phase[r] = "clears" /\ clears[r] = {}
  /\ Starts(r) /\ UNCHANGED <<mode, hass>>

\* The lock of the queue is free, and passes to the run that has waited longest.
Acquires(r) ==
  /\ phase[r] = "waits" /\ r \notin stop /\ In("runs") = {}
  /\ r = Head(SelectSeq(runs, LAMBDA s : s \notin stop))
  /\ Starts(r) /\ UNCHANGED <<mode, hass>>

\* A run is told to stop while it waits for the lock.
LeavesQueue(r) ==
  /\ phase[r] = "waits" /\ r \in stop
  /\ Finishes(r) /\ UNCHANGED <<mode, hass>>

\* The steps of a run are over, fail, or are cut short by its stop; a step that
\* calls the script is over when the call is.
Ends(r) ==
  /\ phase[r] = "runs" /\ r \notin Range(caller)
  /\ Finishes(r) /\ UNCHANGED <<mode, hass>>

\* Who called is cancelled; if it is a run, because that was told to stop.  The run
\* is told to stop, unless the call has not started its task yet: then nobody will.
CallCancelled(r) ==
  /\ caller[r] # None => caller[r] \in stop
  /\ \/ /\ phase[r] \in {"runs", "waits"} /\ r \notin told
        /\ stop' = stop \cup {r} /\ told' = told \cup {r}
        /\ UNCHANGED <<phase, clears, caller>>
     \/ /\ phase[r] \in {"yields", "clears"}
        /\ phase' = [phase EXCEPT ![r] = "dead"]
        /\ clears' = [q \in Runs |-> IF q = r THEN {} ELSE clears[q] \ {r}]
        /\ caller' = [caller EXCEPT ![r] = None]
        /\ UNCHANGED <<stop, told>>
  /\ UNCHANGED <<mode, runs, hass, crossed>>

\* All runs are told to stop: by a service, when Home Assistant stops, unless the
\* script was made meanwhile, and a minute later, when no more may start.
AllTold == stop' = Listed /\ told' = Listed

AsyncStop ==
  /\ AllTold /\ UNCHANGED <<mode, runs, phase, clears, caller, hass, crossed>>

StopAtShutdown ==
  /\ hass = "up" /\ hass' = "stopping"
  /\ AllTold \/ UNCHANGED <<stop, told>>
  /\ UNCHANGED <<mode, runs, phase, clears, caller, crossed>>

StopAfterShutdown ==
  /\ hass = "stopping" /\ hass' = "forbids" /\ AllTold
  /\ UNCHANGED <<mode, runs, phase, clears, caller, crossed>>

Resumes(r) ==
  \/ Yielded(r) \/ Cleared(r) \/ Acquires(r) \/ LeavesQueue(r)
  \/ r \in stop /\ Ends(r)
  \/ caller[r] # None /\ CallCancelled(r)

Next ==
  \/ \E r \in Runs :
       \/ \E q \in Runs \cup {None} : AsyncRun(r, q)
       \/ Resumes(r) \/ Ends(r) \/ CallCancelled(r)
  \/ AsyncStop \/ StopAtShutdown \/ StopAfterShutdown

\* The event loop resumes every task that may go on, and a step that is told to
\* stop ends; one that is not may last for ever.
Spec == Init /\ [][Next]_vars /\ \A r \in Runs : WF_vars(Resumes(r))

-----------------------------------------------------------------------------
\* Whatever is called, stopped and cancelled, runs of a script overlap in parallel
\* mode only, and a restart leaves one run that was not told to stop; no run waits
\* for the run whose step called it; and once scripts are forbidden every run that
\* is left was told to stop (src/homeassistant/helpers/script.py).
OneAtATime ==
  /\ mode # "parallel" => \A r, s \in In("runs") : r = s
  /\ mode = "restart" /\ In("yields") = {} =>
       \A r, s \in Listed \ (stop \cup In("dead")) : r = s
  /\ \A r \in Listed : /\ caller[r] \notin clears[r]
                       /\ phase[r] = "waits" => caller[r] = None
  /\ hass = "forbids" => Listed \subseteq stop

\* The run that is left is the newest: a restart does not stop it, unless another had
\* just yielded when it was called, for those stop each other.
NewestWins ==
  [][\A r \in stop' \ stop : r \in told' \cup crossed \/ r # Last(runs)]_vars

\* Restarts that stop each other, and runs that are told to stop, do not wait for
\* ever, and the queue moves when it can.
MustGoOn(r) ==
  \/ phase[r] \in {"yields", "clears"}
  \/ r \in stop /\ phase[r] # "dead"
  \/ phase[r] = "waits" /\ In("runs") = {}

GoesOn(r) == MustGoOn(r) ~> ~MustGoOn(r)
RunsGoOn == \A r \in Runs : GoesOn(r)
=============================================================================
