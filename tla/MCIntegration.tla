---------------------------- MODULE MCIntegration ----------------------------
(***************************************************************************)
(* The config entry, the flows that add one, the endpoints and the polling *)
(* side by side: each behaviour is one of one part, chosen at the start,   *)
(* while the others rest in an initial state.  The endpoints come with an  *)
(* entry of their own kind, which is never retried and never removed.      *)
(***************************************************************************)
EXTENDS Publishing

CONSTANTS Sensors, Refreshes, PollTimers,
          Scans, Devices, Broadcasts,
          Flows, Requests, None

VARIABLES part,
          listeners, polls, unsub, fetching, previous, success, shutdown, closing,
          seen, authFailed, crossed, phase, cached, onUnload,
          discovered, left, scanning, answers, found, heard, undisturbed,
          flow, asks, on, answer, entries, setUp, component, ending, interrupted, again

Polling == INSTANCE SensorPolling WITH
             Timers <- PollTimers, timers <- polls, stopping <- closing,
             overlapped <- crossed
Scan == INSTANCE DeviceScan
UserFlow == INSTANCE ConfigFlows WITH at <- asks, stopping <- ending

ASSUME IntegrationAssumption ==
  ContentsOK /\ Scan!ScanConstantsOK /\ NoTimer \notin PollTimers

IntegrationInit ==
  /\ part \in {"polling", "entry", "publishing", "scan", "flows"}
  /\ PublishingInit
  /\ part \notin {"entry", "publishing"} => at[CHOOSE c \in Callers : TRUE] = "setup"
  /\ Polling!Init /\ Scan!Init /\ UserFlow!Init

ofPolling == <<listeners, polls, unsub, fetching, previous, success, shutdown, closing,
               seen, authFailed, crossed, phase, cached, onUnload>>
ofScan == <<discovered, left, scanning, answers, found, heard, undisturbed>>
ofFlows == <<flow, asks, on, answer, entries, setUp, component, ending, interrupted, again>>
everything == <<part, allVars, ofPolling, ofScan, ofFlows>>

OfPolling(A) ==
  part = "polling" /\ A /\ UNCHANGED <<part, allVars, ofScan, ofFlows>>
OfEntry(A) ==
  part = "entry" /\ A /\ UNCHANGED <<part, publishingVars, ofPolling, ofScan, ofFlows>>
OfPublishing(A) ==
  part = "publishing" /\ A /\ UNCHANGED <<part, ofPolling, ofScan, ofFlows>>
OfScan(A) ==
  part = "scan" /\ A /\ UNCHANGED <<part, allVars, ofPolling, ofFlows>>
OfFlows(A) ==
  part = "flows" /\ A /\ UNCHANGED <<part, allVars, ofPolling, ofScan>>

IntegrationNext ==
  \/ OfPolling(Polling!Next) \/ OfEntry(Next) \/ OfPublishing(PublishingNext)
  \/ OfScan(Scan!Next) \/ OfFlows(UserFlow!Next)

\* The fairness of SensorPolling and ConfigEntry.
LoopRuns ==
  /\ WF_everything(OfPolling(Polling!TimerFires))
  /\ \A r \in Refreshes : WF_everything(OfPolling(Polling!Fetched(r)))
  /\ \A c \in Callers : WF_everything(OfEntry(Resumes(c)))

IntegrationSpec == IntegrationInit /\ [][IntegrationNext]_everything /\ LoopRuns

-----------------------------------------------------------------------------
\* Until the first unload of the integration an idle device that has a sensor is
\* polled again (src/sensor.py).
PolledUntilFirstUnload ==
  (part = "polling" /\ Polling!Idle /\ ~shutdown) ~> (part = "polling" /\ Polling!Served)

\* The config entry (src/homeassistant/config_entries.py) is never set up while
\* it is set up, or while a setup or unload of it is under way; an entry that is
\* added while its component is being set up is set up by one of the two who
\* could.
OneSetUp == SetUpOnce /\ UserFlow!EntrySetUpOnce

\* An entry that was not ready is retried, and none that does not wait for it.
RetriesAreKnown == RetryIsPending /\ NoStrayRetry

\* A flow (src/config_flow.py) makes one entry, unless it is submitted twice; and
\* whoever opens a flow or submits its form never waits for what will not come.
FlowsKeepWord == UserFlow!OneEntryPerFlow /\ UserFlow!FlowsGoOn

\* Whoever reloads, retries or removes the entry gets through.
EveryoneGetsThrough ==
  \A c \in Callers :
    (part = "entry" /\ at[c] # "nothing") ~> (part = "entry" /\ at[c] = "nothing")

\* The endpoints (src/__init__.py) keep their word: what is loaded is what was
\* posted last, unless its reload was refused; and a scan returns the devices
\* that answered it, unless another scan began meanwhile.
EndpointsKeepWord == (part = "publishing" => LoadedIsPublished) /\ Scan!ScanFinds
=============================================================================
