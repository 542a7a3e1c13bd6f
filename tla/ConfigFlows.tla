---------------------------- MODULE ConfigFlows ----------------------------
(***************************************************************************)
(* Adding the integration by hand: the flow of the TIS integration         *)
(* (src/config_flow.py), the flow manager that runs it                     *)
(* (src/homeassistant/data_entry_flow.py, config_entries.py), and the      *)
(* entries it adds while the component is being set up for the first time  *)
(* (src/homeassistant/setup.py).                                           *)
(*                                                                         *)
(* A request opens a flow, submits its form or closes it.  A form with a   *)
(* valid port makes an entry; the flow stays in progress until the entry   *)
(* has been set up.  The first entry sets up the component, which sets up  *)
(* every entry there is; a later one is set up by itself.                  *)
(*                                                                         *)
(* The flow of TIS sets no unique_id, so that no entry replaces another.   *)
(***************************************************************************)
EXTENDS Naturals, FiniteSets

CONSTANTS Flows, Requests,
          None          \* no flow

VARIABLES flow,       \* FlowManager._progress: each flow is opened once
          at,         \* what each request awaits
          on,         \* the flow it is about
          answer,     \* what it was answered
          entries,    \* ConfigEntries: each entry has the name of its request
          setUp,      \* how far the setup of each entry is
          component,  \* the component, and the future of its setup
          stopping,   \* Home Assistant stops: _initialize_futures are set
          interrupted,\* the requests whose future was set
          again       \* history: flows submitted while their entry was added

vars == <<flow, at, on, answer, entries, setUp, component, stopping, interrupted, again>>

FlowsTypeOK ==
  /\ flow \in [Flows -> {"new", "opening", "form", "gone"}]
  /\ at \in [Requests -> {"new", "loading", "setup", "component", "over"}]
  /\ on \in [Requests -> Flows \cup {None}]
  /\ answer \in [Requests -> {"none", "form", "entry", "unknown flow", "cancelled"}]
  /\ entries \in SUBSET Requests
  /\ setUp \in [Requests -> {"due", "begun", "over", "twice"}]
  /\ component \in {"none", "setup", "entries", "there", "failed"}
  /\ stopping \in BOOLEAN
  /\ interrupted \in SUBSET Requests
  /\ again \in SUBSET Flows

Init ==
  /\ flow = [f \in Flows |-> "new"]
  /\ at = [q \in Requests |-> "new"]
  /\ on = [q \in Requests |-> None]
  /\ answer = [q \in Requests |-> "none"]
  /\ entries = {}
  /\ setUp = [q \in Requests |-> "due"]
  /\ component = "none"
  /\ stopping = FALSE
  /\ interrupted = {}
  /\ again = {}

-----------------------------------------------------------------------------
Reply(q, what) ==
  /\ at' = [at EXCEPT ![q] = "over"]
  /\ answer' = [answer EXCEPT ![q] = what]

\* async_init, up to the await of the handler: the integration may have to be
\* imported first.
AsyncInit(q, f) ==
  /\ at[q] = "new" /\ flow[f] = "new"
  /\ at' = [at EXCEPT ![q] = "loading"]
  /\ on' = [on EXCEPT ![q] = f]
  /\ flow' = [flow EXCEPT ![f] = "opening"]
  /\ UNCHANGED <<answer, entries, setUp, component, stopping, interrupted, again>>

\* The flow is in progress, and shows its form.
Initialized(q) ==
  /\ at[q] = "loading"
  /\ flow' = [flow EXCEPT ![on[q]] = "form"]
  /\ Reply(q, "form")
  /\ UNCHANGED <<on, entries, setUp, component, stopping, interrupted, again>>

\* async_shutdown interrupts who is still loading.
Stop ==
  /\ ~stopping
  /\ stopping' = TRUE
  /\ interrupted' = {q \in Requests : at[q] = "loading"}
  /\ UNCHANGED <<flow, at, on, answer, entries, setUp, component, again>>

Interrupted(q) ==
  /\ at[q] = "loading" /\ q \in interrupted
  /\ flow' = [flow EXCEPT ![on[q]] = "gone"]
  /\ Reply(q, "cancelled")
  /\ UNCHANGED <<on, entries, setUp, component, stopping, interrupted, again>>

\* async_abort: the user closes the dialog.
AsyncAbort(f) ==
  /\ flow[f] = "form"
  /\ flow' = [flow EXCEPT ![f] = "gone"]
  /\ UNCHANGED <<at, on, answer, entries, setUp, component, stopping, interrupted, again>>

-----------------------------------------------------------------------------
\* async_configure of a flow that is not in progress: UnknownFlow.
SubmitUnknown(q, f) ==
  /\ at[q] = "new" /\ flow[f] = "gone"
  /\ on' = [on EXCEPT ![q] = f]
  /\ Reply(q, "unknown flow")
  /\ UNCHANGED <<flow, entries, setUp, component, stopping, interrupted, again>>

\* validate_port refuses: the form is shown again.
SubmitInvalid(q, f) ==
  /\ at[q] = "new" /\ flow[f] = "form"
  /\ on' = [on EXCEPT ![q] = f]
  /\ Reply(q, "form")
  /\ UNCHANGED <<flow, entries, setUp, component, stopping, interrupted, again>>

Adding(f) == {q \in Requests : at[q] \in {"setup", "component"} /\ on[q] = f}

\* Mutation: the flow stays in progress.
FlowStays(q, f) == UNCHANGED flow /\ Reply(q, "entry")

\* The end of _async_handle_step: the flow leaves the progress, unless it was
\* closed or has ended meanwhile.
FlowEnds(q, f) ==
  IF flow[f] = "form"
    THEN flow' = [flow EXCEPT ![f] = "gone"] /\ Reply(q, "entry")
    ELSE UNCHANGED flow /\ Reply(q, "unknown flow")

\* Mutation: the component is in hass.config.components after its entries.
InComponentsLate == component = "there"

\* The domain is in hass.config.components.
InComponents == component \in {"entries", "there"}

\* validate_port accepts: async_finish_flow adds an entry, and async_setup of
\* ConfigEntries sets it up, or the component, or waits for the setup of the
\* component that is under way, or is told that it has failed.
Submit(q, f) ==
  /\ at[q] = "new" /\ flow[f] = "form"
  /\ on' = [on EXCEPT ![q] = f]
  /\ entries' = entries \cup {q}
  /\ again' = IF Adding(f) = {} THEN again ELSE again \cup {f}
  /\ \/ /\ InComponents
        /\ setUp' = [setUp EXCEPT ![q] = "begun"]
        /\ at' = [at EXCEPT ![q] = "setup"]
        /\ UNCHANGED <<flow, answer, component>>
     \/ /\ ~InComponents /\ component # "failed"
        /\ component' = IF component = "none" THEN "setup" ELSE component
        /\ at' = [at EXCEPT ![q] = "component"]
        /\ UNCHANGED <<flow, answer, setUp>>
     \/ /\ component = "failed"
        /\ FlowEnds(q, f)
        /\ UNCHANGED <<setUp, component>>
  /\ UNCHANGED <<stopping, interrupted>>

\* Mutation: a setup that fails leaves nothing behind, and does not tell who waits.
ComponentFailsSilently ==
  /\ component = "setup"
  /\ \/ /\ component' = "entries"
        /\ setUp' = [e \in Requests |-> IF e \in entries THEN "begun" ELSE setUp[e]]
     \/ component' = "none" /\ UNCHANGED setUp
  /\ UNCHANGED <<flow, at, on, answer, entries, stopping, interrupted, again>>

\* _async_setup_component: the component is there, and the setups of all its
\* entries begin; or it is not, now and for later.
ComponentSetUp ==
  /\ component = "setup"
  /\ \/ /\ component' = "entries"
        /\ setUp' = [e \in Requests |->
             IF e \notin entries THEN setUp[e]
             ELSE IF setUp[e] = "due" THEN "begun" ELSE "twice"]
     \/ component' = "failed" /\ UNCHANGED setUp
  /\ UNCHANGED <<flow, at, on, answer, entries, stopping, interrupted, again>>

\* The setup of an entry ends, whichever way.
EntrySetUp(e) ==
  /\ setUp[e] = "begun"
  /\ setUp' = [setUp EXCEPT ![e] = "over"]
  /\ UNCHANGED <<flow, at, on, answer, entries, component, stopping, interrupted, again>>

\* Those the component has begun have all ended.
AllEnded ==
  component = "entries" /\ \A e \in entries : at[e] = "component" => setUp[e] # "begun"

EntriesSetUp ==
  /\ AllEnded
  /\ component' = "there"
  /\ UNCHANGED <<flow, at, on, answer, entries, setUp, stopping, interrupted, again>>

\* async_add is through.
Through(q) ==
  \/ at[q] = "setup" /\ setUp[q] = "over"
  \/ at[q] = "component" /\ component \in {"there", "failed"}

Added(q) ==
  /\ Through(q)
  /\ FlowEnds(q, on[q])
  /\ UNCHANGED <<on, entries, setUp, component, stopping, interrupted, again>>

\* Nobody asks any more.
Finished ==
  /\ \A q \in Requests : at[q] \in {"new", "over"}
  /\ UNCHANGED vars

Next ==
  \/ \E q \in Requests : \/ \E f \in Flows : \/ AsyncInit(q, f) \/ SubmitUnknown(q, f)
                                            \/ SubmitInvalid(q, f) \/ Submit(q, f)
                         \/ Initialized(q) \/ Interrupted(q) \/ EntrySetUp(q) \/ Added(q)
  \/ \E f \in Flows : AsyncAbort(f)
  \/ Stop \/ ComponentSetUp \/ EntriesSetUp \/ Finished

\* Something goes on when nobody asks for more: a handler is loaded, a setup ends, or
\* a request is answered.  Each of these brings a request or a setup nearer to its end.
GoesOn ==
  \/ \E q \in Requests : at[q] = "loading" \/ setUp[q] = "begun" \/ Through(q)
  \/ component = "setup" \/ AllEnded

Spec == Init /\ [][Next]_vars

-----------------------------------------------------------------------------
\* Whether it comes first, while the component is being set up, or later, an
\* entry is set up once, and is not answered before that is over.
EntrySetUpOnce ==
  \A q \in Requests :
    /\ setUp[q] # "twice"
    /\ answer[q] = "entry" => setUp[q] = "over" \/ component = "failed"

\* A flow makes one entry, and is over once that is set up, unless its form is
\* submitted again meanwhile: nothing but the end of the flow prevents that.
MadeBy(f) == {e \in entries : on[e] = f}
OneEntryPerFlow ==
  \A f \in Flows :
    f \notin again =>
      /\ Cardinality(MadeBy(f)) <= 1
      /\ flow[f] = "form" => \A e \in MadeBy(f) : at[e] # "over"

\* As long as a request has no answer there is something that goes on: nobody
\* waits for a setup that will not end.
FlowsGoOn == (\E q \in Requests : at[q] \notin {"new", "over"}) => GoesOn

\* Nor for one that goes on for ever: nothing goes back, and whatever happens brings a
\* flow, a request, a setup or the component further, or stops Home Assistant.
Rank(s) ==
  IF s \in {"new", "due", "none"} THEN 0
  ELSE IF s \in {"loading", "opening", "begun", "setup"} THEN 1
  ELSE IF s \in {"form", "component", "entries"} THEN 2 ELSE 3

NothingGoesBack ==
  /\ Rank(component) <= Rank(component')
  /\ \A f \in Flows : Rank(flow[f]) <= Rank(flow'[f])
  /\ \A q \in Requests : Rank(at[q]) <= Rank(at'[q]) /\ Rank(setUp[q]) <= Rank(setUp'[q])

SomethingGoesOn ==
  \/ Rank(component) < Rank(component')
  \/ \E f \in Flows : Rank(flow[f]) < Rank(flow'[f])
  \/ \E q \in Requests : Rank(at[q]) < Rank(at'[q]) \/ Rank(setUp[q]) < Rank(setUp'[q])

FlowsAdvance ==
  [][ /\ NothingGoesBack /\ (stopping => stopping')
      /\ SomethingGoesOn \/ stopping # stopping' ]_vars
=============================================================================
