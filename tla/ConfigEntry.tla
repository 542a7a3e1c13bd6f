----------------------------- MODULE ConfigEntry -----------------------------
(***************************************************************************)
(* The life cycle of one config entry: ConfigEntry, and what ConfigEntries *)
(* does to it: reload, disable, enable and remove                          *)
(* (src/homeassistant/config_entries.py).                                  *)
(*                                                                         *)
(* Reloads, and the retries of a setup that was not ready, hold the        *)
(* reload_lock; the first setup does not.  What keeps them apart is the    *)
(* state: an entry that is setting up is not recoverable, so that a reload *)
(* of it is refused.  A retry looks at no state, and a removal takes no    *)
(* lock: it unloads the entry, if the state lets it, and deletes it        *)
(* whatever the others do with it.                                         *)
(*                                                                         *)
(* Left out: migration and ignored entries.                                *)
(***************************************************************************)
EXTENDS Naturals, Sequences, FiniteSets

CONSTANTS Callers,         \* tasks that set up, reload, retry or remove
          Timers, NoTimer  \* handles of async_call_later

EntryConstantsOK == NoTimer \notin Timers

VARIABLES state,        \* ConfigEntry.state
          at,           \* what each caller awaits
          reloadLock,   \* reload_lock: its holder, then who waits for it
          cancelRetry,  \* _async_cancel_retry_setup: the timer it cancels
          timers,       \* retry timers pending in the event loop
          stopping,     \* hass.is_stopping
          known,        \* the entry is in ConfigEntries._entries
          disabled,     \* disabled_by is set
          restart,      \* the removal's answer, "require_restart"
          up,           \* history: the integration is set up
          disorderly    \* history: a retry came before the attempt it follows had
                        \* cleaned up and passed on the lock, or a removal and
                        \* another caller met

registry == <<known, disabled, restart>>
vars == <<state, at, reloadLock, cancelRetry, timers, stopping, registry, up, disorderly>>

State == {"not_loaded", "setup_in_progress", "loaded", "setup_error",
          "setup_retry", "failed_unload"}
\* Mutation: an entry that waits for its retry may not be reloaded.
RecoverableOnce == State \ {"setup_in_progress", "failed_unload", "setup_retry"}

\* The states in which unloads and reloads are allowed.
Recoverable == State \ {"setup_in_progress", "failed_unload"}

Awaits == {"nothing",
           "lock to reload", "lock to retry",  \* the reload_lock
           "setup", "unload",                  \* the integration
           "unloaded", "kept",                 \* the clean-up after an unload
           "not ready", "failed",              \* the clean-up after a setup
           "unload to remove",                 \* the same two, in a removal
           "unloaded to remove", "kept to remove"}

Removal == {"unload to remove", "unloaded to remove", "kept to remove"}

Idle == \A c \in Callers : at[c] = "nothing"

\* The callers for which the integration's code runs.
Running == {c \in Callers : at[c] \in {"setup", "unload", "unload to remove"}}

\* c finds another caller who removes the entry.
MetRemoval(c) == \E d \in Callers \ {c} : at[d] \in Removal

TypeOK ==
  /\ state \in State
  /\ at \in [Callers -> Awaits]
  /\ reloadLock \in Seq(Callers)
  /\ cancelRetry \in Timers \cup {NoTimer}
  /\ timers \in SUBSET Timers
  /\ stopping \in BOOLEAN
  /\ known \in BOOLEAN /\ disabled \in BOOLEAN /\ restart \in BOOLEAN
  /\ up \in BOOLEAN
  /\ disorderly \in BOOLEAN

\* The setup of the component has just called async_setup.
Init ==
  /\ state = "setup_in_progress"
  /\ \E c \in Callers : at = [d \in Callers |-> IF d = c THEN "setup" ELSE "nothing"]
  /\ reloadLock = <<>>
  /\ cancelRetry = NoTimer
  /\ timers = {}
  /\ stopping = FALSE
  /\ known = TRUE /\ disabled = FALSE /\ restart = FALSE
  /\ up = FALSE
  /\ disorderly = FALSE

-----------------------------------------------------------------------------
Await(c, what) == at' = [at EXCEPT ![c] = what]

Holds(c) == reloadLock # <<>> /\ Head(reloadLock) = c

\* Mutation: the lock is not released.
LeaveLocked(c) == Await(c, "nothing") /\ UNCHANGED reloadLock

\* c is through, and leaves the lock to the next if it holds it.
Leave(c) ==
  /\ Await(c, "nothing")
  /\ reloadLock' = IF Holds(c) THEN Tail(reloadLock) ELSE reloadLock

\* async_cancel_retry_setup
CancelRetry == timers' = timers \ {cancelRetry} /\ cancelRetry' = NoTimer

\* ConfigEntry.async_setup of an entry that is not disabled, up to the await of
\* the integration.
SetUp(c) == state' = "setup_in_progress" /\ Await(c, "setup")

\* Mutation: the state of the entry is not asked.
ReloadAnyway(c, off) ==
  \/ state = "loaded" /\ Await(c, "unload") /\ UNCHANGED state
  \/ state # "loaded" /\ SetUp(c)

\* async_reload with the lock, up to the await of the integration: refused,
\* unloading first, setting up at once, or done if the entry is disabled (off).
StartReload(c, off) ==
  \/ /\ ~known \/ state \notin Recoverable
     /\ Await(c, "nothing")
     /\ UNCHANGED state
  \/ /\ known /\ state = "loaded"
     /\ Await(c, "unload")
     /\ UNCHANGED state
  \/ /\ known /\ state \in Recoverable \ {"loaded"}
     /\ IF off
          THEN state' = "not_loaded" /\ Await(c, "nothing")
          ELSE SetUp(c)

\* async_reload of an entry that is known, up to its first await.
StartOrWait(c, off) ==
  /\ at[c] = "nothing"
  /\ CancelRetry
  /\ IF reloadLock = <<>>
       THEN /\ StartReload(c, off)
            /\ reloadLock' = IF at'[c] = "nothing" THEN <<>> ELSE <<c>>
       ELSE /\ Await(c, "lock to reload")
            /\ reloadLock' = Append(reloadLock, c)
            /\ UNCHANGED state
  /\ disorderly' = (disorderly \/ MetRemoval(c))
  /\ UNCHANGED <<stopping, up>>

\* async_reload: UnknownEntry is raised once the entry is removed.
Reload(c) ==
  IF known THEN StartOrWait(c, disabled) /\ UNCHANGED registry ELSE UNCHANGED vars

\* A reload gets the lock it has waited for.
LockToReload(c) ==
  /\ Holds(c) /\ at[c] = "lock to reload"
  /\ StartReload(c, disabled)
  /\ reloadLock' = IF at'[c] = "nothing" THEN Tail(reloadLock) ELSE reloadLock
  /\ IF known /\ state \in {"setup_error", "setup_retry"}
       THEN CancelRetry
       ELSE UNCHANGED <<timers, cancelRetry>>
  /\ UNCHANGED <<stopping, registry, up, disorderly>>

\* A retry gets the lock it has waited for.
LockToRetry(c) ==
  /\ Holds(c) /\ at[c] = "lock to retry"
  /\ IF disabled
       THEN Leave(c) /\ UNCHANGED state
       ELSE SetUp(c) /\ UNCHANGED reloadLock
  /\ UNCHANGED <<timers, cancelRetry, stopping, registry, up, disorderly>>

\* _async_setup_again, called by a timer.
SetupAgain(t, c) ==
  /\ t \in timers
  /\ timers' = timers \ {t}
  /\ cancelRetry' = NoTimer
  /\ disorderly' = (disorderly \/ MetRemoval(c) \/ reloadLock # <<>>
                                \/ \E d \in Callers : at[d] = "not ready")
  /\ at[c] = "nothing"
  /\ IF stopping \/ (reloadLock = <<>> /\ disabled)
       THEN UNCHANGED <<state, at, reloadLock>>
       ELSE /\ reloadLock' = Append(reloadLock, c)
            /\ IF reloadLock = <<>>
                 THEN SetUp(c)
                 ELSE Await(c, "lock to retry") /\ UNCHANGED state
  /\ UNCHANGED <<stopping, registry, up>>

\* async_set_disabled_by: the flag is set, then the entry is reloaded, if its
\* state allows that.
SetDisabled(c) ==
  /\ known
  /\ disabled' = ~disabled
  /\ StartOrWait(c, ~disabled)
  /\ UNCHANGED <<known, restart>>

-----------------------------------------------------------------------------
\* async_setup_entry of the integration succeeds.
SetupSucceeds(c) ==
  /\ at[c] = "setup"
  /\ CancelRetry
  /\ state' = "loaded"
  /\ up' = TRUE
  /\ Leave(c)
  /\ UNCHANGED <<stopping, registry, disorderly>>

\* It returns False or raises an exception of its own.
SetupFails(c) ==
  /\ at[c] = "setup"
  /\ CancelRetry
  /\ state' = "setup_error"
  /\ Leave(c)
  /\ UNCHANGED <<stopping, registry, up, disorderly>>

\* It raises ConfigEntryError or ConfigEntryAuthFailed.
SetupRaises(c) ==
  /\ at[c] = "setup"
  /\ Await(c, "failed")
  /\ UNCHANGED <<state, reloadLock, cancelRetry, timers, stopping, registry, up, disorderly>>

\* It raises ConfigEntryNotReady.
SetupNotReady(c) ==
  /\ at[c] = "setup"
  /\ state' = "setup_retry"
  /\ Timers \ timers # {}
  /\ cancelRetry' = (CHOOSE t \in Timers : t \notin timers)
  /\ timers' = timers \cup {cancelRetry'}
  /\ Await(c, "not ready")
  /\ UNCHANGED <<reloadLock, stopping, registry, up, disorderly>>

\* async_unload_entry of the integration succeeds.
UnloadSucceeds(c) ==
  /\ at[c] = "unload"
  /\ state' = "not_loaded"
  /\ up' = FALSE
  /\ Await(c, "unloaded")
  /\ UNCHANGED <<reloadLock, cancelRetry, timers, stopping, registry, disorderly>>

\* It returns False.
UnloadDeclined(c) ==
  /\ at[c] = "unload"
  /\ Await(c, "kept")
  /\ UNCHANGED <<state, reloadLock, cancelRetry, timers, stopping, registry, up, disorderly>>

\* It raises.
UnloadRaises(c) ==
  /\ at[c] = "unload"
  /\ state' = "failed_unload"
  /\ Leave(c)
  /\ UNCHANGED <<cancelRetry, timers, stopping, registry, up, disorderly>>

\* _async_process_on_unload has seen the entry's tasks end, or lost patience.
CleanedUp(c) ==
  /\ \/ /\ at[c] = "unloaded"
        /\ IF state = "not_loaded" /\ known /\ ~disabled
             THEN SetUp(c) /\ UNCHANGED reloadLock
             ELSE Leave(c) /\ UNCHANGED state
        /\ UNCHANGED <<timers, cancelRetry>>
     \/ /\ at[c] \in {"kept", "not ready"}
        /\ Leave(c)
        /\ UNCHANGED <<state, timers, cancelRetry>>
     \/ /\ at[c] = "failed"
        /\ CancelRetry
        /\ state' = "setup_error"
        /\ Leave(c)
  /\ UNCHANGED <<stopping, registry, up, disorderly>>

\* Home Assistant stops, which cancels the retry (async_shutdown of the entries
\* that are known).
Stop ==
  /\ ~stopping
  /\ stopping' = TRUE
  /\ IF known THEN CancelRetry ELSE UNCHANGED <<timers, cancelRetry>>
  /\ UNCHANGED <<state, at, reloadLock, registry, up, disorderly>>

-----------------------------------------------------------------------------
\* The end of async_remove, with its answer: a second removal finds the entry
\* deleted, and raises.
Delete(c, loadedStill) ==
  /\ Await(c, "nothing")
  /\ IF known
       THEN known' = FALSE /\ restart' = loadedStill
       ELSE UNCHANGED <<known, restart>>
  /\ UNCHANGED disabled

\* async_remove, up to the await of the integration.  An entry that is not
\* recoverable is deleted as it is.
Remove(c) ==
  /\ at[c] = "nothing" /\ known
  /\ disorderly' = (disorderly \/ ~Idle)
  /\ \/ /\ state \notin Recoverable
        /\ Delete(c, state = "failed_unload")
        /\ UNCHANGED <<state, timers, cancelRetry>>
     \/ /\ state = "loaded"
        /\ Await(c, "unload to remove")
        /\ UNCHANGED <<state, timers, cancelRetry, registry>>
     \/ /\ state \in Recoverable \ {"loaded"}
        /\ IF state = "not_loaded"
             THEN UNCHANGED <<timers, cancelRetry>>
             ELSE CancelRetry
        /\ state' = "not_loaded"
        /\ Delete(c, FALSE)
  /\ UNCHANGED <<reloadLock, stopping, up>>

\* The unload of a removal ends as any other, but for the lock and the set up.
UnloadedToRemove(c) ==
  /\ at[c] = "unload to remove"
  /\ \/ /\ state' = "not_loaded" /\ up' = FALSE
        /\ Await(c, "unloaded to remove")
        /\ UNCHANGED registry
     \/ /\ Await(c, "kept to remove")
        /\ UNCHANGED <<state, up, registry>>
     \/ /\ state' = "failed_unload"
        /\ Delete(c, TRUE)
        /\ UNCHANGED up
  /\ UNCHANGED <<reloadLock, cancelRetry, timers, stopping, disorderly>>

\* Mutation: nobody asks what the unload has left running.
RemovedUnasked(c) ==
  /\ at[c] \in {"unloaded to remove", "kept to remove"}
  /\ Delete(c, FALSE)
  /\ UNCHANGED <<state, reloadLock, cancelRetry, timers, stopping, up, disorderly>>

\* The clean-up is over.
Removed(c) ==
  /\ \/ at[c] = "unloaded to remove" /\ Delete(c, FALSE)
     \/ at[c] = "kept to remove" /\ Delete(c, TRUE)
  /\ UNCHANGED <<state, reloadLock, cancelRetry, timers, stopping, up, disorderly>>

SetupEnds(c) == SetupSucceeds(c) \/ SetupFails(c) \/ SetupRaises(c) \/ SetupNotReady(c)
UnloadEnds(c) == UnloadSucceeds(c) \/ UnloadDeclined(c) \/ UnloadRaises(c)
GetsLock(c) == LockToReload(c) \/ LockToRetry(c)
RemovalEnds(c) == UnloadedToRemove(c) \/ Removed(c)

Next ==
  \/ \E c \in Callers : \/ Reload(c) \/ SetDisabled(c) \/ GetsLock(c)
                        \/ \E t \in Timers : SetupAgain(t, c)
                        \/ SetupEnds(c) \/ UnloadEnds(c) \/ CleanedUp(c)
                        \/ Remove(c) \/ RemovalEnds(c)
  \/ Stop

\* What a caller awaits comes: the integration's setup and unload end, the clean-up
\* gives up after ten seconds, and the event loop resumes who has got the lock.
Resumes(c) ==
  SetupEnds(c) \/ UnloadEnds(c) \/ CleanedUp(c) \/ GetsLock(c) \/ RemovalEnds(c)

Fairness == \A c \in Callers : WF_vars(Resumes(c))

Spec == Init /\ [][Next]_vars
LiveSpec == Spec /\ Fairness

-----------------------------------------------------------------------------
\* The integration is never set up while it is set up, or while it is being set
\* up or unloaded; and the state says whether it is set up.  (A retry that comes
\* before the attempt it follows has cleaned up, which may take ten seconds when
\* the retry takes five, waits for the lock behind that attempt, and no reload
\* can cancel it any more; and a removal that meets another caller unloads the
\* entry beside it.)
SetUpOnce ==
  ~disorderly =>
    /\ Cardinality(Running) <= 1
    /\ \A c \in Callers : at[c] = "setup" => ~up
    /\ Running = {} /\ state # "failed_unload" => (up <=> state = "loaded")

\* An entry that waits to be retried is retried by the timer its handle names, or
\* by a caller that waits for the lock, unless Home Assistant stops or the entry
\* is disabled or removed.
RetryIsPending ==
  state = "setup_retry" /\ known =>
    \/ cancelRetry \in timers
    \/ stopping
    \/ disabled
    \/ \E c \in Callers : at[c] \in {"lock to reload", "lock to retry"}

\* No timer but the one the handle names, and none that would set up an entry
\* which does not wait for it.
NoStrayRetry ==
  ~disorderly =>
    /\ timers \subseteq {cancelRetry}
    /\ timers # {} => state = "setup_retry"

\* What is removed is gone: unless its caller is told to restart, the entry is
\* not set up and nothing will set it up, if the removal met no other caller.
RemovedIsDown ==
  ~disorderly /\ ~known /\ ~restart => ~up /\ Running = {} /\ timers = {}

\* Whoever waits for the entry gets through: no way out keeps the lock.
ReloadsEnd == \A c \in Callers : at[c] # "nothing" ~> at[c] = "nothing"
=============================================================================
