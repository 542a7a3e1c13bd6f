-------------------------------- MODULE Store --------------------------------
(***************************************************************************)
(* A file of .storage and the Store object that writes it                  *)
(* (src/homeassistant/helpers/storage.py), with its owner: a registry or   *)
(* the config entries, who load it once, change the data in memory and ask *)
(* for a save in the same run of the event loop.                           *)
(*                                                                         *)
(* The data is a version number that each change increases.  The store     *)
(* keeps what it is to write in `_data', either a version (async_save) or  *)
(* a function that gives the version of the moment it is called in         *)
(* (async_delay_save).  The function is called in the executor's thread,   *)
(* beside the event loop that changes the data.                            *)
(*                                                                         *)
(* Tasks that write hold the write lock from the moment they take the data *)
(* until the loop resumes them.  asyncio.Lock is fair; here any of those   *)
(* who wait comes next, which only adds behaviours.                        *)
(***************************************************************************)
EXTENDS Naturals, FiniteSets

CONSTANTS Writers,     \* names of the tasks that write
          Delays,      \* what async_delay_save is called with, in ticks
          MaxDelay,    \* the longest of them
          MaxVersion,  \* bound: versions of the data
          AtomicWrites,\* the file is written with fsync
          None, Func, Fired

StoreConstantsOK ==
  /\ MaxDelay \in Nat /\ Delays \subseteq 1..MaxDelay
  /\ MaxVersion \in Nat /\ AtomicWrites \in BOOLEAN
  /\ None \notin Nat /\ Func \notin Nat /\ Fired \notin Nat
  /\ None # Func /\ None # Fired /\ Func # Fired

VARIABLES
  mem,           \* the owner's data
  pending,       \* _data: None, Func or a version
  handle,        \* _delay_handle: None, Fired or the ticks until it is due
  nextWrite,     \* _next_write_time, in ticks from now
  finalListener, \* _unsub_final_write_listener is set
  at,            \* what each task is doing
  job,           \* what its thread writes, and mem when the thread began
  callers,       \* the tasks of callers of async_save, who may be cancelled
  unlinking,     \* the thread of async_remove is under way
  reading,       \* a load reads the file; the version it has to find, at least
  absent,        \* the store manager's answer for the file is that there is none
  file,          \* the version in the file; 0 is no file
  torn,          \* the file is no JSON
  hass,          \* the state of Home Assistant (src/homeassistant/core.py)
  old,           \* the tasks older than the stop, for which it does not wait
  abandoned      \* History: the last save was given up, or the file met a cancelled write

ofStore == <<pending, handle, nextWrite, finalListener, at, job, callers, unlinking, reading, absent>>
ofDisk == <<file, torn>>
ofHass == <<hass, old>>
vars == <<mem, ofStore, ofDisk, ofHass, abandoned>>

Versions == 0..MaxVersion
Ticks == 0..MaxDelay

Idle(w) == at[w] = "nothing"
Waiting == {w \in Writers : at[w] = "waits"}
Holding == {w \in Writers : at[w] \in {"writes", "wrote"}}
Threads == {w \in Writers : at[w] \in {"writes", "adrift"}}
Adrift == {w \in Writers : at[w] = "adrift"}
Up == {"running", "stopping", "final_write"}
Alive == hass \in Up \cup {"closed"}

NoJob == [what |-> None, began |-> 0]

TypeOK ==
  /\ mem \in Versions /\ pending \in Versions \cup {None, Func}
  /\ handle \in Ticks \cup {None, Fired} /\ nextWrite \in Ticks
  /\ finalListener \in BOOLEAN /\ unlinking \in BOOLEAN
  /\ at \in [Writers -> {"nothing", "waits", "writes", "wrote", "adrift"}]
  /\ job \in [Writers -> [what : Versions \cup {None, Func}, began : Versions]]
  /\ callers \subseteq Writers /\ old \subseteq Writers
  /\ reading \in Versions \cup {None} /\ absent \in BOOLEAN
  /\ file \in Versions /\ torn \in BOOLEAN
  /\ hass \in Up \cup {"closed", "stopped", "crashed"}
  /\ abandoned \in BOOLEAN

\* The data and the store are not loaded.
Fresh ==
  /\ mem = 0 /\ pending = None /\ handle = None /\ nextWrite = 0 /\ finalListener = FALSE
  /\ at = [w \in Writers |-> "nothing"] /\ job = [w \in Writers |-> NoJob]
  /\ callers = {} /\ unlinking = FALSE /\ reading = None /\ absent = FALSE
  /\ old = {} /\ abandoned = FALSE

Init ==
  Fresh /\ file = 0 /\ torn = FALSE /\ hass = "stopped"

\* The owner changes the data.
Changes == hass \in Up /\ mem < MaxVersion /\ mem' = mem + 1

-----------------------------------------------------------------------------
\* Mutation: the manager is not told that its answer is no longer true.
TakeDataQuietly(w, data) ==
  /\ pending' = None /\ handle' = None /\ finalListener' = FALSE /\ UNCHANGED absent
  /\ at' = [at EXCEPT ![w] = IF data = None THEN "nothing" ELSE "writes"]
  /\ job' = [job EXCEPT ![w] = IF data = None THEN NoJob ELSE [what |-> data, began |-> mem']]

\* The write lock is w's: _async_handle_write_data up to the executor.  Another
\* write may have consumed the data.
TakeData(w, data) ==
  /\ pending' = None /\ handle' = None /\ finalListener' = FALSE /\ absent' = FALSE
  /\ at' = [at EXCEPT ![w] = IF data = None THEN "nothing" ELSE "writes"]
  /\ job' = [job EXCEPT ![w] = IF data = None THEN NoJob ELSE [what |-> data, began |-> mem']]

\* Mutation: no lock.
HandleWriteDataAtOnce(w, data, leftHandle, leftListener) == TakeData(w, data)

\* Task w calls _async_handle_write_data with `data' pending.  If it has to wait,
\* the handle and the listener are left as given.
HandleWriteData(w, data, leftHandle, leftListener) ==
  IF Holding = {} /\ Waiting = {}
  THEN TakeData(w, data)
  ELSE /\ at' = [at EXCEPT ![w] = "waits"] /\ pending' = data
       /\ handle' = leftHandle /\ finalListener' = leftListener
       /\ UNCHANGED <<job, absent>>

\* Mutation: nobody is told of a save during the stop.
AsyncSaveUnheard(w) ==
  /\ Changes /\ Idle(w) /\ abandoned' = (abandoned /\ Threads # {})
  /\ IF hass = "stopping"
     THEN pending' = mem' /\ UNCHANGED <<handle, finalListener, at, job, absent, callers>>
     ELSE HandleWriteData(w, mem', handle, finalListener) /\ callers' = callers \cup {w}
  /\ UNCHANGED <<nextWrite, unlinking, reading, ofDisk, ofHass>>

\* async_save by task w.  While Home Assistant stops, the final write does it.
AsyncSave(w) ==
  /\ Changes /\ Idle(w) /\ abandoned' = (abandoned /\ Threads # {})
  /\ IF hass = "stopping"
     THEN /\ pending' = mem' /\ finalListener' = TRUE
          /\ UNCHANGED <<handle, at, job, absent, callers>>
     ELSE HandleWriteData(w, mem', handle, finalListener) /\ callers' = callers \cup {w}
  /\ UNCHANGED <<nextWrite, unlinking, reading, ofDisk, ofHass>>

\* async_delay_save.  A handle that has fired is still there until a write takes it
\* away, and lies before any new time.  In the last stage no listener hears of it.
AsyncDelaySave(delay) ==
  /\ Changes /\ pending' = Func
  /\ IF handle = Fired \/ (handle \in Ticks /\ handle < delay)
     THEN nextWrite' = delay /\ UNCHANGED <<handle, finalListener>>
     ELSE /\ handle' = IF hass = "stopping" THEN None ELSE delay
          /\ finalListener' = TRUE /\ UNCHANGED nextWrite
  /\ abandoned' = \/ abandoned /\ Threads # {}
                  \/ hass = "final_write" /\ Waiting = {}
  /\ UNCHANGED <<at, job, callers, unlinking, reading, absent, ofDisk, ofHass>>

\* Mutation: a timer that is too early puts the write off by a whole delay.
FiredTooEarlyAgain ==
  /\ handle = 0 /\ nextWrite > 0 /\ handle' = nextWrite /\ nextWrite' = MaxDelay
  /\ UNCHANGED <<mem, pending, finalListener, at, job, callers, unlinking, reading,
                 absent, ofDisk, ofHass, abandoned>>

\* _async_schedule_callback_delayed_write: too early, or a task that writes.
FiredTooEarly ==
  /\ handle = 0 /\ nextWrite > 0 /\ handle' = nextWrite
  /\ UNCHANGED <<mem, pending, nextWrite, finalListener, at, job, callers, unlinking, reading,
                 absent, ofDisk, ofHass, abandoned>>

DelayedWrite(w) ==
  /\ handle = 0 /\ nextWrite = 0 /\ Idle(w) /\ hass \in Up /\ UNCHANGED mem
  /\ IF hass = "stopping"
     THEN handle' = Fired /\ finalListener' = TRUE /\ UNCHANGED <<pending, at, job, absent>>
     ELSE HandleWriteData(w, pending, Fired, finalListener)
  /\ UNCHANGED <<nextWrite, callers, unlinking, reading, ofDisk, ofHass, abandoned>>

\* A waiting task is given the lock.
GetsLock(w) ==
  /\ at[w] = "waits" /\ Alive /\ Holding = {} /\ UNCHANGED mem
  /\ TakeData(w, pending)
  /\ callers' = IF pending = None THEN callers \ {w} ELSE callers
  /\ old' = IF pending = None THEN old \ {w} ELSE old
  /\ UNCHANGED <<nextWrite, unlinking, reading, ofDisk, hass, abandoned>>

-----------------------------------------------------------------------------
\* Once the file may be anything, a load under way need not find what it had to.
NotWanted == reading' = IF reading = None THEN None ELSE 0

\* What the thread of a task ends in; a thread whose task was cancelled goes
\* nowhere, and leaves it open what the file is.
ThreadEnds(w) ==
  /\ w \in Threads /\ Alive
  /\ at' = [at EXCEPT ![w] = IF w \in Adrift THEN "nothing" ELSE "wrote"]
  /\ job' = [job EXCEPT ![w] = NoJob]
  /\ IF w \in Adrift THEN NotWanted ELSE UNCHANGED reading
  /\ UNCHANGED <<mem, pending, handle, nextWrite, finalListener, callers, unlinking, absent,
                 ofHass>>

\* _write_data: the function gives a version from the time of the thread.
Writes(w) ==
  /\ ThreadEnds(w)
  /\ file' \in IF job[w].what = Func THEN job[w].began..mem ELSE {job[w].what}
  /\ torn' = FALSE /\ abandoned' = (abandoned \/ w \in Adrift)

\* A SerializationError or a WriteError is logged, and the data forgotten.
WriteFails(w) ==
  /\ ThreadEnds(w) /\ UNCHANGED ofDisk
  /\ abandoned' = (abandoned \/ w \in Adrift \/ pending = None)

\* The owner changed the data while the thread looked at it: the function raises.
WriteRaces(w) ==
  /\ ThreadEnds(w) /\ job[w].what = Func /\ mem > job[w].began /\ UNCHANGED ofDisk
  /\ abandoned' = (abandoned \/ w \in Adrift)

\* Mutation: the data is dropped after the write, not before it.
ResumedDrops(w) ==
  /\ at[w] = "wrote" /\ Alive /\ at' = [at EXCEPT ![w] = "nothing"] /\ pending' = None
  /\ callers' = callers \ {w} /\ old' = old \ {w}
  /\ UNCHANGED <<mem, handle, nextWrite, finalListener, job, unlinking, reading, absent,
                 ofDisk, hass, abandoned>>

\* The loop resumes the task, which gives the lock back.
Resumed(w) ==
  /\ at[w] = "wrote" /\ Alive /\ at' = [at EXCEPT ![w] = "nothing"]
  /\ callers' = callers \ {w} /\ old' = old \ {w}
  /\ UNCHANGED <<mem, pending, handle, nextWrite, finalListener, job, unlinking, reading, absent,
                 ofDisk, hass, abandoned>>

\* Someone will still write what is pending.
Covered ==
  \/ Waiting # {}
  \/ hass = "running" /\ handle \in Ticks
  \/ hass \in {"running", "stopping"} /\ finalListener

\* The caller of async_save is cancelled.  A thread cannot be.
Cancelled(w) ==
  /\ w \in callers /\ at[w] \in {"waits", "writes"} /\ hass \in Up
  /\ at' = [at EXCEPT ![w] = IF at[w] = "waits" THEN "nothing" ELSE "adrift"]
  /\ callers' = callers \ {w} /\ old' = old \ {w}
  /\ abandoned' = (abandoned \/ (pending # None /\ Waiting = {w}
                                 /\ ~(hass = "running" /\ handle \in Ticks)
                                 /\ ~(hass # "final_write" /\ finalListener)))
  /\ UNCHANGED <<mem, pending, handle, nextWrite, finalListener, job, unlinking, reading, absent,
                 ofDisk, hass>>

\* async_remove, and its thread.  What is pending stays so.
AsyncRemove ==
  /\ hass \in Up /\ ~unlinking /\ unlinking' = TRUE
  /\ absent' = FALSE /\ handle' = None /\ finalListener' = FALSE
  /\ abandoned' = TRUE
  /\ UNCHANGED <<mem, pending, nextWrite, at, job, callers, reading, ofDisk, ofHass>>

Unlinked ==
  /\ unlinking /\ Alive /\ unlinking' = FALSE /\ file' = 0 /\ torn' = FALSE
  /\ abandoned' = TRUE /\ NotWanted
  /\ UNCHANGED <<mem, pending, handle, nextWrite, finalListener, at, job, callers, absent,
                 ofHass>>

\* Nothing is promised about the file.
Excused == abandoned \/ Adrift # {} \/ unlinking

\* async_load while the owner is at work: pending data is its answer, and what the
\* function gives now is what will be written; else the absent, which an answer
\* empties; else the file.
LoadPending ==
  /\ hass \in Up /\ reading = None /\ pending # None
  /\ pending' = IF pending = Func THEN mem ELSE pending
  /\ UNCHANGED <<mem, handle, nextWrite, finalListener, at, job, callers, unlinking, reading, absent,
                 ofDisk, ofHass, abandoned>>

Load ==
  /\ hass \in Up /\ reading = None /\ pending = None
  /\ reading' = IF Excused \/ Threads # {} THEN 0 ELSE mem
  /\ UNCHANGED <<mem, pending, handle, nextWrite, finalListener, at, job, callers, unlinking, absent,
                 ofDisk, ofHass, abandoned>>

\* What the load under way answers with.
Answer == IF absent THEN 0 ELSE file

Loaded ==
  /\ reading # None /\ Alive /\ reading' = None
  /\ UNCHANGED <<mem, pending, handle, nextWrite, finalListener, at, job, callers, unlinking, absent,
                 ofDisk, ofHass, abandoned>>

-----------------------------------------------------------------------------
\* A unit of time.  A due timer fires first.
Tick ==
  LET Less(t) == IF t \in Ticks \ {0} THEN t - 1 ELSE t
  IN  /\ hass \in Up /\ handle # 0
      /\ handle' = Less(handle) /\ nextWrite' = Less(nextWrite)
      /\ UNCHANGED <<mem, pending, finalListener, at, job, callers, unlinking, reading, absent,
                     ofDisk, ofHass, abandoned>>

\* async_stop: the tasks there are no longer block it, ...
Stop ==
  /\ hass = "running" /\ hass' = "stopping"
  /\ old' = {w \in Writers : ~Idle(w) /\ w \notin Adrift}
  /\ UNCHANGED <<mem, ofStore, ofDisk, abandoned>>

\* async_block_till_done: the newer tasks are done.
NewTasksDone == \A w \in Writers \ old : Idle(w) \/ w \in Adrift

\* ... the last listeners write, ...
FinalWrite ==
  /\ hass = "stopping" /\ NewTasksDone /\ hass' = "final_write" /\ UNCHANGED mem
  /\ IF finalListener
     THEN \E w \in Writers : Idle(w) /\ HandleWriteData(w, pending, handle, FALSE)
     ELSE UNCHANGED <<pending, handle, finalListener, at, job, absent>>
  /\ UNCHANGED <<nextWrite, callers, unlinking, reading, ofDisk, old, abandoned>>

\* ... and what has not ended by then is cancelled.
Close ==
  /\ hass = "final_write" /\ NewTasksDone /\ hass' = "closed"
  /\ at' = [w \in Writers |-> IF at[w] = "writes" THEN "adrift"
                              ELSE IF w \in Adrift THEN "adrift" ELSE "nothing"]
  /\ callers' = {} /\ old' = {} /\ abandoned' = (abandoned \/ Waiting # {})
  /\ UNCHANGED <<mem, pending, handle, nextWrite, finalListener, job, unlinking, reading, absent,
                 ofDisk>>

\* The process ends, and with it what is in memory.
Forgets ==
  /\ mem' = 0 /\ pending' = None /\ handle' = None /\ nextWrite' = 0 /\ finalListener' = FALSE
  /\ at' = [w \in Writers |-> "nothing"] /\ job' = [w \in Writers |-> NoJob]
  /\ callers' = {} /\ unlinking' = FALSE /\ reading' = None /\ absent' = FALSE
  /\ old' = {} /\ abandoned' = FALSE

\* The process waits for its threads.
Exit ==
  /\ hass = "closed" /\ Threads = {} /\ ~unlinking /\ hass' = "stopped" /\ Forgets
  /\ UNCHANGED ofDisk

\* The process dies, or the power fails: when the kernel has not yet written what
\* the file was replaced with, and nobody told it to, the file may be no JSON.
Crash ==
  /\ Alive /\ hass' = "crashed" /\ Forgets
  /\ torn' \in {torn, ~AtomicWrites} /\ UNCHANGED file

\* The next start: the owner loads the data.  A corrupt file is put aside; one that
\* an earlier version of the program wrote is migrated and saved at once.
Start(w) ==
  /\ ~Alive /\ hass' = "running"
  /\ file' = (IF torn THEN 0 ELSE file) /\ mem' = file' /\ torn' = FALSE
  /\ \/ UNCHANGED <<at, job>>
     \/ /\ file' # 0
        /\ at' = [at EXCEPT ![w] = "writes"]
        /\ job' = [job EXCEPT ![w] = [what |-> file, began |-> file]]
  /\ absent' \in BOOLEAN /\ (absent' => file' = 0)
  /\ UNCHANGED <<pending, handle, nextWrite, finalListener, callers, unlinking, reading, old, abandoned>>

Next ==
  \/ \E w \in Writers :
       \/ AsyncSave(w) \/ DelayedWrite(w) \/ GetsLock(w) \/ Writes(w) \/ WriteFails(w)
       \/ WriteRaces(w) \/ Resumed(w) \/ Cancelled(w) \/ Start(w)
  \/ \E d \in Delays : AsyncDelaySave(d)
  \/ FiredTooEarly \/ AsyncRemove \/ Unlinked \/ LoadPending \/ Load \/ Loaded
  \/ Tick \/ Stop \/ FinalWrite \/ Close \/ Exit \/ Crash

\* Time passes, due timers fire, threads end, and the loop resumes tasks and goes on
\* with a stop that has begun: one of them, as long as there is one.  Owners, callers
\* and loads owe nothing.
Progress ==
  \/ Tick \/ FiredTooEarly \/ FinalWrite \/ Close \/ Exit \/ Unlinked
  \/ \E w \in Writers :
       DelayedWrite(w) \/ GetsLock(w) \/ Resumed(w) \/ Writes(w) \/ WriteFails(w) \/ WriteRaces(w)

Spec == Init /\ [][Next]_vars /\ WF_vars(Progress)

-----------------------------------------------------------------------------
\* What is pending will be written: by a task that waits for the lock, by the
\* timer or by the final write.  Saves, loads, writes that fail, and the stages of
\* the stop leave that true (src/homeassistant/helpers/storage.py).
PendingIsCovered == pending # None /\ hass \in Up => Covered \/ abandoned

\* When nothing is pending and no thread is at work, the file holds what the owner
\* has: no save is forgotten, and none is lost to the thread that reads the data
\* while the loop changes it.
NothingForgotten ==
  hass \in Up /\ pending = None /\ Threads = {} /\ ~Excused => file = mem /\ ~torn

\* A load that began in quiet finds what was in memory then, or newer.
LoadSeesLatest == hass \in Up /\ reading \in Versions /\ ~Excused => Answer >= reading

\* When the write that a timer waits for begins.
BeginsIn == IF handle \in Ticks /\ handle >= nextWrite THEN handle ELSE nextWrite

\* A delayed save begins after the delay it is asked with, or before.
DelayIsKept ==
  [][\A d \in Delays : AsyncDelaySave(d) /\ hass = "running" => BeginsIn' <= d]_vars

\* What has changed is saved in the end, unless a write fails, or Home Assistant
\* stops first, as there are finitely many changes.  (An owner who asks again and
\* again, each time before the delay is over, puts the write off for ever.)
LeftAloneIsSaved ==
  (Alive /\ file # mem /\ ~Excused) ~> (file = mem \/ Excused \/ ~Alive)

\* The file follows the data as SavedCopy promises.
Contract == INSTANCE SavedCopy WITH
  disk <- IF torn THEN 0 ELSE file,
  life <- IF Alive THEN "up" ELSE hass,
  excused <- Excused,
  Durable <- AtomicWrites
ImplementsContract == Contract!Spec
=============================================================================
