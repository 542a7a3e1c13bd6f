# A TLA+ verification of the TIS integration for Home Assistant

This directory holds TLA+ models of the `tishai` integration (the Python files at
the top of `src/`) and of the parts of Home Assistant it leans on most (`src/homeassistant/helpers/`,
`src/homeassistant/config_entries.py`, `data_entry_flow.py`, `setup.py`), TLC
configurations that check them on small instances, and theorems with proofs checked by
TLAPS: of every safety property that a run checks, for every value of the constants, and
that component setup and config flows neither deadlock nor go on for ever.

Every action is one uninterrupted run of the asyncio event loop: from the point
where the loop calls into the code to the first `await` that really suspends, or
to the end. That is the granularity at which this program interleaves: it has one
thread, the integration has no locks, and it trusts that nothing happens between two of its
lines unless one of them awaits. The one exception is the storage, whose writes run in
threads of the executor: there a thread's step is an action of its own.

Tools: TLC 2 with the community modules, TLAPS 1.4.5 (Z3, Zenon, LS4).

    tlc -workers 2 -config MCDevices.cfg MCDevices.tla
    tlapm AdminLockProofs.tla

## 1. Inventory

### The system

The integration connects Home Assistant to TIS building-automation modules, which
speak UDP. Each entity class listens to the event bus for events named after its
device id, which the protocol library (`TISControlProtocol`, not part of the
repository) fires when a datagram arrives, and answers service calls by sending a
datagram, most often with `send_packet_with_ack`, which resends and returns whether
an acknowledgement came. Nothing else connects entity and device: what an entity
shows is what its handlers have put together from events and acknowledgements.

| Component | State | Operations | Interacts by |
|---|---|---|---|
| Admin lock, `src/lock.py` | `is_locked`, `changed_by`, the handle of the auto-lock task | `async_lock`, `async_unlock`, `auto_lock` (a task that sleeps 60 s), reload | fires `admin_lock` |
| Security panel, `src/select.py` | option, `_read_only` | `async_select_option`, `handle_event` | listens to *every* event of the bus; packets with acknowledgement |
| Covers, `src/cover.py` | shutter: `is_closed`, `last_status`; position cover: position, `is_closed` | open, close, stop, set position; handlers of four kinds of event | packets with acknowledgement, events of the module |
| Switches, `src/switch.py` | `_state` | turn on, turn off; handlers of four kinds of event | the same; fires `offline_device`, which the neighbours on the module hear |
| Lights, `src/light.py` | dimmer: brightness; RGB(W): colour, on, flags; CPU fan: brightness, on, the duty of a pin | turn on, turn off; handlers | the same, three or four packets to a colour; the fan drives a pin |
| Climate, `src/climate.py` | mode, target, fan, bounds, remembered temperatures | set mode, temperature, fan; handlers of two kinds of feedback | the same; the floor heater sends without waiting |
| Sensors, `src/sensor.py`, `src/coordinator.py`, `src/entities.py` | value of each sensor; the module global `coordinators`; the timer of the CPU sensor | callbacks of the coordinator, event handlers, the timer | through the coordinator; events; `cpu_temperature` events to the fan |
| Update coordinator, `src/homeassistant/helpers/update_coordinator.py` | listeners, refresh timer, `last_update_success`, shutdown | add and remove listener, refresh, request a refresh, push, push an error, shutdown | timers; callbacks; a debouncer of its own |
| Debouncer, `src/homeassistant/helpers/debounce.py` | timer, `_execute_at_end_of_timer`, lock, shutdown | call, schedule, cancel, shutdown, timer | timers; awaits a function |
| Setup, unload, web endpoints, `src/__init__.py` | `runtime_data`, `hass.data[DOMAIN]`, `appliance_data.json` | setup, unload, POST, scan, key | config entries, HTTP views, `discovered_devices` |
| Config entry, `src/homeassistant/config_entries.py` | `state`, `reload_lock`, `_async_cancel_retry_setup`, `_on_unload`, tasks, `disabled_by` | setup, retry, reload, unload, disable, enable, remove, shutdown | calls the integration; timers; callbacks |
| Config flow, `src/config_flow.py`, and the flow manager, `src/homeassistant/data_entry_flow.py` | the flows in progress, the step each is at, tasks that initialise | open, submit, close, stop | adds config entries, sets up their component |
| Component setup, `src/homeassistant/setup.py`, `loader.py` | the futures of the setups in progress and over, the components that are there | ask for a component; dependencies, setup, entries | everybody who asks for a component shares its future |
| Entity platform, `src/homeassistant/helpers/entity_platform.py`, `entity.py`, the state machine of `core.py` | the entities of each load, their states, the registry entry | add, remove, disable, rename, delete; a handler writes a state | registry events; the listeners of TIS entities |
| Storage, `src/homeassistant/helpers/storage.py` | `_data`, the delay timer, `_next_write_time`, the final-write listener, the write lock, the file | load, save, delayed save, remove, final write | owners (registries, config entries), threads, the stop |
| Scripts, `src/homeassistant/helpers/script.py` | `_runs`, the stop event of each run | call in four modes, stop, cancel, shutdown | runs call scripts; services; the stop |
| Event bus, `src/homeassistant/core.py` | listeners | fire, listen | everybody |

Dead or stateless: `src/binary_sensor.py` and `src/weather.py` (their platforms are
not in `PLATFORMS`, `src/__init__.py:28`), `src/ST7789/` (SPI writes),
`src/auto_update.sh` (a `git pull`), and the remainder of the vendored Home Assistant
core (templates, validation, loaders, other platforms), which is used as a library.

### What is hard here

* **Interleaving at the awaits.** Two commands for one device, or a command and a
  feedback event, overlap while one waits for its acknowledgement; state read
  before the wait is used after it (`src/cover.py:346`, `src/climate.py:421`).
* **An unreliable network.** Packets, acknowledgements and reports are lost, late
  or out of order. A lost acknowledgement does not say whether the packet was.
* **Partial information.** A report carries one bit, one channel or one property;
  the entity must not conclude more than it says (`src/cover.py:141`,
  `src/light.py:315`, `src/climate.py:272`).
* **Timers and tasks that outlive what they are about.** The auto-lock task of an
  earlier unlock, or of an entity that a reload has replaced (`src/lock.py:54`);
  the coordinator's timer; the debouncer's timer that fires during a run.
* **The event bus as a control channel.** The panel takes every event for a
  statement about the lock (`src/select.py:76`), so that the order of the events
  within one service call decides whether it is protected.
* **Setups that fail.** A setup ends in one of four ways, an unload in three, three of
  the seven wait for a clean-up; timers retry, users and POSTs reload meanwhile
  (`src/homeassistant/config_entries.py:571-792`).
* **Reloads.** Module globals, tasks, timers and listeners survive them
  (`src/sensor.py:113`, `src/sensor.py:215`, `src/switch.py:126`).
* **Callers that share.** The futures of component setups, the reload lock, the runs of a
  script and the flow of a dialog are awaited by many, some of whom are cancelled, and
  some of whom wait for each other (`src/homeassistant/setup.py:212`,
  `src/homeassistant/helpers/script.py:545`).
* **Stops and crashes.** What a store has in memory only must reach the disk by one of
  three ways: the timer, a task, the final write
  (`src/homeassistant/helpers/storage.py:418`).

The list with lines and properties is `hazards` in PROJECT.json; each has a property
that some run checks.

### What makes each component correct

* Lock: an open lock closes, once, at the end of the timeout of its *last* unlock,
  and is never shown closed while open.
* Panel: read only only while the lock is locked; shows the mode of the module.
* Devices: once an exchange that ran alone is over and all is quiet, entity and
  device agree; and *whatever* is lost or overlaps, the entity invents nothing.
* CPU fan: within an interval it does what the temperature asks for.
* Coordinator: while someone listens and the last outcome was not fatal, a poll is
  armed or under way; there is never a timer that cannot be cancelled; a request is
  followed by a fetch that began after it.
* Debouncer: requests are served or cancelled, runs are a cooldown apart.
* Config entry: never set up twice, never loses its retry, never keeps its lock; once
  removed it is down, or the user is told.
* Config flow: one flow makes one entry, which is set up once, and everybody is answered.
* Component setup: dependencies first, once, and whoever asks is answered.
* Entities: no object that is gone shows a state, no two are there at once, and a reload
  ends with the new one.
* Storage: the file follows the memory, through stops, crashes and restarts.
* Scripts: at most one run unless the mode says otherwise; the newest wins; none waits
  for ever.
* Endpoints: what is loaded is what was posted last; a scan returns who answered it.

## 2. Modules

One module per component, with its devices and the network as its environment.

| Module | Models | State and actions, and the code they are |
|---|---|---|
| `AdminLock` | `src/lock.py`, and the poll and the write after a service call of the core | One function entry per entity the setups have created (`isLocked`, `changedBy`, `autoLockTask`); `pending`, `owner`, `left` are the asyncio tasks asleep in `auto_lock`; `shown` is the state machine's record. `Lock`, `Unlock`, `Refuse` (a wrong code), `AutoLock`, `Poll`, `Reload`, `Tick` (a unit of time; a woken task may run late). |
| `RelockingLock` | what the lock promises | `open`, `age` since the last unlock, `shownOpen`: no tasks, no handles, no entities. `AdminLock` implements it (`ImplementsContract`). |
| `SecurityPanel` | `src/select.py`, the security module | `option`, `readOnly`; `SelectOption` up to the await, `Acknowledged` and `NotAcknowledged` after it; the three branches of `handle_event` as `AdminLockEvent`, `OtherEvent`, `SecurityFeedback`; `Keypad`, `Apply`, losses. |
| `LockedPanel` | lock and panel on the bus of `src/homeassistant/core.py` | `AdminLock` and `SecurityPanel` as instances. A step of one is a step of the other: which events the step fires, and in which order, decides the protection. |
| `ShutterCover`, `PositionCover` | the two classes of `src/cover.py` with their module | One action per service up to the await, two for what follows, one per kind of event; `motor`, `actual` are the device; people at the wall. |
| `SwitchModule` | `src/switch.py`: *all* channels of a module | The entities share the device id, and hence each other's `offline_device` events; one report may carry all channels. |
| `LightLevels`, `DimmerLight`, `ColorLight` | `TISLight`, `TISRGBLight`, `TISRGBWLight` of `src/light.py` | The conversions brightness to percent and back, truncations included; brightness and what Home Assistant shows of it; the packets of a colour one after the other (`NextPacket`, `LastPacket`), the handlers that raise half way (`UpdateResponseRGB`, `ResponseTooEarly`). The constant `White` tells the two colour classes apart. |
| `AirConditioner`, `FloorHeating` | the two classes of `src/climate.py` | Mode, target, fan, range, remembered temperatures; feedback that tells one thing, or all. The floor heater's packets are not awaited, so that they lie on a wire of their own (`packets`). |
| `CpuFan` | `TISCPUFan` of `src/light.py` and `CPUTemperatureSensor` of `src/sensor.py` | The pin's `duty`, what the fan believes (`brightness`, `state`), and per sensor object the ticks until its timer fires: the objects of former loads tick on. `SetUp`, `WillRemoveFromHass`, `NewSensor`, `TurnOn`, `TurnOff`, `Update` (timer, event and handler in one run), `CpuChanges`. |
| `UpdateCoordinator` | `src/homeassistant/helpers/update_coordinator.py` | `timers` are the handles pending in the loop, `unsub` the one that `_unsub_refresh` names; a refresh is a start (`RequestRefresh`, `TimerFires`) and an end (`Return` with one of five outcomes, `Cancel`) with `previous` read between; pushes (`SetUpdatedData`, `SetUpdateError`), listeners, shutdown. |
| `SensorPolling` | `src/sensor.py`, `src/coordinator.py` and the entry that owns them | Extends the coordinator by the module global `coordinators`, `_on_unload` and the phases of the entry. |
| `ConfigEntry` | the life cycle of one entry in `src/homeassistant/config_entries.py` | `state`; `reloadLock` is the FIFO queue of `reload_lock`, its head holds it; `timers` are the retries pending in the loop, `cancelRetry` the one `_async_cancel_retry_setup` names; `at` is what each caller awaits. `SetDisabled` sets the flag and reloads, `Remove` takes no lock; `known` says whether the entry is still there. The outcomes of the integration's setup and unload are actions, and so is the clean-up that follows some of them. A retry during the start of Home Assistant, which waits for an event, counts as a timer. |
| `Publishing` | `POST /api/tis`, setup and unload of `src/__init__.py`, over `ConfigEntry` | Extends it by the file, by what the platforms have read, and by the posts (`Open`, `Write`, `ReloadPlatforms`). Of the outcomes of a setup only those occur that this integration has. |
| `DeviceScan` | `GET /api/scan_devices` | `discovered` is the list in `hass.data`, which belongs to no scan; `Begin`, `Again`, `Return`; devices answer, late or never. |
| `Debouncer` | `src/homeassistant/helpers/debounce.py` | The branches of `async_call` as `RequestIgnored`, `RequestDeferred`, `RequestArmed`, `RequestServed`; the end of the function as `Return`; `TimerFires`, `Cancel`, `Shutdown`. |
| `RequestedRefresh` | coordinator and debouncer together: `async_request_refresh` | Extends the coordinator, with the debouncer as an instance. A step of one is a step of the other or leaves it alone: each refresh, push and shutdown cancels what the debouncer has in mind, and the end of a refresh that the debouncer started (`debounced`) is its `Return`. |
| `ConfigFlows` | `src/config_flow.py`, the flow manager, `ConfigEntries.async_add` and the first setup of the component | Per flow whether it is initialising, a form, or over; per request what it awaits and was answered; per entry how far its setup is. `component` tells the setup that takes along every entry there is. |
| `ComponentSetup` | `async_setup_component` of `src/homeassistant/setup.py` | The two dependency graphs, `deps` and `after`, are chosen at the start; circles in `deps` are refused as the loader refuses them, circles in `after` are not. `setupFuture`, `doneFuture`, `toBeLoaded` are the three entries of `hass.data`; `Ask`, `Start`, `DependenciesDone`, `SetupFails`, `SetupSucceeds`, `EntriesDone`. |
| `EntityLife` | one entity through loads, with its objects, its registry entry and the states of two entity ids | Per object whether it is new, added, being removed or gone; `Load`, `Added`, `AddedRaises`, `Unload`, `Removed`, `RemovalRaises`, `AddedAgain` (a rename), `Delete`, `Disable`, `Rename`, and `Feedback`, the handler that writes a state. |
| `Store` | `src/homeassistant/helpers/storage.py` with its owner, the executor's threads and the stop of Home Assistant | `pending` is `_data` (a version, or a function of the moment), `handle` and `nextWrite` the timer, `at` and `job` the tasks that write, `hass` the stages of a stop. `AsyncSave`, `AsyncDelaySave`, `DelayedWrite`, `FiredTooEarly`, `GetsLock`, the thread's `Writes`, `WriteFails`, `WriteRaces`, `Resumed`, `Cancelled`, `Load`, `AsyncRemove`, `Stop` to `Exit`, `Crash`, `Start`. |
| `SavedCopy` | what a store promises its owner | `mem`, `disk`, `life`: the disk follows and never goes back, is complete after a stop, and is what the next start finds. `Store` implements it (`ImplementsContract`). |
| `ScriptRuns` | `Script` and `_ScriptRun` of `src/homeassistant/helpers/script.py` | `runs` is `_runs`; per run its phase (`yields`, `clears` the others, `waits` in the queue, `runs`), whether it was told to `stop`, which run's step called it. `AsyncRun`, `Yielded`, `Cleared`, `Acquires`, `LeavesQueue`, `Ends`, `CallCancelled`, `AsyncStop`, and the two stops of the shutdown. |

Four modules put components side by side that share nothing, so that each behaviour is
one of one component, chosen at the start: `MCDevices` (panel, covers, switches, air
conditioner), `MCAppliances` (lights, fan, floor heater, and panel and lock on the bus),
`MCIntegration` (entry, flows, endpoints, polling; the endpoints on an entry of their own), `MCCore` (debouncer, store, entity,
components, scripts). Of the last two, the components that rest stay in an initial state, of the first two their
variables are unused. `MCRequestedRefresh` and `MCAdminLock` only give a module its run;
the `_doc` runs take the component modules as they are. `...Proofs` modules hold the
theorems of the module they extend (section 5).

What is abstracted everywhere: the bytes of packets, logging, icons and names,
translations, `unique_id`, and the fields nothing ever reads.

Devices are external code. A device takes a packet, does it, and reports; the packet
may reach it and the acknowledgement not, an acknowledgement may come before or after
the report, and a report may be overtaken or lost. A device that does what it is
told to is assumed; one that answers something else is not modelled.

*History variables* (`clean`, `held`, `driven`, `sinceUnlock`, `disorderly`, `calm`, ...) are marked so in the
modules. They never guard an action. `clean` is how "an exchange that ran alone" is
said: it becomes true when an exchange begins in quiet, and false as soon as a second
one begins before it is over, something is lost or something goes untold. Without such
a premise no agreement could hold over UDP; with it, the properties are about the
*code*: whether the acknowledgement and the report, in either order, leave the entity
with what the device has.

## 3. Runs

Bounds cap only the environment: the number of commands in flight, reports on the
wire, reloads, calls and changes, and timer, task and request *names*, which are reused
where the code reuses them.

| Run | Question | Bounds, and why they are enough |
|---|---|---|
| `lock` | An open lock always has exactly one task of its own, none closes it early, none shows it closed while open; it closes, and is shown so; it implements `RelockingLock`. | 2 setups (the new entity and the tasks of the old), 3 tasks (the task of the old entity, the one being replaced and its successor), a timeout of 2 ticks (so that unlocks fall into the middle of one). |
| `devices` | Panel, shutter, position cover, switches, air conditioner: agreement after lone exchanges; nothing made up whatever happens; stops reach the motor; the temperatures of an air conditioner go to the right mode. | 2 commands, 2 reports (one to overtake the other), positions 0, 50, 100 (the ends and one between), 2 channels; two modes, as the hazard is between two. The air conditioner comes with one command in flight and a report, and again with two commands and no reports. |
| `appliances` | Lights and floor heater: agreement; truncations do not add up; a heater is not switched. The fan follows the temperature whoever sets it and however often it is reloaded. The panel is read only only while the lock is locked, or after the task of a replaced lock has fired. | As above; brightness 2 and 252 (one that truncates to percent 0, and one on which each conversion loses something), percent 0, 1, 99; the colour lights with one shade more than black and one report, RGBW with one command in flight. Fan: 2 sensor objects (a reload's and its predecessor's), 40.0, 40.9 and 41.0 degrees (both sides of the threshold and the fraction that is cut off), an interval of 2 ticks. Panel: the bounds of `lock` with a timeout of 1, one option, one select and one feedback: the order of events does not depend on more. |
| `coordinator` | The next poll is armed while somebody listens; one timer; who listens knows the last outcome, unless refreshes overlapped and none was told alone since; the debouncer's lock is held while a refresh of its own runs, and a request is followed by a fetch that began after it. | 2 listeners (the last one leaving, or not), 2 refreshes (overlap), 2 timers (one to escape), 1 timer of the debouncer, a cooldown of 1. |
| `core` | Debouncer: a remembered request has its timer and is served, runs are a cooldown apart. Store: what is pending will be written, no save is forgotten, a load finds the last one, what is left alone is saved, the contract is kept. Entity: no ghosts, one object, the new one is added. Components: dependencies first, once, and everybody is answered. Scripts: at most one run, the newest wins, nobody waits for ever. | Debouncer: 2 timers (one to leak), a cooldown of 3 ticks, `immediate` of both values. Store: 2 writers (one that holds the lock and one that waits), delays 1 and 2 (so that one is shorter), 3 versions, files that are not synced. Entity: 2 loads, 2 entity ids besides a reserved one. Components: 3, with 2 edges of either kind (a chain, a fork, a circle). Scripts: 3 runs with `max_runs` 2 (a queue, and two restarts against a third). |
| `integration` | An entry is set up once at a time (`OneSetUp`), is retried by the timer it knows (`RetriesAreKnown`) and is down when it is removed; a flow makes one entry, and who has submitted one does not wait for what will not come (`FlowsKeepWord`); who asks for the entry's setup, reload or removal gets through (`EveryoneGetsThrough`); what is loaded is what was posted last; a scan returns who answered it; until the first unload a device is polled again and again. | 3 callers (one that holds the lock and two that wait), 2 retry timers (one that escapes); 2 flows and 4 requests (each form submitted twice); 2 scans (overlap), 2 devices, 2 broadcasts of 10; 2 sensors, 2 refreshes and any number of reloads. |
| `..._doc` | What a comment, a docstring or a message of the code says, refuted: section 6. | The smallest instance that shows it. |

The properties are the ones that take several steps, mostly of several actors, to
break. A type invariant stands in each module; run `lock` checks one, and for the modules
of section 5 it is proved. In PROJECT.json every property
has a *mutant*: a plausible bug of the code (a cancel left out, a reset forgotten, a
test the other way round) under which TLC finds it violated. The mutated definitions
stand in the modules beside what they change, marked `Mutation:`, and nothing uses them.

Some properties except a case, because the code goes wrong there itself; it is named in the
property, and in the `note` of its hazard. Refreshes that overlap keep an outcome from the
listeners until the next one told alone. A colour light, an air conditioner and a floor heater
agree with their entities after commands that run alone and lose nothing, and only then
(section 6 tells what happens otherwise). A scan is disturbed by another; two POSTs that write
at once may leave a torn file. A retry that wakes before its attempt was cleaned up, and a
removal that meets other callers, are `disorderly`: the entry may be set up while it is loaded,
or deleted while it is. Two `after_dependencies` that lead to each other (`Circle`) wait until
the timeout of the stage.

`RunsGoOn` is checked for one run of a script, which stands for all, as their names are
interchangeable.

## 4. Fairness

* `lock`: time passes (`WF(Tick)`), a woken task is resumed (`WF(AutoLock(t))`) and
  the entity platform polls (`WF(Poll)`, `should_poll` is true of the lock). These are
  promises of the event loop and of `entity_platform.py`. Users owe nothing.
* `coordinator`: time passes, timers that are due fire (the debouncer's and the
  coordinator's), and a fetch ends with one of its outcomes, as
  `TISControlProtocol` gives up on a packet. Listeners and requests owe nothing.
* `core`, debouncer: time passes and a timer that is due fires. The debounced function need
  *not* end: `EventuallyServed` says what holds if it does.
* `core`, store: as long as there is one, some step comes of those that only the clock,
  the executor or the loop make: a tick, a timer that is due, a thread that ends, a task
  that is resumed, the next stage of a stop that has begun (`Progress`).
* `core`, scripts: a task that may go on is resumed, and a step that was told to stop
  ends (`Resumes(r)`; every wait of `script.py` is a race with the stop event). A step
  that was not may last for ever.
* `integration`, polling: a timer that is due fires, and a fetch ends, by an answer or by the
  timeout inside `send_packet_with_ack`. Sensors, users and reloads owe nothing.
* `integration`, entry: the integration's setup and unload end (they await the socket,
  which gives up), the clean-up gives up after ten seconds, and who has got the lock is
  resumed: `WF(Resumes(c))` for each caller. Retry timers owe nothing.

Components and flows need no fairness beyond the loop's own: while somebody waits, a step is
possible (`AskedIsAnswered`, `FlowsGoOn`), and each step brings a finite task nearer to its end
(`SetupsAdvance`, `FlowsAdvance`); so everybody is answered. Both halves are proved (section 5).
The two invariants name the steps by their guards, since the prover does not know ENABLED; TLC
has found the guards equal to ENABLED of the steps on the instances of the runs. The two
measures are checked by no run; TLC has checked them on those instances, too. The device runs
check safety only: the program retries nothing beyond the library's resends, so nothing need
become right after a loss.

## 5. Proofs

Eight modules hold the proofs. What they prove holds for every value of the constants: any
number of callers, tasks, timers, commands and reports, and every level, delay and option.
The theorems about the properties of a run are about the specification the run checks.

| Module | Theorems | The argument |
|---|---|---|
| `AdminLockProofs` | `TypeCorrect`, `Armed`, `OneTask`, `ShownIsSafe`, `NoEarlyLock`, `Implements` | `Armed` is not inductive: nothing in it keeps a second task from closing the lock. With "the pending task of an entity is the one its handle names" and "its sleep is over when the timeout since the last unlock is", it is: the cancel in `async_unlock` is then enough. `Implements` maps entities, tasks and handles away: `open` is "the live entity is not locked". It covers initial states and steps; the fairness of the contract stays with TLC. |
| `DevicesProofs` (run `devices`) | `LoneExchangesAgree`, `NothingIsInvented`, `StopsTheMotor`, `RemembersTemperature` | What is checked when all is quiet is not inductive. The invariants say what holds while an exchange runs alone: a command that has not been applied, with an empty wire; or one that has, with reports of what it did; or reports only. Each class of device adds what its entity makes of them. |
| `AppliancesProofs` (run `appliances`) | `LoneExchangesAgree`, `FollowsTheTemperature`, `ResendingDarkens`, `SettingKeepsRunning`, `ProtectionFollowsLock`, `PanelTypeCorrect`, `LockUnaffected` | The same for lights and heater; a colour goes out as several packets, so that its invariant tells the channels behind the command from those ahead of it. The fan: the newest sensor object ticks, and within an interval nothing but the temperature may change the duty. The panel: one step per order of events, each leaves it unprotected or the lock closed by the entity recorded in `locker`; `LockUnaffected` says that the composition is still `AdminLock`, so that its theorems carry over. Of the arithmetic, `ThereAndBack`: a percentage that is told, shown and sent again loses at most one. |
| `RequestedRefreshProofs` (run `coordinator`) | `TypeCorrect`, `LockIsTheRefresh`, `PollsGoOn`, `NoTimerEscapes`, `ListenersAreTold`, `PartsAreUnaffected`, `CoordinatorAlone` | Of the coordinator: at most one timer exists and the handle names it; without overlap one refresh at most is in flight, and it remembers the success the listeners were told of; an overlap is forgotten with the next outcome that is told while nothing else is in flight, since that tells every listener. Of the two together: the debouncer executes while, and only while, the refresh it started is in flight, and no timer of its is set then. `PartsAreUnaffected`: the composition is still a coordinator and a debouncer. `CoordinatorAlone`: the coordinator keeps its promises without the debouncer, too. |
| `CoreProofs` (run `core`) | `RequestIsArmed`, `RateIsLimited`, `NoTimerEscapes`, `AbortsAreDead`, `RequestsAreKept`; `SaveIsCoveredHere`, `NoSaveIsLost`, `TheStoreKeepsItsWord`; `ObjectsAndStatesAgree`, `AReloadAdds`; `SetupFollowsDependencies`, `WhoAsksIsAnswered`, `SetupsEnd`; `RunsDoNotOverlap`, `TheNewestStays` | Debouncer: no timer is set while the function runs, so that the two aborts "if timer got set while we're waiting for the lock" are dead code; and what is left of the timer and the time since the last run make up the cooldown. Entity: as long as nothing has crossed an addition, one object is placed, a state is its own or, while it is being added, reserved for it, and what an object on its way out still shows is awaited by the unload. Components: what a setup that waits does not wait for is there (`Awaits`); no deadlock: see below. Scripts: a restart leaves one run that will start, and it waits for those that run (`Restarts`). |
| `StoreProofs` | `StoreTypes`, `SaveIsCovered`, `SaveIsNotForgotten`, `LoadIsUpToDate`, `StoreImplementsContract` | The invariant has two halves. `Coverage`: who is at work holds the lock, a timer or a final-write listener stands for what is pending. `Contents`: what a thread writes is not older than what the file holds, and the version a write began with bounds what it may write. The contract follows step by step from the second; `SavedCopy` has no fairness, so that the theorem is the whole of `ImplementsContract`. |
| `ConfigEntryProofs` | `SetUpIsOnce`, `RetryStaysPending`, `RemovedStaysDown`, `NoRetryStrays` | `LockOK` says who may be where: in the queue of `reload_lock` only the first works, who works as only a reload does is in it, and the first setup is one. It is kept by every step (`CallersMove` sorts them into five kinds of moves). On it stands `Orderly`: beside one that holds the lock, or sets up without it, there are only bystanders (`Alone`), and what a bystander is allowed is true whatever becomes of the entry (`AmongBystanders`). `RetryIsPending` needs no order: it holds also when removals and retries meet. |
| `IntegrationProofs` (run `integration`) | `NobodySetsUpTwice`, `RetriesComeAsKnown`, `WhatIsRemovedIsDown`, `FlowsAreServed`, `FlowsEnd`, `TheEndpointsKeepTheirWord`; `PollsAreArmed`, `UnloadEndsPolling`, `PollingIsCoordination` | Endpoints: every step is one of their entry or leaves it alone (`PublishingIsEntry`), so that `LockOK` and `Orderly` hold; hence a reload that has waited for the lock is not refused (`LockMeansFree`), and `NothingIsStale` is inductive: unless the file is being written or a reload is coming, the platforms have read nothing but what it holds. Scan: what a waiting scan will return is what it has heard, unless another has emptied the list. Flows: `SetUps` - nothing begins before the component is there, so that its setup finds every entry "not yet" begun, and who waits for the component has been taken along by it; `Forms` - a flow that shows its form has made at most one entry, which is still being added; `Settles` - who waits for a setup waits for one that has begun, and who waits for the component has found its future. Polling: `PollingInv` - until the first unload the poll is armed or a fetch that will arm it is in flight, and from then on the coordinator in the cache is shut down; a step of the polling is one of the coordinator or leaves it alone, so that the polling implements it. |

`CoreProofs`, `DevicesProofs`, `AppliancesProofs` and `IntegrationProofs` have one invariant per
component. A step of one component preserves its own, and leaves the variables of the others
alone, so that the conjunction is inductive.

`WhoAsksIsAnswered`, that component setup has one deadlock only, is about graphs of any finite
size. `Resolves` and `Reaches` are inductive: a component whose future is pending has a setup
under way, a dependency that a setup waits for has been asked for, and who waits was not refused
by `resolve_dependencies`. Suppose that nobody can go on and not everybody is answered. Then
there are setups that wait for futures which are not resolved (`Blocked`), and each waits for
another one (`BlockedByBlocked`). Among the sets of those that a blocked one waits for in the
end (`Leading`) there is a least, by inclusion (`LastKnot`, by `WFMin` on the subsets of the
finite `Domains`); in it every component leads to every other. Were one `after_dependency` or
none among its waits, the circle would be one that `resolve_dependencies` walks, and its
components would have been refused; so there are two (`KnotHasTwo`), and they lead to each
other, which is the `Circle` the invariant exempts (`StepOrCircle`). `SetupsEnd` and `FlowsEnd`
are the measures: the rank of no setup, flow or request falls, and each step raises one, asks
for another component or is the stop of Home Assistant. What is left between the two theorems
and "everybody is answered" is the fairness of the event loop.

Assumptions: the constants' `ASSUME`s (`MaxSetups`, `Timeout` positive naturals,
`NoTask` no task, and one for each of the four modules that put components side by side:
`NoTimer` is no timer, `Domains` is finite, the bounds are numbers, brightnesses are bytes, the contents of the
file differ, and the like) and, as hypotheses of theorems about a module by itself,
`StoreConstantsOK` (delays and versions are numbers; `None`, `Func`, `Fired` are not) and
`EntryConstantsOK` (`NoTimer` is no timer). The last two are definitions and no `ASSUME`s
because the modules are instantiated; the `MC` modules assume them of the values they give.
`Callers`, `Timers`, `Writers`, `Tasks`, `Flows` and `Requests` may be infinite.

Some properties are proved and no longer checked by a run, as they stand between others:
`OneTaskPerEntity`, the debouncer's `OneTimer`, `NoTimerDuringRun` and `NeverForgotten`.

Only model-checked: all liveness (the fairness part of the lock's `ImplementsContract`,
`PolledUntilFirstUnload`, `RequestedIsFetched`, `EventuallyServed`, `LeftAloneIsSaved`,
`RunsGoOn`, `EveryoneGetsThrough`), which is out of the prover's reach, as is that the guards of
`AskedIsAnswered` and `FlowsGoOn` are ENABLED of the steps. No model recurses over data, so no
induction theorem is needed.

## 6. Where the code does not do what it says

Shown by a run that TLC refutes (`findings` in PROJECT.json):

* `locked_panel_doc`: `src/select.py:114` refuses a select while the panel is
  protected. The service's own `call_service` event lifts the protection first.
* `shutter_doc`: "we need to send both packets here" (`src/cover.py:345`); one is sent.
* `publishing_doc`: a POST during the first setup (the view is registered before the
  platforms are set up) is answered "success", and its reload is refused.
* `polling_doc`: after a reload the coordinator of the cache is shut down, its first
  timer finds that out, and the device is never polled again.
* `color_light_doc`: turning on an RGB light without a colour sends nothing.
* `store_doc`: a save with a short delay may wait for the long delay of a save that was
  written long ago (`_next_write_time` is left as it is where the timer is set anew).

Met while modelling, followed by the models as the code is. Of the integration:

* The comment at `src/lock.py:56` says 30 seconds, the timeout at line 27 is 60; the
  models have any timeout.
* `TISRGBLight` reads a `rgb_values_flag` that does not exist (`src/light.py`), after it
  changed the colour; an RGB light that is off is shown on after an `update_response`;
  the flags of RGBW are never reset.
* Brightness 1 and 2 go out as 0 %; `binary_feedback` and `offline_device` set a field
  of the dimmer that nothing reads.
* The fan that a user switches off is on again within ten seconds; 40.9 degrees count as
  40; the timers and listeners of the CPU sensor and of the fan outlive every reload;
  `async_turn_off` of the fan writes no state.
* An air conditioner that is off has no range to set a temperature in, and an
  `ac_feedback` that says only "on" does not change its mode.
* `TISFloorHeating.async_set_temperature` first sends the state it remembers, off until
  it is told (`src/climate.py:619`): setting the temperature of a running heater whose
  report was lost switches it off. `FloorKeepsRunning` says when it does not.
* Two scans at once take each other's devices away; two POSTs at once may leave a file
  that is no JSON; the views of the first setup answer for ever, with its `TISApi`.
* Locking by hand never leaves the panel protected, as the `state_changed` event that
  follows lifts it: only the auto-lock task does, until the next event of any kind.
* A form that is submitted twice makes two entries for one port, as the flow sets no
  unique id; a dialog that is closed while its entry is set up answers "unknown flow"
  although the entry is there (`again` records it).

Of the part of Home Assistant it stands on:

* Refreshes that overlap may end with an outcome that no listener is told, until the next
  one that is told alone (`ListenersToldUnlessOverlapped`).
* A retry of a setup that was not ready is scheduled before the clean-up after the
  attempt, which may take longer: the retry then waits behind it for `reload_lock`,
  where no reload can cancel it, and sets up an entry that may be loaded by then. The
  docstring of `async_reload` admits such a race. A removal takes no lock, and deletes an
  entry that others set up or unload. `disorderly` records both. Disabling an entry that
  is setting up is refused after the flag was recorded.
* A component whose setup has failed is never tried again; `after_dependencies` that make
  a circle wait for each other until the timeout of the stage.
* An entity that is renamed while it is unloaded or removed leaves a state nobody owns, or
  a second object; a rename or a deletion while the platform is down, or a removal that
  raises, leaves a state that keeps the new object out (`crossed`, `failed`).
* Of a store: a caller of `async_save` who is cancelled leaves a thread that may overwrite
  newer data; `async_remove` is undone by a write in flight; a write that fails drops its
  data; asking more often than the delay puts the write off for ever.
* Of a script: two restarts that yield at the same time stop each other; a restart whose
  caller is cancelled while it yields or waits leaves a run in `_runs` that nobody starts
  or removes, so that the script counts as running for ever (`crossed`). Parallel branches
  share the list that detects recursion, so that it is seen where there is none, or missed.

## 7. Not modelled, and what could come next

Not modelled: the values of the sensors' feedback events; migration, ignored entries and
discovery flows of the config entries; flow steps that show progress or a menu; the
platforms, requirements and stage timeouts of component setup (`util/timeout.py`); the
steps of a script and its templates and traces; the consistency of the device and entity
registries with each other. The larger part of `src/homeassistant/` (templates,
validation, the loader, configuration, logging, the helpers for events and services, and
all components) is vendored: the integration calls a few functions of it, most of them
without state, and a model of them would say nothing about this program. Dead code
(`src/binary_sensor.py`, `src/weather.py`) and pure I/O (`src/ST7789/`,
`src/auto_update.sh`) stay out for good.

Next, in this order:

1. Contracts for the other components, after `RelockingLock` and `SavedCopy`: a polled
   device for `SensorPolling`, a rate-limited server for `Debouncer`, a mirrored device for
   the entities; refinement checked, then proved.
2. `TimeoutManager` with its freezes, and the stage timeouts of component setup on it.
3. The registries: what a removed entry leaves of its devices and entities.
