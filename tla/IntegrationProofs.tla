-------------------------- MODULE IntegrationProofs --------------------------
(***************************************************************************)
(* Proofs about MCIntegration, for any number of callers, timers, flows,   *)
(* requests, scans, devices and broadcasts: the config entry is set up     *)
(* once and retried by the timer it knows, what is loaded is what was      *)
(* posted last, a scan finds what answers, and a flow makes one entry.     *)
(*                                                                         *)
(* The invariant of the entry is in ConfigEntryProofs; the posts build on  *)
(* it, as every step of theirs is one of the entry, or leaves it alone.    *)
(* The flows stand on where the setups may be while the component is being *)
(* set up (SetUps) and on what a flow that still shows its form has made   *)
(* (Forms).                                                                *)
(***************************************************************************)
EXTENDS MCIntegration, ConfigEntryProofs

-----------------------------------------------------------------------------
(* The endpoints: posts and the setups that read what they have written.    *)

\* What of its life the entry shows them: it is never retried, disabled or removed.
Plain ==
  /\ ~disorderly /\ known /\ ~disabled /\ timers = {}
  /\ state \in {"setup_in_progress", "loaded", "setup_error", "not_loaded"}
  /\ \A c \in Callers : at[c] \in {"nothing", "lock to reload", "setup", "unload", "unloaded"}

\* Somebody is about to set the entry up anew.
ReloadIsComing == \E c \in Callers : at[c] \in {"lock to reload", "unload", "unloaded"}

\* No platform has read anything but what the file holds, unless the file is being
\* written, or is about to be read again.
NothingIsStale ==
  (\A c \in Callers : post[c] \notin {"writing", "written"}) /\ ~refused =>
    ReloadIsComing \/ read \subseteq {file}

PublishInv ==
  /\ PublishingTypeOK
  /\ Plain
  /\ state = "loaded" => read # {}
  /\ NothingIsStale
  /\ file = Torn /\ Writers = {} => overlapped

\* A step of the endpoints is one of their entry, or leaves it alone.
LEMMA PublishingIsEntry == PublishingNext => [Next]_vars
<1> SUFFICES ASSUME NEW c \in Callers,
                    \/ Open(c) \/ Write(c) \/ ReloadPlatforms(c) \/ UserReload(c)
                    \/ Connect(c) \/ ReadAppliances(c) \/ Loaded(c) \/ NotLoaded(c)
                    \/ EntryStep(c)
             PROVE  [Next]_vars
  BY DEF PublishingNext
<1>1. CASE Open(c) \/ Write(c) \/ Connect(c) \/ ReadAppliances(c)
  BY <1>1 DEF Open, Write, Connect, ReadAppliances, entryVars
<1>2. CASE ReloadPlatforms(c) \/ UserReload(c)
  BY <1>2 DEF ReloadPlatforms, UserReload, Next
<1>3. CASE Loaded(c) \/ NotLoaded(c)
  BY <1>3 DEF Loaded, NotLoaded, SetupEnds, Next
<1>4. CASE EntryStep(c)
  BY <1>4 DEF EntryStep, UnloadEnds, Next
<1> QED
  BY <1>1, <1>2, <1>3, <1>4

\* The types of what the endpoints add.
LEMMA PublishingTypes ==
  ASSUME PublishingTypeOK, TypeOK', PublishingNext
  PROVE  PublishingTypeOK'
<1> SUFFICES ASSUME NEW c \in Callers,
                    \/ Open(c) \/ Write(c) \/ ReloadPlatforms(c) \/ UserReload(c)
                    \/ Connect(c) \/ ReadAppliances(c) \/ Loaded(c) \/ NotLoaded(c)
                    \/ EntryStep(c)
             PROVE  PublishingTypeOK'
  BY DEF PublishingNext
<1> USE DEF PublishingTypeOK
<1>1. \A what \in {"writing", "written", "done"} :
        [post EXCEPT ![c] = what] \in [Callers -> {"none", "writing", "written", "done"}]
  OBVIOUS
<1>2. Restarts(c) => /\ connected' \in BOOLEAN /\ read' \in SUBSET Content
                     /\ refused' \in BOOLEAN
  BY DEF Restarts
<1>3. c \in Content /\ Torn \in Content
  BY DEF Content
<1>4. CASE Open(c)
  BY <1>1, <1>3, <1>4 DEF Open
<1>5. CASE Write(c)
  BY <1>1, <1>3, <1>5 DEF Write
<1>6. CASE ReloadPlatforms(c)
  BY <1>1, <1>2, <1>6 DEF ReloadPlatforms
<1>7. CASE UserReload(c)
  BY <1>2, <1>7 DEF UserReload
<1>8. CASE Connect(c)
  BY <1>8 DEF Connect
<1>9. CASE ReadAppliances(c)
  BY <1>9 DEF ReadAppliances
<1>10. CASE Loaded(c) \/ NotLoaded(c)
  BY <1>10 DEF Loaded, NotLoaded, publishingVars
<1>11. CASE EntryStep(c)
  BY <1>2, <1>11 DEF EntryStep
<1> QED
  BY <1>4, <1>5, <1>6, <1>7, <1>8, <1>9, <1>10, <1>11

\* A reload that has got the lock is not refused: nobody sets the entry up then.
LEMMA LockMeansFree ==
  ASSUME IndInv, Plain, NEW c \in Callers, Holds(c), at[c] = "lock to reload"
  PROVE  state # "setup_in_progress"
<1> SUFFICES ASSUME state = "setup_in_progress" PROVE FALSE
  OBVIOUS
<1>1. TypeOK /\ LockOK /\ Orderly
  BY DEF IndInv, Plain
<1>2. PICK d \in Callers : at[d] \in {"setup", "failed"}
  BY <1>1 DEF Orderly
<1>3. InLock(reloadLock, d)
  BY <1>1, <1>2, WhoIsWhere DEF Orderly, Apart
<1>4. Holds(d)
  BY <1>1, <1>2, <1>3, WhoIsWhere DEF Waiting
<1> QED
  BY <1>2, <1>4 DEF Holds

\* A caller's step, as the endpoints see it: where it gets the caller and the entry.
PlainMove(c) ==
  /\ Plain'
  /\ at' \in [Callers -> Awaits] /\ \A d \in Callers \ {c} : at'[d] = at[d]
  /\ state' = "loaded" => state = "loaded" /\ at'[c] # "setup"
  /\ at'[c] \in {"nothing", "setup", "lock to reload", "unload", "unloaded"}

\* A reload waits, unloads or sets up, or it is refused.
LEMMA ReloadMoves ==
  ASSUME TypeOK, Plain, NEW c \in Callers, Reload(c)
  PROVE  /\ PlainMove(c)
         /\ at[c] = "nothing"
<1> USE DEF Plain, TypeOK
<1>1. StartOrWait(c, FALSE) /\ UNCHANGED registry
  BY DEF Reload
<1>2. at[c] = "nothing" /\ timers' = {} /\ ~disorderly' /\ known' /\ ~disabled'
  BY <1>1 DEF StartOrWait, CancelRetry, MetRemoval, Removal, registry
<1>3. CASE reloadLock # <<>>
  BY <1>1, <1>2, <1>3 DEF StartOrWait, Await, PlainMove, Awaits
<1>4. CASE reloadLock = <<>>
  <2>1. StartReload(c, FALSE)
    BY <1>1, <1>4 DEF StartOrWait
  <2>2. /\ at' = [at EXCEPT ![c] = at'[c]] /\ at'[c] \in {"nothing", "setup", "unload"}
        /\ state' = IF at'[c] = "setup" THEN "setup_in_progress" ELSE state
    BY <2>1 DEF StartReload, Await, SetUp
  <2> QED
    BY <1>2, <2>2 DEF PlainMove, Awaits
<1> QED
  BY <1>3, <1>4

\* The steps of the entry that wait for nothing of the integration's.
LEMMA EntryMoves ==
  ASSUME IndInv, Plain, NEW c \in Callers,
         GetsLock(c) \/ UnloadSucceeds(c) \/ CleanedUp(c)
  PROVE  PlainMove(c) /\ at'[c] \in {"setup", "unload", "unloaded"}
<1>0. TypeOK /\ Apart(c)
  BY DEF IndInv, Plain, Orderly
<1> USE DEF Plain, TypeOK
<1>1. CASE LockToReload(c)
  <2>0. disabled = FALSE
    BY <1>0
  <2>1. StartReload(c, FALSE) /\ Holds(c) /\ at[c] = "lock to reload"
    BY <2>0, <1>1 DEF LockToReload
  <2>2. state # "setup_in_progress"
    BY <2>1, LockMeansFree
  <2>3. /\ at' = [at EXCEPT ![c] = at'[c]] /\ at'[c] \in {"setup", "unload"}
        /\ state' = IF at'[c] = "setup" THEN "setup_in_progress" ELSE state
    BY <2>1, <2>2, <1>0 DEF StartReload, Await, SetUp, Recoverable, State
  <2>4. timers' = {} /\ ~disorderly' /\ known' /\ ~disabled'
    BY <1>1 DEF LockToReload, CancelRetry, registry
  <2> QED
    BY <2>3, <2>4, <1>0 DEF PlainMove, Awaits
<1>2. CASE LockToRetry(c)
  BY <1>2 DEF LockToRetry
<1>3. CASE UnloadSucceeds(c)
  BY <1>0, <1>3 DEF UnloadSucceeds, Await, PlainMove, Awaits, registry
<1>4. CASE CleanedUp(c)
  <2>1. at[c] = "unloaded" /\ state = "not_loaded"
    BY <1>0, <1>4 DEF CleanedUp, Apart
  <2>2. SetUp(c) /\ timers' = {} /\ ~disorderly' /\ known' /\ ~disabled'
    BY <2>1, <1>4 DEF CleanedUp, registry
  <2> QED
    BY <2>2, <1>0 DEF SetUp, Await, PlainMove, Awaits
<1> QED
  BY <1>1, <1>2, <1>3, <1>4 DEF GetsLock

\* What was to come is still to come, when the caller that moves is not the one.
LEMMA StillComing ==
  ASSUME NEW c \in Callers, PlainMove(c), ReloadIsComing,
         at[c] \notin {"lock to reload", "unload", "unloaded"}
  PROVE  ReloadIsComing'
BY DEF PlainMove, ReloadIsComing

\* The setup that begins reads anew.
LEMMA BeginsAnew ==
  ASSUME NEW c \in Callers, PlainMove(c), Restarts(c), state = "loaded" => read # {},
         NothingIsStale, UNCHANGED file,
         (\A d \in Callers : post'[d] \notin {"writing", "written"})
           => (\A d \in Callers : post[d] \notin {"writing", "written"}) \/ at'[c] # "nothing",
         at[c] = "nothing" \/ at'[c] # "nothing"
  PROVE  NothingIsStale' /\ (state' = "loaded" => read' # {})
<1>1. state' = "loaded" => read' # {}
  BY DEF PlainMove, Restarts
<1>2. CASE at'[c] = "setup"
  BY <1>1, <1>2 DEF Restarts, NothingIsStale
<1>3. CASE at'[c] \in {"lock to reload", "unload", "unloaded"}
  BY <1>1, <1>3 DEF NothingIsStale, ReloadIsComing
<1>4. CASE at'[c] = "nothing"
  <2>1. at[c] = "nothing" /\ UNCHANGED <<read, refused>>
    BY <1>4 DEF Restarts
  <2>2. ReloadIsComing => ReloadIsComing'
    BY <2>1, StillComing
  <2> QED
    BY <1>1, <1>4, <2>1, <2>2 DEF NothingIsStale
<1> QED
  BY <1>2, <1>3, <1>4 DEF PlainMove

\* What the platforms have read is what was written last, or will be read again.
LEMMA PublishStep ==
  ASSUME ContentsOK, IndInv, PublishInv, PublishingNext
  PROVE  PublishInv'
<1> SUFFICES ASSUME NEW c \in Callers,
                    \/ Open(c) \/ Write(c) \/ ReloadPlatforms(c) \/ UserReload(c)
                    \/ Connect(c) \/ ReadAppliances(c) \/ Loaded(c) \/ NotLoaded(c)
                    \/ EntryStep(c)
             PROVE  PublishInv'
  BY DEF PublishingNext
<1>1. PublishingTypeOK'
  <2>1. IndInv'
    BY PublishingIsEntry, EntryStepInv DEF ContentsOK
  <2> QED
    BY <2>1, PublishingTypes DEF IndInv, PublishInv
<1>2. PublishingTypeOK /\ TypeOK /\ Plain
  BY DEF PublishInv, PublishingTypeOK
<1>3. at \in [Callers -> Awaits] /\ post \in [Callers -> {"none", "writing", "written", "done"}]
  BY <1>2 DEF PublishingTypeOK, TypeOK
<1>4. state = "loaded" => read # {}
  BY DEF PublishInv
<1>5. NothingIsStale
  BY DEF PublishInv
<1>6. file = Torn /\ Writers = {} => overlapped
  BY DEF PublishInv
<1>7. ASSUME UNCHANGED vars PROVE Plain'
  BY <1>2, <1>7 DEF Plain, vars, registry
<1>8. CASE Open(c)
  <2>1. c \in Writers'
    BY <1>3, <1>8 DEF Open, Writers
  <2>2. NothingIsStale'
    BY <1>3, <1>8 DEF Open, NothingIsStale
  <2>3. state' = "loaded" => read' # {}
    BY <1>4, <1>8 DEF Open, entryVars, vars
  <2> QED
    BY <1>1, <1>7, <1>8, <2>1, <2>2, <2>3 DEF Open, entryVars, PublishInv
<1>9. CASE Write(c)
  <2>1. NothingIsStale'
    BY <1>3, <1>9 DEF Write, NothingIsStale
  <2>2. file' = Torn => overlapped'
    BY <1>9 DEF Write, ContentsOK
  <2>3. state' = "loaded" => read' # {}
    BY <1>4, <1>9 DEF Write, entryVars, vars
  <2> QED
    BY <1>1, <1>7, <1>9, <2>1, <2>2, <2>3 DEF Write, entryVars, PublishInv
<1>10. CASE ReloadPlatforms(c)
  <2>1. /\ Reload(c) /\ UNCHANGED <<file, overlapped>>
        /\ post[c] = "written" /\ post' = [post EXCEPT ![c] = "done"]
    BY <1>10 DEF ReloadPlatforms
  <2>2. PlainMove(c) /\ at[c] = "nothing"
    BY <1>2, <2>1, ReloadMoves
  <2>3. Writers' = Writers
    BY <1>3, <2>1 DEF Writers
  <2>4. NothingIsStale' /\ (state' = "loaded" => read' # {})
    <3>1. CASE at'[c] = "nothing"
      BY <1>4, <1>10, <2>2, <3>1 DEF ReloadPlatforms, NothingIsStale, PlainMove
    <3>2. CASE at'[c] # "nothing"
      BY <1>4, <1>5, <1>10, <2>1, <2>2, <3>2, BeginsAnew DEF ReloadPlatforms
    <3> QED
      BY <3>1, <3>2
  <2> QED
    BY <1>1, <1>6, <2>1, <2>2, <2>3, <2>4 DEF PublishInv, PlainMove
<1>11. CASE UserReload(c)
  <2>1. Reload(c) /\ Restarts(c) /\ UNCHANGED <<file, post, overlapped>>
    BY <1>11 DEF UserReload
  <2>2. PlainMove(c) /\ at[c] = "nothing"
    BY <1>2, <2>1, ReloadMoves
  <2>3. NothingIsStale' /\ (state' = "loaded" => read' # {})
    BY <1>4, <1>5, <2>1, <2>2, BeginsAnew
  <2> QED
    BY <1>1, <1>6, <2>1, <2>2, <2>3 DEF PublishInv, PlainMove, Writers
<1>12. CASE Connect(c) \/ ReadAppliances(c)
  <2>1. /\ UNCHANGED <<vars, file, post, overlapped, refused>>
        /\ read' \in {read, read \cup {file}}
    BY <1>12 DEF Connect, ReadAppliances, entryVars
  <2>2. NothingIsStale'
    BY <1>5, <2>1 DEF NothingIsStale, ReloadIsComing, vars
  <2>3. state' = "loaded" => read' # {}
    BY <1>4, <2>1 DEF vars
  <2> QED
    BY <1>1, <1>6, <1>7, <2>1, <2>2, <2>3 DEF PublishInv, Writers
<1>13. CASE Loaded(c) \/ NotLoaded(c)
  <2>1. /\ UNCHANGED publishingVars
        /\ at[c] = "setup" /\ at' = [at EXCEPT ![c] = "nothing"]
        /\ state' \in {"loaded", "setup_error"} /\ (state' = "loaded" => read # {})
        /\ timers' = {} /\ UNCHANGED <<disorderly, registry>>
    BY <1>2, <1>13 DEF Loaded, NotLoaded, SetupSucceeds, SetupFails, CancelRetry, Leave,
         Await, Plain
  <2>2. Plain'
    BY <1>2, <1>3, <2>1 DEF Plain, registry
  <2>3. ReloadIsComing => ReloadIsComing'
    BY <1>3, <2>1 DEF ReloadIsComing
  <2>4. UNCHANGED <<file, post, read, overlapped, refused>>
    BY <2>1 DEF publishingVars
  <2> QED
    BY <1>1, <1>5, <1>6, <2>1, <2>2, <2>3, <2>4 DEF PublishInv, NothingIsStale, Writers
<1>14. CASE EntryStep(c)
  <2>1. /\ GetsLock(c) \/ UnloadSucceeds(c) \/ CleanedUp(c)
        /\ Restarts(c) /\ UNCHANGED <<file, post, overlapped>>
    BY <1>14 DEF EntryStep
  <2>2. PlainMove(c) /\ at'[c] \in {"setup", "unload", "unloaded"}
    BY <1>2, <2>1, EntryMoves
  <2>3. NothingIsStale' /\ (state' = "loaded" => read' # {})
    BY <1>4, <1>5, <2>1, <2>2, BeginsAnew
  <2> QED
    BY <1>1, <1>6, <2>1, <2>2, <2>3 DEF PublishInv, PlainMove, Writers
<1> QED
  BY <1>8, <1>9, <1>10, <1>11, <1>12, <1>13, <1>14

\* Once all is quiet, what was read is what was written last.
LEMMA QuietIsPublished == PublishInv => LoadedIsPublished
BY DEF PublishInv, NothingIsStale, ReloadIsComing, LoadedIsPublished, Settled, Writers

-----------------------------------------------------------------------------
(* The scan.                                                                *)

\* What a scan that waits will return: devices that it has heard, all of them if no
\* other scan has emptied the list.
Listens(s) ==
  /\ discovered \subseteq heard[s]
  /\ undisturbed[s] => discovered = heard[s]

ScanInv == Scan!TypeOK /\ Scan!ScanFinds /\ \A s \in scanning : Listens(s)

\* Whatever answers come, and whoever scans beside it, a scan keeps its word.
LEMMA ScanStep ==
  ASSUME Scan!ScanConstantsOK
  PROVE  ScanInv /\ [Scan!Next]_(Scan!vars) => ScanInv'
<1> SUFFICES ASSUME ScanInv, [Scan!Next]_(Scan!vars) PROVE ScanInv'
  OBVIOUS
<1>1. /\ discovered \in SUBSET Devices /\ scanning \in SUBSET Scans
      /\ answers \in SUBSET Devices /\ found \in [Scans -> SUBSET Devices]
      /\ heard \in [Scans -> SUBSET Devices] /\ undisturbed \in [Scans -> BOOLEAN]
      /\ left \in [Scans -> 0..Broadcasts] /\ Broadcasts \in Nat \ {0}
  BY DEF ScanInv, Scan!TypeOK, Scan!ScanConstantsOK
<1>2. ASSUME NEW s \in Scans, NEW n \in 1..Broadcasts, Scan!Broadcast(s, n)
      PROVE  left' \in [Scans -> 0..Broadcasts] /\ answers' \in SUBSET Devices
  BY <1>1, <1>2 DEF Scan!Broadcast
<1>3. \A s \in Scans : /\ s \in scanning => Listens(s)
                       /\ s \notin scanning => /\ found[s] \subseteq heard[s]
                                               /\ undisturbed[s] => found[s] = heard[s]
  BY DEF ScanInv, Scan!ScanFinds
<1>4. ASSUME NEW s \in Scans, Scan!Begin(s) PROVE ScanInv'
  <2>1. /\ scanning' = scanning \cup {s} /\ discovered' = {} /\ found' = found
        /\ s \notin scanning
        /\ heard' = [heard EXCEPT ![s] = {}]
        /\ undisturbed' = [t \in Scans |-> t = s \/ (undisturbed[t] /\ t \notin scanning)]
    BY <1>4 DEF Scan!Begin
  <2>2. left' \in [Scans -> 0..Broadcasts] /\ answers' \in SUBSET Devices
    BY <1>1, <1>2, <1>4 DEF Scan!Begin
  <2>3. heard' \in [Scans -> SUBSET Devices] /\ undisturbed' \in [Scans -> BOOLEAN]
    BY <1>1, <2>1
  <2>4. Scan!TypeOK'
    BY <1>1, <2>1, <2>2, <2>3 DEF Scan!TypeOK
  <2>5. heard'[s] = {} /\ \A t \in Scans \ {s} : heard'[t] = heard[t]
    BY <1>1, <2>1
  <2>6. \A t \in Scans \ {s} : undisturbed'[t] => undisturbed[t] /\ t \notin scanning
    BY <2>1
  <2>7. \A t \in scanning' : Listens(t)'
    BY <1>1, <2>1, <2>5, <2>6 DEF Listens
  <2>8. Scan!ScanFinds'
    BY <1>3, <2>1, <2>5, <2>6 DEF Scan!ScanFinds
  <2> QED
    BY <2>4, <2>7, <2>8 DEF ScanInv
<1>5. ASSUME NEW s \in Scans, Scan!Again(s) PROVE ScanInv'
  <2>1. left[s] \in 1..Broadcasts
    BY <1>1, <1>5 DEF Scan!Again
  <2>2. left' \in [Scans -> 0..Broadcasts] /\ answers' \in SUBSET Devices
    BY <1>2, <1>5, <2>1 DEF Scan!Again
  <2> QED
    BY <1>5, <2>2 DEF Scan!Again, ScanInv, Scan!TypeOK, Scan!ScanFinds, Listens
<1>6. ASSUME NEW s \in Scans, Scan!Return(s) PROVE ScanInv'
  <2>1. /\ scanning' = scanning \ {s} /\ s \in scanning
        /\ found' = [found EXCEPT ![s] = discovered]
        /\ UNCHANGED <<discovered, left, answers, heard, undisturbed>>
    BY <1>6 DEF Scan!Return
  <2>2. Scan!TypeOK'
    BY <1>1, <2>1 DEF Scan!TypeOK
  <2>3. \A t \in Scans : found'[t] = IF t = s THEN discovered ELSE found[t]
    BY <1>1, <2>1
  <2>4. Scan!ScanFinds'
    BY <1>3, <2>1, <2>3 DEF Scan!ScanFinds, Listens
  <2> QED
    BY <1>1, <1>3, <2>1, <2>2, <2>4 DEF ScanInv, Listens
<1>7. ASSUME NEW d \in Devices, Scan!Answer(d) PROVE ScanInv'
  <2>1. /\ answers' = answers \ {d} /\ discovered' = discovered \cup {d}
        /\ heard' = [s \in Scans |-> IF s \in scanning THEN heard[s] \cup {d} ELSE heard[s]]
        /\ UNCHANGED <<left, scanning, found, undisturbed>>
    BY <1>7 DEF Scan!Answer
  <2>2. Scan!TypeOK'
    BY <1>1, <2>1 DEF Scan!TypeOK
  <2>3. Scan!ScanFinds'
    BY <1>3, <2>1 DEF Scan!ScanFinds
  <2>4. \A s \in scanning : Listens(s)'
    BY <1>1, <1>3, <2>1 DEF Listens
  <2> QED
    BY <2>1, <2>2, <2>3, <2>4 DEF ScanInv
<1>8. ASSUME NEW d \in Devices, Scan!LoseAnswer(d) PROVE ScanInv'
  BY <1>8 DEF Scan!LoseAnswer, ScanInv, Scan!TypeOK, Scan!ScanFinds, Listens
<1>9. CASE UNCHANGED Scan!vars
  BY <1>9 DEF Scan!vars, ScanInv, Scan!TypeOK, Scan!ScanFinds, Listens
<1> QED
  BY <1>4, <1>5, <1>6, <1>7, <1>8, <1>9 DEF Scan!Next

-----------------------------------------------------------------------------
(* The flows.                                                               *)

\* What each request knows of itself.
Asks ==
  \A q \in Requests :
    /\ asks[q] = "new" => q \notin entries /\ setUp[q] = "due"
    /\ asks[q] # "over" => answer[q] = "none"
    /\ asks[q] \in {"setup", "component"} => q \in entries
    /\ asks[q] = "loading" => q \notin entries /\ on[q] \in Flows /\ flow[on[q]] = "opening"
    /\ q \in entries => on[q] \in Flows

\* One request opens a flow.
OpenedOnce ==
  \A p, q \in Requests :
    asks[p] = "loading" /\ asks[q] = "loading" /\ on[p] = on[q] => p = q

\* How far the setups are while the component is being set up, and after.
SetUps ==
  /\ component \in {"none", "setup"} => \A q \in Requests : setUp[q] = "due"
  /\ \A q \in Requests :
       /\ setUp[q] # "twice"
       /\ component = "entries" /\ asks[q] = "component" => setUp[q] \in {"begun", "over"}
       /\ component = "there" /\ asks[q] = "component" => setUp[q] = "over"
       /\ answer[q] = "entry" => setUp[q] = "over" \/ component = "failed"

\* What a flow has made: nothing before it shows its form, and one entry, which is
\* still being added while it does.
Forms ==
  \A f \in Flows :
    /\ flow[f] \in {"new", "opening"} => UserFlow!MadeBy(f) = {}
    /\ f \notin again =>
         /\ \A d, e \in UserFlow!MadeBy(f) : d = e
         /\ flow[f] = "form" => \A e \in UserFlow!MadeBy(f) : asks[e] # "over"

\* Whose entry is set up by itself has a setup that has begun; who waits for the
\* component has found its future.
Settles ==
  \A q \in Requests :
    /\ asks[q] = "setup" => setUp[q] \in {"begun", "over"}
    /\ asks[q] = "component" => component # "none"

FlowsInv == UserFlow!FlowsTypeOK /\ Asks /\ OpenedOnce /\ SetUps /\ Forms

-----------------------------------------------------------------------------
\* A step preserves the types.
LEMMA FlowTypes ==
  ASSUME FlowsInv, [UserFlow!Next]_(UserFlow!vars)
  PROVE  UserFlow!FlowsTypeOK'
<1> USE DEF UserFlow!FlowsTypeOK, UserFlow!Reply, UserFlow!FlowEnds
<1>0. UserFlow!FlowsTypeOK /\ Asks
  BY DEF FlowsInv
<1>1. ASSUME NEW q \in Requests, NEW f \in Flows,
             UserFlow!AsyncInit(q, f) \/ UserFlow!SubmitUnknown(q, f)
             \/ UserFlow!SubmitInvalid(q, f)
      PROVE  UserFlow!FlowsTypeOK'
  <2>1. CASE UserFlow!AsyncInit(q, f)
    BY <1>0, <2>1 DEF UserFlow!AsyncInit
  <2>2. CASE UserFlow!SubmitUnknown(q, f)
    BY <1>0, <2>2 DEF UserFlow!SubmitUnknown
  <2>3. CASE UserFlow!SubmitInvalid(q, f)
    BY <1>0, <2>3 DEF UserFlow!SubmitInvalid
  <2> QED
    BY <1>1, <2>1, <2>2, <2>3
<1>2. ASSUME NEW q \in Requests, NEW f \in Flows, UserFlow!Submit(q, f)
      PROVE  UserFlow!FlowsTypeOK'
  <2>1. asks' \in [Requests -> {"new", "loading", "setup", "component", "over"}]
        /\ setUp' \in [Requests -> {"due", "begun", "over", "twice"}]
        /\ flow' \in [Flows -> {"new", "opening", "form", "gone"}]
        /\ answer' \in [Requests -> {"none", "form", "entry", "unknown flow", "cancelled"}]
    BY <1>0, <1>2 DEF UserFlow!Submit
  <2>2. on' \in [Requests -> Flows \cup {None}] /\ entries' \in SUBSET Requests
        /\ again' \in SUBSET Flows
        /\ component' \in {"none", "setup", "entries", "there", "failed"}
    BY <1>0, <1>2 DEF UserFlow!Submit
  <2> QED
    BY <2>1, <2>2, <1>0, <1>2 DEF UserFlow!Submit
<1>3. ASSUME NEW q \in Requests, UserFlow!Initialized(q) \/ UserFlow!Interrupted(q)
      PROVE  UserFlow!FlowsTypeOK'
  BY <1>0, <1>3 DEF UserFlow!Initialized, UserFlow!Interrupted
<1>4. ASSUME NEW q \in Requests, UserFlow!EntrySetUp(q) PROVE UserFlow!FlowsTypeOK'
  BY <1>0, <1>4 DEF UserFlow!EntrySetUp
<1>5. ASSUME NEW q \in Requests, UserFlow!Added(q) PROVE UserFlow!FlowsTypeOK'
  <2>1. CASE flow[on[q]] = "form"
    BY <1>0, <1>5, <2>1 DEF UserFlow!Added, UserFlow!Through
  <2>2. CASE flow[on[q]] # "form"
    BY <1>0, <1>5, <2>2 DEF UserFlow!Added, UserFlow!Through
  <2> QED
    BY <2>1, <2>2
<1>6. ASSUME NEW f \in Flows, UserFlow!AsyncAbort(f) PROVE UserFlow!FlowsTypeOK'
  BY <1>0, <1>6 DEF UserFlow!AsyncAbort
<1>7. CASE UserFlow!Stop
  BY <1>0, <1>7 DEF UserFlow!Stop
<1>8. CASE UserFlow!ComponentSetUp
  <2>1. setUp' \in [Requests -> {"due", "begun", "over", "twice"}]
    BY <1>0, <1>8 DEF UserFlow!ComponentSetUp
  <2> QED
    BY <2>1, <1>0, <1>8 DEF UserFlow!ComponentSetUp
<1>9. CASE UserFlow!EntriesSetUp
  BY <1>0, <1>9 DEF UserFlow!EntriesSetUp, UserFlow!AllEnded
<1>10. CASE UNCHANGED UserFlow!vars
  BY <1>0, <1>10 DEF UserFlow!vars
<1> QED
  BY <1>1, <1>2, <1>3, <1>4, <1>5, <1>6, <1>7, <1>8, <1>9, <1>10
  DEF UserFlow!Next, UserFlow!Finished

\* The flow that a request loads is being opened.
LEMMA LoadingOpens ==
  ASSUME Asks, NEW e \in Requests, asks[e] = "loading"
  PROVE  flow[on[e]] = "opening" /\ e \notin entries /\ on[e] \in Flows
BY DEF Asks

\* A request that neither adds an entry nor has one goes on, alone.
OthersStay(q) ==
  \A p \in Requests \ {q} : asks'[p] = asks[p] /\ on'[p] = on[p] /\ answer'[p] = answer[p]
Advances(q) ==
  /\ asks[q] \in {"new", "loading"} /\ asks'[q] \in {"loading", "over"} /\ answer'[q] # "entry"
  /\ asks'[q] = "loading" => /\ answer'[q] = "none" /\ on'[q] \in Flows
                           /\ flow[on'[q]] = "new" /\ flow'[on'[q]] = "opening"
FlowOf(q) ==
  \A f \in Flows :
    \/ flow'[f] = flow[f]
    \/ flow'[f] = "opening" /\ asks'[q] = "loading" /\ on'[q] = f
    \/ asks[q] = "loading" /\ on[q] = f /\ asks'[q] = "over"

\* It leaves entries and setups alone, and what holds of them.
LEMMA EntriesStay ==
  ASSUME FlowsInv, UserFlow!FlowsTypeOK', UNCHANGED <<entries, setUp, again>>,
         component' = component,
         NEW q \in Requests, OthersStay(q), Advances(q), FlowOf(q)
  PROVE  FlowsInv'
<1>0. UserFlow!FlowsTypeOK /\ Asks /\ OpenedOnce /\ SetUps /\ Forms
  BY DEF FlowsInv
<1>1. /\ asks[q] \in {"new", "loading"} /\ asks'[q] \in {"loading", "over"} /\ answer'[q] # "entry"
      /\ asks'[q] = "loading" => /\ answer'[q] = "none" /\ on'[q] \in Flows
                               /\ flow[on'[q]] = "new" /\ flow'[on'[q]] = "opening"
  BY DEF Advances
<1>2. q \notin entries
  BY <1>0, <1>1 DEF Asks
<1>3. ASSUME NEW p \in Requests \ {q}
      PROVE  asks'[p] = asks[p] /\ on'[p] = on[p] /\ answer'[p] = answer[p]
  BY DEF OthersStay
<1>4. ASSUME NEW p \in Requests \ {q}, asks'[p] = "loading"
      PROVE  /\ p \notin entries /\ on'[p] \in Flows
             /\ flow[on'[p]] = "opening" /\ flow'[on'[p]] = "opening"
  <2>1. asks[p] = "loading" /\ on'[p] = on[p]
    BY <1>3, <1>4
  <2>2. flow[on[p]] = "opening" /\ p \notin entries /\ on[p] \in Flows
    BY <2>1, <1>0, LoadingOpens
  <2>3. ~(asks[q] = "loading" /\ on[q] = on[p])
    BY <2>1, <1>0 DEF OpenedOnce
  <2>4. flow'[on[p]] = "opening"
    BY <2>2, <2>3 DEF FlowOf
  <2> QED
    BY <2>1, <2>2, <2>4
<1>5. Asks'
  <2> SUFFICES ASSUME NEW p \in Requests
               PROVE  (/\ asks[p] = "new" => p \notin entries /\ setUp[p] = "due"
                       /\ asks[p] # "over" => answer[p] = "none"
                       /\ asks[p] \in {"setup", "component"} => p \in entries
                       /\ asks[p] = "loading" => p \notin entries /\ on[p] \in Flows
                                               /\ flow[on[p]] = "opening"
                       /\ p \in entries => on[p] \in Flows)'
    BY DEF Asks
  <2>1. CASE p = q
    BY <2>1, <1>1, <1>2
  <2>2. CASE p # q
    <3>1. asks'[p] = asks[p] /\ on'[p] = on[p] /\ answer'[p] = answer[p]
      BY <2>2, <1>3
    <3>2. /\ asks[p] = "new" => p \notin entries /\ setUp[p] = "due"
          /\ asks[p] # "over" => answer[p] = "none"
          /\ asks[p] \in {"setup", "component"} => p \in entries
          /\ p \in entries => on[p] \in Flows
      BY <1>0 DEF Asks
    <3>3. asks'[p] = "loading" => p \notin entries /\ on'[p] \in Flows /\ flow'[on'[p]] = "opening"
      BY <2>2, <1>4
    <3> QED
      BY <3>1, <3>2, <3>3
  <2> QED
    BY <2>1, <2>2
<1>6. OpenedOnce'
  <2> SUFFICES ASSUME NEW p \in Requests, NEW r \in Requests,
                      asks'[p] = "loading", asks'[r] = "loading", on'[p] = on'[r], p # r
               PROVE  FALSE
    BY DEF OpenedOnce
  <2>1. CASE p # q /\ r # q
    <3>1. asks[p] = "loading" /\ asks[r] = "loading" /\ on[p] = on[r]
      BY <2>1, <1>3
    <3> QED
      BY <3>1, <1>0 DEF OpenedOnce
  <2>2. CASE p = q
    BY <2>2, <1>1, <1>4
  <2>3. CASE r = q
    BY <2>3, <1>1, <1>4
  <2> QED
    BY <2>1, <2>2, <2>3
<1>7. SetUps'
  <2>1. component \in {"none", "setup"} => \A p \in Requests : setUp[p] = "due"
    BY <1>0 DEF SetUps
  <2>2. ASSUME NEW p \in Requests
        PROVE  /\ setUp[p] # "twice"
               /\ component = "entries" /\ asks'[p] = "component" => setUp[p] \in {"begun", "over"}
               /\ component = "there" /\ asks'[p] = "component" => setUp[p] = "over"
               /\ answer'[p] = "entry" => setUp[p] = "over" \/ component = "failed"
    <3>1. /\ setUp[p] # "twice"
          /\ component = "entries" /\ asks[p] = "component" => setUp[p] \in {"begun", "over"}
          /\ component = "there" /\ asks[p] = "component" => setUp[p] = "over"
          /\ answer[p] = "entry" => setUp[p] = "over" \/ component = "failed"
      BY <1>0 DEF SetUps
    <3>2. CASE p = q
      BY <3>1, <3>2, <1>1
    <3>3. CASE p # q
      BY <3>1, <3>3, <1>3
    <3> QED
      BY <3>2, <3>3
  <2> QED
    BY <2>1, <2>2 DEF SetUps
<1>8. Forms'
  <2> SUFFICES ASSUME NEW f \in Flows
               PROVE  /\ flow'[f] \in {"new", "opening"} => UserFlow!MadeBy(f)' = {}
                      /\ f \notin again' =>
                           /\ \A d, e \in UserFlow!MadeBy(f)' : d = e
                           /\ flow'[f] = "form" => \A e \in UserFlow!MadeBy(f)' : asks'[e] # "over"
    BY DEF Forms
  <2>1. \A e \in entries : e \in Requests \ {q}
    <3>1. entries \subseteq Requests
      BY <1>0 DEF UserFlow!FlowsTypeOK
    <3> QED
      BY <3>1, <1>2
  <2>2. UserFlow!MadeBy(f)' = UserFlow!MadeBy(f) /\ \A e \in UserFlow!MadeBy(f) : asks'[e] = asks[e]
    BY <2>1, <1>3 DEF UserFlow!MadeBy
  <2>3. CASE flow'[f] = flow[f]
    BY <2>2, <2>3, <1>0 DEF Forms
  <2>4. CASE flow'[f] = "opening" /\ asks'[q] = "loading" /\ on'[q] = f
    BY <2>2, <2>4, <1>0, <1>1 DEF Forms
  <2>5. CASE asks[q] = "loading" /\ on[q] = f
    <3>1. UserFlow!MadeBy(f) = {}
      BY <2>5, <1>0, LoadingOpens DEF Forms
    <3> QED
      BY <3>1, <2>2
  <2> QED
    BY <2>3, <2>4, <2>5 DEF FlowOf
<1> QED
  BY <1>0, <1>5, <1>6, <1>7, <1>8 DEF FlowsInv

\* A request opens a flow, is interrupted, or submits in vain.
LEMMA AskingStep ==
  ASSUME FlowsInv, UserFlow!FlowsTypeOK', NEW q \in Requests,
         \/ UserFlow!Initialized(q) \/ UserFlow!Interrupted(q)
         \/ \E f \in Flows : UserFlow!AsyncInit(q, f) \/ UserFlow!SubmitUnknown(q, f)
                              \/ UserFlow!SubmitInvalid(q, f)
  PROVE  FlowsInv'
<1>0. /\ asks \in [Requests -> {"new", "loading", "setup", "component", "over"}]
      /\ on \in [Requests -> Flows \cup {None}]
      /\ answer \in [Requests -> {"none", "form", "entry", "unknown flow", "cancelled"}]
      /\ flow \in [Flows -> {"new", "opening", "form", "gone"}]
      /\ asks[q] # "over" => answer[q] = "none"
      /\ asks[q] = "loading" => on[q] \in Flows
  BY DEF FlowsInv, UserFlow!FlowsTypeOK, Asks
<1>1. ASSUME NEW f \in Flows, UserFlow!AsyncInit(q, f) PROVE FlowsInv'
  <2>1. /\ asks[q] = "new" /\ flow[f] = "new" /\ answer[q] = "none"
        /\ asks'[q] = "loading" /\ on'[q] = f /\ flow'[f] = "opening" /\ answer' = answer
        /\ \A p \in Requests \ {q} : asks'[p] = asks[p] /\ on'[p] = on[p]
        /\ \A g \in Flows \ {f} : flow'[g] = flow[g]
    BY <1>0, <1>1 DEF UserFlow!AsyncInit
  <2>2. UNCHANGED <<entries, setUp, again, component>>
    BY <1>1 DEF UserFlow!AsyncInit
  <2>3. OthersStay(q) /\ Advances(q) /\ FlowOf(q)
    BY <2>1 DEF OthersStay, Advances, FlowOf
  <2> QED
    BY <2>2, <2>3, EntriesStay
<1>2. ASSUME NEW f \in Flows, UserFlow!SubmitUnknown(q, f) \/ UserFlow!SubmitInvalid(q, f)
      PROVE  FlowsInv'
  <2>1. /\ asks[q] = "new" /\ asks'[q] = "over" /\ answer'[q] # "entry" /\ flow' = flow
        /\ \A p \in Requests \ {q} : asks'[p] = asks[p] /\ on'[p] = on[p] /\ answer'[p] = answer[p]
    BY <1>0, <1>2 DEF UserFlow!SubmitUnknown, UserFlow!SubmitInvalid, UserFlow!Reply
  <2>2. UNCHANGED <<entries, setUp, again, component>>
    BY <1>2 DEF UserFlow!SubmitUnknown, UserFlow!SubmitInvalid
  <2>3. OthersStay(q) /\ Advances(q) /\ FlowOf(q)
    BY <2>1 DEF OthersStay, Advances, FlowOf
  <2> QED
    BY <2>2, <2>3, EntriesStay
<1>3. CASE UserFlow!Initialized(q) \/ UserFlow!Interrupted(q)
  <2>1. /\ asks[q] = "loading" /\ asks'[q] = "over" /\ answer'[q] # "entry" /\ on' = on
        /\ \A p \in Requests \ {q} : asks'[p] = asks[p] /\ answer'[p] = answer[p]
        /\ \A g \in Flows : g # on[q] => flow'[g] = flow[g]
    BY <1>0, <1>3 DEF UserFlow!Initialized, UserFlow!Interrupted, UserFlow!Reply
  <2>2. UNCHANGED <<entries, setUp, again, component>>
    BY <1>3 DEF UserFlow!Initialized, UserFlow!Interrupted
  <2>3. OthersStay(q) /\ Advances(q) /\ FlowOf(q)
    BY <2>1 DEF OthersStay, Advances, FlowOf
  <2> QED
    BY <2>2, <2>3, EntriesStay
<1> QED
  BY <1>1, <1>2, <1>3

\* What the end of an addition, and the closing of a dialog, do to flows.
LEMMA FlowGoes ==
  ASSUME FlowsInv, UNCHANGED <<entries, on>>, NEW f \in Flows, again' = again,
         flow'[f] = flow[f] \/ flow'[f] = "gone",
         flow'[f] = "form" => \A e \in UserFlow!MadeBy(f) : asks'[e] = asks[e]
  PROVE  /\ flow'[f] \in {"new", "opening"} => UserFlow!MadeBy(f)' = {}
         /\ f \notin again' =>
              /\ \A d, e \in UserFlow!MadeBy(f)' : d = e
              /\ flow'[f] = "form" => \A e \in UserFlow!MadeBy(f)' : asks'[e] # "over"
<1>1. UserFlow!MadeBy(f)' = UserFlow!MadeBy(f)
  BY DEF UserFlow!MadeBy
<1> QED
  BY <1>1 DEF FlowsInv, Forms

\* An addition is through.
LEMMA AddedStep ==
  ASSUME FlowsInv, UserFlow!FlowsTypeOK', NEW q \in Requests, UserFlow!Added(q)
  PROVE  FlowsInv'
<1>0. UserFlow!FlowsTypeOK /\ Asks /\ OpenedOnce /\ SetUps /\ Forms
  BY DEF FlowsInv
<1>1. /\ asks[q] \in {"setup", "component"} /\ q \in entries /\ on[q] \in Flows
      /\ UNCHANGED <<on, entries, setUp, component, again>>
  BY <1>0 DEF UserFlow!Added, UserFlow!Through, Asks
<1>2. /\ asks'[q] = "over" /\ \A p \in Requests \ {q} : asks'[p] = asks[p] /\ answer'[p] = answer[p]
      /\ \A g \in Flows : g # on[q] => flow'[g] = flow[g]
      /\ flow'[on[q]] = flow[on[q]] \/ flow'[on[q]] = "gone"
      /\ flow'[on[q]] # "form"
  <2>1. /\ asks \in [Requests -> {"new", "loading", "setup", "component", "over"}]
        /\ answer \in [Requests -> {"none", "form", "entry", "unknown flow", "cancelled"}]
        /\ flow \in [Flows -> {"new", "opening", "form", "gone"}]
    BY <1>0 DEF UserFlow!FlowsTypeOK
  <2>2. CASE flow[on[q]] = "form"
    <3>1. /\ flow' = [flow EXCEPT ![on[q]] = "gone"]
          /\ asks' = [asks EXCEPT ![q] = "over"]
          /\ answer' = [answer EXCEPT ![q] = "entry"]
      BY <2>2 DEF UserFlow!Added, UserFlow!Through, UserFlow!FlowEnds, UserFlow!Reply
    <3>2. flow'[on[q]] = "gone" /\ \A g \in Flows : g # on[q] => flow'[g] = flow[g]
      BY <3>1, <2>1, <1>1
    <3>3. asks'[q] = "over" /\ \A p \in Requests \ {q} : asks'[p] = asks[p] /\ answer'[p] = answer[p]
      BY <3>1, <2>1
    <3> QED
      BY <3>2, <3>3
  <2>3. CASE flow[on[q]] # "form"
    BY <2>1, <2>3, <1>1 DEF UserFlow!Added, UserFlow!Through, UserFlow!FlowEnds, UserFlow!Reply
  <2> QED
    BY <2>2, <2>3
<1>3. Asks'
  <2> SUFFICES ASSUME NEW p \in Requests
               PROVE  (/\ asks[p] = "new" => p \notin entries /\ setUp[p] = "due"
                       /\ asks[p] # "over" => answer[p] = "none"
                       /\ asks[p] \in {"setup", "component"} => p \in entries
                       /\ asks[p] = "loading" => p \notin entries /\ on[p] \in Flows
                                               /\ flow[on[p]] = "opening"
                       /\ p \in entries => on[p] \in Flows)'
    BY DEF Asks
  <2>1. asks'[p] = "loading" => flow'[on[p]] = "opening"
    <3> SUFFICES ASSUME asks'[p] = "loading" PROVE flow'[on[p]] = "opening"
      OBVIOUS
    <3>1. p # q /\ asks[p] = "loading" /\ on[p] \in Flows /\ flow[on[p]] = "opening"
      BY <1>0, <1>2 DEF Asks
    <3>2. q \in UserFlow!MadeBy(on[q])
      BY <1>1 DEF UserFlow!MadeBy
    <3>3. flow[on[q]] # "opening"
      BY <3>2, <1>0, <1>1 DEF Forms
    <3> QED
      BY <3>1, <3>3, <1>2
  <2>2. CASE p = q
    BY <2>2, <1>1, <1>2
  <2>3. CASE p # q
    <3>1. asks'[p] = asks[p] /\ answer'[p] = answer[p]
      BY <2>3, <1>2
    <3>2. /\ asks[p] = "new" => p \notin entries /\ setUp[p] = "due"
          /\ asks[p] # "over" => answer[p] = "none"
          /\ asks[p] \in {"setup", "component"} => p \in entries
          /\ asks[p] = "loading" => p \notin entries /\ on[p] \in Flows
          /\ p \in entries => on[p] \in Flows
      BY <1>0 DEF Asks
    <3> QED
      BY <3>1, <3>2, <2>1, <1>1
  <2> QED
    BY <2>2, <2>3
<1>4. OpenedOnce'
  BY <1>0, <1>1, <1>2 DEF OpenedOnce
<1>5. SetUps'
  <2>1. answer'[q] = "entry" => setUp[q] = "over" \/ component = "failed"
    BY <1>0 DEF UserFlow!Added, UserFlow!Through, SetUps
  <2>2. ASSUME NEW p \in Requests
        PROVE  /\ setUp[p] # "twice"
               /\ component = "entries" /\ asks'[p] = "component" => setUp[p] \in {"begun", "over"}
               /\ component = "there" /\ asks'[p] = "component" => setUp[p] = "over"
               /\ answer'[p] = "entry" => setUp[p] = "over" \/ component = "failed"
    <3>1. CASE p = q
      BY <3>1, <2>1, <1>0, <1>2 DEF SetUps
    <3>2. CASE p # q
      BY <3>2, <1>0, <1>2 DEF SetUps
    <3> QED
      BY <3>1, <3>2
  <2>3. component \in {"none", "setup"} => \A p \in Requests : setUp[p] = "due"
    BY <1>0 DEF SetUps
  <2> QED
    BY <2>2, <2>3, <1>1 DEF SetUps
<1>6. Forms'
  <2> SUFFICES ASSUME NEW f \in Flows
               PROVE  /\ flow'[f] \in {"new", "opening"} => UserFlow!MadeBy(f)' = {}
                      /\ f \notin again' =>
                           /\ \A d, e \in UserFlow!MadeBy(f)' : d = e
                           /\ flow'[f] = "form" => \A e \in UserFlow!MadeBy(f)' : asks'[e] # "over"
    BY DEF Forms
  <2>1. flow'[f] = flow[f] \/ flow'[f] = "gone"
    BY <1>2
  <2>2. ASSUME flow'[f] = "form", NEW e \in UserFlow!MadeBy(f) PROVE asks'[e] = asks[e]
    <3>1. e \in Requests /\ on[e] = f
      BY <1>0 DEF UserFlow!MadeBy, UserFlow!FlowsTypeOK
    <3>2. e # q
      BY <3>1, <2>2, <1>2
    <3> QED
      BY <3>1, <3>2, <1>2
  <2> QED
    BY <2>1, <2>2, <1>1, FlowGoes
<1> QED
  BY <1>3, <1>4, <1>5, <1>6 DEF FlowsInv

\* A form is submitted and an entry added.
LEMMA SubmitStep ==
  ASSUME FlowsInv, UserFlow!FlowsTypeOK', NEW q \in Requests, NEW f \in Flows,
         UserFlow!Submit(q, f)
  PROVE  FlowsInv'
<1>0. UserFlow!FlowsTypeOK /\ Asks /\ OpenedOnce /\ SetUps /\ Forms
  BY DEF FlowsInv
<1>1. /\ asks[q] = "new" /\ flow[f] = "form" /\ q \notin entries
      /\ setUp[q] = "due" /\ answer[q] = "none"
  BY <1>0 DEF UserFlow!Submit, Asks
<1>2. /\ entries' = entries \cup {q}
      /\ again' = IF UserFlow!Adding(f) = {} THEN again ELSE again \cup {f}
      /\ on'[q] = f /\ \A p \in Requests \ {q} : on'[p] = on[p]
  BY <1>0 DEF UserFlow!Submit, UserFlow!FlowsTypeOK
<1>3. /\ asks'[q] \in {"setup", "component", "over"}
      /\ asks'[q] # "over" => answer'[q] = "none"
      /\ asks'[q] = "component" => component' = "setup"
      /\ answer'[q] = "entry" => component' = "failed"
      /\ setUp'[q] \in {"due", "begun"}
      /\ component' \in {"none", "setup"} => setUp'[q] = "due"
      /\ component' = component \/ (component = "none" /\ component' = "setup")
      /\ (flow'[f] = "form" /\ asks'[q] # "over") \/ flow'[f] = "gone"
      /\ \A g \in Flows \ {f} : flow'[g] = flow[g]
      /\ \A p \in Requests \ {q} : asks'[p] = asks[p] /\ answer'[p] = answer[p]
                                   /\ setUp'[p] = setUp[p]
  <2>1. /\ asks \in [Requests -> {"new", "loading", "setup", "component", "over"}]
        /\ answer \in [Requests -> {"none", "form", "entry", "unknown flow", "cancelled"}]
        /\ flow \in [Flows -> {"new", "opening", "form", "gone"}]
        /\ setUp \in [Requests -> {"due", "begun", "over", "twice"}]
        /\ component \in {"none", "setup", "entries", "there", "failed"}
    BY <1>0 DEF UserFlow!FlowsTypeOK
  <2>2. CASE /\ UserFlow!InComponents
             /\ setUp' = [setUp EXCEPT ![q] = "begun"]
             /\ asks' = [asks EXCEPT ![q] = "setup"]
             /\ UNCHANGED <<flow, answer, component>>
    <3>1. component \in {"entries", "there"} /\ component' = component
          /\ flow' = flow /\ answer' = answer
      BY <2>2 DEF UserFlow!InComponents
    <3>2. asks'[q] = "setup" /\ \A p \in Requests \ {q} : asks'[p] = asks[p]
      BY <2>1, <2>2
    <3>3. setUp'[q] = "begun" /\ \A p \in Requests \ {q} : setUp'[p] = setUp[p]
      BY <2>1, <2>2
    <3> QED
      BY <3>1, <3>2, <3>3, <1>1
  <2>3. CASE /\ ~UserFlow!InComponents /\ component # "failed"
             /\ component' = IF component = "none" THEN "setup" ELSE component
             /\ asks' = [asks EXCEPT ![q] = "component"]
             /\ UNCHANGED <<flow, answer, setUp>>
    BY <2>1, <2>3, <1>1 DEF UserFlow!InComponents
  <2>4. CASE /\ component = "failed"
             /\ UserFlow!FlowEnds(q, f)
             /\ UNCHANGED <<setUp, component>>
    <3>1. flow[f] = "form" /\ component' = "failed" /\ component = "failed" /\ setUp' = setUp
      BY <2>4, <1>1
    <3>2. /\ flow' = [flow EXCEPT ![f] = "gone"]
          /\ asks' = [asks EXCEPT ![q] = "over"]
          /\ answer' = [answer EXCEPT ![q] = "entry"]
      BY <2>4, <1>1 DEF UserFlow!FlowEnds, UserFlow!Reply
    <3>3. flow'[f] = "gone" /\ \A g \in Flows \ {f} : flow'[g] = flow[g]
      BY <3>2, <2>1
    <3>4. asks'[q] = "over" /\ \A p \in Requests \ {q} : asks'[p] = asks[p] /\ answer'[p] = answer[p]
      BY <3>2, <2>1
    <3> QED
      BY <3>1, <3>3, <3>4, <1>1
  <2> QED
    BY <2>2, <2>3, <2>4 DEF UserFlow!Submit
<1>4. Asks'
  <2> SUFFICES ASSUME NEW p \in Requests
               PROVE  (/\ asks[p] = "new" => p \notin entries /\ setUp[p] = "due"
                       /\ asks[p] # "over" => answer[p] = "none"
                       /\ asks[p] \in {"setup", "component"} => p \in entries
                       /\ asks[p] = "loading" => p \notin entries /\ on[p] \in Flows
                                               /\ flow[on[p]] = "opening"
                       /\ p \in entries => on[p] \in Flows)'
    BY DEF Asks
  <2>1. CASE p = q
    BY <2>1, <1>2, <1>3
  <2>2. CASE p # q
    <3>1. /\ asks[p] = "new" => p \notin entries /\ setUp[p] = "due"
          /\ asks[p] # "over" => answer[p] = "none"
          /\ asks[p] \in {"setup", "component"} => p \in entries
          /\ asks[p] = "loading" => p \notin entries /\ on[p] \in Flows
                                  /\ flow[on[p]] = "opening"
          /\ p \in entries => on[p] \in Flows
      BY <1>0 DEF Asks
    <3>2. asks'[p] = asks[p] /\ on'[p] = on[p] /\ answer'[p] = answer[p] /\ setUp'[p] = setUp[p]
      BY <2>2, <1>2, <1>3
    <3>3. p \in entries' <=> p \in entries
      BY <2>2, <1>2
    <3>4. asks[p] = "loading" => flow'[on[p]] = "opening"
      BY <3>1, <1>1, <1>3
    <3> QED
      BY <3>1, <3>2, <3>3, <3>4
  <2> QED
    BY <2>1, <2>2
<1>5. OpenedOnce'
  <2> SUFFICES ASSUME NEW p \in Requests, NEW r \in Requests,
                      asks'[p] = "loading", asks'[r] = "loading", on'[p] = on'[r]
               PROVE  p = r
    BY DEF OpenedOnce
  <2>1. p # q /\ r # q
    BY <1>3
  <2>2. asks[p] = "loading" /\ asks[r] = "loading" /\ on[p] = on[r]
    BY <2>1, <1>2, <1>3
  <2> QED
    BY <2>2, <1>0 DEF OpenedOnce
<1>6. SetUps'
  <2>1. ASSUME component' \in {"none", "setup"}, NEW p \in Requests
        PROVE  setUp'[p] = "due"
    BY <2>1, <1>0, <1>3 DEF SetUps
  <2>2. ASSUME NEW p \in Requests
        PROVE  /\ setUp'[p] # "twice"
               /\ component' = "entries" /\ asks'[p] = "component" => setUp'[p] \in {"begun", "over"}
               /\ component' = "there" /\ asks'[p] = "component" => setUp'[p] = "over"
               /\ answer'[p] = "entry" => setUp'[p] = "over" \/ component' = "failed"
    <3>1. CASE p = q
      BY <3>1, <1>3
    <3>2. CASE p # q
      BY <3>2, <1>0, <1>3 DEF SetUps
    <3> QED
      BY <3>1, <3>2
  <2> QED
    BY <2>1, <2>2 DEF SetUps
<1>7. Forms'
  <2> SUFFICES ASSUME NEW g \in Flows
               PROVE  /\ flow'[g] \in {"new", "opening"} => UserFlow!MadeBy(g)' = {}
                      /\ g \notin again' =>
                           /\ \A d, e \in UserFlow!MadeBy(g)' : d = e
                           /\ flow'[g] = "form" => \A e \in UserFlow!MadeBy(g)' : asks'[e] # "over"
    BY DEF Forms
  <2>0. \A e \in entries : e \in Requests \ {q}
    BY <1>0, <1>1 DEF UserFlow!FlowsTypeOK
  <2>1. CASE g # f
    <3>1. UserFlow!MadeBy(g)' = UserFlow!MadeBy(g)
      BY <2>0, <2>1, <1>2 DEF UserFlow!MadeBy
    <3>2. \A e \in UserFlow!MadeBy(g) : asks'[e] = asks[e]
      BY <2>0, <1>3 DEF UserFlow!MadeBy
    <3>3. flow'[g] = flow[g] /\ (g \notin again' => g \notin again)
      BY <2>1, <1>2, <1>3
    <3> QED
      BY <3>1, <3>2, <3>3, <1>0 DEF Forms
  <2>2. CASE g = f
    <3>1. ASSUME f \notin again' PROVE UserFlow!MadeBy(f)' = {q}
      <4>1. UserFlow!Adding(f) = {} /\ f \notin again
        BY <3>1, <1>2
      <4>2. ASSUME NEW e \in UserFlow!MadeBy(f) PROVE FALSE
        <5>1. e \in Requests /\ e \in entries /\ on[e] = f /\ asks[e] # "over"
          BY <4>1, <1>0, <1>1 DEF UserFlow!MadeBy, Forms, UserFlow!FlowsTypeOK
        <5>2. asks[e] \in {"setup", "component"}
          <6>1. asks[e] \in {"new", "loading", "setup", "component", "over"}
            BY <5>1, <1>0 DEF UserFlow!FlowsTypeOK
          <6>2. asks[e] # "new" /\ asks[e] # "loading"
            BY <5>1, <1>0 DEF Asks
          <6> QED
            BY <6>1, <6>2, <5>1
        <5> QED
          BY <5>1, <5>2, <4>1 DEF UserFlow!Adding
      <4> QED
        BY <4>2, <2>0, <1>2 DEF UserFlow!MadeBy
    <3>2. flow'[f] \notin {"new", "opening"} /\ (flow'[f] = "form" => asks'[q] # "over")
      BY <1>3
    <3> QED
      BY <3>1, <3>2, <2>2
  <2> QED
    BY <2>1, <2>2
<1> QED
  BY <1>4, <1>5, <1>6, <1>7 DEF FlowsInv

\* The user closes the dialog.
LEMMA AbortStep ==
  ASSUME FlowsInv, UserFlow!FlowsTypeOK', NEW f \in Flows, UserFlow!AsyncAbort(f)
  PROVE  FlowsInv'
<1>0. UserFlow!FlowsTypeOK /\ Asks /\ OpenedOnce /\ SetUps /\ Forms
  BY DEF FlowsInv
<1>1. /\ flow[f] = "form" /\ flow'[f] = "gone" /\ \A g \in Flows \ {f} : flow'[g] = flow[g]
      /\ UNCHANGED <<asks, on, answer, entries, setUp, component, again>>
  BY <1>0 DEF UserFlow!AsyncAbort, UserFlow!FlowsTypeOK
<1>2. Asks'
  BY <1>0, <1>1 DEF Asks
<1>3. OpenedOnce'
  BY <1>0, <1>1 DEF OpenedOnce
<1>4. SetUps'
  BY <1>0, <1>1 DEF SetUps
<1>5. Forms'
  <2> SUFFICES ASSUME NEW g \in Flows
               PROVE  /\ flow'[g] \in {"new", "opening"} => UserFlow!MadeBy(g)' = {}
                      /\ g \notin again' =>
                           /\ \A d, e \in UserFlow!MadeBy(g)' : d = e
                           /\ flow'[g] = "form" => \A e \in UserFlow!MadeBy(g)' : asks'[e] # "over"
    BY DEF Forms
  <2> QED
    BY <1>1, FlowGoes
<1> QED
  BY <1>2, <1>3, <1>4, <1>5 DEF FlowsInv

\* The steps of the setups leave requests and flows alone.
LEMMA SetUpsStep ==
  ASSUME FlowsInv, UserFlow!FlowsTypeOK', SetUps',
         UNCHANGED <<flow, asks, on, answer, entries, again>>,
         \A q \in Requests : asks[q] = "new" => setUp'[q] = setUp[q]
  PROVE  FlowsInv'
<1>0. UserFlow!FlowsTypeOK /\ Asks /\ OpenedOnce /\ Forms
  BY DEF FlowsInv
<1>1. Asks'
  BY <1>0 DEF Asks
<1>2. OpenedOnce'
  BY <1>0 DEF OpenedOnce
<1>3. Forms'
  BY <1>0 DEF Forms, UserFlow!MadeBy
<1> QED
  BY <1>1, <1>2, <1>3 DEF FlowsInv

\* The component is set up, and begins the setup of its entries.
LEMMA ComponentStep ==
  ASSUME FlowsInv, UserFlow!FlowsTypeOK', UserFlow!ComponentSetUp
  PROVE  FlowsInv'
<1>0. UserFlow!FlowsTypeOK /\ Asks /\ SetUps
  BY DEF FlowsInv
<1>1. component = "setup" /\ UNCHANGED <<flow, asks, on, answer, entries, again>>
  BY DEF UserFlow!ComponentSetUp
<1>2. \A q \in Requests : setUp[q] = "due"
  BY <1>0, <1>1 DEF SetUps
<1>3. CASE component' = "failed" /\ UNCHANGED setUp
  <2>1. SetUps'
    BY <1>0, <1>1, <1>3 DEF SetUps
  <2> QED
    BY <2>1, <1>1, <1>3, SetUpsStep
<1>4. CASE /\ component' = "entries"
           /\ setUp' = [e \in Requests |->
                IF e \notin entries THEN setUp[e]
                ELSE IF setUp[e] = "due" THEN "begun" ELSE "twice"]
  <2>1. \A q \in Requests : setUp'[q] = IF q \in entries THEN "begun" ELSE setUp[q]
    BY <1>2, <1>4
  <2>2. SetUps'
    <3> SUFFICES ASSUME NEW q \in Requests
                 PROVE  /\ setUp'[q] # "twice"
                        /\ asks[q] = "component" => setUp'[q] \in {"begun", "over"}
                        /\ answer[q] # "entry"
      BY <1>1, <1>4 DEF SetUps
    <3>1. answer[q] # "entry"
      BY <1>0, <1>1, <1>2 DEF SetUps
    <3>2. asks[q] = "component" => q \in entries
      BY <1>0 DEF Asks
    <3> QED
      BY <3>1, <3>2, <2>1, <1>2
  <2>3. \A q \in Requests : asks[q] = "new" => setUp'[q] = setUp[q]
    BY <2>1, <1>0 DEF Asks
  <2> QED
    BY <2>2, <2>3, <1>1, SetUpsStep
<1> QED
  BY <1>3, <1>4 DEF UserFlow!ComponentSetUp

\* The setup of an entry ends, those of all of them end, Home Assistant stops, or
\* nothing happens.
LEMMA QuietStep ==
  ASSUME FlowsInv, UserFlow!FlowsTypeOK',
         (\E e \in Requests : UserFlow!EntrySetUp(e)) \/ UserFlow!EntriesSetUp \/ UserFlow!Stop
         \/ UNCHANGED UserFlow!vars
  PROVE  FlowsInv'
<1>0. UserFlow!FlowsTypeOK /\ Asks /\ SetUps
  BY DEF FlowsInv
<1>1. ASSUME NEW e \in Requests, UserFlow!EntrySetUp(e) PROVE FlowsInv'
  <2>1. /\ UNCHANGED <<flow, asks, on, answer, entries, component, again>>
        /\ setUp[e] = "begun" /\ setUp'[e] = "over"
        /\ \A q \in Requests \ {e} : setUp'[q] = setUp[q]
    BY <1>0, <1>1 DEF UserFlow!EntrySetUp, UserFlow!FlowsTypeOK
  <2>2. component \notin {"none", "setup"}
    BY <2>1, <1>0 DEF SetUps
  <2>3. SetUps'
    BY <2>1, <2>2, <1>0 DEF SetUps
  <2>4. asks[e] # "new"
    BY <2>1, <1>0 DEF Asks
  <2> QED
    BY <2>1, <2>3, <2>4, SetUpsStep
<1>2. CASE UserFlow!EntriesSetUp
  <2>1. /\ UNCHANGED <<flow, asks, on, answer, entries, setUp, again>>
        /\ component = "entries" /\ component' = "there"
        /\ \A e \in entries : asks[e] = "component" => setUp[e] # "begun"
    BY <1>2 DEF UserFlow!EntriesSetUp, UserFlow!AllEnded
  <2>2. SetUps'
    BY <2>1, <1>0 DEF SetUps, Asks
  <2> QED
    BY <2>1, <2>2, SetUpsStep
<1>3. CASE UserFlow!Stop \/ UNCHANGED UserFlow!vars
  <2>1. UNCHANGED <<flow, asks, on, answer, entries, setUp, component, again>>
    BY <1>3 DEF UserFlow!Stop, UserFlow!vars
  <2>2. SetUps'
    BY <2>1, <1>0 DEF SetUps
  <2> QED
    BY <2>1, <2>2, SetUpsStep
<1> QED
  BY <1>1, <1>2, <1>3

\* No flow is in progress.
LEMMA FlowsInit == UserFlow!Init => FlowsInv
<1> SUFFICES ASSUME UserFlow!Init PROVE FlowsInv
  OBVIOUS
<1>1. UserFlow!FlowsTypeOK
  BY DEF UserFlow!Init, UserFlow!FlowsTypeOK
<1>2. Asks /\ OpenedOnce /\ SetUps
  BY DEF UserFlow!Init, Asks, OpenedOnce, SetUps
<1>3. Forms
  BY DEF UserFlow!Init, Forms, UserFlow!MadeBy
<1> QED
  BY <1>1, <1>2, <1>3 DEF FlowsInv

\* Flows, their requests and the setups stay coherent.
LEMMA FlowsStep == FlowsInv /\ [UserFlow!Next]_(UserFlow!vars) => FlowsInv'
<1> SUFFICES ASSUME FlowsInv, [UserFlow!Next]_(UserFlow!vars) PROVE FlowsInv'
  OBVIOUS
<1>0. UserFlow!FlowsTypeOK'
  BY FlowTypes
<1>1. ASSUME NEW q \in Requests, NEW f \in Flows,
             UserFlow!AsyncInit(q, f) \/ UserFlow!SubmitUnknown(q, f)
             \/ UserFlow!SubmitInvalid(q, f)
      PROVE  FlowsInv'
  BY <1>0, <1>1, AskingStep
<1>2. ASSUME NEW q \in Requests, NEW f \in Flows, UserFlow!Submit(q, f) PROVE FlowsInv'
  BY <1>0, <1>2, SubmitStep
<1>3. ASSUME NEW q \in Requests, UserFlow!Initialized(q) \/ UserFlow!Interrupted(q)
      PROVE  FlowsInv'
  BY <1>0, <1>3, AskingStep
<1>4. ASSUME NEW q \in Requests, UserFlow!EntrySetUp(q) PROVE FlowsInv'
  BY <1>0, <1>4, QuietStep
<1>5. ASSUME NEW q \in Requests, UserFlow!Added(q) PROVE FlowsInv'
  BY <1>0, <1>5, AddedStep
<1>6. ASSUME NEW f \in Flows, UserFlow!AsyncAbort(f) PROVE FlowsInv'
  BY <1>0, <1>6, AbortStep
<1>7. CASE UserFlow!ComponentSetUp
  BY <1>0, <1>7, ComponentStep
<1>8. CASE UserFlow!Stop \/ UserFlow!EntriesSetUp \/ UserFlow!Finished \/ UNCHANGED UserFlow!vars
  BY <1>0, <1>8, QuietStep DEF UserFlow!Finished
<1> QED
  BY <1>1, <1>2, <1>3, <1>4, <1>5, <1>6, <1>7, <1>8 DEF UserFlow!Next

\* What is waited for has begun, and stays so.
LEMMA SettlesStep ==
  ASSUME FlowsInv, Settles, [UserFlow!Next]_(UserFlow!vars)
  PROVE  Settles'
<1>0. UserFlow!FlowsTypeOK /\ Asks /\ SetUps
  BY DEF FlowsInv
<1>1. /\ asks \in [Requests -> {"new", "loading", "setup", "component", "over"}]
      /\ setUp \in [Requests -> {"due", "begun", "over", "twice"}]
  BY <1>0 DEF UserFlow!FlowsTypeOK
\* Nobody begins to wait, and what has begun stays so.
<1>2. ASSUME NEW q \in Requests, asks' = [asks EXCEPT ![q] = "loading"],
             UNCHANGED <<setUp, component>>
      PROVE  Settles'
  BY <1>1, <1>2 DEF Settles
<1>3. ASSUME NEW q \in Requests, asks' = [asks EXCEPT ![q] = "over"],
             UNCHANGED <<setUp, component>>
      PROVE  Settles'
  BY <1>1, <1>3 DEF Settles
<1>4. ASSUME UNCHANGED <<asks, setUp>>, component # "none" => component' # "none"
      PROVE  Settles'
  BY <1>4 DEF Settles
<1>5. ASSUME NEW q \in Requests, NEW f \in Flows, UserFlow!Submit(q, f) PROVE Settles'
  <2>1. CASE /\ setUp' = [setUp EXCEPT ![q] = "begun"]
             /\ asks' = [asks EXCEPT ![q] = "setup"]
             /\ component' = component
    BY <1>1, <2>1 DEF Settles
  <2>2. CASE /\ component' = IF component = "none" THEN "setup" ELSE component
             /\ asks' = [asks EXCEPT ![q] = "component"]
             /\ setUp' = setUp
    BY <1>1, <2>2 DEF Settles
  <2>3. CASE UserFlow!FlowEnds(q, f) /\ UNCHANGED <<setUp, component>>
    BY <1>3, <2>3 DEF UserFlow!FlowEnds, UserFlow!Reply
  <2> QED
    BY <1>5, <2>1, <2>2, <2>3 DEF UserFlow!Submit
<1>6. CASE UserFlow!ComponentSetUp
  <2>1. \A q \in Requests : asks[q] # "setup"
    BY <1>0, <1>6 DEF UserFlow!ComponentSetUp, SetUps, Settles
  <2>2. asks' = asks /\ component' # "none"
    BY <1>6 DEF UserFlow!ComponentSetUp
  <2> QED
    BY <2>1, <2>2 DEF Settles
<1>7. ASSUME NEW e \in Requests, UserFlow!EntrySetUp(e) PROVE Settles'
  BY <1>1, <1>7 DEF UserFlow!EntrySetUp, Settles
<1>8. ASSUME NEW q \in Requests, NEW f \in Flows,
             UserFlow!AsyncInit(q, f) \/ UserFlow!SubmitUnknown(q, f)
             \/ UserFlow!SubmitInvalid(q, f)
      PROVE  Settles'
  BY <1>2, <1>3, <1>8
  DEF UserFlow!AsyncInit, UserFlow!SubmitUnknown, UserFlow!SubmitInvalid, UserFlow!Reply
<1>9. ASSUME NEW q \in Requests,
             UserFlow!Initialized(q) \/ UserFlow!Interrupted(q) \/ UserFlow!Added(q)
      PROVE  Settles'
  BY <1>3, <1>9 DEF UserFlow!Initialized, UserFlow!Interrupted, UserFlow!Added,
                    UserFlow!FlowEnds, UserFlow!Reply
<1>10. ASSUME NEW f \in Flows, UserFlow!AsyncAbort(f) PROVE Settles'
  BY <1>4, <1>10 DEF UserFlow!AsyncAbort
<1>11. CASE UserFlow!Stop \/ UserFlow!EntriesSetUp \/ UserFlow!Finished \/ UNCHANGED UserFlow!vars
  BY <1>4, <1>11 DEF UserFlow!Stop, UserFlow!EntriesSetUp, UserFlow!Finished, UserFlow!vars
<1> QED
  BY <1>5, <1>6, <1>7, <1>8, <1>9, <1>10, <1>11 DEF UserFlow!Next

\* A request that has no answer waits for the component, whose setup or whose entries
\* are under way, or for a setup that has begun; or it is its turn.
LEMMA FlowsGoOnHere == FlowsInv /\ Settles => UserFlow!FlowsGoOn
<1> SUFFICES ASSUME FlowsInv, Settles, NEW q \in Requests, asks[q] \notin {"new", "over"}
             PROVE  UserFlow!GoesOn
  BY DEF UserFlow!FlowsGoOn
<1>1. /\ asks[q] \in {"loading", "setup", "component"}
      /\ component \in {"none", "setup", "entries", "there", "failed"}
      /\ entries \subseteq Requests
  BY DEF FlowsInv, UserFlow!FlowsTypeOK
<1>2. CASE asks[q] = "loading"
  BY <1>2 DEF UserFlow!GoesOn
<1>3. CASE asks[q] = "setup"
  BY <1>3 DEF Settles, UserFlow!GoesOn, UserFlow!Through
<1>4. CASE asks[q] = "component"
  <2>1. component # "none"
    BY <1>4 DEF Settles
  <2>2. CASE component = "entries"
    BY <1>1, <2>2 DEF UserFlow!GoesOn, UserFlow!AllEnded
  <2> QED
    BY <1>1, <1>4, <2>1, <2>2 DEF UserFlow!GoesOn, UserFlow!Through
<1> QED
  BY <1>1, <1>2, <1>3, <1>4

\* The ranks of a flow, a request, a setup and the component are numbers.
LEMMA RanksAreNumbers ==
  ASSUME FlowsInv
  PROVE  /\ UserFlow!Rank(component) \in Nat
         /\ \A f \in Flows : UserFlow!Rank(flow[f]) \in Nat
         /\ \A q \in Requests : UserFlow!Rank(asks[q]) \in Nat /\ UserFlow!Rank(setUp[q]) \in Nat
<1>1. UserFlow!FlowsTypeOK /\ SetUps
  BY DEF FlowsInv
<1>2. UserFlow!Rank(component) \in Nat
  BY <1>1 DEF UserFlow!FlowsTypeOK, UserFlow!Rank
<1>3. \A f \in Flows : UserFlow!Rank(flow[f]) \in Nat
  BY <1>1 DEF UserFlow!FlowsTypeOK, UserFlow!Rank
<1>4. ASSUME NEW q \in Requests
      PROVE  UserFlow!Rank(asks[q]) \in Nat /\ UserFlow!Rank(setUp[q]) \in Nat
  <2>1. asks[q] \in {"new", "loading", "setup", "component", "over"}
    BY <1>1 DEF UserFlow!FlowsTypeOK
  <2>2. setUp[q] \in {"due", "begun", "over"}
    BY <1>1 DEF UserFlow!FlowsTypeOK, SetUps
  <2> QED
    BY <2>1, <2>2 DEF UserFlow!Rank
<1> QED
  BY <1>2, <1>3, <1>4

\* A flow whose rank does not fall, and requests that go on one by one.
LEMMA RequestAdvances ==
  ASSUME FlowsInv, NEW q \in Requests, NEW a \in {"loading", "setup", "component", "over"},
         asks' = [asks EXCEPT ![q] = a], UserFlow!Rank(asks[q]) < UserFlow!Rank(a),
         \A f \in Flows : UserFlow!Rank(flow[f]) <= UserFlow!Rank(flow'[f]),
         \A p \in Requests : UserFlow!Rank(setUp[p]) <= UserFlow!Rank(setUp'[p]),
         UserFlow!Rank(component) <= UserFlow!Rank(component')
  PROVE  UserFlow!NothingGoesBack /\ UserFlow!SomethingGoesOn
<1>1. asks'[q] = a /\ \A p \in Requests : p # q => asks'[p] = asks[p]
  BY DEF FlowsInv, UserFlow!FlowsTypeOK
<1>2. \A p \in Requests : UserFlow!Rank(asks[p]) \in Nat
  BY RanksAreNumbers
<1>3. UserFlow!Rank(asks[q]) < UserFlow!Rank(asks'[q])
  BY <1>1
<1>4. \A p \in Requests : UserFlow!Rank(asks[p]) <= UserFlow!Rank(asks'[p])
  <2> SUFFICES ASSUME NEW p \in Requests
               PROVE  UserFlow!Rank(asks[p]) <= UserFlow!Rank(asks'[p])
    OBVIOUS
  <2>1. CASE p = q
    BY <1>1, <2>1 DEF UserFlow!Rank
  <2>2. CASE p # q
    BY <1>1, <1>2, <2>2
  <2> QED
    BY <2>1, <2>2
<1> QED
  BY <1>3, <1>4 DEF UserFlow!NothingGoesBack, UserFlow!SomethingGoesOn

\* Every other step of the flows moves one of these forward.
LEMMA FlowsAdvances ==
  ASSUME FlowsInv, UserFlow!Next, ~UserFlow!Stop, ~UNCHANGED UserFlow!vars
  PROVE  UserFlow!NothingGoesBack /\ UserFlow!SomethingGoesOn
<1>0. UserFlow!FlowsTypeOK /\ Asks /\ SetUps
  BY DEF FlowsInv
<1>r. /\ UserFlow!Rank(component) \in Nat
      /\ \A f \in Flows : UserFlow!Rank(flow[f]) \in Nat
      /\ \A q \in Requests : UserFlow!Rank(asks[q]) \in Nat /\ UserFlow!Rank(setUp[q]) \in Nat
  BY RanksAreNumbers
<1>t. /\ flow \in [Flows -> {"new", "opening", "form", "gone"}]
      /\ asks \in [Requests -> {"new", "loading", "setup", "component", "over"}]
      /\ setUp \in [Requests -> {"due", "begun", "over", "twice"}]
      /\ component \in {"none", "setup", "entries", "there", "failed"}
  BY <1>0 DEF UserFlow!FlowsTypeOK
<1>k. /\ flow' = flow => \A f \in Flows : UserFlow!Rank(flow[f]) <= UserFlow!Rank(flow'[f])
      /\ setUp' = setUp
           => \A p \in Requests : UserFlow!Rank(setUp[p]) <= UserFlow!Rank(setUp'[p])
      /\ component' = component => UserFlow!Rank(component) <= UserFlow!Rank(component')
  BY <1>r
\* A flow that is opened, shows its form or is gone has gone on.
<1>f. ASSUME NEW f \in Flows, NEW s \in {"opening", "form", "gone"},
             flow' = [flow EXCEPT ![f] = s], UserFlow!Rank(flow[f]) < UserFlow!Rank(s)
      PROVE  \A x \in Flows : UserFlow!Rank(flow[x]) <= UserFlow!Rank(flow'[x])
  <2>1. flow'[f] = s /\ \A x \in Flows : x # f => flow'[x] = flow[x]
    BY <1>t, <1>f
  <2> QED
    BY <1>r, <1>f, <2>1 DEF UserFlow!Rank
<1>1. ASSUME NEW q \in Requests, NEW f \in Flows, UserFlow!AsyncInit(q, f)
      PROVE  UserFlow!NothingGoesBack /\ UserFlow!SomethingGoesOn
  <2>1. /\ asks[q] = "new" /\ flow[f] = "new"
        /\ asks' = [asks EXCEPT ![q] = "loading"] /\ flow' = [flow EXCEPT ![f] = "opening"]
        /\ UNCHANGED <<setUp, component>>
    BY <1>1 DEF UserFlow!AsyncInit
  <2>2. /\ UserFlow!Rank(asks[q]) < UserFlow!Rank("loading")
        /\ UserFlow!Rank(flow[f]) < UserFlow!Rank("opening")
    BY <2>1 DEF UserFlow!Rank
  <2> QED
    <3>1. \A x \in Flows : UserFlow!Rank(flow[x]) <= UserFlow!Rank(flow'[x])
      BY <1>f, <2>1, <2>2
    <3> QED
      BY <1>k, <2>1, <2>2, <3>1, RequestAdvances
<1>2. ASSUME NEW q \in Requests, NEW f \in Flows,
             UserFlow!SubmitUnknown(q, f) \/ UserFlow!SubmitInvalid(q, f)
      PROVE  UserFlow!NothingGoesBack /\ UserFlow!SomethingGoesOn
  <2>1. /\ asks[q] = "new" /\ asks' = [asks EXCEPT ![q] = "over"]
        /\ UNCHANGED <<flow, setUp, component>>
    BY <1>2 DEF UserFlow!SubmitUnknown, UserFlow!SubmitInvalid, UserFlow!Reply
  <2>2. UserFlow!Rank(asks[q]) < UserFlow!Rank("over")
    BY <2>1 DEF UserFlow!Rank
  <2> QED
    BY <1>k, <2>1, <2>2, RequestAdvances
<1>3. ASSUME NEW q \in Requests, UserFlow!Initialized(q) \/ UserFlow!Interrupted(q)
      PROVE  UserFlow!NothingGoesBack /\ UserFlow!SomethingGoesOn
  <2>1. /\ asks[q] = "loading" /\ asks' = [asks EXCEPT ![q] = "over"]
        /\ on[q] \in Flows /\ flow[on[q]] = "opening"
        /\ UNCHANGED <<setUp, component>>
    BY <1>0, <1>3 DEF UserFlow!Initialized, UserFlow!Interrupted, UserFlow!Reply, Asks
  <2>2. PICK s \in {"form", "gone"} : flow' = [flow EXCEPT ![on[q]] = s]
    BY <1>3 DEF UserFlow!Initialized, UserFlow!Interrupted
  <2>3. /\ UserFlow!Rank(asks[q]) < UserFlow!Rank("over")
        /\ UserFlow!Rank(flow[on[q]]) < UserFlow!Rank(s)
    BY <2>1, <2>2 DEF UserFlow!Rank
  <2> QED
    <3>1. \A x \in Flows : UserFlow!Rank(flow[x]) <= UserFlow!Rank(flow'[x])
      BY <1>f, <2>1, <2>2, <2>3
    <3> QED
      BY <1>k, <2>1, <2>3, <3>1, RequestAdvances
\* The end of a flow.
<1>e. ASSUME NEW q \in Requests, NEW f \in Flows, UserFlow!FlowEnds(q, f), asks[q] # "over",
             UNCHANGED <<setUp, component>>
      PROVE  UserFlow!NothingGoesBack /\ UserFlow!SomethingGoesOn
  <2>1. asks' = [asks EXCEPT ![q] = "over"]
    BY <1>e DEF UserFlow!FlowEnds, UserFlow!Reply
  <2>2. UserFlow!Rank(asks[q]) < UserFlow!Rank("over")
    BY <1>t, <1>e DEF UserFlow!Rank
  <2>3. \A x \in Flows : UserFlow!Rank(flow[x]) <= UserFlow!Rank(flow'[x])
    <3>1. CASE flow' = flow
      BY <1>r, <3>1
    <3>2. CASE flow[f] = "form" /\ flow' = [flow EXCEPT ![f] = "gone"]
      <4>1. UserFlow!Rank(flow[f]) < UserFlow!Rank("gone")
        BY <3>2 DEF UserFlow!Rank
      <4> QED
        BY <1>f, <3>2, <4>1
    <3> QED
      BY <1>e, <3>1, <3>2 DEF UserFlow!FlowEnds
  <2> QED
    BY <1>k, <1>e, <2>1, <2>2, <2>3, RequestAdvances
<1>4. ASSUME NEW q \in Requests, NEW f \in Flows, UserFlow!Submit(q, f)
      PROVE  UserFlow!NothingGoesBack /\ UserFlow!SomethingGoesOn
  <2>0. asks[q] = "new" /\ setUp[q] = "due"
    BY <1>0, <1>4 DEF UserFlow!Submit, Asks
  <2>1. CASE /\ setUp' = [setUp EXCEPT ![q] = "begun"]
             /\ asks' = [asks EXCEPT ![q] = "setup"]
             /\ UNCHANGED <<flow, component>>
    <3>1. UserFlow!Rank(asks[q]) < UserFlow!Rank("setup")
      BY <2>0 DEF UserFlow!Rank
    <3>2. UserFlow!Rank(setUp[q]) <= UserFlow!Rank("begun")
      BY <2>0 DEF UserFlow!Rank
    <3>3. \A p \in Requests : UserFlow!Rank(setUp[p]) <= UserFlow!Rank(setUp'[p])
      BY <1>r, <1>t, <2>1, <3>2 DEF UserFlow!Rank
    <3> QED
      BY <1>k, <2>0, <2>1, <3>1, <3>3, RequestAdvances
  <2>2. CASE /\ component' = IF component = "none" THEN "setup" ELSE component
             /\ asks' = [asks EXCEPT ![q] = "component"]
             /\ UNCHANGED <<flow, setUp>>
    <3>1. UserFlow!Rank(asks[q]) < UserFlow!Rank("component")
      BY <2>0 DEF UserFlow!Rank
    <3>2. UserFlow!Rank(component) <= UserFlow!Rank(component')
      BY <1>t, <2>2 DEF UserFlow!Rank
    <3> QED
      BY <1>k, <2>0, <2>2, <3>1, <3>2, RequestAdvances
  <2>3. CASE UserFlow!FlowEnds(q, f) /\ UNCHANGED <<setUp, component>>
    BY <1>e, <2>0, <2>3
  <2> QED
    BY <1>4, <2>1, <2>2, <2>3 DEF UserFlow!Submit
<1>5. ASSUME NEW q \in Requests, UserFlow!Added(q)
      PROVE  UserFlow!NothingGoesBack /\ UserFlow!SomethingGoesOn
  <2>1. asks[q] \in {"setup", "component"} /\ on[q] \in Flows
    BY <1>0, <1>5 DEF UserFlow!Added, UserFlow!Through, Asks
  <2> QED
    BY <1>e, <1>5, <2>1 DEF UserFlow!Added
\* What remains leaves flows and requests alone, or the requests.
<1>s. ASSUME \A f \in Flows : UserFlow!Rank(flow[f]) <= UserFlow!Rank(flow'[f]),
             asks' = asks,
             \A q \in Requests : UserFlow!Rank(setUp[q]) <= UserFlow!Rank(setUp'[q]),
             UserFlow!Rank(component) <= UserFlow!Rank(component')
      PROVE  UserFlow!NothingGoesBack
  BY <1>r, <1>s DEF UserFlow!NothingGoesBack
<1>6. ASSUME NEW f \in Flows, UserFlow!AsyncAbort(f)
      PROVE  UserFlow!NothingGoesBack /\ UserFlow!SomethingGoesOn
  <2>1. /\ flow[f] = "form" /\ flow' = [flow EXCEPT ![f] = "gone"]
        /\ UNCHANGED <<asks, setUp, component>>
    BY <1>6 DEF UserFlow!AsyncAbort
  <2>2. UserFlow!Rank(flow[f]) < UserFlow!Rank("gone") /\ flow'[f] = "gone"
    BY <1>t, <2>1 DEF UserFlow!Rank
  <2>3. \A x \in Flows : UserFlow!Rank(flow[x]) <= UserFlow!Rank(flow'[x])
    BY <1>f, <2>1, <2>2
  <2> QED
    BY <1>r, <1>s, <2>1, <2>2, <2>3 DEF UserFlow!SomethingGoesOn
<1>7. CASE UserFlow!ComponentSetUp
  <2>1. /\ component = "setup" /\ component' \in {"entries", "failed"}
        /\ UNCHANGED <<flow, asks>>
    BY <1>7 DEF UserFlow!ComponentSetUp
  <2>2. UserFlow!Rank(component) < UserFlow!Rank(component')
        /\ UserFlow!Rank(component) <= UserFlow!Rank(component')
    BY <2>1 DEF UserFlow!Rank
  <2>3. ASSUME NEW q \in Requests
        PROVE  UserFlow!Rank(setUp[q]) <= UserFlow!Rank(setUp'[q])
    <3>1. setUp[q] = "due"
      BY <1>0, <2>1 DEF SetUps
    <3>2. setUp'[q] \in {"due", "begun"}
      BY <1>7, <3>1 DEF UserFlow!ComponentSetUp
    <3> QED
      BY <3>1, <3>2 DEF UserFlow!Rank
  <2> QED
    BY <1>r, <1>s, <2>1, <2>2, <2>3 DEF UserFlow!SomethingGoesOn
<1>8. ASSUME NEW e \in Requests, UserFlow!EntrySetUp(e)
      PROVE  UserFlow!NothingGoesBack /\ UserFlow!SomethingGoesOn
  <2>1. /\ setUp[e] = "begun" /\ setUp' = [setUp EXCEPT ![e] = "over"]
        /\ UNCHANGED <<flow, asks, component>>
    BY <1>8 DEF UserFlow!EntrySetUp
  <2>2. UserFlow!Rank(setUp[e]) < UserFlow!Rank("over") /\ setUp'[e] = "over"
    BY <1>t, <2>1 DEF UserFlow!Rank
  <2>3. \A q \in Requests : UserFlow!Rank(setUp[q]) <= UserFlow!Rank(setUp'[q])
    BY <1>r, <1>t, <2>1, <2>2 DEF UserFlow!Rank
  <2> QED
    BY <1>r, <1>s, <2>1, <2>2, <2>3 DEF UserFlow!SomethingGoesOn
<1>9. CASE UserFlow!EntriesSetUp
  <2>1. /\ component = "entries" /\ component' = "there"
        /\ UNCHANGED <<flow, asks, setUp>>
    BY <1>9 DEF UserFlow!EntriesSetUp, UserFlow!AllEnded
  <2>2. UserFlow!Rank(component) < UserFlow!Rank(component')
        /\ UserFlow!Rank(component) <= UserFlow!Rank(component')
    BY <2>1 DEF UserFlow!Rank
  <2> QED
    BY <1>r, <1>s, <2>1, <2>2 DEF UserFlow!SomethingGoesOn
<1>10. ~UserFlow!Finished
  BY DEF UserFlow!Finished
<1> QED
  BY <1>1, <1>2, <1>3, <1>4, <1>5, <1>6, <1>7, <1>8, <1>9, <1>10 DEF UserFlow!Next

\* Home Assistant's stop is the one step that brings none of them further.
LEMMA FlowsOrStop ==
  ASSUME FlowsInv, UserFlow!Next, ~UNCHANGED UserFlow!vars
  PROVE  /\ UserFlow!NothingGoesBack /\ (ending => ending')
         /\ UserFlow!SomethingGoesOn \/ ending # ending'
<1>1. CASE UserFlow!Stop
  <2>1. ~ending /\ ending' = TRUE
    BY <1>1 DEF UserFlow!Stop
  <2>2. UNCHANGED <<flow, asks, setUp, component>>
    BY <1>1 DEF UserFlow!Stop
  <2>3. UserFlow!NothingGoesBack
    BY <2>2, RanksAreNumbers DEF UserFlow!NothingGoesBack
  <2> QED
    BY <2>1, <2>3
<1>2. CASE ~UserFlow!Stop
  <2>1. ending => ending'
    BY <1>2 DEF UserFlow!Next, UserFlow!AsyncInit, UserFlow!SubmitUnknown,
               UserFlow!SubmitInvalid, UserFlow!Initialized, UserFlow!Interrupted,
               UserFlow!Submit, UserFlow!Added, UserFlow!AsyncAbort, UserFlow!ComponentSetUp,
               UserFlow!EntrySetUp, UserFlow!EntriesSetUp, UserFlow!Finished, UserFlow!vars
  <2> QED
    BY <1>2, <2>1, FlowsAdvances
<1> QED
  BY <1>1, <1>2

\* Whoever counts it, a set has as many elements.
LEMMA SameCardinality == \A S : UserFlow!Cardinality(S) = Cardinality(S)
BY DEF UserFlow!Cardinality, Cardinality

\* A flow whose form is not submitted again while its entry is added makes one entry,
\* and shows its form until that is through and not longer.
LEMMA FlowsMakeOne == FlowsInv => UserFlow!OneEntryPerFlow
<1> SUFFICES ASSUME FlowsInv, NEW f \in Flows, f \notin again
             PROVE  /\ UserFlow!Cardinality(UserFlow!MadeBy(f)) <= 1
                    /\ flow[f] = "form" => \A e \in UserFlow!MadeBy(f) : asks[e] # "over"
  BY DEF UserFlow!OneEntryPerFlow
<1>1. /\ \A d, e \in UserFlow!MadeBy(f) : d = e
      /\ flow[f] = "form" => \A e \in UserFlow!MadeBy(f) : asks[e] # "over"
  BY DEF FlowsInv, Forms
<1>2. Cardinality(UserFlow!MadeBy(f)) <= 1
  <2>1. CASE UserFlow!MadeBy(f) = {}
    BY <2>1, FS_EmptySet
  <2>2. ASSUME NEW e \in UserFlow!MadeBy(f) PROVE Cardinality(UserFlow!MadeBy(f)) = 1
    <3>1. UserFlow!MadeBy(f) = {e}
      BY <1>1, <2>2
    <3> QED
      BY <3>1, FS_Singleton
  <2> QED
    BY <2>1, <2>2
<1> QED
  BY <1>1, <1>2, SameCardinality

-----------------------------------------------------------------------------
(* The polling.                                                             *)

\* The poll of a device that has a sensor is armed or under way until the device is
\* shut down, and there is no other timer.
PollingInv ==
  /\ Polling!TypeOK /\ polls \subseteq {unsub} /\ ~closing /\ ~authFailed
  /\ listeners # {} /\ ~shutdown => unsub \in polls \/ fetching # {}
  /\ phase = "unloaded" => ~onUnload
  /\ cached /\ ~onUnload => shutdown

\* Nothing is polled before the first setup.
LEMMA PollingInit == Polling!Init => PollingInv
BY DEF Polling!Init, Polling!Coordinator!Init, PollingInv, Polling!TypeOK,
       Polling!Coordinator!TypeOK

\* _schedule_refresh leaves one timer, a new one, and its handle; _async_unsub_refresh
\* leaves none.
LEMMA PollIsExact ==
  ASSUME PollingInv
  PROVE  /\ Polling!Coordinator!Schedule(polls)
              => unsub' \in PollTimers /\ polls' = {unsub'}
         /\ Polling!Coordinator!Unschedule(polls) => polls' = {} /\ unsub' = NoTimer
BY DEF PollingInv, Polling!Coordinator!Schedule, Polling!Coordinator!Unschedule,
       Polling!TypeOK, Polling!Coordinator!TypeOK

\* A sensor comes or goes: the first one arms the poll, the last one disarms it.
LEMMA SensorsInv ==
  ASSUME PollingInv, NEW s \in Sensors, Polling!SensorAdded(s) \/ Polling!SensorRemoved(s)
  PROVE  PollingInv'
<1> USE DEF PollingInv, Polling!TypeOK, Polling!Coordinator!TypeOK
<1>1. UNCHANGED <<phase, cached, onUnload, fetching, previous, success, shutdown, closing,
                  authFailed, crossed>>
  BY DEF Polling!SensorAdded, Polling!SensorRemoved, Polling!Coordinator!AddListener,
         Polling!Coordinator!RemoveListener
<1>2. CASE Polling!SensorAdded(s)
  <2>1. /\ listeners' = listeners \cup {s}
        /\ seen' = [seen EXCEPT ![s] = success]
        /\ IF listeners = {} THEN Polling!Coordinator!Schedule(polls)
                             ELSE UNCHANGED <<polls, unsub>>
    BY <1>2 DEF Polling!SensorAdded, Polling!Coordinator!AddListener
  <2>2. CASE listeners = {}
    <3>1. unsub' \in PollTimers /\ polls' = {unsub'}
      BY <2>1, <2>2, PollIsExact
    <3> QED
      BY <1>1, <2>1, <3>1
  <2>3. CASE listeners # {}
    BY <1>1, <2>1, <2>3
  <2> QED
    BY <2>2, <2>3
<1>3. CASE Polling!SensorRemoved(s)
  <2>1. /\ listeners' = listeners \ {s} /\ seen' = seen
        /\ s \in listeners
        /\ IF listeners' = {} THEN Polling!Coordinator!Unschedule(polls)
                              ELSE UNCHANGED <<polls, unsub>>
    BY <1>3 DEF Polling!SensorRemoved, Polling!Coordinator!RemoveListener
  <2>2. CASE listeners' = {}
    <3>1. polls' = {} /\ unsub' = NoTimer
      BY <2>1, <2>2, PollIsExact
    <3> QED
      BY <1>1, <2>1, <2>2, <3>1
  <2>3. CASE listeners' # {}
    BY <1>1, <2>1, <2>3
  <2> QED
    BY <2>2, <2>3
<1> QED
  BY <1>2, <1>3

\* A fetch begins, at the timer or on request, in the place of the timer.
LEMMA FetchBeginsInv ==
  ASSUME PollingInv, Polling!TimerFires \/ Polling!UpdateEntity
  PROVE  PollingInv'
<1> USE DEF PollingInv, Polling!TypeOK, Polling!Coordinator!TypeOK
<1>1. UNCHANGED <<phase, cached, onUnload, listeners, success, shutdown, closing, seen,
                  authFailed>>
  BY DEF Polling!TimerFires, Polling!UpdateEntity, Polling!Coordinator!TimerFires,
         Polling!Coordinator!RequestRefresh, Polling!Coordinator!Begin
<1>2. polls' = {} /\ unsub' = NoTimer
  <2>1. CASE Polling!UpdateEntity
    BY <2>1, PollIsExact DEF Polling!UpdateEntity, Polling!Coordinator!RequestRefresh,
       Polling!Coordinator!Begin
  <2>2. CASE Polling!TimerFires
    BY <2>2 DEF Polling!TimerFires, Polling!Coordinator!TimerFires
  <2> QED
    BY <2>1, <2>2
<1>3. \/ shutdown /\ UNCHANGED <<fetching, previous, crossed>>
      \/ \E r \in Refreshes \ fetching :
           /\ fetching' = fetching \cup {r}
           /\ previous' = [previous EXCEPT ![r] = success]
           /\ crossed' = (crossed \/ fetching # {})
  BY DEF Polling!TimerFires, Polling!UpdateEntity, Polling!Coordinator!TimerFires,
         Polling!Coordinator!RequestRefresh, Polling!Coordinator!Begin
<1>4. CASE shutdown /\ UNCHANGED <<fetching, previous, crossed>>
  BY <1>1, <1>2, <1>4
<1>5. ASSUME NEW r \in Refreshes \ fetching,
             fetching' = fetching \cup {r},
             previous' = [previous EXCEPT ![r] = success],
             crossed' = (crossed \/ fetching # {})
      PROVE  PollingInv'
  <2>1. /\ fetching' \in SUBSET Refreshes /\ fetching' # {}
        /\ previous' \in [Refreshes -> BOOLEAN] /\ crossed' \in BOOLEAN
    BY <1>5
  <2> QED
    BY <1>1, <1>2, <2>1
<1> QED
  BY <1>3, <1>4, <1>5

\* A fetch ends, or is cancelled: the next poll is armed while there is a sensor.
LEMMA FetchEndsInv ==
  ASSUME PollingInv, NEW r \in Refreshes, Polling!CancelFetch(r) \/ Polling!Fetched(r)
  PROVE  PollingInv'
<1> USE DEF PollingInv, Polling!TypeOK, Polling!Coordinator!TypeOK
<1>0. crossed' \in BOOLEAN
  <2>1. CASE Polling!CancelFetch(r)
    BY <2>1 DEF Polling!CancelFetch, Polling!Coordinator!Cancel
  <2>2. CASE Polling!Fetched(r)
    BY <2>2, Zenon DEF Polling!Fetched, Polling!Coordinator!Return
  <2> QED
    BY <2>1, <2>2
<1>1. /\ UNCHANGED <<phase, cached, onUnload, listeners, previous, shutdown, closing>>
      /\ fetching' = fetching \ {r} /\ success' \in BOOLEAN /\ authFailed' = FALSE
  BY DEF Polling!CancelFetch, Polling!Fetched, Polling!Coordinator!Cancel,
         Polling!Coordinator!Return
<1>2. seen' \in [Sensors -> BOOLEAN]
  BY <1>1 DEF Polling!CancelFetch, Polling!Fetched, Polling!Coordinator!Cancel,
         Polling!Coordinator!Return, Polling!Coordinator!TellOutcome, Polling!Coordinator!Tell
<1>3. IF listeners # {} THEN Polling!Coordinator!Schedule(polls)
                        ELSE UNCHANGED <<polls, unsub>>
  BY DEF Polling!CancelFetch, Polling!Fetched, Polling!Coordinator!Cancel,
         Polling!Coordinator!Return, Polling!Coordinator!Reschedule
<1>4. CASE listeners # {}
  <2>1. unsub' \in PollTimers /\ polls' = {unsub'}
    BY <1>3, <1>4, PollIsExact
  <2> QED
    BY <1>0, <1>1, <1>2, <2>1
<1>5. CASE listeners = {}
  BY <1>0, <1>1, <1>2, <1>3, <1>5
<1> QED
  BY <1>4, <1>5

\* The entry is set up or unloaded.  The first unload shuts the coordinator down.
LEMMA EntryPollsInv ==
  ASSUME PollingInv, Polling!Setup \/ Polling!Unload \/ Polling!ProcessOnUnload
  PROVE  PollingInv'
<1> USE DEF PollingInv, Polling!TypeOK, Polling!Coordinator!TypeOK
<1>1. CASE Polling!Setup
  BY <1>1 DEF Polling!Setup, Polling!coordinatorVars
<1>2. CASE Polling!Unload
  BY <1>2 DEF Polling!Unload, Polling!coordinatorVars
<1>3. CASE Polling!ProcessOnUnload /\ ~onUnload
  BY <1>3 DEF Polling!ProcessOnUnload, Polling!coordinatorVars
<1>4. CASE Polling!ProcessOnUnload /\ onUnload
  <2>1. polls' = {} /\ unsub' = NoTimer /\ shutdown' = TRUE
    BY <1>4, PollIsExact DEF Polling!ProcessOnUnload, Polling!Coordinator!Shutdown
  <2> QED
    BY <1>4, <2>1 DEF Polling!ProcessOnUnload, Polling!Coordinator!Shutdown
<1> QED
  BY <1>1, <1>2, <1>3, <1>4

\* No step of the polling disturbs it.
LEMMA PollingStep == PollingInv /\ [Polling!Next]_(Polling!vars) => PollingInv'
<1> SUFFICES ASSUME PollingInv, [Polling!Next]_(Polling!vars) PROVE PollingInv'
  OBVIOUS
<1>1. CASE UNCHANGED Polling!vars
  BY <1>1 DEF Polling!vars, Polling!coordinatorVars, PollingInv, Polling!TypeOK,
     Polling!Coordinator!TypeOK
<1> QED
  BY <1>1, SensorsInv, FetchBeginsInv, FetchEndsInv, EntryPollsInv DEF Polling!Next

\* A step of the polling is one of its coordinator, or leaves that alone.
LEMMA PollingCoordinates ==
  ASSUME [Polling!Next]_(Polling!vars)
  PROVE  [Polling!Coordinator!Next]_(Polling!Coordinator!coordinatorVars)
<1> USE DEF Polling!Coordinator!Next
<1>1. ASSUME NEW s \in Sensors, Polling!SensorAdded(s) \/ Polling!SensorRemoved(s)
      PROVE  Polling!Coordinator!Next
  BY <1>1 DEF Polling!SensorAdded, Polling!SensorRemoved
<1>2. ASSUME NEW r \in Refreshes, Polling!CancelFetch(r) \/ Polling!Fetched(r)
      PROVE  Polling!Coordinator!Next
  BY <1>2 DEF Polling!CancelFetch, Polling!Fetched, Polling!Coordinator!Outcome
<1>3. CASE Polling!TimerFires \/ Polling!UpdateEntity
  BY <1>3 DEF Polling!TimerFires, Polling!UpdateEntity
<1>4. CASE Polling!Setup \/ Polling!Unload \/ Polling!ProcessOnUnload \/ UNCHANGED Polling!vars
  BY <1>4 DEF Polling!Setup, Polling!Unload, Polling!ProcessOnUnload, Polling!vars,
     Polling!coordinatorVars, Polling!Coordinator!coordinatorVars
<1> QED
  BY <1>1, <1>2, <1>3, <1>4 DEF Polling!Next

\* From a shutdown on nothing new is fetched.
LEMMA ShutdownStays ==
  ASSUME [Polling!Next]_(Polling!vars), shutdown
  PROVE  shutdown' /\ fetching' \subseteq fetching
BY DEF Polling!Next, Polling!vars, Polling!coordinatorVars, Polling!Setup, Polling!Unload,
       Polling!ProcessOnUnload, Polling!Coordinator!Shutdown, Polling!SensorAdded,
       Polling!Coordinator!AddListener, Polling!SensorRemoved,
       Polling!Coordinator!RemoveListener, Polling!CancelFetch, Polling!Coordinator!Cancel,
       Polling!Fetched, Polling!Coordinator!Return, Polling!TimerFires,
       Polling!Coordinator!TimerFires, Polling!UpdateEntity,
       Polling!Coordinator!RequestRefresh, Polling!Coordinator!Begin

-----------------------------------------------------------------------------
(* The parts side by side.                                                  *)

IntegrationInv ==
  /\ IndInv /\ RetryIsPending
  /\ part = "publishing" => PublishInv
  /\ ScanInv
  /\ FlowsInv /\ Settles
  /\ PollingInv

\* All parts start coherent.
LEMMA IntegrationInitInv == IntegrationInit => IntegrationInv
<1> SUFFICES ASSUME IntegrationInit PROVE IntegrationInv
  OBVIOUS
<1>1. PublishingInit /\ Init /\ Scan!Init /\ UserFlow!Init
  BY DEF IntegrationInit, PublishingInit
<1>2. IndInv /\ FlowsInv /\ Settles
  BY <1>1, EntryInitInv, FlowsInit DEF UserFlow!Init, Settles
<1>3. RetryIsPending
  BY <1>1 DEF Init, RetryIsPending
<1>4. PublishInv
  <2>1. PublishingTypeOK
    BY <1>1, <1>2 DEF PublishingInit, PublishingTypeOK, IndInv, Content
  <2>2. Plain
    BY <1>1 DEF Init, Plain
  <2>3. file # Torn /\ state # "loaded" /\ NothingIsStale
    BY <1>1, IntegrationAssumption DEF ContentsOK, PublishingInit, Init, NothingIsStale
  <2> QED
    BY <2>1, <2>2, <2>3 DEF PublishInv
<1>5. ScanInv
  BY <1>1, IntegrationAssumption
  DEF Scan!ScanConstantsOK, Scan!Init, ScanInv, Scan!TypeOK, Scan!ScanFinds
<1>6. PollingInv
  BY PollingInit DEF IntegrationInit
<1> QED
  BY <1>2, <1>3, <1>4, <1>5, <1>6 DEF IntegrationInv

\* The polling is on its own.
LEMMA PollingAlone == [IntegrationNext]_everything => [Polling!Next]_(Polling!vars)
BY DEF IntegrationNext, OfPolling, OfScan, OfFlows, OfEntry, OfPublishing, everything,
       ofPolling, Polling!vars, Polling!coordinatorVars

\* No step of a part disturbs it, nor one of another.
LEMMA IntegrationStep == IntegrationInv /\ [IntegrationNext]_everything => IntegrationInv'
<1> SUFFICES ASSUME IntegrationInv, [IntegrationNext]_everything PROVE IntegrationInv'
  OBVIOUS
<1>1. IndInv /\ RetryIsPending /\ ScanInv /\ FlowsInv /\ Settles
  BY DEF IntegrationInv
<1>2. EntryConstantsOK /\ ContentsOK /\ Scan!ScanConstantsOK
  BY IntegrationAssumption DEF ContentsOK
<1>3. IndInv' /\ RetryIsPending'
  <2>1. [Next]_vars
    <3>1. CASE OfPublishing(PublishingNext)
      BY <3>1, PublishingIsEntry DEF OfPublishing
    <3>2. CASE OfEntry(Next)
      BY <3>2 DEF OfEntry
    <3> QED
      BY <3>1, <3>2
      DEF IntegrationNext, OfPolling, OfScan, OfFlows, everything, allVars, entryVars
  <2> QED
    BY <1>1, <1>2, <2>1, EntryStepInv, RetryStep
<1>4. part' = "publishing" => PublishInv'
  <2> SUFFICES ASSUME part' = "publishing" PROVE PublishInv'
    OBVIOUS
  <2>1. part = "publishing" /\ PublishInv
    BY DEF IntegrationInv, IntegrationNext, OfPolling, OfScan, OfFlows, OfEntry,
           OfPublishing, everything
  <2>2. CASE OfPublishing(PublishingNext)
    BY <1>1, <1>2, <2>1, <2>2, PublishStep DEF OfPublishing
  <2>3. CASE UNCHANGED allVars
    <3>1. UNCHANGED <<vars, file, post, connected, read, endpoint, overlapped, refused>>
      BY <2>3 DEF allVars, entryVars, publishingVars
    <3>2. PublishingTypeOK'
      BY <2>1, <3>1 DEF vars, registry, PublishInv, PublishingTypeOK, TypeOK
    <3>3. Plain' /\ NothingIsStale'
      BY <2>1, <3>1 DEF vars, registry, PublishInv, Plain, NothingIsStale, ReloadIsComing
    <3> QED
      BY <2>1, <3>1, <3>2, <3>3 DEF vars, PublishInv, Writers
  <2> QED
    BY <2>1, <2>2, <2>3
    DEF IntegrationNext, OfPolling, OfScan, OfFlows, OfEntry, everything
<1>5. ScanInv'
  <2>1. [Scan!Next]_(Scan!vars)
    BY DEF IntegrationNext, OfPolling, OfScan, OfFlows, OfEntry, OfPublishing, everything,
           ofScan, Scan!vars
  <2> QED
    BY <1>1, <1>2, <2>1, ScanStep
<1>6. FlowsInv' /\ Settles'
  <2>1. [UserFlow!Next]_(UserFlow!vars)
    BY DEF IntegrationNext, OfPolling, OfScan, OfFlows, OfEntry, OfPublishing, everything,
           ofFlows, UserFlow!vars
  <2> QED
    BY <1>1, <2>1, FlowsStep, SettlesStep
<1>7. PollingInv'
  BY PollingStep, PollingAlone DEF IntegrationInv
<1> QED
  BY <1>3, <1>4, <1>5, <1>6, <1>7 DEF IntegrationInv

\* Every reachable state satisfies the invariants of all parts.
THEOREM Invariance == IntegrationSpec => []IntegrationInv
BY IntegrationInitInv, IntegrationStep, PTL DEF IntegrationSpec

-----------------------------------------------------------------------------
\* The integration's code runs for one caller at a time, never to set up what is set
\* up; and whenever its request comes - before the component, during its setup or
\* after it - a new entry is set up once, and its request is answered after that.
THEOREM NobodySetsUpTwice == IntegrationSpec => []OneSetUp
<1>1. IntegrationInv => OneSetUp
  <2>1. EntryConstantsOK
    BY IntegrationAssumption DEF ContentsOK
  <2> QED
    BY <2>1, OneAtWork DEF IntegrationInv, FlowsInv, SetUps, OneSetUp, UserFlow!EntrySetUpOnce
<1> QED
  BY <1>1, Invariance, PTL

\* An entry that waits for its retry is not forgotten, and no timer is left for one
\* that does not (async_cancel_retry_setup, _async_setup_again).
THEOREM RetriesComeAsKnown == IntegrationSpec => []RetriesAreKnown
<1>1. IntegrationInv => RetriesAreKnown
  BY DEF IntegrationInv, IndInv, Orderly, RetriesAreKnown, NoStrayRetry
<1> QED
  BY <1>1, Invariance, PTL

\* What async_remove reports as removed is down and stays down.
THEOREM WhatIsRemovedIsDown == IntegrationSpec => []RemovedIsDown
<1>1. IntegrationInv => RemovedIsDown
  BY DEF IntegrationInv, IndInv, Orderly, RemovedIsDown, Idle, Running
<1> QED
  BY <1>1, Invariance, PTL

\* A flow whose form is not submitted again while its entry is added makes one entry,
\* and shows its form until that is through and not longer; and as long as a request
\* has no answer a step of a setup, of a handler or of a request can be taken.
THEOREM FlowsAreServed == IntegrationSpec => []FlowsKeepWord
<1>1. IntegrationInv => FlowsKeepWord
  BY FlowsMakeOne, FlowsGoOnHere DEF IntegrationInv, FlowsKeepWord
<1> QED
  BY <1>1, Invariance, PTL

\* Neither a flow nor a setup goes back, and each step of theirs brings a flow, a
\* request, a setup or the component further, or stops Home Assistant: with what the
\* theorem above says, all requests are answered after finitely many of them.
THEOREM FlowsEnd == IntegrationSpec => UserFlow!FlowsAdvance
<1>1. IntegrationInv /\ [IntegrationNext]_everything
        => [ /\ UserFlow!NothingGoesBack /\ (ending => ending')
             /\ UserFlow!SomethingGoesOn \/ ending # ending' ]_(UserFlow!vars)
  <2> SUFFICES ASSUME IntegrationInv, [IntegrationNext]_everything, ~UNCHANGED UserFlow!vars
               PROVE  /\ UserFlow!NothingGoesBack /\ (ending => ending')
                      /\ UserFlow!SomethingGoesOn \/ ending # ending'
    OBVIOUS
  <2>1. UserFlow!Next
    BY DEF IntegrationNext, OfPolling, OfScan, OfFlows, OfEntry, OfPublishing, everything,
           ofFlows, UserFlow!vars
  <2> QED
    BY <2>1, FlowsOrStop DEF IntegrationInv
<1> QED
  BY <1>1, Invariance, PTL DEF IntegrationSpec, UserFlow!FlowsAdvance

\* However posts, reloads and the platforms' reads interleave, what is loaded is what
\* was posted last, unless its reload was refused or two posts wrote at once; and a
\* scan returns the devices that answered it, unless another began meanwhile.
THEOREM TheEndpointsKeepTheirWord == IntegrationSpec => []EndpointsKeepWord
<1>1. IntegrationInv => EndpointsKeepWord
  BY QuietIsPublished DEF IntegrationInv, ScanInv, EndpointsKeepWord
<1> QED
  BY <1>1, Invariance, PTL

-----------------------------------------------------------------------------
\* Until the first unload a device that has a sensor has the timer of its next poll
\* set whenever nothing is being fetched; and a device that was unloaded once, and
\* taken from the cache, is shut down (src/sensor.py, get_coordinator).
THEOREM PollsAreArmed == IntegrationSpec => []Polling!PollIsArmed
<1>1. IntegrationInv => Polling!PollIsArmed
  BY DEF IntegrationInv, PollingInv, Polling!PollIsArmed, Polling!Idle
<1> QED
  BY <1>1, Invariance, PTL

\* From the first unload on nothing new is fetched for it, however often the
\* integration is loaded again and its entities ask for an update.
THEOREM UnloadEndsPolling == IntegrationSpec => Polling!NoneAfterUnload
<1>1. [IntegrationNext]_everything
        => [shutdown => shutdown' /\ fetching' \subseteq fetching]_(Polling!vars)
  BY PollingAlone, ShutdownStays
<1> QED
  BY <1>1, PTL DEF IntegrationSpec, Polling!NoneAfterUnload

\* The polling of the sensors is a behaviour of the update coordinator: what is proved
\* of that for every entity that listens holds for them.
THEOREM PollingIsCoordination == IntegrationSpec => Polling!Coordinator!Spec
<1>1. IntegrationInit => Polling!Coordinator!Init
  BY DEF IntegrationInit, Polling!Init
<1>2. [IntegrationNext]_everything
        => [Polling!Coordinator!Next]_(Polling!Coordinator!coordinatorVars)
  BY PollingAlone, PollingCoordinates
<1> QED
  BY <1>1, <1>2, PTL DEF IntegrationSpec, Polling!Coordinator!Spec
=============================================================================
