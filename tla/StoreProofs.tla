----------------------------- MODULE StoreProofs -----------------------------
(***************************************************************************)
(* Proofs about Store, for any number of tasks, any delays and any number  *)
(* of versions, with and without fsync.                                    *)
(*                                                                         *)
(* The invariant has two halves.  Coverage says who will write what is     *)
(* pending; it needs that a timer is never without the listener of the     *)
(* final write (Listening), which is what carries the data over the stop.  *)
(* Contents says what the threads write: what is taken is the latest       *)
(* (TakenIsLatest), so that no thread makes the file older (Forward), and  *)
(* what is neither pending nor with a thread is in the file (Saved).       *)
(***************************************************************************)
EXTENDS Store, TLAPS

\* No process, no memory.
Empty ==
  ~Alive =>
    /\ pending = None /\ handle = None /\ reading = None
    /\ at = [w \in Writers |-> "nothing"]
    /\ unlinking = FALSE /\ abandoned = FALSE /\ absent = FALSE

Listening == hass \in {"running", "stopping"} /\ handle # None => finalListener

Coverage == Empty /\ Listening /\ PendingIsCovered

\* The least that thread w writes.
Lower(w) == IF job[w].what = Func THEN job[w].began ELSE job[w].what

JobsMade ==
  \A w \in Threads : job[w].what # None /\ Lower(w) <= mem /\ job[w].began <= mem

OneHolder == \A v, w \in Holding : v = w

PendingIsLatest == pending \in Versions => pending = mem

TakenIsLatest ==
  \A w \in Writers :
    at[w] = "writes" /\ pending = None =>
      job[w].began = mem /\ job[w].what \in {Func, mem}

Forward == \A w \in Writers : at[w] = "writes" /\ ~Excused => file <= Lower(w)

Saved == Alive /\ pending = None /\ Threads = {} /\ ~Excused => file = mem

\* After the last stage of the stop nobody takes anything any more.
Closed ==
  hass = "closed" =>
    /\ pending # None => abandoned
    /\ \A w \in Writers : at[w] \in {"nothing", "adrift"}

InOrder == Alive => ~torn /\ file <= mem

AbsentIsTrue == absent => file = 0 /\ Threads = {}

\* A load under way finds what it has to, also if a thread writes meanwhile.
LoadIsRight ==
  Alive /\ reading \in Versions =>
    reading <= file /\ \A w \in Threads : reading <= Lower(w)

Contents ==
  /\ JobsMade /\ OneHolder /\ PendingIsLatest /\ TakenIsLatest /\ Forward
  /\ Saved /\ Closed /\ InOrder /\ AbsentIsTrue /\ LoadIsRight

IndInv == TypeOK /\ Coverage /\ Contents

-----------------------------------------------------------------------------
(* The write lock is w's: it takes the latest data, so that what its thread *)
(* will write is no older than the file or than what a load has to find.    *)
LEMMA TakeContents ==
  ASSUME StoreConstantsOK, IndInv, NEW w \in Writers, NEW data,
         data \in Versions \cup {None, Func},
         Holding = {}, at[w] \in {"nothing", "waits"},
         TakeData(w, data), hass \in Up, hass' \in Up,
         mem \in Versions, mem' \in Versions, mem <= mem',
         data \in Versions => data = mem',
         data = None => pending = None /\ mem' = mem,
         abandoned => abandoned' \/ (Threads = {} /\ data # None),
         UNCHANGED <<unlinking, reading, file, torn>>
  PROVE  Contents'
<1> USE DEF IndInv, Coverage, Contents
<1>1. /\ pending' = None /\ absent' = FALSE
      /\ at' = [at EXCEPT ![w] = IF data = None THEN "nothing" ELSE "writes"]
      /\ job' = [job EXCEPT ![w] = IF data = None THEN NoJob ELSE [what |-> data, began |-> mem']]
  BY DEF TakeData
<1>2. /\ at \in [Writers -> {"nothing", "waits", "writes", "wrote", "adrift"}]
      /\ job \in [Writers -> [what : Versions \cup {None, Func}, began : Versions]]
  BY DEF TypeOK
<1>3. Threads' = IF data = None THEN Threads ELSE Threads \cup {w}
  BY <1>1, <1>2 DEF Threads
<1>4. Adrift' = Adrift
  BY <1>1, <1>2 DEF Adrift
<1>5. Alive /\ Alive' /\ NoJob \in [what : Versions \cup {None, Func}, began : Versions]
  BY DEF Alive, NoJob, Versions, StoreConstantsOK
<1>6. \A v \in Writers : v # w => at'[v] = at[v] /\ job'[v] = job[v]
  BY <1>1, <1>2
<1>7. data # None => at'[w] = "writes" /\ job'[w].what = data /\ job'[w].began = mem'
  BY <1>1, <1>2
<1>8. data = None => at'[w] = "nothing"
  BY <1>1, <1>2
<1>9. data # None => (Lower(w))' = mem' /\ job'[w].what \in {Func, mem'}
  BY <1>7 DEF Lower
<1>10. \A v \in Writers : v # w => (Lower(v))' = Lower(v)
  BY <1>6 DEF Lower
<1>11. JobsMade'
  <2> SUFFICES ASSUME NEW v \in Threads'
               PROVE  job'[v].what # None /\ (Lower(v))' <= mem' /\ job'[v].began <= mem'
    BY DEF JobsMade
  <2>1. CASE v = w
    <3>1. data # None
      BY <2>1, <1>8 DEF Threads
    <3>2. job'[w].what = data /\ job'[w].began = mem' /\ (Lower(w))' = mem' /\ mem' \in Nat
      BY <3>1, <1>7, <1>9 DEF Versions, StoreConstantsOK
    <3> QED
      BY <2>1, <3>1, <3>2
  <2>2. CASE v # w
    <3>1. v \in Threads /\ v \in Writers
      BY <2>2, <1>3 DEF Threads
    <3>2. /\ job[v].what # None /\ Lower(v) <= mem /\ job[v].began <= mem
          /\ Lower(v) \in Nat /\ job[v].began \in Nat
      BY <3>1, <1>2 DEF JobsMade, Lower, Versions, StoreConstantsOK
    <3>3. job'[v] = job[v] /\ (Lower(v))' = Lower(v)
      BY <3>1, <2>2, <1>6, <1>10
    <3>4. Lower(v) <= mem' /\ job[v].began <= mem'
      BY <3>2 DEF Versions, StoreConstantsOK
    <3> QED
      BY <3>2, <3>3, <3>4
  <2> QED
    BY <2>1, <2>2
<1>12. OneHolder'
  BY <1>6 DEF OneHolder, Holding
<1>13. PendingIsLatest'
  BY <1>1 DEF PendingIsLatest, Versions, StoreConstantsOK
<1>14. TakenIsLatest'
  BY <1>6, <1>7, <1>8, <1>9 DEF TakenIsLatest, Holding
<1>15. Forward'
  BY <1>5, <1>6, <1>8, <1>9 DEF Forward, Holding, InOrder, Versions, TypeOK
<1>16. Saved'
  BY <1>3, <1>4, <1>5 DEF Saved, Excused
<1>17. Closed'
  BY DEF Closed, Up
<1>18. InOrder'
  BY <1>5 DEF InOrder, TypeOK, Versions
<1>19. AbsentIsTrue'
  BY <1>1 DEF AbsentIsTrue
<1>20. LoadIsRight'
  BY <1>3, <1>5, <1>8, <1>9, <1>10 DEF LoadIsRight, InOrder, Threads, TypeOK, Versions
<1> QED
  BY <1>11, <1>12, <1>13, <1>14, <1>15, <1>16, <1>17, <1>18, <1>19, <1>20

\* A task that has no thread.
Resting == {"nothing", "waits", "wrote"}

(* A step that begins no thread, ends none and leaves the disk alone.  What *)
(* it leaves pending is the latest.                                         *)
LEMMA QuietContents ==
  ASSUME StoreConstantsOK, IndInv,
         \A v \in Writers :
           at'[v] = at[v] \/ (at[v] \in Resting /\ at'[v] \in {"nothing", "waits"}),
         hass \in Up, hass' \in Up,
         mem' \in Versions, mem <= mem',
         pending' \in Versions => pending' = mem',
         pending' = None => pending = None /\ mem' = mem,
         abandoned => abandoned' \/ (Threads = {} /\ pending' # None),
         absent' => absent,
         unlinking' \in {unlinking, TRUE},
         UNCHANGED <<job, reading, file, torn>>
  PROVE  Contents'
<1> USE DEF IndInv, Coverage, Contents, Resting
<1>1. /\ at \in [Writers -> {"nothing", "waits", "writes", "wrote", "adrift"}]
      /\ job \in [Writers -> [what : Versions \cup {None, Func}, began : Versions]]
      /\ mem \in Versions /\ file \in Versions
  BY DEF TypeOK
<1>2. Threads' = Threads /\ Adrift' = Adrift /\ Holding' \subseteq Holding
  BY DEF Threads, Adrift, Holding
<1>3. \A v \in Writers : (Lower(v))' = Lower(v) /\ (at'[v] = "writes" <=> at[v] = "writes")
  BY DEF Lower
<1>4. Alive /\ Alive'
  BY DEF Alive
<1>5. JobsMade'
  <2> SUFFICES ASSUME NEW v \in Threads
               PROVE  job[v].what # None /\ Lower(v) <= mem' /\ job[v].began <= mem'
    BY <1>2, <1>3 DEF JobsMade, Threads
  <2>1. /\ job[v].what # None /\ Lower(v) <= mem /\ job[v].began <= mem
        /\ Lower(v) \in Nat /\ job[v].began \in Nat
    BY <1>1 DEF JobsMade, Lower, Versions, StoreConstantsOK, Threads
  <2> QED
    BY <2>1, <1>1 DEF Versions, StoreConstantsOK
<1>6. OneHolder'
  BY <1>2 DEF OneHolder
<1>7. PendingIsLatest'
  BY DEF PendingIsLatest
<1>8. TakenIsLatest'
  BY <1>3 DEF TakenIsLatest
<1>9. Forward'
  <2>1. Threads # {} /\ Excused => Excused'
    BY <1>2 DEF Excused
  <2>2. \A v \in Writers : at[v] = "writes" => Threads # {}
    BY DEF Threads
  <2> QED
    BY <1>3, <2>1, <2>2 DEF Forward
<1>10. Saved'
  BY <1>2, <1>4 DEF Saved, Excused
<1>11. Closed'
  BY DEF Closed, Up
<1>12. InOrder'
  BY <1>1, <1>4 DEF InOrder, Versions, StoreConstantsOK
<1>13. AbsentIsTrue'
  BY <1>2 DEF AbsentIsTrue
<1>14. LoadIsRight'
  BY <1>2, <1>3, <1>4 DEF LoadIsRight, Threads
<1> QED
  BY <1>5, <1>6, <1>7, <1>8, <1>9, <1>10, <1>11, <1>12, <1>13, <1>14

(* _async_handle_write_data, by a task that was doing nothing. *)
LEMMA HandleContents ==
  ASSUME StoreConstantsOK, IndInv, NEW w \in Writers, NEW data, NEW leftHandle, NEW leftListener,
         data \in Versions \cup {None, Func},
         Idle(w), HandleWriteData(w, data, leftHandle, leftListener),
         hass \in Up, hass' \in Up, mem' \in Versions, mem <= mem',
         data \in Versions => data = mem',
         data = None => pending = None /\ mem' = mem,
         abandoned => abandoned' \/ (Threads = {} /\ data # None),
         UNCHANGED <<unlinking, reading, file, torn>>
  PROVE  Contents'
<1>1. CASE Holding = {} /\ Waiting = {}
  BY <1>1, TakeContents DEF HandleWriteData, Idle, Alive, IndInv, TypeOK
<1>2. CASE ~(Holding = {} /\ Waiting = {})
  <2>1. /\ at' = [at EXCEPT ![w] = "waits"] /\ pending' = data
        /\ UNCHANGED <<job, absent>>
    BY <1>2 DEF HandleWriteData
  <2>2. \A v \in Writers :
          at'[v] = at[v] \/ (at[v] \in Resting /\ at'[v] \in {"nothing", "waits"})
    BY <2>1 DEF Idle, IndInv, TypeOK, Resting
  <2> QED
    BY <2>1, <2>2, QuietContents
<1> QED
  BY <1>1, <1>2

-----------------------------------------------------------------------------
(* What TakeData and HandleWriteData leave behind has its types. *)
LEMMA HandleTypes ==
  ASSUME StoreConstantsOK, TypeOK, NEW w \in Writers, NEW data, NEW leftHandle, NEW leftListener,
         data \in Versions \cup {None, Func},
         leftHandle \in Ticks \cup {None, Fired}, leftListener \in BOOLEAN,
         mem' \in Versions,
         TakeData(w, data) \/ HandleWriteData(w, data, leftHandle, leftListener)
  PROVE  /\ pending' \in Versions \cup {None, Func}
         /\ handle' \in Ticks \cup {None, Fired}
         /\ finalListener' \in BOOLEAN /\ absent' \in BOOLEAN
         /\ at' \in [Writers -> {"nothing", "waits", "writes", "wrote", "adrift"}]
         /\ job' \in [Writers -> [what : Versions \cup {None, Func}, began : Versions]]
<1>1. NoJob \in [what : Versions \cup {None, Func}, began : Versions]
  BY DEF NoJob, Versions, StoreConstantsOK
<1>2. CASE TakeData(w, data)
  BY <1>1, <1>2 DEF TakeData, TypeOK
<1>3. CASE HandleWriteData(w, data, leftHandle, leftListener) /\ ~TakeData(w, data)
  BY <1>3 DEF HandleWriteData, TypeOK
<1> QED
  BY <1>2, <1>3

(* Every step keeps the types. *)
LEMMA TypeStep ==
  ASSUME StoreConstantsOK, IndInv, [Next]_vars
  PROVE  TypeOK'
<1>0. TypeOK /\ JobsMade
  BY DEF IndInv, Contents
<1> USE <1>0
<1>1. /\ 0 \in Versions /\ 0 \in Ticks
      /\ NoJob \in [what : Versions \cup {None, Func}, began : Versions]
  BY DEF NoJob, Versions, Ticks, StoreConstantsOK
<1>2. Changes => mem' \in Versions
  BY DEF Changes, TypeOK, Versions, StoreConstantsOK
<1> USE DEF ofStore, ofDisk, ofHass
<1>3. ASSUME NEW w \in Writers, AsyncSave(w)
      PROVE  TypeOK'
  <2>1. mem' \in Versions
    BY <1>2, <1>3 DEF AsyncSave
  <2>2. CASE hass = "stopping"
    BY <1>3, <2>1, <2>2 DEF AsyncSave, TypeOK
  <2>3. CASE hass # "stopping"
    <3>1. HandleWriteData(w, mem', handle, finalListener)
      BY <1>3, <2>3 DEF AsyncSave
    <3>2. handle \in Ticks \cup {None, Fired} /\ finalListener \in BOOLEAN
      BY DEF TypeOK
    <3>3. /\ pending' \in Versions \cup {None, Func}
          /\ handle' \in Ticks \cup {None, Fired}
          /\ finalListener' \in BOOLEAN /\ absent' \in BOOLEAN
          /\ at' \in [Writers -> {"nothing", "waits", "writes", "wrote", "adrift"}]
          /\ job' \in [Writers -> [what : Versions \cup {None, Func}, began : Versions]]
      BY <2>1, <3>1, <3>2, HandleTypes
    <3> QED
      BY <1>3, <2>1, <2>3, <3>3 DEF AsyncSave, TypeOK
  <2> QED
    BY <2>2, <2>3
<1>4. ASSUME NEW d \in Delays, AsyncDelaySave(d)
      PROVE  TypeOK'
  <2>1. d \in Ticks
    BY DEF StoreConstantsOK, Ticks
  <2> QED
    BY <1>2, <1>4, <2>1 DEF AsyncDelaySave, TypeOK
<1>5. FiredTooEarly => TypeOK'
  BY DEF FiredTooEarly, TypeOK
<1>6. ASSUME NEW w \in Writers, DelayedWrite(w)
      PROVE  TypeOK'
  <2>1. CASE hass = "stopping"
    BY <1>6, <2>1 DEF DelayedWrite, TypeOK
  <2>2. CASE hass # "stopping"
    <3>1. HandleWriteData(w, pending, Fired, finalListener) /\ mem' \in Versions
      BY <1>6, <2>2 DEF DelayedWrite, TypeOK
    <3>2. /\ finalListener \in BOOLEAN /\ pending \in Versions \cup {None, Func}
          /\ Fired \in Ticks \cup {None, Fired}
      BY DEF TypeOK
    <3>3. /\ pending' \in Versions \cup {None, Func}
          /\ handle' \in Ticks \cup {None, Fired}
          /\ finalListener' \in BOOLEAN /\ absent' \in BOOLEAN
          /\ at' \in [Writers -> {"nothing", "waits", "writes", "wrote", "adrift"}]
          /\ job' \in [Writers -> [what : Versions \cup {None, Func}, began : Versions]]
      BY <3>1, <3>2, HandleTypes
    <3> QED
      BY <1>6, <3>1, <3>3 DEF DelayedWrite, TypeOK
  <2> QED
    BY <2>1, <2>2
<1>7. ASSUME NEW w \in Writers, GetsLock(w)
      PROVE  TypeOK'
  <2>1. /\ TakeData(w, pending) /\ pending \in Versions \cup {None, Func}
        /\ mem' \in Versions /\ handle \in Ticks \cup {None, Fired}
        /\ finalListener \in BOOLEAN
    BY <1>7 DEF GetsLock, TypeOK
  <2>2. /\ pending' \in Versions \cup {None, Func}
        /\ handle' \in Ticks \cup {None, Fired}
        /\ finalListener' \in BOOLEAN /\ absent' \in BOOLEAN
        /\ at' \in [Writers -> {"nothing", "waits", "writes", "wrote", "adrift"}]
        /\ job' \in [Writers -> [what : Versions \cup {None, Func}, began : Versions]]
    BY <2>1, HandleTypes
  <2> QED
    BY <1>7, <2>1, <2>2 DEF GetsLock, TypeOK
<1>8. ASSUME NEW w \in Writers, ThreadEnds(w), file' \in Versions, torn' \in BOOLEAN,
             abandoned' \in BOOLEAN
      PROVE  TypeOK'
  <2>1. reading' \in Versions \cup {None}
    BY <1>8 DEF ThreadEnds, NotWanted, TypeOK, Versions, StoreConstantsOK
  <2> QED
    BY <1>1, <1>8, <2>1 DEF ThreadEnds, TypeOK
<1>9. ASSUME NEW w \in Writers, Writes(w)
      PROVE  TypeOK'
  <2>1. w \in Threads /\ job[w].what # None
    BY <1>9 DEF Writes, ThreadEnds, JobsMade
  <2>2. job[w].what \in Versions \cup {Func} /\ job[w].began \in Versions /\ mem \in Versions
    BY <2>1 DEF TypeOK
  <2>3. file' \in Versions
    BY <1>9, <2>2 DEF Writes, Versions, StoreConstantsOK
  <2> QED
    BY <1>8, <1>9, <2>3 DEF Writes, TypeOK
<1>10. ASSUME NEW w \in Writers, WriteFails(w) \/ WriteRaces(w)
       PROVE  TypeOK'
  BY <1>8, <1>10 DEF WriteFails, WriteRaces, TypeOK
<1>11. ASSUME NEW w \in Writers, Resumed(w)
       PROVE  TypeOK'
  BY <1>11 DEF Resumed, TypeOK
<1>12. ASSUME NEW w \in Writers, Cancelled(w)
       PROVE  TypeOK'
  BY <1>12 DEF Cancelled, TypeOK
<1>13. AsyncRemove => TypeOK'
  BY DEF AsyncRemove, TypeOK
<1>14. Unlinked => TypeOK'
  BY <1>1 DEF Unlinked, NotWanted, TypeOK
<1>15. LoadPending \/ Load \/ Loaded => TypeOK'
  BY DEF LoadPending, Load, Loaded, TypeOK, Versions, StoreConstantsOK
<1>16. Tick => TypeOK'
  <2>1. \A t \in Ticks \ {0} : t - 1 \in Ticks
    BY DEF Ticks, StoreConstantsOK
  <2> QED
    BY <2>1 DEF Tick, TypeOK
<1>17. Stop => TypeOK'
  BY DEF Stop, TypeOK, Up
<1>18. FinalWrite => TypeOK'
  <2> SUFFICES ASSUME FinalWrite PROVE TypeOK'
    OBVIOUS
  <2>1. mem' \in Versions
    BY DEF FinalWrite, TypeOK
  <2>2. CASE finalListener
    <3>1. PICK w \in Writers : HandleWriteData(w, pending, handle, FALSE)
      BY <2>2 DEF FinalWrite
    <3>2. handle \in Ticks \cup {None, Fired} /\ pending \in Versions \cup {None, Func}
      BY DEF TypeOK
    <3>3. /\ pending' \in Versions \cup {None, Func}
          /\ handle' \in Ticks \cup {None, Fired}
          /\ finalListener' \in BOOLEAN /\ absent' \in BOOLEAN
          /\ at' \in [Writers -> {"nothing", "waits", "writes", "wrote", "adrift"}]
          /\ job' \in [Writers -> [what : Versions \cup {None, Func}, began : Versions]]
      BY <2>1, <3>1, <3>2, HandleTypes
    <3> QED
      BY <2>1, <3>3 DEF FinalWrite, TypeOK, Up
  <2>3. CASE ~finalListener
    BY <2>3 DEF FinalWrite, TypeOK, Up
  <2> QED
    BY <2>2, <2>3
<1>19. Close => TypeOK'
  BY DEF Close, TypeOK, Up
<1>20. Forgets /\ hass' \in {"stopped", "crashed"} /\ UNCHANGED file /\ torn' \in BOOLEAN
         => TypeOK'
  <2> SUFFICES ASSUME Forgets, hass' \in {"stopped", "crashed"}, UNCHANGED file,
                      torn' \in BOOLEAN
               PROVE  TypeOK'
    OBVIOUS
  <2>1. /\ at' \in [Writers -> {"nothing", "waits", "writes", "wrote", "adrift"}]
        /\ job' \in [Writers -> [what : Versions \cup {None, Func}, began : Versions]]
    BY <1>1 DEF Forgets
  <2> QED
    BY <1>1, <2>1 DEF Forgets, TypeOK
<1>21. Exit \/ Crash => TypeOK'
  BY <1>20 DEF Exit, Crash, TypeOK, StoreConstantsOK
<1>22. ASSUME NEW w \in Writers, Start(w)
       PROVE  TypeOK'
  <2>1. file' \in Versions /\ mem' \in Versions /\ absent' \in BOOLEAN
    BY <1>1, <1>22 DEF Start, TypeOK
  <2>2. /\ at' \in [Writers -> {"nothing", "waits", "writes", "wrote", "adrift"}]
        /\ job' \in [Writers -> [what : Versions \cup {None, Func}, began : Versions]]
    BY <1>22 DEF Start, TypeOK
  <2> QED
    BY <1>22, <2>1, <2>2 DEF Start, TypeOK, Up
<1>23. UNCHANGED vars => TypeOK'
  BY DEF vars, TypeOK
<1> QED
  BY <1>3, <1>4, <1>5, <1>6, <1>7, <1>9, <1>10, <1>11, <1>12, <1>13, <1>14, <1>15, <1>16,
     <1>17, <1>18, <1>19, <1>21, <1>22, <1>23 DEF Next

-----------------------------------------------------------------------------
(* _async_handle_write_data outside of the last listeners' stage: what is    *)
(* pending afterwards is covered by the task that waits.                      *)
LEMMA HandleCovers ==
  ASSUME TypeOK, NEW w \in Writers, NEW data, NEW leftHandle, NEW leftListener,
         HandleWriteData(w, data, leftHandle, leftListener)
  PROVE  \/ pending' = None /\ handle' = None
         \/ Waiting' # {} /\ handle' = leftHandle /\ finalListener' = leftListener
<1>1. CASE Holding = {} /\ Waiting = {}
  <2>1. TakeData(w, data)
    BY <1>1 DEF HandleWriteData
  <2>2. pending' = None /\ handle' = None
    BY <2>1 DEF TakeData
  <2> QED
    BY <2>2
<1>2. CASE ~(Holding = {} /\ Waiting = {})
  BY <1>2 DEF HandleWriteData, Waiting, TypeOK
<1> QED
  BY <1>1, <1>2

(* Every step keeps someone responsible for what is pending. *)
LEMMA CoverageStep ==
  ASSUME StoreConstantsOK, IndInv, [Next]_vars
  PROVE  Coverage'
<1>0. TypeOK /\ Empty /\ Listening /\ PendingIsCovered
  BY DEF IndInv, Coverage
<1> USE <1>0 DEF ofStore, ofDisk, ofHass
<1>1. ASSUME hass \in Up, hass' = hass, Listening', PendingIsCovered'
      PROVE  Coverage'
  BY <1>1 DEF Coverage, Empty, Alive, Up
<1>2. ASSUME NEW w \in Writers, AsyncSave(w)
      PROVE  Coverage'
  <2>1. hass \in Up /\ hass' = hass
    BY <1>2 DEF AsyncSave, Changes
  <2>2. CASE hass = "stopping"
    BY <1>1, <1>2, <2>1, <2>2 DEF AsyncSave, Listening, PendingIsCovered, Covered
  <2>3. CASE hass # "stopping"
    <3>1. HandleWriteData(w, mem', handle, finalListener)
      BY <1>2, <2>3 DEF AsyncSave
    <3>2. \/ pending' = None /\ handle' = None
          \/ Waiting' # {} /\ handle' = handle /\ finalListener' = finalListener
      BY <3>1, HandleCovers
    <3> QED
      BY <1>1, <2>1, <3>2 DEF Listening, PendingIsCovered, Covered
  <2> QED
    BY <2>2, <2>3
<1>3. ASSUME NEW d \in Delays, AsyncDelaySave(d)
      PROVE  Coverage'
  <2>1. hass \in Up /\ hass' = hass /\ Waiting' = Waiting
    BY <1>3 DEF AsyncDelaySave, Changes, Waiting
  <2>2. Fired # None /\ None \notin Ticks
    BY DEF StoreConstantsOK, Ticks
  <2>3. hass \in {"running", "stopping"} => finalListener'
    BY <1>3, <2>2 DEF AsyncDelaySave, Listening
  <2>4. hass = "final_write" /\ Waiting = {} => abandoned'
    BY <1>3 DEF AsyncDelaySave
  <2> QED
    BY <1>1, <2>1, <2>3, <2>4 DEF Listening, PendingIsCovered, Covered, Up
<1>4. FiredTooEarly => Coverage'
  <2> SUFFICES ASSUME FiredTooEarly PROVE Coverage'
    OBVIOUS
  <2>1. /\ handle = 0 /\ handle' \in Ticks /\ finalListener' = finalListener
        /\ hass' = hass /\ abandoned' = abandoned /\ pending' = pending
        /\ Waiting' = Waiting
    BY DEF FiredTooEarly, TypeOK, Waiting
  <2>2. handle # None
    BY <2>1 DEF StoreConstantsOK
  <2>3. hass \in Up \cup {"closed"}
    BY <2>2 DEF Empty, Alive
  <2>4. Listening' /\ PendingIsCovered'
    BY <2>1, <2>2 DEF Listening, PendingIsCovered, Covered, Up
  <2> QED
    BY <2>1, <2>3, <2>4 DEF Coverage, Empty, Alive, Up
<1>5. ASSUME NEW w \in Writers, DelayedWrite(w)
      PROVE  Coverage'
  <2>1. hass \in Up /\ hass' = hass /\ handle = 0 /\ handle # None /\ abandoned' = abandoned
    BY <1>5 DEF DelayedWrite, StoreConstantsOK
  <2>2. CASE hass = "stopping"
    BY <1>1, <1>5, <2>1, <2>2 DEF DelayedWrite, Listening, PendingIsCovered, Covered
  <2>3. CASE hass # "stopping"
    <3>1. HandleWriteData(w, pending, Fired, finalListener)
      BY <1>5, <2>3 DEF DelayedWrite
    <3>2. \/ pending' = None /\ handle' = None
          \/ Waiting' # {} /\ handle' = Fired /\ finalListener' = finalListener
      BY <3>1, HandleCovers
    <3> QED
      BY <1>1, <2>1, <3>2 DEF Listening, PendingIsCovered, Covered
  <2> QED
    BY <2>2, <2>3
<1>6. ASSUME NEW w \in Writers, TakeData(w, pending), hass' = hass, Alive
      PROVE  Coverage'
  BY <1>6 DEF TakeData, Coverage, Empty, Listening, PendingIsCovered, Alive
<1>7. ASSUME NEW w \in Writers, GetsLock(w)
      PROVE  Coverage'
  BY <1>6, <1>7 DEF GetsLock
<1>8. ASSUME NEW w \in Writers, ThreadEnds(w), abandoned => abandoned'
      PROVE  Coverage'
  <2>1. Alive /\ Alive' /\ hass' = hass /\ Waiting' = Waiting
    BY <1>8 DEF ThreadEnds, Alive, Waiting, Threads, TypeOK
  <2> QED
    BY <1>8, <2>1 DEF ThreadEnds, Coverage, Empty, Listening, PendingIsCovered, Covered
<1>9. ASSUME NEW w \in Writers, Writes(w) \/ WriteFails(w) \/ WriteRaces(w)
      PROVE  Coverage'
  BY <1>8, <1>9 DEF Writes, WriteFails, WriteRaces
<1>10. ASSUME NEW w \in Writers, Resumed(w)
       PROVE  Coverage'
  <2>1. Alive /\ Alive' /\ hass' = hass /\ Waiting' = Waiting
    BY <1>10 DEF Resumed, Alive, Waiting, TypeOK
  <2> QED
    BY <1>10, <2>1 DEF Resumed, Coverage, Empty, Listening, PendingIsCovered, Covered
<1>11. ASSUME NEW w \in Writers, Cancelled(w)
       PROVE  Coverage'
  <2>1. hass \in Up /\ hass' = hass /\ Waiting' = Waiting \ {w}
    BY <1>11 DEF Cancelled, Waiting, TypeOK
  <2>2. Listening'
    BY <1>11 DEF Cancelled, Listening
  <2>3. PendingIsCovered'
    BY <1>11, <2>1 DEF Cancelled, PendingIsCovered, Covered, Up
  <2> QED
    BY <1>1, <2>1, <2>2, <2>3
<1>12. AsyncRemove => Coverage'
  BY DEF AsyncRemove, Coverage, Empty, Listening, PendingIsCovered, Alive
<1>13. Unlinked => Coverage'
  BY DEF Unlinked, Coverage, Empty, Listening, PendingIsCovered, Alive
<1>14. ASSUME LoadPending \/ Load \/ Loaded
       PROVE  Coverage'
  <2>1. /\ Alive /\ hass' = hass /\ handle' = handle /\ finalListener' = finalListener
        /\ at' = at /\ abandoned' = abandoned /\ (pending' # None => pending # None)
    BY <1>14 DEF LoadPending, Load, Loaded, Alive
  <2>2. Waiting' = Waiting /\ Alive'
    BY <2>1 DEF Waiting, Alive
  <2>3. Listening' /\ PendingIsCovered'
    BY <2>1, <2>2 DEF Listening, PendingIsCovered, Covered
  <2> QED
    BY <2>2, <2>3 DEF Coverage, Empty
<1>15. Tick => Coverage'
  <2> SUFFICES ASSUME Tick PROVE Coverage'
    OBVIOUS
  <2>1. \A t \in Ticks \ {0} : t - 1 \in Ticks
    BY DEF Ticks, StoreConstantsOK
  <2>2. handle' # None => handle # None
    <3>1. None \notin Ticks
      BY DEF StoreConstantsOK, Ticks
    <3> QED
      BY <3>1 DEF Tick
  <2>3. handle \in Ticks => handle' \in Ticks
    BY <2>1 DEF Tick
  <2>4. /\ hass \in Up /\ hass' = hass /\ pending' = pending /\ abandoned' = abandoned
        /\ finalListener' = finalListener /\ Waiting' = Waiting
    BY DEF Tick, Waiting
  <2> QED
    BY <1>1, <2>2, <2>3, <2>4 DEF Listening, PendingIsCovered, Covered
<1>16. Stop => Coverage'
  <2> SUFFICES ASSUME Stop PROVE Coverage'
    OBVIOUS
  <2>1. None \notin Ticks
    BY DEF StoreConstantsOK, Ticks
  <2>2. Listening' /\ PendingIsCovered'
    BY <2>1 DEF Stop, Listening, PendingIsCovered, Covered, Waiting, Up
  <2> QED
    BY <2>2 DEF Stop, Coverage, Empty, Alive, Up
<1>17. FinalWrite => Coverage'
  <2> SUFFICES ASSUME FinalWrite PROVE Coverage'
    OBVIOUS
  <2>1. hass = "stopping" /\ hass' = "final_write" /\ abandoned' = abandoned
    BY DEF FinalWrite
  <2>2. CASE finalListener
    <3>1. PICK w \in Writers : HandleWriteData(w, pending, handle, FALSE)
      BY <2>2 DEF FinalWrite
    <3>2. pending' = None \/ Waiting' # {}
      BY <3>1, HandleCovers
    <3> QED
      BY <2>1, <3>2 DEF Coverage, Empty, Listening, PendingIsCovered, Covered, Alive, Up
  <2>3. CASE ~finalListener
    <3>1. (pending # None => Waiting # {} \/ abandoned) /\ Waiting' = Waiting /\ pending' = pending
      BY <2>1, <2>3 DEF FinalWrite, PendingIsCovered, Covered, Waiting, Up
    <3> QED
      BY <2>1, <3>1 DEF Coverage, Empty, Listening, PendingIsCovered, Covered, Alive, Up
  <2> QED
    BY <2>2, <2>3
<1>18. Close => Coverage'
  BY DEF Close, Coverage, Empty, Listening, PendingIsCovered, Alive, Up
<1>19. Exit \/ Crash => Coverage'
  BY DEF Exit, Crash, Forgets, Coverage, Empty, Listening, PendingIsCovered, Alive, Up
<1>20. ASSUME NEW w \in Writers, Start(w)
       PROVE  Coverage'
  BY <1>20 DEF Start, Coverage, Empty, Listening, PendingIsCovered, Alive, Up
<1>21. UNCHANGED vars => Coverage'
  BY DEF vars, Coverage, Empty, Listening, PendingIsCovered, Covered, Waiting, Alive
<1> QED
  BY <1>2, <1>3, <1>4, <1>5, <1>7, <1>9, <1>10, <1>11, <1>12, <1>13, <1>14, <1>15, <1>16,
     <1>17, <1>18, <1>19, <1>20, <1>21 DEF Next

(* A step that changes nothing the contents are about. *)
LEMMA SameContents ==
  ASSUME Contents,
         UNCHANGED <<mem, pending, at, job, unlinking, reading, absent, file, torn, hass, abandoned>>
  PROVE  Contents'
<1>1. /\ Threads' = Threads /\ Adrift' = Adrift /\ Holding' = Holding
      /\ Alive' = Alive /\ Excused' = Excused
  BY DEF Threads, Adrift, Holding, Alive, Excused
<1>2. \A v : (Lower(v))' = Lower(v)
  BY DEF Lower
<1> QED
  BY <1>1, <1>2 DEF Contents, JobsMade, OneHolder, PendingIsLatest, TakenIsLatest, Forward,
                    Saved, Closed, InOrder, AbsentIsTrue, LoadIsRight

(* The end of a thread, which wrote a version between the one in the file   *)
(* and the one in memory, or failed.                                        *)
LEMMA EndContents ==
  ASSUME StoreConstantsOK, IndInv, NEW w \in Writers, ThreadEnds(w),
         file' \in Versions, file' <= mem, torn' = FALSE,
         abandoned => abandoned', at[w] = "adrift" => abandoned',
         at[w] = "writes" /\ pending = None => abandoned' \/ file' = mem,
         at[w] = "writes" /\ reading \in Versions => reading <= file'
  PROVE  Contents'
<1> USE DEF IndInv, Contents
<1>1. /\ at \in [Writers -> {"nothing", "waits", "writes", "wrote", "adrift"}]
      /\ job \in [Writers -> [what : Versions \cup {None, Func}, began : Versions]]
  BY DEF TypeOK
<1>2. /\ at[w] \in {"writes", "adrift"} /\ Alive /\ Alive' /\ hass' = hass
      /\ at'[w] = IF at[w] = "adrift" THEN "nothing" ELSE "wrote"
      /\ \A v \in Writers : v # w => at'[v] = at[v] /\ job'[v] = job[v]
      /\ UNCHANGED <<mem, pending, unlinking, absent>>
  BY <1>1 DEF ThreadEnds, Threads, Adrift, Alive, ofHass
<1>3. Threads' = Threads \ {w}
  BY <1>2 DEF Threads
<1>4. \A v \in Writers : v # w => (Lower(v))' = Lower(v)
  BY <1>2 DEF Lower
<1>5. Holding' = Holding
  BY <1>2 DEF Holding
<1>6. \A v \in Writers : at'[v] = "writes" => v # w /\ at[v] = "writes"
  BY <1>2
<1>7. at[w] = "writes" => \A v \in Writers : at'[v] # "writes"
  BY <1>6 DEF OneHolder, Holding
<1>8. JobsMade'
  BY <1>2, <1>3, <1>4 DEF JobsMade, Threads
<1>9. OneHolder'
  BY <1>5 DEF OneHolder
<1>10. PendingIsLatest'
  BY <1>2 DEF PendingIsLatest
<1>11. TakenIsLatest'
  BY <1>2, <1>6 DEF TakenIsLatest
<1>12. Forward'
  BY <1>2, <1>6, <1>7 DEF Forward, Excused
<1>13. Saved'
  BY <1>2 DEF Saved, Excused
<1>14. Closed'
  BY <1>2 DEF Closed
<1>15. InOrder'
  BY <1>2 DEF InOrder
<1>16. AbsentIsTrue'
  BY <1>2 DEF AbsentIsTrue, Threads
<1>17. LoadIsRight'
  <2>1. CASE at[w] = "writes"
    <3>1. reading' = reading
      BY <2>1 DEF ThreadEnds, Adrift
    <3> QED
      BY <1>2, <1>3, <1>4, <2>1, <3>1 DEF LoadIsRight, Threads
  <2>2. CASE at[w] = "adrift"
    <3>1. reading' = IF reading = None THEN None ELSE 0
      BY <2>2 DEF ThreadEnds, Adrift, NotWanted
    <3>2. \A v \in Threads : Lower(v) \in Nat
      BY <1>1 DEF JobsMade, Lower, Threads, Versions, StoreConstantsOK
    <3>3. \A v \in Threads' : v \in Threads /\ (Lower(v))' = Lower(v)
      BY <1>3, <1>4 DEF Threads
    <3>4. None \notin Versions
      BY DEF Versions, StoreConstantsOK
    <3>5. CASE reading = None
      BY <3>1, <3>4, <3>5 DEF LoadIsRight
    <3>6. CASE reading # None
      <4>1. reading' = 0 /\ reading' <= file'
        BY <3>1, <3>6 DEF Versions, StoreConstantsOK
      <4>2. \A v \in Threads' : reading' <= (Lower(v))'
        BY <3>2, <3>3, <4>1
      <4> QED
        BY <4>1, <4>2 DEF LoadIsRight
    <3> QED
      BY <3>5, <3>6
  <2> QED
    BY <1>2, <2>1, <2>2
<1> QED
  BY <1>8, <1>9, <1>10, <1>11, <1>12, <1>13, <1>14, <1>15, <1>16, <1>17

(* No process: nothing is loaded, and no thread is left. *)
LEMMA EmptyContents ==
  ASSUME StoreConstantsOK
  PROVE  TypeOK /\ Fresh /\ ~Alive => Contents
<1> SUFFICES ASSUME TypeOK, Fresh, ~Alive PROVE Contents
  OBVIOUS
<1>1. Threads = {} /\ Holding = {}
  BY DEF Fresh, Threads, Holding
<1>2. None \notin Versions /\ \A w \in Writers : at[w] = "nothing"
  BY DEF Fresh, Versions, StoreConstantsOK
<1> QED
  BY <1>1, <1>2 DEF Fresh, Contents, JobsMade, OneHolder, PendingIsLatest, TakenIsLatest,
       Forward, Saved, Closed, InOrder, AbsentIsTrue, LoadIsRight, Alive

(* The start: what was in the file is in memory, and perhaps written again. *)
LEMMA StartContents ==
  ASSUME StoreConstantsOK, IndInv, NEW w \in Writers, Start(w)
  PROVE  Contents'
<1> USE DEF IndInv, Coverage
<1>1. /\ ~Alive /\ hass' = "running" /\ Alive'
      /\ pending' = None /\ reading' = None /\ None \notin Versions
      /\ \A v \in Writers : at[v] = "nothing"
      /\ file' \in Versions /\ mem' = file' /\ torn' = FALSE /\ file' \in Nat
  BY DEF Start, Empty, Alive, Up, TypeOK, Versions, StoreConstantsOK
<1>2. /\ at \in [Writers -> {"nothing", "waits", "writes", "wrote", "adrift"}]
      /\ job \in [Writers -> [what : Versions \cup {None, Func}, began : Versions]]
  BY DEF TypeOK
<1>3. absent' => file' = 0
  BY DEF Start
<1>4. PendingIsLatest' /\ Closed' /\ InOrder' /\ LoadIsRight'
  BY <1>1 DEF PendingIsLatest, Closed, InOrder, LoadIsRight
<1>5. Saved'
  BY <1>1 DEF Saved
<1>6. CASE UNCHANGED <<at, job>>
  <2>1. Threads' = {} /\ Holding' = {} /\ \A v \in Writers : at'[v] = "nothing"
    BY <1>1, <1>6 DEF Threads, Holding
  <2> QED
    BY <1>3, <1>4, <1>5, <2>1 DEF Contents, JobsMade, OneHolder, TakenIsLatest, Forward, AbsentIsTrue
<1>7. CASE /\ file' # 0
           /\ at' = [at EXCEPT ![w] = "writes"]
           /\ job' = [job EXCEPT ![w] = [what |-> file, began |-> file]]
  <2>1. file' = file
    BY <1>7 DEF Start
  <2>2. /\ Threads' = {w} /\ Holding' = {w} /\ \A v \in Writers : at'[v] = "writes" => v = w
    BY <1>1, <1>2, <1>7 DEF Threads, Holding
  <2>3. job'[w].what = file' /\ job'[w].began = file'
    BY <1>2, <1>7, <2>1
  <2>4. (Lower(w))' = file'
    BY <2>3 DEF Lower
  <2>5. job'[w].what # None /\ (Lower(w))' <= mem' /\ job'[w].began <= mem' /\ file' <= (Lower(w))'
    BY <1>1, <2>3, <2>4
  <2>6. JobsMade' /\ Forward'
    BY <2>2, <2>5 DEF JobsMade, Forward
  <2>7. OneHolder' /\ TakenIsLatest'
    BY <1>1, <2>2, <2>3 DEF OneHolder, TakenIsLatest
  <2>8. AbsentIsTrue'
    BY <1>3, <1>7 DEF AbsentIsTrue
  <2> QED
    BY <1>4, <1>5, <2>6, <2>7, <2>8 DEF Contents
<1> QED
  BY <1>6, <1>7 DEF Start

(* Every step keeps what the threads write, what is pending and what is in  *)
(* the file in order.                                                        *)
LEMMA ContentsStep ==
  ASSUME StoreConstantsOK, IndInv, [Next]_vars
  PROVE  Contents'
<1>0. TypeOK /\ TypeOK' /\ Coverage /\ Contents
  BY TypeStep DEF IndInv
<1>1. Changes => mem' \in Versions /\ mem <= mem' /\ hass \in Up /\ mem' # None /\ mem # mem'
  BY <1>0 DEF Changes, TypeOK, Versions, StoreConstantsOK
<1>2. pending \in Versions \cup {None, Func} /\ mem \in Versions /\ mem <= mem
  BY <1>0 DEF TypeOK, Versions, StoreConstantsOK
<1>3. None # Func /\ None \notin Versions /\ Func \notin Versions
  BY DEF StoreConstantsOK, Versions
<1>4. at \in [Writers -> {"nothing", "waits", "writes", "wrote", "adrift"}]
  BY <1>0 DEF TypeOK
<1> USE DEF ofStore, ofDisk, ofHass
<1>5. ASSUME NEW w \in Writers, AsyncSave(w)
      PROVE  Contents'
  <2>1. /\ mem' \in Versions /\ mem <= mem' /\ hass \in Up /\ hass' = hass /\ mem' # None
        /\ abandoned => abandoned' \/ (Threads = {} /\ mem' # None)
        /\ UNCHANGED <<unlinking, reading, file, torn>> /\ Idle(w)
    BY <1>1, <1>5 DEF AsyncSave
  <2>2. CASE hass = "stopping"
    <3>1. pending' = mem' /\ UNCHANGED <<at, job, absent>>
      BY <1>5, <2>2 DEF AsyncSave
    <3> QED
      BY <2>1, <3>1, QuietContents
  <2>3. CASE hass # "stopping"
    <3>1. HandleWriteData(w, mem', handle, finalListener)
      BY <1>5, <2>3 DEF AsyncSave
    <3> QED
      BY <2>1, <3>1, HandleContents
  <2> QED
    BY <2>2, <2>3
<1>6. ASSUME NEW d \in Delays, AsyncDelaySave(d)
      PROVE  Contents'
  <2>1. /\ mem' \in Versions /\ mem <= mem' /\ hass \in Up /\ hass' = hass /\ pending' = Func
        /\ abandoned => abandoned' \/ Threads = {}
        /\ UNCHANGED <<at, job, unlinking, reading, absent, file, torn>>
    BY <1>1, <1>6 DEF AsyncDelaySave
  <2> QED
    BY <1>3, <2>1, QuietContents
<1>7. FiredTooEarly \/ Tick => Contents'
  BY <1>0, SameContents DEF FiredTooEarly, Tick
<1>8. ASSUME NEW w \in Writers, NEW left, NEW listener,
             Idle(w), HandleWriteData(w, pending, left, listener), hass \in Up, hass' \in Up,
             UNCHANGED <<mem, unlinking, reading, file, torn, abandoned>>
      PROVE  Contents'
  <2>1. pending \in Versions => pending = mem'
    BY <1>0, <1>8 DEF Contents, PendingIsLatest
  <2> QED
    BY <1>2, <1>8, <2>1, HandleContents
<1>9. ASSUME NEW w \in Writers, DelayedWrite(w)
      PROVE  Contents'
  <2>1. CASE hass = "stopping"
    BY <1>0, <1>9, <2>1, SameContents DEF DelayedWrite
  <2>2. CASE hass # "stopping"
    BY <1>8, <1>9, <2>2 DEF DelayedWrite
  <2> QED
    BY <2>1, <2>2
<1>10. ASSUME NEW w \in Writers, GetsLock(w)
       PROVE  Contents'
  <2>1. /\ at[w] = "waits" /\ Holding = {} /\ hass' = hass /\ TakeData(w, pending)
        /\ UNCHANGED <<mem, unlinking, reading, file, torn, abandoned>>
    BY <1>10 DEF GetsLock
  <2>2. hass \in Up
    BY <1>0, <1>10 DEF GetsLock, Contents, Closed, Alive
  <2>3. pending \in Versions => pending = mem'
    BY <1>0, <2>1 DEF Contents, PendingIsLatest
  <2> QED
    BY <1>2, <2>1, <2>2, <2>3, TakeContents
<1>11. ASSUME NEW w \in Writers, ThreadEnds(w)
       PROVE  /\ w \in Threads /\ Alive /\ ~torn /\ file <= mem /\ file \in Versions
              /\ job[w].what \in Versions \cup {Func} /\ job[w].began \in Versions
              /\ Lower(w) \in Versions /\ Lower(w) <= mem
              /\ at[w] = "adrift" <=> w \in Adrift
              /\ reading \in Versions => reading <= file /\ reading <= Lower(w)
  <2>1. w \in Threads /\ Alive
    BY <1>11 DEF ThreadEnds
  <2>2. job[w].what \in Versions \cup {Func} /\ job[w].began \in Versions /\ Lower(w) <= mem
    BY <1>0, <2>1 DEF Contents, JobsMade, TypeOK
  <2>3. Lower(w) \in Versions
    BY <2>2 DEF Lower
  <2> QED
    BY <1>0, <2>1, <2>2, <2>3 DEF Contents, InOrder, LoadIsRight, TypeOK, Adrift
<1>12. ASSUME NEW w \in Writers, Writes(w)
       PROVE  Contents'
  <2>1. ThreadEnds(w) /\ torn' = FALSE /\ (abandoned => abandoned')
        /\ (at[w] = "adrift" => abandoned')
    BY <1>12 DEF Writes, Adrift
  <2>2. /\ file' \in IF job[w].what = Func THEN job[w].began..mem ELSE {job[w].what}
        /\ Lower(w) = IF job[w].what = Func THEN job[w].began ELSE job[w].what
    BY <1>12 DEF Writes, Lower
  <2>3. file' \in Versions /\ Lower(w) <= file' /\ file' <= mem
    BY <1>2, <1>11, <2>1, <2>2 DEF Versions, StoreConstantsOK
  <2>4. ASSUME at[w] = "writes", pending = None
        PROVE  file' = mem
    <3>1. job[w].began = mem /\ job[w].what \in {Func, mem}
      BY <1>0, <2>4 DEF Contents, TakenIsLatest
    <3>2. file' \in mem..mem \/ file' = mem
      BY <2>2, <3>1
    <3> QED
      BY <1>2, <3>2 DEF Versions, StoreConstantsOK
  <2>5. at[w] = "writes" /\ reading \in Versions => reading <= file'
    BY <1>11, <2>1, <2>3 DEF Versions, StoreConstantsOK
  <2> QED
    BY <2>1, <2>3, <2>4, <2>5, EndContents
<1>13. ASSUME NEW w \in Writers, WriteFails(w) \/ WriteRaces(w)
       PROVE  Contents'
  <2>1. ThreadEnds(w) /\ file' = file /\ torn' = torn /\ (abandoned => abandoned')
        /\ (at[w] = "adrift" => abandoned')
    BY <1>13 DEF WriteFails, WriteRaces, Adrift
  <2>2. ASSUME at[w] = "writes", pending = None
        PROVE  abandoned'
    <3>1. job[w].began = mem
      BY <1>0, <2>2 DEF Contents, TakenIsLatest
    <3>2. ~WriteRaces(w)
      BY <1>2, <3>1 DEF WriteRaces, Versions, StoreConstantsOK
    <3> QED
      BY <1>13, <2>2, <3>2 DEF WriteFails
  <2>3. /\ file' \in Versions /\ file' <= mem /\ torn' = FALSE
        /\ (at[w] = "writes" /\ reading \in Versions => reading <= file')
    BY <1>0, <1>11, <2>1 DEF TypeOK
  <2> QED
    BY <2>1, <2>2, <2>3, EndContents
<1>14. ASSUME NEW w \in Writers, Resumed(w)
       PROVE  Contents'
  <2>1. /\ at[w] = "wrote" /\ Alive /\ at' = [at EXCEPT ![w] = "nothing"] /\ hass' = hass
        /\ UNCHANGED <<mem, pending, job, unlinking, reading, absent, file, torn, abandoned>>
    BY <1>14 DEF Resumed
  <2>2. hass \in Up
    BY <1>0, <2>1 DEF Contents, Closed, Alive
  <2>3. pending' \in Versions => pending' = mem'
    BY <1>0, <2>1 DEF Contents, PendingIsLatest
  <2>4. \A v \in Writers :
          at'[v] = at[v] \/ (at[v] \in Resting /\ at'[v] \in {"nothing", "waits"})
    BY <1>4, <2>1 DEF Resting
  <2> QED
    BY <1>2, <2>1, <2>2, <2>3, <2>4, QuietContents
<1>15. ASSUME NEW w \in Writers, Cancelled(w)
       PROVE  Contents'
  <2>1. at[w] \in {"waits", "writes"} /\ (abandoned => abandoned')
    BY <1>15 DEF Cancelled
  <2>2. /\ hass \in Up /\ hass' = hass
        /\ UNCHANGED <<mem, pending, job, unlinking, reading, absent, file, torn>>
        /\ \A v \in Writers \ {w} : at'[v] = at[v]
    BY <1>4, <1>15 DEF Cancelled
  <2>3. pending' \in Versions => pending' = mem'
    BY <1>0, <2>2 DEF Contents, PendingIsLatest
  <2>4. CASE at[w] = "waits"
    <3>1. at'[w] = "nothing"
      BY <1>4, <1>15, <2>4 DEF Cancelled
    <3>2. \A v \in Writers :
            at'[v] = at[v] \/ (at[v] \in Resting /\ at'[v] \in {"nothing", "waits"})
      BY <2>2, <2>4, <3>1 DEF Resting
    <3> QED
      BY <1>2, <2>1, <2>2, <2>3, <3>2, QuietContents
  <2>5. CASE at[w] = "writes"
    <3>1. at'[w] = "adrift"
      BY <1>4, <1>15, <2>5 DEF Cancelled
    <3>2. Threads' = Threads /\ Holding' \subseteq Holding /\ Alive' /\ Alive
      BY <2>2, <2>5, <3>1 DEF Threads, Holding, Alive
    <3>3. Excused'
      BY <3>1 DEF Excused, Adrift
    <3>4. \A v \in Writers : (Lower(v))' = Lower(v) /\ (at'[v] = "writes" => at[v] = "writes")
      BY <2>2, <3>1 DEF Lower
    <3>5. JobsMade' /\ OneHolder' /\ PendingIsLatest' /\ TakenIsLatest'
      BY <1>0, <2>2, <3>2, <3>4 DEF Contents, JobsMade, OneHolder, PendingIsLatest,
                                    TakenIsLatest, Threads
    <3>6. Forward' /\ Saved' /\ Closed'
      BY <2>2, <3>3 DEF Forward, Saved, Closed, Up
    <3>7. InOrder' /\ AbsentIsTrue' /\ LoadIsRight'
      BY <1>0, <2>2, <3>2, <3>4 DEF Contents, InOrder, AbsentIsTrue, LoadIsRight, Threads
    <3> QED
      BY <3>5, <3>6, <3>7 DEF Contents
  <2> QED
    BY <2>1, <2>4, <2>5
<1>16. ASSUME AsyncRemove
       PROVE  Contents'
  <2>1. /\ hass \in Up /\ hass' = hass /\ unlinking' = TRUE
        /\ UNCHANGED <<mem, pending, at, job, reading, file, torn>>
    BY <1>16 DEF AsyncRemove
  <2>2. pending' \in Versions => pending' = mem'
    BY <1>0, <2>1 DEF Contents, PendingIsLatest
  <2>3. (abandoned => abandoned' \/ (Threads = {} /\ pending' # None)) /\ (absent' => absent)
    BY <1>16 DEF AsyncRemove
  <2>4. hass' \in Up /\ mem' \in Versions /\ mem <= mem' /\ unlinking' \in {unlinking, TRUE}
    BY <1>2, <2>1
  <2>5. \A v \in Writers :
          at'[v] = at[v] \/ (at[v] \in Resting /\ at'[v] \in {"nothing", "waits"})
    BY <2>1
  <2> QED
    BY <2>1, <2>2, <2>3, <2>4, <2>5, QuietContents
<1>17. ASSUME Unlinked
       PROVE  Contents'
  <2>1. /\ Alive /\ Alive' /\ hass' = hass /\ file' = 0 /\ torn' = FALSE /\ abandoned' = TRUE
        /\ reading' = IF reading = None THEN None ELSE 0
        /\ UNCHANGED <<mem, pending, at, job, absent>>
    BY <1>17 DEF Unlinked, NotWanted, Alive
  <2>2. Threads' = Threads /\ Holding' = Holding /\ Excused' /\ \A v : (Lower(v))' = Lower(v)
    BY <2>1 DEF Threads, Holding, Excused, Lower
  <2>3. \A v \in Threads : Lower(v) \in Nat
    BY <1>0 DEF Contents, TypeOK, JobsMade, Lower, Threads, Versions, StoreConstantsOK
  <2>4. JobsMade' /\ OneHolder' /\ PendingIsLatest' /\ TakenIsLatest'
    BY <1>0, <2>1, <2>2 DEF Contents, JobsMade, OneHolder, PendingIsLatest, TakenIsLatest
  <2>5. Forward' /\ Saved' /\ Closed'
    BY <1>0, <2>1, <2>2 DEF Contents, Forward, Saved, Closed
  <2>6. InOrder' /\ AbsentIsTrue'
    BY <1>0, <2>1, <2>2 DEF Contents, InOrder, AbsentIsTrue, TypeOK, Versions
  <2>7. CASE reading = None
    BY <1>3, <2>1, <2>4, <2>5, <2>6, <2>7 DEF Contents, LoadIsRight
  <2>8. CASE reading # None
    <3>1. reading' = 0 /\ reading' <= file'
      BY <2>1, <2>8
    <3>2. \A v \in Threads' : reading' <= (Lower(v))'
      BY <2>2, <2>3, <3>1
    <3> QED
      BY <3>1, <3>2, <2>4, <2>5, <2>6 DEF Contents, LoadIsRight
  <2> QED
    BY <2>4, <2>5, <2>6, <2>7, <2>8 DEF Contents
<1>18. LoadPending => Contents'
  <2> SUFFICES ASSUME LoadPending PROVE Contents'
    OBVIOUS
  <2>1. /\ hass \in Up /\ hass' = hass /\ pending' = IF pending = Func THEN mem ELSE pending
        /\ pending # None
        /\ UNCHANGED <<mem, at, job, unlinking, reading, absent, file, torn, abandoned>>
    BY DEF LoadPending
  <2>2. (pending' \in Versions => pending' = mem') /\ pending' # None
    BY <1>0, <1>2, <1>3, <2>1 DEF Contents, PendingIsLatest
  <2> QED
    BY <1>2, <2>1, <2>2, QuietContents
<1>19. ASSUME Load \/ Loaded
       PROVE  Contents'
  <2>1. /\ Alive' = Alive /\ Alive /\ Excused' = Excused /\ Threads' = Threads
        /\ Holding' = Holding /\ \A v : (Lower(v))' = Lower(v)
        /\ UNCHANGED <<mem, pending, at, job, absent, file, torn, hass, abandoned>>
    BY <1>19 DEF Load, Loaded, Alive, Excused, Threads, Holding, Lower, Adrift
  <2>2. JobsMade' /\ OneHolder' /\ PendingIsLatest' /\ TakenIsLatest' /\ Forward'
    BY <1>0, <2>1 DEF Contents, JobsMade, OneHolder, PendingIsLatest, TakenIsLatest, Forward
  <2>3. Saved' /\ Closed' /\ InOrder' /\ AbsentIsTrue'
    BY <1>0, <2>1 DEF Contents, Saved, Closed, InOrder, AbsentIsTrue
  <2>4. LoadIsRight'
    <3>1. CASE Load /\ (Excused \/ Threads # {})
      <4>1. reading' = 0 /\ file \in Nat
        BY <1>0, <3>1 DEF Load, TypeOK, Versions
      <4>2. \A v \in Threads : Lower(v) \in Nat
        BY <1>0 DEF Contents, TypeOK, JobsMade, Lower, Threads, Versions, StoreConstantsOK
      <4> QED
        BY <2>1, <4>1, <4>2 DEF LoadIsRight
    <3>2. CASE Load /\ ~(Excused \/ Threads # {})
      <4>1. reading' = mem /\ file = mem /\ Threads = {}
        BY <1>0, <2>1, <3>2 DEF Load, Contents, Saved
      <4> QED
        BY <1>2, <2>1, <4>1 DEF LoadIsRight
    <3>3. CASE Loaded
      BY <1>3, <3>3 DEF Loaded, LoadIsRight
    <3> QED
      BY <1>19, <3>1, <3>2, <3>3
  <2> QED
    BY <2>2, <2>3, <2>4 DEF Contents
<1>20. ASSUME Stop \/ (FinalWrite /\ ~finalListener)
       PROVE  Contents'
  <2>1. /\ hass \in Up /\ hass' \in Up
        /\ UNCHANGED <<mem, pending, at, job, unlinking, reading, absent, file, torn, abandoned>>
    BY <1>20 DEF Stop, FinalWrite, Up
  <2>2. pending' \in Versions => pending' = mem'
    BY <1>0, <2>1 DEF Contents, PendingIsLatest
  <2> QED
    BY <1>2, <2>1, <2>2, QuietContents
<1>21. ASSUME FinalWrite, finalListener
       PROVE  Contents'
  <2>1. PICK w \in Writers : Idle(w) /\ HandleWriteData(w, pending, handle, FALSE)
    BY <1>21 DEF FinalWrite
  <2>2. /\ hass \in Up /\ hass' \in Up
        /\ UNCHANGED <<mem, unlinking, reading, file, torn, abandoned>>
    BY <1>21 DEF FinalWrite, Up
  <2> QED
    BY <1>8, <2>1, <2>2
<1>22. ASSUME Close
       PROVE  Contents'
  <2>1. /\ hass = "final_write" /\ hass' = "closed" /\ Alive /\ Alive'
        /\ at' = [w \in Writers |-> IF at[w] = "writes" THEN "adrift"
                                    ELSE IF w \in Adrift THEN "adrift" ELSE "nothing"]
        /\ abandoned' = (abandoned \/ Waiting # {})
        /\ UNCHANGED <<mem, pending, job, unlinking, reading, absent, file, torn>>
    BY <1>22 DEF Close, Alive, Up
  <2>2. \A w \in Writers : at'[w] \in {"nothing", "adrift"}
    BY <2>1
  <2>3. Threads' = Threads /\ Holding' = {} /\ \A v : (Lower(v))' = Lower(v)
    BY <1>4, <2>1 DEF Threads, Adrift, Holding, Lower
  <2>4. JobsMade' /\ OneHolder' /\ PendingIsLatest' /\ TakenIsLatest' /\ Forward'
    BY <1>0, <2>1, <2>2, <2>3 DEF Contents, JobsMade, OneHolder, PendingIsLatest,
                                  TakenIsLatest, Forward
  <2>5. ~Excused' => ~Excused
    <3>1. Adrift \subseteq Adrift'
      BY <2>1 DEF Adrift
    <3> QED
      BY <2>1, <3>1 DEF Excused
  <2>6. Saved'
    BY <1>0, <2>1, <2>3, <2>5 DEF Contents, Saved
  <2>7. Closed'
    <3>1. pending # None => abandoned \/ Waiting # {}
      BY <1>0, <2>1 DEF Coverage, PendingIsCovered, Covered, Up
    <3> QED
      BY <2>1, <2>2, <3>1 DEF Closed
  <2>8. InOrder' /\ AbsentIsTrue' /\ LoadIsRight'
    BY <1>0, <2>1, <2>3 DEF Contents, InOrder, AbsentIsTrue, LoadIsRight
  <2> QED
    BY <2>4, <2>6, <2>7, <2>8 DEF Contents
<1>23. ASSUME Exit \/ Crash
       PROVE  Contents'
  <2>1. Fresh' /\ ~Alive'
    BY <1>23 DEF Exit, Crash, Forgets, Fresh, Alive, Up
  <2> QED
    BY <1>0, <2>1, EmptyContents, PTL
<1>24. ASSUME NEW w \in Writers, Start(w)
       PROVE  Contents'
  BY <1>24, StartContents
<1>25. UNCHANGED vars => Contents'
  BY <1>0, SameContents DEF vars
<1> QED
  BY <1>5, <1>6, <1>7, <1>9, <1>10, <1>12, <1>13, <1>14, <1>15, <1>16, <1>17, <1>18, <1>19,
     <1>20, <1>21, <1>22, <1>23, <1>24, <1>25 DEF Next

-----------------------------------------------------------------------------
(* The first start finds nothing. *)
LEMMA InitIsInvariant ==
  ASSUME StoreConstantsOK
  PROVE  Init => IndInv
<1> SUFFICES ASSUME Init PROVE IndInv
  OBVIOUS
<1>1. /\ 0 \in Versions /\ 0 \in Ticks
      /\ NoJob \in [what : Versions \cup {None, Func}, began : Versions]
  BY DEF NoJob, Versions, Ticks, StoreConstantsOK
<1>2. TypeOK
  BY <1>1 DEF Init, Fresh, TypeOK
<1>3. ~Alive
  BY DEF Init, Alive, Up
<1>4. Coverage
  BY <1>3 DEF Init, Fresh, Coverage, Empty, Listening, PendingIsCovered
<1>5. Contents
  BY <1>2, <1>3, EmptyContents DEF Init
<1> QED
  BY <1>2, <1>4, <1>5 DEF IndInv

(* Who writes what is pending, and what the threads write, stays in order   *)
(* whatever callers, timers, threads and the stop do.                        *)
THEOREM StoreInvariant ==
  ASSUME StoreConstantsOK
  PROVE  Spec => []IndInv
<1>1. Init => IndInv
  BY InitIsInvariant
<1>2. IndInv /\ [Next]_vars => IndInv'
  BY TypeStep, CoverageStep, ContentsStep DEF IndInv
<1> QED
  BY <1>1, <1>2, PTL DEF Spec

(* The variables keep their types: no thread reads a version that never was. *)
THEOREM StoreTypes ==
  ASSUME StoreConstantsOK
  PROVE  Spec => []TypeOK
<1>1. IndInv => TypeOK
  BY DEF IndInv
<1> QED
  BY <1>1, StoreInvariant, PTL

(* What is pending in a store will be written: by a task that waits for the *)
(* lock, by the timer or by the final write (PendingIsCovered).             *)
THEOREM SaveIsCovered ==
  ASSUME StoreConstantsOK
  PROVE  Spec => []PendingIsCovered
<1>1. IndInv => PendingIsCovered
  BY DEF IndInv, Coverage
<1> QED
  BY <1>1, StoreInvariant, PTL

(* When nothing is pending and no thread writes, the file holds what is in  *)
(* memory (NothingForgotten).                                               *)
THEOREM SaveIsNotForgotten ==
  ASSUME StoreConstantsOK
  PROVE  Spec => []NothingForgotten
<1>1. IndInv => NothingForgotten
  BY DEF IndInv, Contents, NothingForgotten, Saved, InOrder, Alive
<1> QED
  BY <1>1, StoreInvariant, PTL

(* A load under way answers what it has to, also when it takes the          *)
(* manager's word that there is no file.                                    *)
LEMMA LoadFinds ==
  ASSUME StoreConstantsOK, IndInv
  PROVE  LoadSeesLatest
<1> SUFFICES ASSUME hass \in Up, reading \in Versions
             PROVE  Answer >= reading
  BY DEF LoadSeesLatest
<1>1. reading <= file /\ file \in Nat /\ reading \in Nat
  BY DEF IndInv, Contents, LoadIsRight, Alive, TypeOK, Versions, StoreConstantsOK
<1>2. Answer = file
  BY DEF IndInv, Contents, AbsentIsTrue, Answer
<1> QED
  BY <1>1, <1>2

(* A load that began in quiet finds what was in memory then, or newer, also *)
(* when it takes the manager's answer that there is no file.                *)
THEOREM LoadIsUpToDate ==
  ASSUME StoreConstantsOK
  PROVE  Spec => []LoadSeesLatest
<1>1. IndInv => LoadSeesLatest
  BY LoadFinds
<1> QED
  BY <1>1, StoreInvariant, PTL

-----------------------------------------------------------------------------
(* A step that changes neither the data nor the disk stutters, or gives up. *)
LEMMA GivesUpOrStutters ==
  ASSUME Alive, Alive', UNCHANGED <<mem, file, torn>>, Excused => Excused'
  PROVE  [Contract!Next]_(Contract!vars)
<1>1. CASE Excused' <=> Excused
  BY <1>1 DEF Contract!vars
<1>2. CASE Excused' /\ ~Excused
  BY <1>2 DEF Contract!Next, Contract!GiveUp
<1> QED
  BY <1>1, <1>2

(* A thread that writes makes the copy newer, or nothing is promised. *)
LEMMA WritesPersist ==
  ASSUME StoreConstantsOK, IndInv, NEW w \in Writers, Writes(w)
  PROVE  Contract!Persist
<1> USE DEF IndInv, Contents, TypeOK
<1>1. /\ ThreadEnds(w) /\ torn' = FALSE /\ w \in Threads /\ Alive /\ Alive'
      /\ ~torn /\ mem' = mem
  BY DEF Writes, ThreadEnds, InOrder, Alive, ofHass
<1>2. /\ job[w].what \in Versions \cup {Func} /\ job[w].began \in Versions
      /\ Lower(w) <= mem
  BY <1>1 DEF JobsMade, Threads
<1>3. /\ file' \in IF job[w].what = Func THEN job[w].began..mem ELSE {job[w].what}
      /\ Lower(w) = IF job[w].what = Func THEN job[w].began ELSE job[w].what
  BY DEF Writes, Lower
<1>4. Lower(w) \in Versions
  BY <1>2, <1>3
<1>5. file' \in 0..mem /\ Lower(w) <= file'
  BY <1>2, <1>3, <1>4 DEF Versions, StoreConstantsOK
<1>6. file' < file => Excused
  <2>1. CASE at[w] = "writes"
    <3>1. ~Excused => file <= Lower(w)
      BY <2>1 DEF Forward
    <3>2. file \in Nat /\ file' \in Nat /\ Lower(w) \in Nat
      BY <1>4, <1>5 DEF Versions, StoreConstantsOK
    <3>3. file' < file => ~(file <= Lower(w))
      BY <1>5, <3>2
    <3> QED
      BY <3>1, <3>3
  <2>2. CASE at[w] = "adrift"
    BY <2>2 DEF Excused, Adrift
  <2> QED
    BY <1>1, <2>1, <2>2 DEF Threads
<1>7. Excused' <=> Excused \/ w \in Adrift
  <2>1. CASE w \in Adrift
    BY <2>1 DEF Writes, Excused
  <2>2. CASE w \notin Adrift
    <3>1. Adrift' = Adrift
      BY <2>2 DEF Writes, ThreadEnds, Adrift
    <3> QED
      BY <2>2, <3>1 DEF Writes, ThreadEnds, Excused
  <2> QED
    BY <2>1, <2>2
<1>8. Excused' \in {Excused, TRUE}
  <2>1. CASE w \in Adrift
    BY <1>7, <2>1
  <2>2. CASE w \notin Adrift
    <3>1. Excused' = Excused
      BY <1>7, <2>2 DEF Excused
    <3> QED
      BY <3>1
  <2> QED
    BY <2>1, <2>2
<1>9. /\ (IF torn' THEN 0 ELSE file') \in 0..mem
      /\ (IF torn' THEN 0 ELSE file') < (IF torn THEN 0 ELSE file) => Excused
  BY <1>1, <1>5, <1>6
<1>10. (IF Alive THEN "up" ELSE hass) = "up" /\ (IF Alive' THEN "up" ELSE hass') = "up"
  BY <1>1
<1> QED
  BY <1>1, <1>8, <1>9, <1>10, Zenon DEF Contract!Persist

(* Every step of the store is one of SavedCopy, or changes nothing that     *)
(* SavedCopy tells apart.                                                    *)
LEMMA ContractStep ==
  ASSUME StoreConstantsOK, IndInv, IndInv', [Next]_vars
  PROVE  [Contract!Next]_(Contract!vars)
<1>0. TypeOK /\ Coverage /\ Contents
  BY DEF IndInv
<1>1. at \in [Writers -> {"nothing", "waits", "writes", "wrote", "adrift"}]
  BY <1>0 DEF TypeOK
<1> USE DEF ofStore, ofDisk, ofHass
<1>2. ASSUME Changes, hass' = hass, UNCHANGED <<file, torn>>
      PROVE  Contract!Change
  <2>1. Alive /\ Alive' /\ mem' = mem + 1 /\ mem' \in Contract!Versions
    BY <1>0, <1>2 DEF Changes, Alive, TypeOK, Versions, Contract!Versions, StoreConstantsOK
  <2>2. Excused' \in BOOLEAN
    BY DEF Excused
  <2> QED
    BY <1>2, <2>1, <2>2 DEF Contract!Change
<1>3. ASSUME NEW w \in Writers, AsyncSave(w)
      PROVE  Contract!Change
  BY <1>2, <1>3 DEF AsyncSave
<1>4. ASSUME NEW d \in Delays, AsyncDelaySave(d)
      PROVE  Contract!Change
  BY <1>2, <1>4 DEF AsyncDelaySave
<1>5. ASSUME UNCHANGED <<mem, file, torn, hass, abandoned, unlinking>>, Adrift' = Adrift
      PROVE  UNCHANGED Contract!vars
  <2>1. Alive' = Alive /\ Excused' = Excused
    BY <1>5 DEF Alive, Excused
  <2> QED
    BY <1>5, <2>1 DEF Contract!vars
<1>6. FiredTooEarly \/ Tick \/ LoadPending \/ Load \/ Loaded \/ UNCHANGED vars
        => UNCHANGED Contract!vars
  BY <1>5 DEF FiredTooEarly, Tick, LoadPending, Load, Loaded, vars, Adrift
<1>7. ASSUME NEW w \in Writers, NEW data, TakeData(w, data), at[w] # "adrift"
      PROVE  Adrift' = Adrift
  BY <1>1, <1>7 DEF TakeData, Adrift
<1>8. ASSUME NEW w \in Writers, NEW data, NEW left, NEW listener,
             HandleWriteData(w, data, left, listener), Idle(w)
      PROVE  Adrift' = Adrift
  <2>1. CASE Holding = {} /\ Waiting = {}
    BY <1>7, <1>8, <2>1 DEF HandleWriteData, Idle
  <2>2. CASE ~(Holding = {} /\ Waiting = {})
    BY <1>1, <1>8, <2>2 DEF HandleWriteData, Idle, Adrift
  <2> QED
    BY <2>1, <2>2
<1>9. ASSUME NEW w \in Writers, DelayedWrite(w)
      PROVE  UNCHANGED Contract!vars
  <2>1. UNCHANGED <<mem, file, torn, hass, abandoned, unlinking>>
    BY <1>9 DEF DelayedWrite
  <2>2. Adrift' = Adrift
    BY <1>8, <1>9 DEF DelayedWrite, Adrift
  <2> QED
    BY <1>5, <2>1, <2>2
<1>10. ASSUME NEW w \in Writers, GetsLock(w)
       PROVE  UNCHANGED Contract!vars
  BY <1>5, <1>7, <1>10 DEF GetsLock
<1>11. ASSUME NEW w \in Writers, Writes(w)
       PROVE  Contract!Persist
  BY <1>11, WritesPersist
<1>12. ASSUME NEW w \in Writers, WriteFails(w) \/ WriteRaces(w)
       PROVE  [Contract!Next]_(Contract!vars)
  <2>1. /\ ThreadEnds(w) /\ Alive /\ Alive' /\ UNCHANGED <<mem, file, torn>>
        /\ unlinking' = unlinking
    BY <1>12 DEF WriteFails, WriteRaces, ThreadEnds, Alive
  <2>2. (abandoned => abandoned') /\ (w \in Adrift => abandoned')
    BY <1>12 DEF WriteFails, WriteRaces
  <2>3. Adrift \ {w} \subseteq Adrift'
    BY <1>1, <2>1 DEF ThreadEnds, Adrift
  <2>4. Excused => Excused'
    BY <2>1, <2>2, <2>3 DEF Excused
  <2> QED
    BY <2>1, <2>4, GivesUpOrStutters
<1>13. ASSUME NEW w \in Writers, Resumed(w)
       PROVE  UNCHANGED Contract!vars
  <2>1. Adrift' = Adrift
    BY <1>1, <1>13 DEF Resumed, Adrift
  <2> QED
    BY <1>5, <1>13, <2>1 DEF Resumed
<1>14. ASSUME NEW w \in Writers, Cancelled(w)
       PROVE  [Contract!Next]_(Contract!vars)
  <2>1. Alive /\ Alive' /\ UNCHANGED <<mem, file, torn, unlinking>>
    BY <1>14 DEF Cancelled, Alive
  <2>2. abandoned => abandoned'
    BY <1>14 DEF Cancelled
  <2>3. Adrift \subseteq Adrift'
    BY <1>1, <1>14 DEF Cancelled, Adrift
  <2>4. Excused => Excused'
    BY <2>1, <2>2, <2>3 DEF Excused
  <2> QED
    BY <2>1, <2>4, GivesUpOrStutters
<1>15. ASSUME AsyncRemove
       PROVE  [Contract!Next]_(Contract!vars)
  <2>1. Alive /\ Alive' /\ UNCHANGED <<mem, file, torn>> /\ Excused'
    BY <1>15 DEF AsyncRemove, Alive, Excused
  <2> QED
    BY <2>1, GivesUpOrStutters
<1>16. ASSUME Unlinked
       PROVE  Contract!Persist
  <2>1. Alive /\ Alive' /\ mem' = mem /\ file' = 0 /\ torn' = FALSE /\ Excused /\ Excused'
    BY <1>16 DEF Unlinked, Alive, Excused
  <2>2. 0 \in 0..mem
    BY <1>0 DEF TypeOK, Versions, StoreConstantsOK
  <2> QED
    BY <2>1, <2>2 DEF Contract!Persist
<1>17. ASSUME Stop
       PROVE  [Contract!Next]_(Contract!vars)
  <2>1. Alive /\ Alive' /\ UNCHANGED <<mem, file, torn>> /\ Excused' = Excused
    BY <1>17 DEF Stop, Alive, Up, Excused, Adrift
  <2> QED
    BY <2>1, GivesUpOrStutters
<1>18. ASSUME FinalWrite
       PROVE  [Contract!Next]_(Contract!vars)
  <2>1. Alive /\ Alive' /\ UNCHANGED <<mem, file, torn, unlinking, abandoned>>
    BY <1>18 DEF FinalWrite, Alive, Up
  <2>2. Adrift' = Adrift
    BY <1>8, <1>18 DEF FinalWrite, Adrift
  <2>3. Excused => Excused'
    BY <2>1, <2>2 DEF Excused
  <2> QED
    BY <2>1, <2>3, GivesUpOrStutters
<1>19. ASSUME Close
       PROVE  [Contract!Next]_(Contract!vars)
  <2>1. Alive /\ Alive' /\ UNCHANGED <<mem, file, torn, unlinking>> /\ (abandoned => abandoned')
    BY <1>19 DEF Close, Alive, Up
  <2>2. Adrift \subseteq Adrift'
    BY <1>19 DEF Close, Adrift
  <2>3. Excused => Excused'
    BY <2>1, <2>2 DEF Excused
  <2> QED
    BY <2>1, <2>3, GivesUpOrStutters
<1>20. Forgets => ~Excused'
  BY DEF Forgets, Excused, Adrift
<1>21. ASSUME Exit
       PROVE  Contract!Stop
  <2>1. /\ Alive /\ ~Alive' /\ hass' = "stopped" /\ mem' = 0 /\ ~Excused'
        /\ UNCHANGED <<file, torn>>
    BY <1>20, <1>21 DEF Exit, Forgets, Alive, Up
  <2>2. ~torn /\ (file = mem \/ Excused)
    <3>1. ~torn
      BY <1>0, <2>1 DEF Contents, InOrder
    <3>2. pending # None => Excused
      BY <1>0, <1>21 DEF Exit, Contents, Closed, Excused
    <3>3. pending = None => file = mem \/ Excused
      BY <1>0, <1>21, <2>1 DEF Exit, Contents, Saved
    <3> QED
      BY <3>1, <3>2, <3>3
  <2> QED
    BY <2>1, <2>2 DEF Contract!Stop
<1>22. ASSUME Crash
       PROVE  Contract!Crash
  <2>1. /\ Alive /\ ~Alive' /\ hass' = "crashed" /\ mem' = 0 /\ ~Excused' /\ file' = file
    BY <1>20, <1>22 DEF Crash, Forgets, Alive, Up
  <2>2. ~torn /\ torn' \in {FALSE, ~AtomicWrites}
    <3>1. torn = FALSE
      BY <1>0, <2>1 DEF Contents, InOrder, TypeOK
    <3>2. torn' \in {torn, ~AtomicWrites}
      BY <1>22 DEF Crash
    <3> QED
      BY <3>1, <3>2
  <2>3. CASE torn'
    <3>1. ~AtomicWrites
      BY <2>2, <2>3
    <3> QED
      BY <2>1, <2>2, <2>3, <3>1 DEF Contract!Crash
  <2>4. CASE ~torn'
    BY <2>1, <2>2, <2>4 DEF Contract!Crash
  <2> QED
    BY <2>3, <2>4
<1>23. ASSUME NEW w \in Writers, Start(w)
       PROVE  Contract!Start
  <2>1. /\ ~Alive /\ Alive' /\ hass # "up" /\ torn' = FALSE
        /\ file' = (IF torn THEN 0 ELSE file) /\ mem' = file'
    BY <1>0, <1>23 DEF Start, Alive, Up, TypeOK
  <2>2. ~Excused'
    <3>1. abandoned = FALSE /\ unlinking = FALSE /\ at = [v \in Writers |-> "nothing"]
      BY <1>0, <2>1 DEF Coverage, Empty
    <3>2. abandoned' = FALSE /\ unlinking' = FALSE
      BY <1>23, <3>1 DEF Start
    <3>3. Adrift' = {}
      BY <1>23, <3>1 DEF Start, Adrift
    <3> QED
      BY <3>2, <3>3 DEF Excused
  <2> QED
    BY <2>1, <2>2 DEF Contract!Start
<1> QED
  BY <1>3, <1>4, <1>6, <1>9, <1>10, <1>11, <1>12, <1>13, <1>14, <1>15, <1>16, <1>17, <1>18,
     <1>19, <1>21, <1>22, <1>23 DEF Next, Contract!Next

(* Store implements SavedCopy: through callers that overtake each other,    *)
(* stops, crashes and restarts the file follows the data.  This is the      *)
(* property ImplementsContract.                                              *)
THEOREM StoreImplementsContract ==
  ASSUME StoreConstantsOK
  PROVE  Spec => ImplementsContract
<1>1. Init => Contract!Init
  <2> SUFFICES ASSUME Init PROVE Contract!Init
    OBVIOUS
  <2>1. ~Alive /\ ~Excused
    BY DEF Init, Fresh, Alive, Up, Excused, Adrift
  <2> QED
    BY <2>1 DEF Init, Fresh, Contract!Init
<1>2. IndInv /\ IndInv' /\ [Next]_vars => [Contract!Next]_(Contract!vars)
  BY ContractStep
<1> QED
  BY <1>1, <1>2, StoreInvariant, PTL DEF Spec, ImplementsContract, Contract!Spec
=============================================================================
