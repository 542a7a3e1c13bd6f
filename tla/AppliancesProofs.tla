-------------------------- MODULE AppliancesProofs --------------------------
(***************************************************************************)
(* Proofs about MCAppliances: the properties of its run, for any number of *)
(* commands in flight, reports, sensors and setups, and for every level,   *)
(* brightness, shade and temperature (the run takes a few of each).        *)
(*                                                                         *)
(* Each device has an invariant of its own.  Those of the lights and of    *)
(* the heater say what holds as long as an exchange runs alone:            *)
(*   - a dimmed light: the reports on the wire tell the level of the lamp, *)
(*     which is what the command asked for once that has arrived;          *)
(*   - a light of several channels: the reports tell the channels behind   *)
(*     the command, which are at the levels it asks for, and none of the   *)
(*     channels ahead of it; between commands each channel is either shown *)
(*     as it is or still to be reported;                                   *)
(*   - a floor heater: what is on the wire tells it as it is, and while a  *)
(*     temperature is set, the packets about it switch it to what it is.   *)
(* The one of the fan bounds its timers instead: as long as it does not do *)
(* what it should, some timer fires within an interval of the last change. *)
(* The panel's says that it follows its lock through every order of the    *)
(* events within a step (LockedPanel).                                     *)
(***************************************************************************)
EXTENDS MCAppliances, Sequences, TLAPS

-----------------------------------------------------------------------------
(* The security panel behind its lock. *)
ProtectionInv == TypeOK /\ ReadOnlyOnlyWhileLocked

-----------------------------------------------------------------------------
\* The lock of the composition is the lock alone: whatever the panel does,
\* each step is one of AdminLock's or leaves its variables as they are.
LEMMA LockStep ==
  ASSUME [Next]_vars
  PROVE  [Lock!Next]_lockVars
<1> USE DEF Lock!Next
<1>1. CASE \E code \in Lock!Code : \/ LockService(code)
                                   \/ UnlockService(code)
                                   \/ RefusedService(code)
  BY <1>1 DEF LockService, UnlockService, RefusedService
<1>2. CASE \E t \in Tasks : AutoLock(t)
  BY <1>2 DEF AutoLock
<1>3. CASE Poll \/ Tick \/ Reload
  BY <1>3 DEF Poll, Tick, Reload
<1>4. CASE PanelStep \/ UNCHANGED vars
  BY <1>4 DEF PanelStep, vars
<1> QED
  BY <1>1, <1>2, <1>3, <1>4 DEF Next

\* So is the panel of the composition the panel alone.
LEMMA PanelIsPanel ==
  ASSUME [Next]_vars
  PROVE  [Panel!Next]_panelVars
<1> USE DEF Panel!Next
<1>1. CASE \E code \in Lock!Code : \/ LockService(code)
                                   \/ UnlockService(code)
                                   \/ RefusedService(code)
  BY <1>1 DEF LockService, UnlockService, RefusedService, AfterService
<1>2. CASE \E t \in Tasks : AutoLock(t)
  BY <1>2 DEF AutoLock
<1>3. CASE Poll \/ Tick \/ Reload
  BY <1>3 DEF Poll, Tick, Reload
<1>4. CASE PanelStep
  BY <1>4 DEF PanelStep
<1>5. CASE UNCHANGED vars
  BY <1>5 DEF vars
<1> QED
  BY <1>1, <1>2, <1>3, <1>4, <1>5 DEF Next

\* A step of the lock keeps the types of its variables.
LEMMA LockTypes ==
  ASSUME Lock!TypeOK, [Lock!Next]_lockVars
  PROVE  Lock!TypeOK'
<1> USE LockAssumption DEF Lock!TypeOK, Lock!Entity, Lock!Changer, Lock!StateOf
<1>1. ASSUME NEW code \in Lock!Code, Lock!Lock(code) PROVE Lock!TypeOK'
  BY <1>1 DEF Lock!Lock, Lock!SetLocked
<1>2. ASSUME NEW code \in Lock!Code, Lock!Unlock(code) PROVE Lock!TypeOK'
  BY <1>2 DEF Lock!Unlock, Lock!FreshTask
<1>3. ASSUME NEW code \in Lock!Code, Lock!Refuse(code) PROVE Lock!TypeOK'
  BY <1>3 DEF Lock!Refuse
<1>4. ASSUME NEW t \in Tasks, Lock!AutoLock(t) PROVE Lock!TypeOK'
  BY <1>4 DEF Lock!AutoLock, Lock!SetLocked
<1>5. CASE Lock!Poll
  BY <1>5 DEF Lock!Poll
<1>6. CASE Lock!Tick
  BY <1>6 DEF Lock!Tick
<1>7. CASE Lock!Reload
  BY <1>7 DEF Lock!Reload
<1>8. CASE UNCHANGED lockVars
  BY <1>8 DEF lockVars
<1> QED
  BY <1>1, <1>2, <1>3, <1>4, <1>5, <1>6, <1>7, <1>8 DEF Lock!Next

\* A feedback that is taken from the wire leaves counts on it.
LEMMA TakenFromWire ==
  ASSUME wire \in [Panel!Modes -> 0..MaxWire], NEW m \in Panel!Modes, wire[m] > 0
  PROVE  [wire EXCEPT ![m] = @ - 1] \in [Panel!Modes -> 0..MaxWire]
<1>1. wire[m] - 1 \in 0..MaxWire
  BY PanelAssumption DEF Panel!ConstantsOK
<1> QED
  BY <1>1

\* A step of the panel keeps the types of its variables.
LEMMA PanelTypes ==
  ASSUME Panel!TypeOK, [Panel!Next]_panelVars
  PROVE  Panel!TypeOK'
<1> USE PanelAssumption DEF Panel!ConstantsOK, Panel!TypeOK, Panel!Modes, Panel!InFlight
<1>1. CASE (\E locked \in BOOLEAN : Panel!AdminLockEvent(locked)) \/ Panel!OtherEvent
  BY <1>1 DEF Panel!AdminLockEvent, Panel!OtherEvent, Panel!Protect
<1>2. ASSUME NEW m \in Panel!Modes, Panel!SecurityFeedback(m) PROVE Panel!TypeOK'
  <2>1. wire' \in [Panel!Modes -> 0..MaxWire]
    BY <1>2, TakenFromWire DEF Panel!SecurityFeedback
  <2> QED
    BY <1>2, <2>1 DEF Panel!SecurityFeedback, Panel!Protect
<1>3. ASSUME NEW m \in Panel!Modes, Panel!Keypad(m) PROVE Panel!TypeOK'
  BY <1>3 DEF Panel!Keypad, Panel!Quiet
<1>4. ASSUME NEW m \in Panel!Modes, Panel!LoseFeedback(m) PROVE Panel!TypeOK'
  <2>1. wire' \in [Panel!Modes -> 0..MaxWire]
    BY <1>4, TakenFromWire DEF Panel!LoseFeedback
  <2> QED
    BY <1>4, <2>1 DEF Panel!LoseFeedback
<1>5. ASSUME NEW c \in Calls, NEW opt \in Options, Panel!SelectOption(c, opt)
      PROVE  Panel!TypeOK'
  BY <1>5 DEF Panel!SelectOption, Panel!Protect, Panel!Quiet
<1>6. ASSUME NEW c \in Calls, Panel!Acknowledged(c) \/ Panel!NotAcknowledged(c)
      PROVE  Panel!TypeOK'
  BY <1>6 DEF Panel!Acknowledged, Panel!NotAcknowledged, Panel!Return,
              Panel!SetOption, Panel!Protect
<1>7. ASSUME NEW c \in Calls, Panel!Apply(c) PROVE Panel!TypeOK'
  BY <1>7 DEF Panel!Apply
<1>8. CASE Panel!Reload
  BY <1>8 DEF Panel!Reload, Panel!Quiet
<1>9. CASE UNCHANGED panelVars
  BY <1>9 DEF panelVars
<1> QED
  BY <1>1, <1>2, <1>3, <1>4, <1>5, <1>6, <1>7, <1>8, <1>9 DEF Panel!Next

-----------------------------------------------------------------------------
\* Lock and panel start unprotected, with the types of their variables.
LEMMA ProtectionInit == Init => ProtectionInv
<1>1. Init => Lock!TypeOK /\ locker \in Lock!Entity
  BY LockAssumption
     DEF Init, Lock!Init, Lock!TypeOK, Lock!Entity, Lock!Changer, Lock!StateOf
<1>2. Init => Panel!TypeOK /\ ~readOnly
  <2> SUFFICES ASSUME Init
               PROVE  Panel!TypeOK /\ ~readOnly
    OBVIOUS
  <2>1. /\ readOnly = FALSE /\ option \in Options /\ clean \in BOOLEAN
        /\ packet \in [Calls -> Options \cup {NoPacket}] /\ applied \in SUBSET Calls
        /\ mode \in Panel!Modes /\ held \in SUBSET Panel!Modes
    BY PanelAssumption DEF Init, Panel!Init, Panel!ConstantsOK
  <2>2. wire \in [Panel!Modes -> 0..MaxWire]
    BY PanelAssumption DEF Init, Panel!Init, Panel!ConstantsOK
  <2> QED
    BY <2>1, <2>2 DEF Panel!TypeOK
<1> QED
  BY <1>1, <1>2 DEF ProtectionInv, TypeOK, ReadOnlyOnlyWhileLocked

\* A step of the panel alone protects nothing (src/select.py:76).
LEMMA PanelNeverProtects ==
  ASSUME PanelStep
  PROVE  readOnly' => readOnly
BY DEF PanelStep, Panel!OtherEvent, Panel!SecurityFeedback, Panel!Keypad,
       Panel!LoseFeedback, Panel!SelectOption, Panel!Acknowledged, Panel!NotAcknowledged,
       Panel!SetOption, Panel!Apply, Panel!Protect, Panel!Return

\* Every step of lock and panel keeps the protection within the lock.
LEMMA ProtectionStep == ProtectionInv /\ [Next]_vars => ProtectionInv'
<1> SUFFICES ASSUME ProtectionInv, [Next]_vars
             PROVE  ProtectionInv'
  OBVIOUS
<1>1. Lock!TypeOK' /\ Panel!TypeOK'
  BY LockStep, PanelIsPanel, LockTypes, PanelTypes DEF ProtectionInv, TypeOK
<1>2. locker' \in Lock!Entity
  <2>1. locker' = locker \/ locker' = live \/ \E t \in Tasks : locker' = owner[t]
    BY DEF Next, vars, LockService, UnlockService, RefusedService, AutoLock, Poll, Tick,
           PanelStep, Reload
  <2> QED
    BY <2>1 DEF ProtectionInv, TypeOK, Lock!TypeOK
<1>3. ReadOnlyOnlyWhileLocked'
  <2> USE DEF ProtectionInv, TypeOK, ReadOnlyOnlyWhileLocked
  <2>1. ASSUME NEW code \in Lock!Code, LockService(code)
        PROVE  ReadOnlyOnlyWhileLocked'
    BY <2>1 DEF LockService, Lock!Lock, Lock!SetLocked, Lock!TypeOK
  <2>2. ASSUME NEW code \in Lock!Code, UnlockService(code) \/ RefusedService(code)
        PROVE  ReadOnlyOnlyWhileLocked'
    BY <2>2 DEF UnlockService, RefusedService, Lock!Unlock, Lock!Refuse, AfterService,
                Panel!AdminLockEvent, Panel!OtherEvent, Panel!Protect
  <2>3. ASSUME NEW t \in Tasks, AutoLock(t)
        PROVE  ReadOnlyOnlyWhileLocked'
    BY <2>3 DEF AutoLock, Lock!AutoLock, Lock!SetLocked, Lock!TypeOK
  <2>4. CASE Poll
    BY <2>4 DEF Poll, Lock!Poll, Panel!OtherEvent, Panel!Protect, panelVars
  <2>5. CASE Tick
    BY <2>5 DEF Tick, Lock!Tick, panelVars
  <2>6. CASE PanelStep
    BY <2>6, PanelNeverProtects DEF PanelStep, lockVars
  <2>7. CASE Reload
    BY <2>7 DEF Reload, Panel!Reload
  <2>8. CASE UNCHANGED vars
    BY <2>8 DEF vars, lockVars, panelVars
  <2> QED
    BY <2>1, <2>2, <2>3, <2>4, <2>5, <2>6, <2>7, <2>8 DEF Next
<1> QED
  BY <1>1, <1>2, <1>3 DEF ProtectionInv, TypeOK

-----------------------------------------------------------------------------
(* Dimmed lights. *)
DimmerTells(r) == r.kind # "binary_feedback" /\ r.value = actual

DimmerTold ==
  lone =>
    /\ \A c, d \in Dimmer!InFlight : c = d
    /\ \A r \in feedbacks : r.value = actual
    /\ \A c \in Dimmer!InFlight : c \in delivered => Dimmer!ToPercent(target[c]) = actual
    /\ \A c \in Dimmer!InFlight : c \notin delivered => feedbacks = {}
    /\ Dimmer!InFlight = {} =>
         Dimmer!Stands(brightness, actual) \/ \E r \in feedbacks : DimmerTells(r)

DimmerInv == Dimmer!TypeOK /\ delivered \subseteq Dimmer!InFlight /\ DimmerTold

-----------------------------------------------------------------------------
\* The conversions stay in their ranges (src/light.py:171, 232).
LEMMA ConversionsInRange ==
  /\ \A b \in Dimmer!Byte : Dimmer!ToPercent(b) \in Dimmer!Percent
  /\ \A v \in Dimmer!Percent : Dimmer!ToByte(v) \in Dimmer!Byte
BY SMTT(30) DEF Dimmer!Byte, Dimmer!Percent, Dimmer!ToPercent, Dimmer!ToByte

\* Converting there and back loses one percent at most, and gains none.
LEMMA ThereAndBack ==
  \A v \in Dimmer!Percent :
    /\ Dimmer!ToPercent(Dimmer!ToByte(v)) <= v
    /\ Dimmer!ToPercent(Dimmer!ToByte(v)) >= v - 1
    /\ Dimmer!ToPercent(Dimmer!ToByte(v)) >= 0
BY SMTT(30) DEF Dimmer!Percent, Dimmer!ToPercent, Dimmer!ToByte

\* None is no brightness.
LEMMA DimmerNone == Dimmer!ConstantsOK => None \notin Dimmer!Byte
BY DEF Dimmer!ConstantsOK

\* A light starts dark, with no command in flight.
LEMMA DimmerInit == ASSUME Dimmer!ConstantsOK, Dimmer!Init PROVE DimmerInv
<1> USE DEF Dimmer!ConstantsOK, Dimmer!Init
<1>1. Dimmer!TypeOK
  BY DEF Dimmer!TypeOK, Dimmer!Report
<1>2. Dimmer!InFlight = {}
  BY DEF Dimmer!InFlight
<1>3. DimmerTold
  <2> DEFINE r == [kind |-> "update_response", value |-> actual]
  <2>1. CASE lone
    <3>1. feedbacks = {r}
      BY <2>1
    <3>2. r.kind # "binary_feedback" /\ r.value = actual
      OBVIOUS
    <3> HIDE DEF r
    <3> QED
      BY <3>1, <3>2, <1>2 DEF DimmerTold, DimmerTells
  <2> QED
    BY <2>1 DEF DimmerTold
<1> QED
  BY <1>1, <1>2, <1>3 DEF DimmerInv

\* A command leaves (src/light.py:226-258).
LEMMA DimmerSend ==
  ASSUME Dimmer!ConstantsOK, DimmerInv, NEW c \in TwoCalls, NEW b \in Dimmer!Byte,
         Dimmer!Send(c, b)
  PROVE  DimmerInv'
<1> USE DEF DimmerInv, Dimmer!Send
<1>1. Dimmer!TypeOK'
  BY DEF Dimmer!TypeOK, Dimmer!Quiet
<1>2. Dimmer!InFlight' = Dimmer!InFlight \cup {c}
  BY DimmerNone DEF Dimmer!InFlight, Dimmer!TypeOK
<1>3. DimmerTold'
  <2> SUFFICES ASSUME lone'
               PROVE  DimmerTold'
    BY DEF DimmerTold
  <2>1. Dimmer!InFlight' = {c} /\ feedbacks' = {} /\ c \notin delivered'
    BY <1>2 DEF Dimmer!Quiet
  <2> QED
    BY <2>1 DEF DimmerTold
<1> QED
  BY <1>1, <1>2, <1>3

\* A command returns: acknowledged, the entity stores what it asked, which
\* stands for the level that the packet has set.
LEMMA DimmerReturn ==
  ASSUME Dimmer!ConstantsOK, DimmerInv, NEW c \in TwoCalls,
         Dimmer!Acknowledged(c) \/ Dimmer!NotAcknowledged(c)
  PROVE  DimmerInv'
<1> USE DEF DimmerInv
<1>1. /\ c \in Dimmer!InFlight
      /\ target' = [target EXCEPT ![c] = None] /\ delivered' = delivered \ {c}
      /\ seen' = brightness' /\ UNCHANGED <<actual, feedbacks>>
      /\ brightness' \in {target[c], None} /\ lone' \in BOOLEAN
  BY DEF Dimmer!Acknowledged, Dimmer!NotAcknowledged, Dimmer!Return, Dimmer!TypeOK
<1>2. Dimmer!TypeOK'
  BY <1>1 DEF Dimmer!TypeOK
<1>3. Dimmer!InFlight' = Dimmer!InFlight \ {c}
  BY <1>1 DEF Dimmer!InFlight, Dimmer!TypeOK
<1>4. DimmerTold'
  <2> SUFFICES ASSUME lone'
               PROVE  DimmerTold'
    BY DEF DimmerTold
  <2>1. Dimmer!Acknowledged(c) /\ lone
    BY DEF Dimmer!Acknowledged, Dimmer!NotAcknowledged
  <2>2. Dimmer!InFlight' = {}
    BY <1>1, <1>3, <2>1 DEF DimmerTold
  <2>3. Dimmer!ToPercent(brightness') = actual'
    BY <1>1, <2>1 DEF DimmerTold, Dimmer!Acknowledged
  <2>4. \A r \in feedbacks' : r.value = actual'
    BY <1>1, <2>1 DEF DimmerTold
  <2> QED
    BY <2>2, <2>3, <2>4 DEF DimmerTold, Dimmer!Stands
<1> QED
  BY <1>1, <1>2, <1>3, <1>4

\* A report is handled (src/light.py:161-190).
LEMMA DimmerEvent ==
  ASSUME Dimmer!ConstantsOK, DimmerInv, NEW r \in feedbacks, Dimmer!HandleEvent(r)
  PROVE  DimmerInv'
<1> USE DEF DimmerInv
<1>1. /\ feedbacks' = feedbacks \ {r}
      /\ UNCHANGED <<target, delivered, actual, lone>>
      /\ r \in Dimmer!Report
  BY DEF Dimmer!HandleEvent, Dimmer!TypeOK
<1>2. \/ r.kind # "binary_feedback" /\ brightness' = Dimmer!ToByte(r.value)
      \/ r.kind = "binary_feedback" /\ brightness' = brightness
  BY DEF Dimmer!HandleEvent, Dimmer!ControlResponse, Dimmer!UpdateResponse,
         Dimmer!BinaryFeedback
<1>3. brightness' \in Dimmer!Byte \cup {None} /\ seen' \in {brightness', seen}
  BY <1>1, <1>2, ConversionsInRange
     DEF Dimmer!HandleEvent, Dimmer!ControlResponse, Dimmer!UpdateResponse,
         Dimmer!BinaryFeedback, Dimmer!TypeOK, Dimmer!Report
<1>4. Dimmer!TypeOK'
  BY <1>1, <1>3 DEF Dimmer!TypeOK
<1>5. Dimmer!InFlight' = Dimmer!InFlight
  BY <1>1 DEF Dimmer!InFlight
<1>6. DimmerTold'
  <2> SUFFICES ASSUME lone
               PROVE  DimmerTold'
    BY <1>1 DEF DimmerTold
  <2>1. r.value = actual
    BY DEF DimmerTold
  <2>2. Dimmer!InFlight' = {} =>
          Dimmer!Stands(brightness', actual') \/ \E s \in feedbacks' : DimmerTells(s)'
    <3>1. CASE r.kind # "binary_feedback"
      BY <1>1, <1>2, <2>1, <3>1 DEF Dimmer!Stands
    <3>2. CASE r.kind = "binary_feedback"
      BY <1>1, <1>2, <1>5, <3>2 DEF DimmerTold, DimmerTells
    <3> QED
      BY <3>1, <3>2
  <2> QED
    BY <1>1, <1>5, <2>2 DEF DimmerTold
<1> QED
  BY <1>1, <1>4, <1>5, <1>6

\* The packet of a command sets the lamp.
LEMMA DimmerApply ==
  ASSUME Dimmer!ConstantsOK, DimmerInv, NEW c \in TwoCalls, Dimmer!Apply(c)
  PROVE  DimmerInv'
<1> USE DEF DimmerInv
<1>1. /\ c \in Dimmer!InFlight /\ c \notin delivered /\ delivered' = delivered \cup {c}
      /\ actual' = Dimmer!ToPercent(target[c])
      /\ feedbacks' = feedbacks \cup {[kind |-> "control_response", value |-> actual']}
      /\ UNCHANGED <<brightness, seen, target, lone>>
  BY DEF Dimmer!Apply, Dimmer!Dim
<1>2. target[c] \in Dimmer!Byte
  BY <1>1 DEF Dimmer!TypeOK, Dimmer!InFlight
<1>3. Dimmer!TypeOK'
  BY <1>1, <1>2, ConversionsInRange DEF Dimmer!TypeOK, Dimmer!Report
<1>4. Dimmer!InFlight' = Dimmer!InFlight
  BY <1>1 DEF Dimmer!InFlight
<1>5. DimmerTold'
  <2> SUFFICES ASSUME lone
               PROVE  DimmerTold'
    BY <1>1 DEF DimmerTold
  <2>1. Dimmer!InFlight' = {c}
    BY <1>1, <1>4 DEF DimmerTold
  <2>2. feedbacks' = {[kind |-> "control_response", value |-> actual']}
    BY <1>1 DEF DimmerTold
  <2> QED
    BY <1>1, <2>1, <2>2 DEF DimmerTold
<1> QED
  BY <1>1, <1>3, <1>4, <1>5

\* The lamp is set at the wall, or its level asked for.
LEMMA DimmerWall ==
  ASSUME Dimmer!ConstantsOK, DimmerInv, NEW v \in Walls,
         NEW kind \in {"control_response", "update_response", "binary_feedback"},
         Dimmer!Wall(v, kind)
  PROVE  DimmerInv'
<1> USE DEF DimmerInv
<1>1. /\ actual' = v /\ feedbacks' = feedbacks \cup {[kind |-> kind, value |-> v]}
      /\ lone' = (Dimmer!Quiet /\ (kind # "binary_feedback" \/ (lone /\ v = actual)))
      /\ UNCHANGED <<brightness, seen, target, delivered>>
  BY DEF Dimmer!Wall, Dimmer!Dim
<1>2. v \in Dimmer!Percent
  BY DEF Dimmer!ConstantsOK
<1>3. Dimmer!TypeOK'
  <2>1. [kind |-> kind, value |-> v] \in Dimmer!Report
    BY <1>2 DEF Dimmer!Report
  <2>2. lone' \in BOOLEAN
    BY <1>1
  <2> QED
    BY <1>1, <1>2, <2>1, <2>2 DEF Dimmer!TypeOK
<1>4. Dimmer!InFlight' = Dimmer!InFlight
  BY <1>1 DEF Dimmer!InFlight
<1>5. DimmerTold'
  <2> SUFFICES ASSUME lone'
               PROVE  DimmerTold'
    BY DEF DimmerTold
  <2> DEFINE r == [kind |-> kind, value |-> v]
  <2>1. Dimmer!InFlight' = {} /\ feedbacks' = {r}
    BY <1>1, <1>4 DEF Dimmer!Quiet
  <2>2. kind = "binary_feedback" => Dimmer!Stands(brightness', actual')
    BY <1>1, <1>4, <2>1 DEF DimmerTold, DimmerTells, Dimmer!Quiet
  <2>3. r.kind = kind /\ r.value = actual'
    BY <1>1
  <2> HIDE DEF r
  <2> QED
    BY <2>1, <2>2, <2>3 DEF DimmerTold, DimmerTells
<1> QED
  BY <1>1, <1>3, <1>4, <1>5

\* Every step preserves the invariant.
LEMMA DimmerStep ==
  ASSUME Dimmer!ConstantsOK, DimmerInv, [Dimmer!Next]_(Dimmer!vars)
  PROVE  DimmerInv'
<1>1. ASSUME NEW c \in TwoCalls, NEW b \in Brightnesses, Dimmer!TurnOn(c,
             b) PROVE DimmerInv'
  BY <1>1, DimmerSend DEF Dimmer!TurnOn, Dimmer!ConstantsOK
<1>2. ASSUME NEW c \in TwoCalls, Dimmer!TurnOff(c) PROVE DimmerInv'
  <2>1. 0 \in Dimmer!Byte
    BY DEF Dimmer!Byte
  <2> QED
    BY <1>2, <2>1, DimmerSend DEF Dimmer!TurnOff
<1>3. ASSUME NEW c \in TwoCalls,
             Dimmer!Acknowledged(c) \/ Dimmer!NotAcknowledged(c) PROVE DimmerInv'
  BY <1>3, DimmerReturn
<1>4. ASSUME NEW c \in TwoCalls, Dimmer!Apply(c) PROVE DimmerInv'
  BY <1>4, DimmerApply
<1>5. ASSUME NEW r \in feedbacks, Dimmer!HandleEvent(r) PROVE DimmerInv'
  BY <1>5, DimmerEvent
<1>6. ASSUME NEW r \in feedbacks, Dimmer!Lose(r) PROVE DimmerInv'
  BY <1>6 DEF Dimmer!Lose, DimmerInv, Dimmer!TypeOK, DimmerTold, Dimmer!InFlight
<1>7. CASE Dimmer!WriteState \/ UNCHANGED Dimmer!vars
  BY <1>7 DEF Dimmer!WriteState, Dimmer!vars, DimmerInv, Dimmer!TypeOK, DimmerTold,
              Dimmer!InFlight, Dimmer!Stands, DimmerTells
<1>8. ASSUME NEW v \in Walls,
             NEW kind \in {"control_response", "update_response", "binary_feedback"},
             Dimmer!Wall(v, kind)
      PROVE  DimmerInv'
  BY <1>8, DimmerWall
<1> QED
  BY <1>1, <1>2, <1>3, <1>4, <1>5, <1>6, <1>7, <1>8 DEF Dimmer!Next

\* Sending a light the brightness it is shown with never brightens the lamp, and
\* darkens it by one percent at most.
LEMMA DimmerDarkens ==
  ASSUME DimmerInv, Dimmer!Next
  PROVE  Dimmer!ResendDarkensByOne
<1> SUFFICES ASSUME NEW c \in TwoCalls, c \in delivered', c \notin delivered,
                    target[c] = brightness, Dimmer!Stands(brightness, actual)
             PROVE  actual' \in {actual, IF actual = 0 THEN 0 ELSE actual - 1}
  BY DEF Dimmer!ResendDarkensByOne
<1>1. Dimmer!Apply(c)
  BY DEF Dimmer!Next, Dimmer!TurnOn, Dimmer!TurnOff, Dimmer!Send, Dimmer!Acknowledged,
         Dimmer!NotAcknowledged, Dimmer!Return, Dimmer!Apply,
         Dimmer!HandleEvent, Dimmer!Lose, Dimmer!WriteState, Dimmer!Wall
<1>2. actual' = Dimmer!ToPercent(brightness) /\ actual \in Dimmer!Percent
  BY <1>1 DEF Dimmer!Apply, Dimmer!Dim, DimmerInv, Dimmer!TypeOK
<1>3. CASE Dimmer!ToPercent(brightness) = actual
  BY <1>2, <1>3
<1>4. CASE Dimmer!ToByte(actual) = brightness
  <2>1. /\ actual' <= actual /\ actual' >= actual - 1 /\ actual' >= 0
        /\ actual \in Nat /\ actual' \in Nat
    BY <1>2, <1>4, ThereAndBack, ConversionsInRange DEF Dimmer!Percent
  <2> QED
    BY <2>1
<1> QED
  BY <1>3, <1>4 DEF Dimmer!Stands

-----------------------------------------------------------------------------
(* Lights of three or four channels. *)
Distinct(s) == \A i, j \in 1..Len(s) : s[i] = s[j] => i = j
From(s, n) == {s[i] : i \in n..Len(s)}
Ahead(c) == From(command[c].todo, IF c \in delivered THEN 2 ELSE 1)
ColorPackets(w) ==
  \A c \in Color(w)!InFlight : command[c].todo # <<>> /\ Distinct(command[c].todo)
ColorExact(w) ==
  color \in Color(w)!Color /\ \A k \in Color(w)!Channel : color[k] = Color(w)!ToByte(level[k])
ColorSending(w, c) ==
  /\ \A r \in feedbacks : r.channel \notin Ahead(c)
  /\ \A k \in Color(w)!Channel \ Ahead(c) :
       level[k] = Color(w)!ToPercent(command[c].color[k])
  /\ wanted \in {"color", "off"} => wanted = IF command[c].on THEN "color" ELSE "off"
ColorTold(w) ==
  /\ color \in Color(w)!Color
  /\ \A k \in Color(w)!Channel :
       color[k] = Color(w)!ToByte(level[k]) \/ \E r \in feedbacks : r.channel = k
  /\ wanted \in {"color", "off"} =>
       ColorExact(w) /\ lit = Color(w)!On(wanted = "color") /\ ~stale
ColorAlone(w) ==
  lone =>
    /\ \A c, d \in Color(w)!InFlight : c = d
    /\ \A r \in feedbacks : r.value = level[r.channel]
    /\ \A c \in Color(w)!InFlight : ColorSending(w, c)
    /\ Color(w)!InFlight = {} => ColorTold(w)
ColorInv(w) ==
  Color(w)!TypeOK /\ delivered \subseteq Color(w)!InFlight /\ ColorPackets(w) /\ ColorAlone(w)

\* The conversions stay in their ranges (src/light.py:171, 232).
LEMMA ColorConversions ==
  ASSUME NEW w \in BOOLEAN
  PROVE  /\ \A b \in Color(w)!Byte : Color(w)!ToPercent(b) \in Color(w)!Percent
         /\ \A v \in Color(w)!Percent : Color(w)!ToByte(v) \in Color(w)!Byte
BY DEF Color!Byte, Color!Percent, Color!ToPercent, Color!ToByte

\* What commands ask for are colours of the light.
LEMMA AskedAreColors ==
  ASSUME NEW w \in BOOLEAN, Color(w)!ConstantsOK
  PROVE  Color(w)!Asked \subseteq Color(w)!Color /\ Color(w)!Black \in Color(w)!Color
<1>1. \A s \in Shades \cup {0} : s \in Color(w)!Byte
  BY DEF Color!ConstantsOK, Color!Byte
<1>2. ASSUME NEW s \in Shades
      PROVE  [k \in Color(w)!Channel |-> IF k = "g" THEN 0 ELSE s] \in Color(w)!Color
  BY <1>1 DEF Color!Color
<1> QED
  BY <1>1, <1>2 DEF Color!Asked, Color!Black, Color!Color

\* A command sends one packet to each channel.
LEMMA EachChannelOnce ==
  ASSUME NEW w \in BOOLEAN, NEW todo \in {Color(w)!Order(TRUE), Color(w)!Order(FALSE)}
  PROVE  /\ todo \in Seq(Color(w)!Channel) /\ todo # <<>>
         /\ Distinct(todo) /\ Color(w)!Channel \subseteq From(todo, 1)
<1> USE DEF Distinct, From
<1>1. CASE w
  <2>1. todo = <<"r", "g", "b", "w">> /\ Color(w)!Channel = {"r", "g", "b", "w"}
    BY <1>1 DEF Color!Order, Color!Channel
  <2>2. /\ Len(todo) = 4 /\ todo \in Seq(Color(w)!Channel) /\ todo # <<>>
        /\ todo[1] = "r" /\ todo[2] = "g" /\ todo[3] = "b" /\ todo[4] = "w"
    BY <2>1
  <2>3. \A i \in 1..4 : i = 1 \/ i = 2 \/ i = 3 \/ i = 4
    OBVIOUS
  <2> QED
    BY <2>1, <2>2, <2>3
<1>2. CASE ~w
  <2>1. todo \in {<<"r", "g", "b">>, <<"g", "r", "b">>} /\ Color(w)!Channel = {"r", "g", "b"}
    BY <1>2 DEF Color!Order, Color!Channel
  <2>2. /\ Len(todo) = 3 /\ todo \in Seq(Color(w)!Channel) /\ todo # <<>>
        /\ \/ todo[1] = "r" /\ todo[2] = "g" /\ todo[3] = "b"
           \/ todo[1] = "g" /\ todo[2] = "r" /\ todo[3] = "b"
    <3>1. CASE todo = <<"r", "g", "b">>
      BY <2>1, <3>1
    <3>2. CASE todo = <<"g", "r", "b">>
      BY <2>1, <3>2
    <3> QED
      BY <2>1, <3>1, <3>2
  <2>3. \A i \in 1..3 : i = 1 \/ i = 2 \/ i = 3
    OBVIOUS
  <2> QED
    BY <2>1, <2>2, <2>3
<1> QED
  BY <1>1, <1>2

\* The packets left when one has been answered.
LEMMA NextIsAhead ==
  ASSUME NEW S, NEW todo \in Seq(S), Len(todo) > 1, Distinct(todo)
  PROVE  /\ Tail(todo) \in Seq(S) /\ Tail(todo) # <<>>
         /\ Distinct(Tail(todo)) /\ From(Tail(todo), 1) = From(todo, 2)
<1> DEFINE rest == Tail(todo)
<1>1. rest \in Seq(S) /\ Len(rest) = Len(todo) - 1 /\ \A i \in 1..Len(rest) : rest[i] = todo[i + 1]
  OBVIOUS
<1>2. Len(todo) \in Nat /\ Len(rest) \in Nat /\ Len(rest) > 0
  BY <1>1
<1> HIDE DEF rest
<1>3. rest # <<>>
  BY <1>2
<1>4. Distinct(rest)
  BY <1>1, <1>2 DEF Distinct
<1>5. \A i \in 2..Len(todo) : i - 1 \in 1..Len(rest) /\ todo[i] = rest[i - 1]
  BY <1>1, <1>2
<1>6. \A i \in 1..Len(rest) : i + 1 \in 2..Len(todo)
  BY <1>1, <1>2
<1>7. From(rest, 1) = From(todo, 2)
  <2>1. \A x \in From(rest, 1) : x \in From(todo, 2)
    BY <1>1, <1>6 DEF From
  <2>2. \A x \in From(todo, 2) : x \in From(rest, 1)
    BY <1>5 DEF From
  <2> QED
    BY <2>1, <2>2
<1> QED
  BY <1>1, <1>3, <1>4, <1>7 DEF rest

\* A light is created without a colour, over a module at rest.
LEMMA ColorInit ==
  ASSUME NEW w \in BOOLEAN, Color(w)!ConstantsOK, Color(w)!Init
  PROVE  ColorInv(w)
<1> USE DEF Color!ConstantsOK, Color!Init
<1>1. Color(w)!TypeOK
  <2>1. /\ color \in Color(w)!Color \cup {None} /\ lit \in Color(w)!Lit
        /\ wanted \in {None, "off", "on", "color"}
    BY DEF Color!Lit
  <2>2. level \in [Color(w)!Channel -> Color(w)!Percent]
    BY DEF Color!Percent
  <2>3. command \in [CallsOf(w) -> Color(w)!Command \cup {None}]
    OBVIOUS
  <2> QED
    BY <2>1, <2>2, <2>3 DEF Color!TypeOK
<1>2. Color(w)!InFlight = {}
  BY DEF Color!InFlight
<1> QED
  BY <1>1, <1>2 DEF ColorInv, ColorPackets, ColorAlone

\* What a command in flight is.
LEMMA ColorCommand ==
  ASSUME NEW w \in BOOLEAN, Color(w)!TypeOK, NEW c \in Color(w)!InFlight
  PROVE  /\ c \in CallsOf(w) /\ command[c] \in Color(w)!Command
         /\ command[c].on \in BOOLEAN /\ command[c].color \in Color(w)!Color
         /\ command[c].todo \in Seq(Color(w)!Channel)
BY DEF Color!InFlight, Color!TypeOK, Color!Command

\* The steps of the light keep its types, its commands their packets.
LEMMA ColorTypes ==
  ASSUME NEW w \in BOOLEAN, Color(w)!ConstantsOK, Color(w)!TypeOK,
         delivered \subseteq Color(w)!InFlight, ColorPackets(w), Color(w)!Next
  PROVE  Color(w)!TypeOK' /\ delivered' \subseteq Color(w)!InFlight' /\ ColorPackets(w)'
<1> DEFINE Kept == Color(w)!TypeOK /\ delivered \subseteq Color(w)!InFlight /\ ColorPackets(w)
<1> SUFFICES Kept'
  OBVIOUS
<1>a. /\ Color(w)!Black \in Color(w)!Color
      /\ None \notin Color(w)!Color /\ None \notin Color(w)!Command
  BY DEF Color!Black, Color!Color, Color!Byte, Color!ConstantsOK
<1>b. ASSUME UNCHANGED <<command, delivered>>,
             UNCHANGED <<level, feedbacks>> \/ (level' \in [Color(w)!Channel -> Color(w)!Percent]
                                                 /\ feedbacks' \in SUBSET Color(w)!Report),
             color' \in Color(w)!Color \cup {None}, mutable' \in BOOLEAN, lit' \in Color(w)!Lit,
             flags' \in SUBSET Color(w)!Channel, stale' \in BOOLEAN,
             wanted' \in {None, "off", "on", "color"}, lone' \in BOOLEAN
      PROVE  Kept'
  BY <1>b DEF Color!TypeOK, Color!InFlight, ColorPackets
<1>1. CASE Color(w)!AddedToHass \/ Color(w)!TurnOnPlain \/ Color(w)!OfflineDevice \/ Color(w)!Poll
  BY <1>1, <1>a, <1>b
     DEF Color!AddedToHass, Color!TurnOnPlain, Color!OfflineDevice, Color!Poll,
         Color!WriteState,
         Color!DoNotWrite, Color!device, Color!commands, Color!TypeOK, Color!Lit
<1>2. ASSUME NEW c \in CallsOf(w), NEW on \in BOOLEAN, NEW asked \in Color(w)!Color,
             Color(w)!Send(c, on, asked)
      PROVE  Kept'
  <2> DEFINE cmd == [on |-> on, color |-> asked, todo |-> Color(w)!Order(on)]
  <2>1. cmd \in Color(w)!Command /\ cmd.todo = Color(w)!Order(on)
    BY EachChannelOnce DEF Color!Command
  <2> HIDE DEF cmd
  <2>2. /\ command' = [command EXCEPT ![c] = cmd] /\ c \notin Color(w)!InFlight
        /\ wanted' \in {"color", "off"} /\ lone' \in BOOLEAN
        /\ UNCHANGED <<color, mutable, lit, flags, stale, delivered, level, feedbacks>>
    BY <1>2 DEF Color!Send, Color!device, Color!Quiet, cmd
  <2>3. Color(w)!TypeOK'
    BY <2>1, <2>2 DEF Color!TypeOK
  <2>4. /\ Color(w)!InFlight' = Color(w)!InFlight \cup {c}
        /\ command'[c] = cmd /\ \A d \in CallsOf(w) \ {c} : command'[d] = command[d]
    BY <2>1, <2>2, <1>a DEF Color!TypeOK, Color!InFlight
  <2>5. ColorPackets(w)'
    <3>1. cmd.todo # <<>> /\ Distinct(cmd.todo)
      <4> DEFINE todo == cmd.todo
      <4>1. todo \in {Color(w)!Order(TRUE), Color(w)!Order(FALSE)}
        BY <2>1
      <4> HIDE DEF todo
      <4>2. todo # <<>> /\ Distinct(todo)
        BY <4>1, EachChannelOnce
      <4> QED
        BY <4>2 DEF todo
    <3>2. \A d \in Color(w)!InFlight : d \in CallsOf(w)
      BY DEF Color!InFlight
    <3> QED
      BY <2>4, <3>1, <3>2 DEF ColorPackets
  <2> QED
    BY <2>2, <2>3, <2>4, <2>5
<1>3. ASSUME NEW c \in CallsOf(w), Color(w)!NextPacket(c) PROVE Kept'
  <2> DEFINE cmd == [command[c] EXCEPT !.todo = Tail(@)]
  <2>1. /\ c \in Color(w)!InFlight /\ Len(command[c].todo) > 1
        /\ command' = [command EXCEPT ![c] = cmd] /\ delivered' = delivered \ {c}
        /\ lone' \in BOOLEAN
        /\ UNCHANGED <<color, mutable, lit, flags, stale, level, feedbacks, wanted>>
    BY <1>3 DEF Color!NextPacket, Color!device, Color!TypeOK
  <2>2. /\ cmd \in Color(w)!Command /\ cmd.todo = Tail(command[c].todo) /\ cmd.todo # <<>>
        /\ Distinct(cmd.todo)
    <3>1. command[c].todo \in Seq(Color(w)!Channel) /\ command[c] \in Color(w)!Command
      BY <2>1, ColorCommand
    <3>2. /\ Tail(command[c].todo) \in Seq(Color(w)!Channel) /\ Tail(command[c].todo) # <<>>
          /\ Distinct(Tail(command[c].todo))
      BY <2>1, <3>1, NextIsAhead DEF ColorPackets
    <3>3. cmd \in Color(w)!Command /\ cmd.todo = Tail(command[c].todo)
      BY <3>1, <3>2 DEF Color!Command
    <3> QED
      BY <3>2, <3>3
  <2> HIDE DEF cmd
  <2>3. Color(w)!TypeOK'
    BY <2>1, <2>2 DEF Color!TypeOK
  <2>4. /\ Color(w)!InFlight' = Color(w)!InFlight
        /\ command'[c] = cmd /\ \A d \in CallsOf(w) \ {c} : command'[d] = command[d]
    BY <2>1, <2>2, <1>a DEF Color!TypeOK, Color!InFlight
  <2>5. ColorPackets(w)'
    <3>1. \A d \in Color(w)!InFlight : d \in CallsOf(w)
      BY DEF Color!InFlight
    <3>2. cmd.todo # <<>> /\ Distinct(cmd.todo)
      BY <2>2
    <3> QED
      BY <2>4, <3>1, <3>2 DEF ColorPackets
  <2> QED
    BY <2>1, <2>3, <2>4, <2>5
<1>4. ASSUME NEW c \in CallsOf(w), Color(w)!LastPacket(c) PROVE Kept'
  <2>1. /\ command' = [command EXCEPT ![c] = None] /\ delivered' = delivered \ {c}
        /\ c \in Color(w)!InFlight /\ lone' \in BOOLEAN /\ stale' \in BOOLEAN
        /\ UNCHANGED <<flags, level, feedbacks, wanted>> /\ mutable' = FALSE
    BY <1>4 DEF Color!LastPacket, Color!device, Color!WriteState, Color!TypeOK
  <2>2. color' \in Color(w)!Color /\ lit' \in Color(w)!Lit
    <3>1. \A k \in Color(w)!Channel :
            Color(w)!ToByte(Color(w)!ToPercent(command[c].color[k])) \in Color(w)!Byte
      BY <2>1, ColorCommand, ColorConversions DEF Color!Color
    <3> QED
      BY <1>4, <3>1 DEF Color!LastPacket, Color!Color, Color!Lit, Color!On
  <2>3. Color(w)!TypeOK'
    BY <2>1, <2>2 DEF Color!TypeOK
  <2>4. /\ Color(w)!InFlight' = Color(w)!InFlight \ {c}
        /\ \A d \in CallsOf(w) \ {c} : command'[d] = command[d]
    BY <2>1 DEF Color!TypeOK, Color!InFlight
  <2>5. ColorPackets(w)'
    BY <2>4 DEF ColorPackets, Color!InFlight
  <2> QED
    BY <2>1, <2>3, <2>4, <2>5
<1>5. ASSUME NEW k \in Color(w)!Channel, NEW v \in Color(w)!Percent, Color(w)!Dim(k, v)
      PROVE  /\ level' \in [Color(w)!Channel -> Color(w)!Percent]
             /\ feedbacks' \in SUBSET Color(w)!Report
  BY <1>5 DEF Color!Dim, Color!TypeOK, Color!Report
<1>6. ASSUME NEW c \in CallsOf(w), Color(w)!Apply(c) PROVE Kept'
  <2>1. /\ c \in Color(w)!InFlight /\ delivered' = delivered \cup {c}
        /\ UNCHANGED <<color, mutable, lit, flags, stale, command, wanted, lone>>
    BY <1>6 DEF Color!Apply
  <2>2. /\ Head(command[c].todo) \in Color(w)!Channel
        /\ Color(w)!ToPercent(command[c].color[Head(command[c].todo)]) \in Color(w)!Percent
    <3>1. Head(command[c].todo) \in Color(w)!Channel
      BY <2>1, ColorCommand DEF ColorPackets
    <3> QED
      BY <2>1, <3>1, ColorCommand, ColorConversions DEF Color!Color
  <2>3. /\ level' \in [Color(w)!Channel -> Color(w)!Percent]
        /\ feedbacks' \in SUBSET Color(w)!Report
    BY <1>5, <1>6, <2>2 DEF Color!Apply
  <2> QED
    BY <2>1, <2>3 DEF Color!TypeOK, Color!InFlight, ColorPackets
<1>7. ASSUME NEW k \in Color(w)!Channel, NEW v \in WallsOf(w), Color(w)!Wall(k,
             v) PROVE Kept'
  <2>1. v \in Color(w)!Percent
    BY DEF Color!ConstantsOK
  <2> QED
    BY <1>5, <1>7, <2>1, <1>b DEF Color!Wall, Color!Quiet, Color!TypeOK
<1>8. ASSUME NEW r \in feedbacks,
             Color(w)!ResponseTooEarly(r) \/ Color(w)!ControlResponse(r) \/ Color(w)!Lose(r)
      PROVE  Kept'
  <2>1. r.channel \in Color(w)!Channel /\ Color(w)!ToByte(r.value) \in Color(w)!Byte
    BY ColorConversions DEF Color!TypeOK, Color!Report
  <2>2. feedbacks' \in SUBSET Color(w)!Report /\ UNCHANGED <<level, command, delivered, wanted, lit>>
    BY <1>8 DEF Color!ResponseTooEarly, Color!ControlResponse, Color!Lose, Color!commands,
                Color!TypeOK
  <2>3. lone' \in BOOLEAN /\ mutable' \in BOOLEAN /\ stale' \in BOOLEAN
    BY <1>8 DEF Color!ResponseTooEarly, Color!ControlResponse, Color!Lose, Color!WriteState,
                Color!DoNotWrite, Color!TypeOK
  <2>4. color' \in Color(w)!Color \cup {None} /\ flags' \in SUBSET Color(w)!Channel
    BY <1>8, <2>1 DEF Color!ResponseTooEarly, Color!ControlResponse, Color!Lose,
                      Color!TypeOK, Color!Color
  <2> QED
    BY <1>b, <2>2, <2>3, <2>4 DEF Color!TypeOK
<1>9. ASSUME NEW k \in Color(w)!Channel \cup {None},
             Color(w)!UpdateResponseRGB(k) PROVE Kept'
  <2>1. color' \in Color(w)!Color
    BY <1>9, <1>a, ColorConversions DEF Color!UpdateResponseRGB, Color!TypeOK, Color!Color
  <2> QED
    BY <1>9, <2>1, <1>b DEF Color!UpdateResponseRGB, Color!TypeOK, Color!Lit,
                            Color!DoNotWrite, Color!device
<1>10. CASE Color(w)!UpdateResponseRGBW
  <2>1. color' \in Color(w)!Color
    BY <1>10, ColorConversions DEF Color!UpdateResponseRGBW, Color!TypeOK, Color!Color
  <2> QED
    BY <1>10, <2>1, <1>b DEF Color!UpdateResponseRGBW, Color!TypeOK, Color!Lit, Color!On,
                             Color!DoNotWrite, Color!device
<1> QED
  <2>1. ASSUME NEW c \in CallsOf(w), NEW a \in Color(w)!Asked, Color(w)!TurnOnColor(c, a)
        PROVE  Kept'
    BY <1>2, <2>1, AskedAreColors DEF Color!TurnOnColor
  <2>2. ASSUME NEW c \in CallsOf(w), Color(w)!TurnOff(c) PROVE Kept'
    BY <1>2, <1>a, <2>2 DEF Color!TurnOff
  <2> QED
    BY <1>1, <1>3, <1>4, <1>6, <1>7, <1>8, <1>9, <1>10, <2>1, <2>2 DEF Color!Next

\* A command in flight alone is the only one, before and after what it does.
LEMMA ColorStays ==
  ASSUME NEW w \in BOOLEAN, UNCHANGED command
  PROVE  Color(w)!InFlight' = Color(w)!InFlight
BY DEF Color!InFlight

\* Before its packet has arrived, a command has that channel ahead of it too.
LEMMA Arrives ==
  ASSUME NEW S, NEW todo \in Seq(S), todo # <<>>, Distinct(todo)
  PROVE  /\ Head(todo) \in From(todo, 1) /\ Head(todo) \notin From(todo, 2)
         /\ From(todo, 2) \subseteq From(todo, 1)
         /\ From(todo, 1) \subseteq From(todo, 2) \cup {Head(todo)}
<1>1. Head(todo) = todo[1] /\ Len(todo) \in Nat /\ Len(todo) >= 1
  OBVIOUS
<1>2. \A i \in 1..Len(todo) : i = 1 \/ i \in 2..Len(todo)
  BY <1>1
<1>3. \A i \in 2..Len(todo) : i \in 1..Len(todo) /\ i # 1
  BY <1>1
<1>4. 1 \in 1..Len(todo)
  BY <1>1
<1> QED
  BY <1>1, <1>2, <1>3, <1>4 DEF From, Distinct

\* An exchange that is alone goes on sending the colour it was asked, and leaves
\* the entity with the colour of the channels, or a report of each that differs.
LEMMA ColorKeepsAlone ==
  ASSUME NEW w \in BOOLEAN, Color(w)!ConstantsOK, ColorInv(w), Color(w)!TypeOK',
         Color(w)!Next
  PROVE  ColorAlone(w)'
<1> USE DEF ColorInv
<1>a. None \notin {"on", "off", "unknown", "color"} /\ None \notin Color(w)!Color
  BY DEF Color!ConstantsOK
<1>b. ASSUME UNCHANGED <<command, delivered>>, lone' => lone
      PROVE  /\ Color(w)!InFlight' = Color(w)!InFlight
             /\ \A c \in Color(w)!InFlight' : Ahead(c)' = Ahead(c)
             /\ lone' => lone /\ \A c, d \in Color(w)!InFlight' : c = d
  BY <1>b, ColorStays DEF Ahead, From, ColorAlone
<1>1. CASE Color(w)!AddedToHass \/ Color(w)!Poll
  <2>1. UNCHANGED <<command, delivered, wanted, level, feedbacks, lone>>
    BY <1>1 DEF Color!AddedToHass, Color!Poll, Color!commands, Color!device
  <2>2. ASSUME lone, Color(w)!InFlight = {} PROVE ColorTold(w)'
    <3>1. Color(w)!Poll
      BY <1>1, <1>a, <2>2 DEF Color!AddedToHass, ColorAlone, ColorTold
    <3> QED
      BY <2>1, <2>2, <3>1
      DEF Color!Poll, Color!WriteState, ColorAlone, ColorTold, ColorExact
  <2> QED
    BY <1>b, <2>1, <2>2 DEF ColorAlone, ColorSending
<1>2. CASE Color(w)!TurnOnPlain
  <2>1. /\ UNCHANGED <<command, delivered, level, feedbacks, color>> /\ wanted' = "on"
        /\ lone' => lone /\ Color(w)!InFlight = {}
    BY <1>2 DEF Color!TurnOnPlain, Color!device, Color!Quiet
  <2>2. lone' => ColorTold(w)'
    BY <2>1 DEF ColorAlone, ColorTold
  <2> QED
    BY <1>b, <2>1, <2>2 DEF ColorAlone
<1>3. ASSUME NEW c \in CallsOf(w), NEW on \in BOOLEAN, NEW asked \in Color(w)!Color,
             Color(w)!Send(c, on, asked)
      PROVE  ColorAlone(w)'
  <2> SUFFICES ASSUME lone' PROVE ColorAlone(w)'
    BY DEF ColorAlone
  <2>1. /\ Color(w)!InFlight = {} /\ feedbacks' = {} /\ delivered' = {}
        /\ wanted' = (IF on THEN "color" ELSE "off")
    BY <1>3 DEF Color!Send, Color!Quiet, Color!device
  <2>2. /\ command'[c].on = on /\ command'[c].todo = Color(w)!Order(on)
        /\ Color(w)!InFlight' \subseteq {c}
    BY <1>3, <2>1 DEF Color!Send, Color!TypeOK, Color!InFlight
  <2>3. c \in Color(w)!InFlight'
    <3>1. [on |-> on, color |-> asked, todo |-> Color(w)!Order(on)] # None
      <4>1. [on |-> on, color |-> asked, todo |-> Color(w)!Order(on)] \in Color(w)!Command
        BY EachChannelOnce DEF Color!Command
      <4>2. None \notin Color(w)!Command
        BY DEF Color!ConstantsOK
      <4> QED
        BY <4>1, <4>2, Zenon
    <3> QED
      BY <1>3, <3>1 DEF Color!Send, Color!TypeOK, Color!InFlight
  <2>4. Color(w)!Channel \subseteq Ahead(c)'
    <3> DEFINE todo == command'[c].todo
    <3>1. todo \in {Color(w)!Order(TRUE), Color(w)!Order(FALSE)}
      BY <2>2
    <3>2. Ahead(c)' = From(todo, 1)
      BY <2>1 DEF Ahead, From
    <3> HIDE DEF todo
    <3>3. Color(w)!Channel \subseteq From(todo, 1)
      BY <3>1, EachChannelOnce
    <3> QED
      BY <3>2, <3>3
  <2>5. ColorSending(w, c)'
    BY <2>1, <2>2, <2>4 DEF ColorSending
  <2> QED
    BY <2>1, <2>2, <2>3, <2>5 DEF ColorAlone
<1>4. ASSUME NEW c \in CallsOf(w), Color(w)!NextPacket(c) PROVE ColorAlone(w)'
  <2> SUFFICES ASSUME lone' PROVE ColorAlone(w)'
    BY DEF ColorAlone
  <2> DEFINE todo == command[c].todo
  <2>1. /\ c \in Color(w)!InFlight /\ Len(todo) > 1 /\ lone /\ c \in delivered
        /\ c \notin delivered' /\ UNCHANGED <<level, feedbacks, wanted>>
    BY <1>4 DEF Color!NextPacket, Color!device
  <2>2. /\ command'[c].on = command[c].on /\ command'[c].color = command[c].color
        /\ command'[c].todo = Tail(todo)
    BY <1>4, <2>1, ColorCommand DEF Color!NextPacket, Color!TypeOK, Color!Command
  <2>3. Color(w)!InFlight' \subseteq Color(w)!InFlight /\ c \in Color(w)!InFlight'
    <3>1. command' = [command EXCEPT ![c] = [command[c] EXCEPT !.todo = Tail(todo)]]
      BY <1>4 DEF Color!NextPacket
    <3>2. command'[c] \in Color(w)!Command
      <4>1. Tail(todo) \in Seq(Color(w)!Channel)
        BY <2>1, ColorCommand
      <4>2. [command[c] EXCEPT !.todo = Tail(todo)] \in Color(w)!Command
        BY <2>1, <4>1, ColorCommand DEF Color!Command
      <4> QED
        BY <2>1, <3>1, <4>2, ColorCommand DEF Color!TypeOK
    <3>3. None \notin Color(w)!Command
      BY DEF Color!ConstantsOK
    <3> QED
      BY <2>1, <3>1, <3>2, <3>3 DEF Color!InFlight, Color!TypeOK
  <2>4. Ahead(c)' = Ahead(c)
    <3>1. todo \in Seq(Color(w)!Channel)
      BY <2>1, ColorCommand
    <3>2. Distinct(todo)
      BY <2>1 DEF ColorPackets
    <3>3. From(Tail(todo), 1) = From(todo, 2)
      BY <2>1, <3>1, <3>2, NextIsAhead
    <3> QED
      BY <2>1, <2>2, <3>3 DEF Ahead, From
  <2>5. ColorSending(w, c)'
    BY <2>1, <2>2, <2>4 DEF ColorAlone, ColorSending
  <2> QED
    BY <2>1, <2>3, <2>5 DEF ColorAlone
<1>5. ASSUME NEW c \in CallsOf(w), Color(w)!LastPacket(c) PROVE ColorAlone(w)'
  <2> SUFFICES ASSUME lone' PROVE ColorAlone(w)'
    BY DEF ColorAlone
  <2>1. /\ c \in Color(w)!InFlight /\ Len(command[c].todo) = 1 /\ lone /\ c \in delivered
        /\ command' = [command EXCEPT ![c] = None]
        /\ color' = [k \in Color(w)!Channel |->
                       Color(w)!ToByte(Color(w)!ToPercent(command[c].color[k]))]
        /\ lit' = Color(w)!On(command[c].on) /\ ~stale'
        /\ UNCHANGED <<level, feedbacks, wanted>>
    BY <1>5 DEF Color!LastPacket, Color!device, Color!WriteState
  <2>2. Ahead(c) = {}
    BY <2>1 DEF Ahead, From
  <2>3. Color(w)!InFlight' = {}
    BY <2>1 DEF Color!InFlight, Color!TypeOK, ColorAlone
  <2>4. \A k \in Color(w)!Channel : level[k] = Color(w)!ToPercent(command[c].color[k])
    BY <2>1, <2>2 DEF ColorAlone, ColorSending
  <2>5. ColorExact(w)'
    <3>1. color' \in Color(w)!Color
      <4>1. \A k \in Color(w)!Channel : Color(w)!ToByte(level[k]) \in Color(w)!Byte
        BY ColorConversions DEF Color!TypeOK
      <4> QED
        BY <2>1, <2>4, <4>1 DEF Color!Color
    <3> QED
      BY <2>1, <2>4, <3>1 DEF ColorExact
  <2>6. wanted' \in {"color", "off"} => lit' = Color(w)!On(wanted' = "color")
    <3>1. command[c].on \in BOOLEAN
      BY <2>1, ColorCommand
    <3>2. wanted \in {"color", "off"} => wanted = IF command[c].on THEN "color" ELSE "off"
      BY <2>1 DEF ColorAlone, ColorSending
    <3> QED
      BY <2>1, <3>1, <3>2 DEF Color!On
  <2>7. ColorTold(w)'
    BY <2>1, <2>5, <2>6 DEF ColorTold, ColorExact
  <2> QED
    BY <2>1, <2>3, <2>7 DEF ColorAlone
<1>6. CASE \/ Color(w)!OfflineDevice
           \/ \E r \in feedbacks : Color(w)!ResponseTooEarly(r) \/ Color(w)!Lose(r)
  BY <1>6 DEF Color!OfflineDevice, Color!ResponseTooEarly, Color!Lose, ColorAlone
<1>7. ASSUME NEW r \in feedbacks, Color(w)!ControlResponse(r) PROVE ColorAlone(w)'
  <2> DEFINE byte == Color(w)!ToByte(r.value)
  <2>1. /\ UNCHANGED <<command, delivered, wanted, level, lone, lit>>
        /\ feedbacks' = feedbacks \ {r}
        /\ color' = [color EXCEPT ![r.channel] = byte]
        /\ stale' => stale \/ <<lit, color>>' # <<lit, color>>
    BY <1>7 DEF Color!ControlResponse, Color!commands, Color!WriteState, Color!DoNotWrite,
                Color!TypeOK
  <2>2. r.channel \in Color(w)!Channel
    BY DEF Color!TypeOK, Color!Report
  <2>3. ASSUME lone, Color(w)!InFlight = {} PROVE ColorTold(w)'
    <3>1. /\ color \in Color(w)!Color /\ byte = Color(w)!ToByte(level[r.channel])
          /\ \A k \in Color(w)!Channel :
               color[k] = Color(w)!ToByte(level[k]) \/ \E s \in feedbacks : s.channel = k
          /\ wanted \in {"color", "off"} =>
               ColorExact(w) /\ lit = Color(w)!On(wanted = "color") /\ ~stale
      BY <2>3 DEF ColorAlone, ColorTold
    <3>2. /\ color' \in Color(w)!Color /\ color'[r.channel] = byte
          /\ \A k \in Color(w)!Channel \ {r.channel} : color'[k] = color[k]
      <4>1. byte \in Color(w)!Byte
        BY ColorConversions DEF Color!TypeOK, Color!Report
      <4> QED
        BY <2>1, <2>2, <3>1, <4>1 DEF Color!Color
    <3>3. \A k \in Color(w)!Channel :
            color'[k] = Color(w)!ToByte(level[k]) \/ \E s \in feedbacks' : s.channel = k
      BY <2>1, <3>1, <3>2
    <3>4. ASSUME wanted \in {"color", "off"} PROVE color' = color
      BY <3>1, <3>2, <3>4 DEF ColorExact, Color!Color
    <3> QED
      BY <2>1, <3>1, <3>2, <3>3, <3>4 DEF ColorTold, ColorExact
  <2> QED
    BY <1>b, <2>1, <2>3 DEF ColorAlone, ColorSending
<1>8. ASSUME NEW k \in Color(w)!Channel \cup {None}, Color(w)!UpdateResponseRGB(k)
      PROVE  ColorAlone(w)'
  <2>1. UNCHANGED <<command, delivered, level, feedbacks, lone>> /\ wanted' = None
    BY <1>8 DEF Color!UpdateResponseRGB, Color!device
  <2>2. ASSUME lone, Color(w)!InFlight = {} PROVE ColorTold(w)'
    <3>1. /\ color \in Color(w)!Color
          /\ \A i \in Color(w)!Channel :
               color[i] = Color(w)!ToByte(level[i]) \/ \E s \in feedbacks : s.channel = i
      BY <2>2 DEF ColorAlone, ColorTold
    <3>2. /\ color' \in Color(w)!Color
          /\ \A i \in Color(w)!Channel : color'[i] \in {color[i], Color(w)!ToByte(level[i])}
      <4>1. color' = IF k = None THEN color
                     ELSE [color EXCEPT ![k] = Color(w)!ToByte(level[k])]
        BY <1>8, <1>a, <3>1 DEF Color!UpdateResponseRGB
      <4>2. \A i \in Color(w)!Channel : Color(w)!ToByte(level[i]) \in Color(w)!Byte
        BY ColorConversions DEF Color!TypeOK
      <4> QED
        BY <3>1, <4>1, <4>2 DEF Color!Color
    <3> QED
      BY <1>a, <2>1, <3>1, <3>2 DEF ColorTold
  <2> QED
    BY <1>a, <1>b, <2>1, <2>2 DEF ColorAlone, ColorSending
<1>9. CASE Color(w)!UpdateResponseRGBW
  <2>1. /\ UNCHANGED <<command, delivered, level, feedbacks, lone>> /\ wanted' = None
        /\ color' = [i \in Color(w)!Channel |-> Color(w)!ToByte(level[i])]
    BY <1>9 DEF Color!UpdateResponseRGBW, Color!device
  <2>2. ColorTold(w)'
    <3>1. \A i \in Color(w)!Channel : Color(w)!ToByte(level[i]) \in Color(w)!Byte
      BY ColorConversions DEF Color!TypeOK
    <3> QED
      BY <1>a, <2>1, <3>1 DEF ColorTold, Color!Color
  <2> QED
    BY <1>a, <1>b, <2>1, <2>2 DEF ColorAlone, ColorSending
<1>10. ASSUME NEW c \in CallsOf(w), Color(w)!Apply(c) PROVE ColorAlone(w)'
  <2> SUFFICES ASSUME lone' PROVE ColorAlone(w)'
    BY DEF ColorAlone
  <2> DEFINE todo == command[c].todo
             k == Head(todo)
             v == Color(w)!ToPercent(command[c].color[k])
             told == [channel |-> k, value |-> v]
  <2>1. /\ c \in Color(w)!InFlight /\ c \notin delivered /\ c \in delivered' /\ lone
        /\ UNCHANGED <<command, wanted>>
        /\ level' = [level EXCEPT ![k] = v] /\ feedbacks' = feedbacks \cup {told}
    BY <1>10 DEF Color!Apply, Color!Dim
  <2>2. told.channel = k /\ told.value = v
    OBVIOUS
  <2>3. /\ k \in Ahead(c) /\ k \notin Ahead(c)' /\ Ahead(c)' \subseteq Ahead(c)
        /\ Ahead(c) \subseteq Ahead(c)' \cup {k} /\ k \in Color(w)!Channel
    <3>1. /\ todo \in Seq(Color(w)!Channel) /\ todo # <<>>
          /\ Distinct(todo)
      BY <2>1, ColorCommand DEF ColorPackets
    <3>2. Ahead(c) = From(todo, 1) /\ Ahead(c)' = From(todo, 2)
      BY <2>1 DEF Ahead, From
    <3>3. k \in Color(w)!Channel
      BY <3>1
    <3> QED
      BY <3>1, <3>2, <3>3, Arrives
  <2> HIDE DEF told, v, k, todo
  <2>4. level'[k] = v /\ \A i \in Color(w)!Channel \ {k} : level'[i] = level[i]
    BY <2>1, <2>3 DEF Color!TypeOK
  <2>5. /\ \A d \in Color(w)!InFlight' : d = c
        /\ \A r \in feedbacks : r.value = level[r.channel] /\ r.channel \notin Ahead(c)
        /\ \A r \in feedbacks : r.channel \in Color(w)!Channel
    BY <2>1, ColorStays DEF ColorAlone, ColorSending, Color!TypeOK, Color!Report
  <2>6. \A r \in feedbacks' : r.value = level'[r.channel] /\ r.channel \notin Ahead(c)'
    BY <2>1, <2>2, <2>3, <2>4, <2>5
  <2>7. ColorSending(w, c)'
    <3>1. \A i \in Color(w)!Channel \ Ahead(c)' :
            level'[i] = Color(w)!ToPercent(command[c].color[i])
      BY <2>1, <2>3, <2>4 DEF ColorAlone, ColorSending, v
    <3> QED
      BY <2>1, <2>6, <3>1 DEF ColorAlone, ColorSending
  <2> QED
    BY <2>1, <2>5, <2>6, <2>7, ColorStays DEF ColorAlone
<1>11. ASSUME NEW k \in Color(w)!Channel, NEW v \in WallsOf(w), Color(w)!Wall(k, v)
       PROVE  ColorAlone(w)'
  <2> SUFFICES ASSUME lone' PROVE ColorAlone(w)'
    BY DEF ColorAlone
  <2> DEFINE told == [channel |-> k, value |-> v]
  <2>1. /\ Color(w)!InFlight = {} /\ feedbacks = {} /\ lone
        /\ UNCHANGED <<command, color>> /\ wanted' = None
        /\ level' = [level EXCEPT ![k] = v] /\ feedbacks' = {told}
    BY <1>11 DEF Color!Wall, Color!Dim, Color!Quiet
  <2>2. told.channel = k /\ told.value = v
    OBVIOUS
  <2> HIDE DEF told
  <2>3. level'[k] = v /\ \A i \in Color(w)!Channel \ {k} : level'[i] = level[i]
    BY <2>1 DEF Color!TypeOK
  <2>4. ColorTold(w)'
    BY <1>a, <2>1, <2>2, <2>3 DEF ColorAlone, ColorTold
  <2> QED
    BY <2>1, <2>2, <2>3, <2>4, ColorStays DEF ColorAlone
<1> QED
  <2>1. ASSUME NEW c \in CallsOf(w), NEW a \in Color(w)!Asked, Color(w)!TurnOnColor(c, a)
        PROVE  ColorAlone(w)'
    BY <1>3, <2>1, AskedAreColors DEF Color!TurnOnColor
  <2>2. ASSUME NEW c \in CallsOf(w), Color(w)!TurnOff(c) PROVE ColorAlone(w)'
    BY <1>3, <2>2, AskedAreColors DEF Color!TurnOff
  <2> QED
    BY <1>1, <1>2, <1>4, <1>5, <1>6, <1>7, <1>8, <1>9, <1>10, <1>11, <2>1, <2>2
    DEF Color!Next

\* So the light agrees with its channels whenever an exchange was alone.
LEMMA ColorAgrees ==
  ASSUME NEW w \in BOOLEAN, ColorInv(w)
  PROVE  Color(w)!LoneExchangeAgrees /\ Color(w)!LoneCommandIsShown
<1> SUFFICES ASSUME Color(w)!Quiet, lone
             PROVE  /\ color = [k \in Color(w)!Channel |-> Color(w)!ToByte(level[k])]
                    /\ wanted \in {"color", "off"}
                         => lit = Color(w)!On(wanted = "color") /\ ~stale
  BY DEF Color!LoneExchangeAgrees, Color!LoneCommandIsShown
<1>1. ColorTold(w) /\ feedbacks = {}
  BY DEF ColorInv, ColorAlone, Color!Quiet
<1> QED
  BY <1>1 DEF ColorTold, Color!Color

-----------------------------------------------------------------------------
(* Floor heaters. *)
KnowsRunning ==
  /\ hvac = IF heater.on THEN "heat" ELSE "off"
  /\ state = IF heater.on THEN "on" ELSE "off"
FloorTold ==
  lone =>
    /\ feedbacks = {} => KnowsRunning /\ (heater.on => target = heater.temp)
    /\ \A r \in feedbacks :
         feedbacks = {r} => r.heater = heater /\ (r.about = "temp" => KnowsRunning)
FloorSetting ==
  lone /\ setting => \A p \in packets : p.temp = None => p.on = heater.on
FloorInv == Floor!TypeOK /\ FloorTold /\ FloorSetting

\* A heater is created shown as heating, unless an update is on its way.
LEMMA FloorInit ==
  ASSUME Floor!ConstantsOK, Floor!Init
  PROVE  FloorInv
<1> USE DEF Floor!ConstantsOK, Floor!Init
<1>1. Floor!TypeOK
  <2>1. settings \in [TwoCalls -> Temps \cup {None}]
    OBVIOUS
  <2>2. [about |-> "all", heater |-> heater] \in Floor!Report
    BY DEF Floor!Report
  <2> QED
    BY <2>1, <2>2 DEF Floor!TypeOK
<1>2. FloorTold
  <2> DEFINE r == [about |-> "all", heater |-> heater]
  <2>1. r.about = "all" /\ r.heater = heater
    OBVIOUS
  <2>2. lone => feedbacks = {r}
    OBVIOUS
  <2> HIDE DEF r
  <2> QED
    BY <2>1, <2>2 DEF FloorTold
<1>3. FloorSetting
  BY DEF FloorSetting
<1> QED
  BY <1>1, <1>2, <1>3 DEF FloorInv

\* The steps of the entity and the module keep their types.
LEMMA FloorTypes ==
  ASSUME Floor!ConstantsOK, Floor!TypeOK, Floor!Next
  PROVE  Floor!TypeOK'
<1> USE DEF Floor!ConstantsOK, Floor!TypeOK, Floor!entity
<1>1. ASSUME NEW m \in {"heat", "off"}, Floor!SetHvacMode(m) PROVE Floor!TypeOK'
  <2>1. Floor!Switch(m # "off") \in Floor!Packet
    BY DEF Floor!Switch, Floor!Packet
  <2> QED
    BY <1>1, <2>1 DEF Floor!SetHvacMode, Floor!Quiet
<1>2. ASSUME NEW c \in TwoCalls, NEW t \in Temps, Floor!SetTemperature(c,
             t) PROVE Floor!TypeOK'
  <2>1. Floor!Switch(state # "off") \in Floor!Packet
    BY DEF Floor!Switch, Floor!Packet
  <2> QED
    BY <1>2, <2>1 DEF Floor!SetTemperature, Floor!Quiet
<1>3. ASSUME NEW c \in TwoCalls, Floor!SecondPacket(c) PROVE Floor!TypeOK'
  <2>1. Floor!SetTo(settings[c]) \in Floor!Packet
    BY <1>3 DEF Floor!SecondPacket, Floor!SetTo, Floor!Packet
  <2> QED
    BY <1>3, <2>1 DEF Floor!SecondPacket
<1>4. ASSUME NEW r \in feedbacks, Floor!HandleEvent(r) PROVE Floor!TypeOK'
  <2>1. r.heater.temp \in Temps
    BY DEF Floor!Report, Floor!Heater
  <2> QED
    BY <1>4, <2>1 DEF Floor!HandleEvent, Floor!Feedback, Floor!Update
<1>5. ASSUME NEW p \in packets, Floor!Apply(p) PROVE Floor!TypeOK'
  <2>1. heater' \in Floor!Heater
    BY <1>5 DEF Floor!Apply, Floor!Heater, Floor!Packet
  <2>2. [about |-> IF p.temp = None THEN "power" ELSE "temp", heater |-> heater'] \in Floor!Report
    BY <2>1 DEF Floor!Report
  <2> QED
    BY <1>5, <2>1, <2>2 DEF Floor!Apply
<1>6. ASSUME NEW h \in Floor!Heater, Floor!Wall(h) PROVE Floor!TypeOK'
  <2>1. [about |-> "all", heater |-> h] \in Floor!Report
    BY DEF Floor!Report
  <2>2. lone' \in BOOLEAN
    BY <1>6 DEF Floor!Wall, Floor!Quiet
  <2> QED
    BY <1>6, <2>1, <2>2 DEF Floor!Wall
<1>7. CASE Floor!Lose
  BY <1>7 DEF Floor!Lose
<1> QED
  BY <1>1, <1>2, <1>3, <1>4, <1>5, <1>6, <1>7 DEF Floor!Next

\* With nothing on the wire the entity knows the heater; the only report on it tells
\* the heater as it is.
LEMMA FloorKnows ==
  ASSUME Floor!ConstantsOK, Floor!TypeOK, FloorTold, Floor!Next
  PROVE  FloorTold'
<1> USE DEF FloorTold, KnowsRunning, Floor!entity
<1>1. CASE (\E m \in {"heat", "off"} : Floor!SetHvacMode(m))
           \/ \E c \in TwoCalls : Floor!SecondPacket(c) \/ \E t \in Temps : Floor!SetTemperature(c, t)
  <2>1. UNCHANGED <<hvac, state, target, heater, feedbacks>> /\ (lone' => lone)
    BY <1>1 DEF Floor!SetHvacMode, Floor!SecondPacket, Floor!SetTemperature, Floor!TypeOK
  <2> QED
    BY <2>1
<1>2. ASSUME NEW r \in feedbacks, Floor!HandleEvent(r) PROVE FloorTold'
  <2> SUFFICES ASSUME lone' PROVE FloorTold'
    OBVIOUS
  <2>1. lone /\ feedbacks = {r} /\ feedbacks' = {} /\ heater' = heater
    BY <1>2 DEF Floor!HandleEvent
  <2>2. r.heater = heater /\ (r.about = "temp" => KnowsRunning)
    BY <2>1
  <2> QED
    BY <1>2, <2>1, <2>2 DEF Floor!HandleEvent, Floor!Feedback, Floor!Update
<1>3. ASSUME NEW p \in packets, Floor!Apply(p) PROVE FloorTold'
  <2> DEFINE r == [about |-> IF p.temp = None THEN "power" ELSE "temp", heater |-> heater']
  <2>1. feedbacks' = feedbacks \cup {r} /\ UNCHANGED <<hvac, state, target, lone>>
    BY <1>3 DEF Floor!Apply
  <2>2. r.heater = heater' /\ (r.about = "temp" => heater'.on = heater.on)
    BY <1>3 DEF Floor!Apply, Floor!TypeOK, Floor!Heater
  <2> HIDE DEF r
  <2>3. ASSUME lone, NEW q \in feedbacks', feedbacks' = {q}
        PROVE  q.heater = heater' /\ (q.about = "temp" => KnowsRunning')
    <3>1. q = r /\ (feedbacks = {} \/ feedbacks = {r})
      BY <2>1, <2>3
    <3>2. r.about = "temp" => KnowsRunning
      BY <2>3, <3>1
    <3> QED
      BY <2>1, <2>2, <3>1, <3>2
  <2> QED
    BY <2>1, <2>3
<1>4. ASSUME NEW h \in Floor!Heater, Floor!Wall(h) PROVE FloorTold'
  <2> DEFINE r == [about |-> "all", heater |-> h]
  <2>1. lone' => feedbacks' = {r} /\ heater' = h
    BY <1>4 DEF Floor!Wall, Floor!Quiet
  <2>2. r.about = "all" /\ r.heater = h
    OBVIOUS
  <2> HIDE DEF r
  <2> QED
    BY <2>1, <2>2
<1>5. CASE Floor!Lose
  BY <1>5 DEF Floor!Lose
<1> QED
  BY <1>1, <1>2, <1>3, <1>4, <1>5 DEF Floor!Next

\* While a temperature is set, the packets that switch carry the state of the heater.
LEMMA FloorSets ==
  ASSUME Floor!ConstantsOK, Floor!TypeOK, FloorTold, FloorSetting, Floor!Next
  PROVE  FloorSetting' /\ Floor!LoneSettingKeepsRunning
<1> USE DEF FloorSetting, Floor!LoneSettingKeepsRunning, Floor!entity
<1>1. CASE Floor!Lose \/ (\E m \in {"heat", "off"} : Floor!SetHvacMode(m))
           \/ \E h \in Floor!Heater : Floor!Wall(h)
  BY <1>1 DEF Floor!Lose, Floor!SetHvacMode, Floor!Wall
<1>2. ASSUME NEW c \in TwoCalls, NEW t \in Temps, Floor!SetTemperature(c, t)
      PROVE  FloorSetting' /\ Floor!LoneSettingKeepsRunning
  <2>1. /\ heater' = heater
        /\ lone' => packets' = {Floor!Switch(state # "off")} /\ lone /\ feedbacks = {}
    BY <1>2 DEF Floor!SetTemperature, Floor!Quiet
  <2>2. lone' => (state # "off") = heater.on
    BY <2>1 DEF FloorTold, KnowsRunning, Floor!TypeOK, Floor!Heater
  <2> QED
    BY <2>1, <2>2 DEF Floor!Switch
<1>3. ASSUME NEW c \in TwoCalls, Floor!SecondPacket(c)
      PROVE  FloorSetting' /\ Floor!LoneSettingKeepsRunning
  BY <1>3 DEF Floor!SecondPacket, Floor!SetTo
<1>4. ASSUME NEW r \in feedbacks, Floor!HandleEvent(r)
      PROVE  FloorSetting' /\ Floor!LoneSettingKeepsRunning
  BY <1>4 DEF Floor!HandleEvent
<1>5. ASSUME NEW p \in packets, Floor!Apply(p)
      PROVE  FloorSetting' /\ Floor!LoneSettingKeepsRunning
  <2>1. packets' = packets \ {p} /\ UNCHANGED <<setting, lone>>
    BY <1>5 DEF Floor!Apply
  <2>2. lone /\ setting => heater'.on = heater.on
    BY <1>5 DEF Floor!Apply, Floor!TypeOK, Floor!Heater, Floor!Packet
  <2> QED
    BY <2>1, <2>2
<1> QED
  BY <1>1, <1>2, <1>3, <1>4, <1>5 DEF Floor!Next

\* So after an exchange that ran alone the entity knows the heater.
LEMMA FloorAgrees ==
  ASSUME FloorInv
  PROVE  Floor!LoneExchangeAgrees
BY DEF FloorInv, FloorTold, KnowsRunning, Floor!LoneExchangeAgrees, Floor!Quiet

-----------------------------------------------------------------------------
(* The fan of the CPU. *)
Obeys ==
  state /\ duty = brightness /\ duty = Fan!Wanted(temperature \div 10)
FanDriven ==
  loaded /\ Fan!Ticking # {} /\ ~Obeys
    => \E s \in Fan!Ticking : dueIn[s] + calm <= Interval
FanInv == Fan!TypeOK /\ FanDriven

\* The fan starts as it does, with no timer running.
LEMMA FanInit ==
  ASSUME Fan!ConstantsOK, Fan!Init
  PROVE  FanInv
<1> USE DEF Fan!ConstantsOK, Fan!Init
<1>1. dueIn \in [CpuSensors -> -1..Interval]
  BY DEF Fan!Never
<1>2. Fan!TypeOK
  <2>1. calm \in 0..Interval + 1
    OBVIOUS
  <2>2. duty \in 0..255 /\ brightness \in 0..255
    BY DEF Fan!Half
  <2> QED
    BY <1>1, <2>1, <2>2 DEF Fan!TypeOK, Fan!Never, Fan!Full
<1> QED
  BY <1>2 DEF FanInv, FanDriven

\* The steps of the fan, the timers and the CPU keep their types.
LEMMA FanTypes ==
  ASSUME Fan!ConstantsOK, Fan!TypeOK, Fan!Next
  PROVE  Fan!TypeOK'
<1> USE DEF Fan!ConstantsOK, Fan!TypeOK, Fan!Never, Fan!Half, Fan!Full, Fan!Wanted,
            Fan!Threshold
<1>1. CASE Fan!SetUp \/ Fan!WillRemoveFromHass \/ Fan!TurnOff
  <2>1. /\ duty' \in {0, 127} /\ brightness' \in {127, brightness}
        /\ state' \in BOOLEAN /\ loaded' \in BOOLEAN /\ calm' \in {0, calm}
        /\ UNCHANGED <<temperature, dueIn>>
    BY <1>1 DEF Fan!SetUp, Fan!WillRemoveFromHass, Fan!TurnOff, Fan!Stops
  <2> QED
    BY <2>1
<1>2. ASSUME NEW s \in CpuSensors, Fan!NewSensor(s) PROVE Fan!TypeOK'
  BY <1>2 DEF Fan!NewSensor
<1>3. ASSUME NEW s \in CpuSensors, Fan!Update(s) PROVE Fan!TypeOK'
  <2>1. /\ dueIn' = [dueIn EXCEPT ![s] = Interval] /\ UNCHANGED <<temperature, loaded, calm>>
        /\ duty' \in {duty, 127, 255} /\ brightness' \in {brightness, 127, 255}
        /\ state' \in BOOLEAN
    <3>1. CASE loaded
      BY <1>3, <3>1 DEF Fan!Update, Fan!HandleOverheatEvent, Fan!Drives
    <3>2. CASE ~loaded
      BY <1>3, <3>2 DEF Fan!Update, Fan!HandleOverheatEvent
    <3> QED
      BY <3>1, <3>2
  <2> QED
    BY <2>1
<1>4. ASSUME NEW b \in Brightnesses, Fan!TurnOn(b) PROVE Fan!TypeOK'
  BY <1>4 DEF Fan!TurnOn, Fan!Drives
<1>5. CASE Fan!Tick
  <2>1. \A s \in CpuSensors : s \in Fan!Ticking => dueIn[s] - 1 \in -1..Interval
    BY <1>5 DEF Fan!Tick, Fan!Ticking
  <2>2. dueIn' \in [CpuSensors -> -1..Interval]
    BY <1>5, <2>1 DEF Fan!Tick
  <2>3. calm' \in 0..Interval + 1
    BY <1>5 DEF Fan!Tick
  <2> QED
    BY <1>5, <2>2, <2>3 DEF Fan!Tick
<1>6. ASSUME NEW t \in CpuTemps, Fan!CpuChanges(t) PROVE Fan!TypeOK'
  BY <1>6 DEF Fan!CpuChanges
<1> QED
  BY <1>1, <1>2, <1>3, <1>4, <1>5, <1>6 DEF Fan!Next

\* As long as the fan does not do what it should, a timer set before the last change
\* is still to fire.
LEMMA FanIsDriven ==
  ASSUME Fan!ConstantsOK, Fan!TypeOK, FanDriven, Fan!Next
  PROVE  FanDriven'
<1> USE DEF FanDriven
<1>1. CASE Fan!SetUp \/ Fan!WillRemoveFromHass \/ Fan!TurnOff \/ \E b \in Brightnesses : Fan!TurnOn(b)
  <2>1. ~loaded' \/ (calm' = 0 /\ dueIn' = dueIn)
    BY <1>1 DEF Fan!SetUp, Fan!WillRemoveFromHass, Fan!TurnOff, Fan!TurnOn
  <2>2. \A s \in CpuSensors : dueIn[s] \in Int /\ dueIn[s] <= Interval
    BY DEF Fan!TypeOK, Fan!Never, Fan!ConstantsOK
  <2> QED
    BY <2>1, <2>2 DEF Fan!Ticking
<1>2. ASSUME NEW s \in CpuSensors, Fan!NewSensor(s) PROVE FanDriven'
  <2>1. /\ dueIn' = [dueIn EXCEPT ![s] = Interval] /\ dueIn[s] = -1
        /\ UNCHANGED <<temperature, duty, brightness, state, loaded>>
    BY <1>2 DEF Fan!NewSensor, Fan!Never
  <2>2. CASE Fan!Ticking = {}
    <3>1. s \in Fan!Ticking' /\ dueIn'[s] + calm' <= Interval
      BY <1>2, <2>1, <2>2 DEF Fan!NewSensor, Fan!Ticking, Fan!TypeOK, Fan!Never,
                              Fan!ConstantsOK
    <3> QED
      BY <3>1
  <2>3. CASE Fan!Ticking # {}
    <3>1. \A t \in Fan!Ticking : t # s /\ dueIn'[t] = dueIn[t] /\ t \in Fan!Ticking'
      BY <2>1 DEF Fan!Ticking, Fan!TypeOK, Fan!Never
    <3>2. calm' = calm /\ (Obeys' = Obeys)
      BY <1>2, <2>1, <2>3 DEF Fan!NewSensor, Obeys
    <3> QED
      BY <2>1, <2>3, <3>1, <3>2
  <2> QED
    BY <2>2, <2>3
<1>3. ASSUME NEW s \in CpuSensors, Fan!Update(s) PROVE FanDriven'
  BY <1>3 DEF Fan!Update, Fan!HandleOverheatEvent, Fan!Drives, Obeys
<1>4. CASE Fan!Tick
  <2>1. UNCHANGED <<temperature, duty, brightness, state, loaded>>
    BY <1>4 DEF Fan!Tick
  <2>2. ASSUME NEW s \in Fan!Ticking, dueIn[s] + calm <= Interval
        PROVE  s \in Fan!Ticking' /\ dueIn'[s] + calm' <= Interval
    <3>1. s \in CpuSensors /\ dueIn[s] \in 1..Interval
      BY <1>4 DEF Fan!Tick, Fan!Ticking, Fan!TypeOK, Fan!Never, Fan!ConstantsOK
    <3>2. dueIn'[s] = dueIn[s] - 1
      BY <1>4, <3>1 DEF Fan!Tick, Fan!TypeOK
    <3>3. calm' = calm + 1
      BY <1>4, <2>2, <3>1 DEF Fan!Tick, Fan!TypeOK, Fan!ConstantsOK
    <3>4. calm \in Nat /\ Interval \in Nat
      BY DEF Fan!TypeOK, Fan!ConstantsOK
    <3> QED
      BY <2>2, <3>1, <3>2, <3>3, <3>4 DEF Fan!Ticking, Fan!Never
  <2>3. Fan!Ticking' # {} => Fan!Ticking # {}
    BY <1>4 DEF Fan!Tick, Fan!Ticking
  <2> QED
    BY <2>1, <2>2, <2>3 DEF Obeys
<1>5. ASSUME NEW t \in CpuTemps, Fan!CpuChanges(t) PROVE FanDriven'
  <2>1. Fan!Ticking' = Fan!Ticking /\ dueIn' = dueIn /\ loaded' = loaded
    BY <1>5 DEF Fan!CpuChanges, Fan!Ticking
  <2>2. CASE Fan!Wanted(t \div 10) = Fan!Wanted(temperature \div 10)
    BY <1>5, <2>1, <2>2 DEF Fan!CpuChanges, Obeys, Fan!Wanted
  <2>3. CASE Fan!Wanted(t \div 10) # Fan!Wanted(temperature \div 10)
    <3>1. calm' = 0
      BY <1>5, <2>3 DEF Fan!CpuChanges
    <3>2. \A s \in Fan!Ticking : dueIn[s] \in Int /\ dueIn[s] <= Interval
      BY DEF Fan!TypeOK, Fan!Never, Fan!ConstantsOK, Fan!Ticking
    <3> QED
      BY <2>1, <3>1, <3>2
  <2> QED
    BY <2>2, <2>3
<1> QED
  BY <1>1, <1>2, <1>3, <1>4, <1>5 DEF Fan!Next

\* So an interval after the last change it does what it should.
LEMMA FanFollowsIt ==
  ASSUME Fan!ConstantsOK, FanInv
  PROVE  Fan!FollowsTemperature
<1> SUFFICES ASSUME loaded, Fan!Ticking # {}, calm > Interval
             PROVE  /\ state /\ duty = brightness
                    /\ duty = IF temperature >= 10 * (Fan!Threshold + 1)
                              THEN Fan!Full ELSE Fan!Half
  BY DEF Fan!FollowsTemperature
<1>1. \A s \in Fan!Ticking : dueIn[s] \in Nat
  BY DEF FanInv, Fan!TypeOK, Fan!Ticking, Fan!Never, Fan!ConstantsOK
<1>2. Obeys
  <2>1. calm \in Nat /\ Interval \in Nat
    BY DEF FanInv, Fan!TypeOK, Fan!ConstantsOK
  <2> QED
    BY <1>1, <2>1 DEF FanInv, FanDriven
<1>3. temperature \in Nat
  BY DEF FanInv, Fan!TypeOK, Fan!ConstantsOK
<1>4. temperature \div 10 > 40 <=> temperature >= 410
  BY <1>3
<1> QED
  BY <1>2, <1>4 DEF Obeys, Fan!Wanted, Fan!Threshold

-----------------------------------------------------------------------------

-----------------------------------------------------------------------------
(* A behaviour of MCAppliances is one of one device; whichever that is, it is also  *)
(* one of LockedPanel, since the panel rests when it is not chosen.          *)
IndInv ==
  /\ ProtectionInv
  /\ device = "dimmer" => DimmerInv
  /\ device = "rgb" => ColorInv(RGB)
  /\ device = "rgbw" => ColorInv(RGBW)
  /\ device = "floor" => FloorInv
  /\ device = "fan" => FanInv

\* A light of several channels keeps its invariant, whatever their number.
LEMMA ColorStep ==
  ASSUME NEW w \in BOOLEAN, Color(w)!ConstantsOK, ColorInv(w), Color(w)!Next
  PROVE  ColorInv(w)'
<1>1. Color(w)!TypeOK' /\ delivered' \subseteq Color(w)!InFlight' /\ ColorPackets(w)'
  BY ColorTypes DEF ColorInv
<1>2. ColorAlone(w)'
  BY <1>1, ColorKeepsAlone
<1> QED
  BY <1>1, <1>2 DEF ColorInv

\* Whatever the device, it starts as its class does.
LEMMA Initially == ApplianceInit => IndInv
<1> SUFFICES ASSUME ApplianceInit PROVE IndInv
  OBVIOUS
<1> USE ApplianceAssumption
<1>1. ProtectionInv
  BY ProtectionInit DEF ApplianceInit, NoPanel
<1>2. CASE device = "panel"
  BY <1>1, <1>2 DEF IndInv
<1>3. CASE device = "dimmer" /\ Dimmer!Init
  BY <1>1, <1>3, DimmerInit DEF IndInv
<1>4. CASE device = "rgb" /\ Color(RGB)!Init
  BY <1>1, <1>4, ColorInit DEF IndInv, RGB
<1>5. CASE device = "rgbw" /\ Color(RGBW)!Init
  BY <1>1, <1>5, ColorInit DEF IndInv, RGBW
<1>6. CASE device = "floor" /\ Floor!Init
  BY <1>1, <1>6, FloorInit DEF IndInv
<1>7. CASE device = "fan" /\ Fan!Init
  BY <1>1, <1>7, FanInit DEF IndInv
<1> QED
  BY <1>2, <1>3, <1>4, <1>5, <1>6, <1>7 DEF ApplianceInit

\* A step is one of the panel and its lock, or leaves them as they are.
LEMMA PanelRests == [ApplianceNext]_allVars => [Next]_vars
  BY DEF ApplianceNext, allVars

\* A step is one of the device's class, and keeps what its class keeps.
LEMMA Step == IndInv /\ [ApplianceNext]_allVars => IndInv'
<1> SUFFICES ASSUME IndInv, [ApplianceNext]_allVars PROVE IndInv'
  OBVIOUS
<1> USE ApplianceAssumption
<1>1. ProtectionInv'
  BY PanelRests, ProtectionStep DEF IndInv
<1>2. CASE device = "panel" /\ device' = device
  BY <1>1, <1>2 DEF IndInv
<1>3. CASE device = "dimmer" /\ device' = device /\ Dimmer!Next
  BY <1>1, <1>3, DimmerStep DEF IndInv
<1>4. CASE device = "rgb" /\ device' = device /\ Color(RGB)!Next
  <2>1. ColorInv(RGB)'
    BY <1>4, ColorStep DEF IndInv, RGB
  <2> QED
    BY <1>1, <1>4, <2>1 DEF IndInv
<1>5. CASE device = "rgbw" /\ device' = device /\ Color(RGBW)!Next
  <2>1. ColorInv(RGBW)'
    BY <1>5, ColorStep DEF IndInv, RGBW
  <2> QED
    BY <1>1, <1>5, <2>1 DEF IndInv
<1>6. CASE device = "floor" /\ device' = device /\ Floor!Next
  <2>1. FloorInv'
    BY <1>6, FloorTypes, FloorKnows, FloorSets DEF IndInv, FloorInv
  <2> QED
    BY <1>1, <1>6, <2>1 DEF IndInv
<1>7. CASE device = "fan" /\ device' = device /\ Fan!Next
  <2>1. FanInv'
    BY <1>7, FanTypes, FanIsDriven DEF IndInv, FanInv
  <2> QED
    BY <1>1, <1>7, <2>1 DEF IndInv
<1>8. CASE UNCHANGED allVars
  <2> USE <1>8 DEF allVars, ofLights, ofDimmer, ofColor, ofFloor, ofFan
  <2>1. DimmerInv => DimmerInv'
    BY DEF DimmerInv, Dimmer!TypeOK, DimmerTold, Dimmer!InFlight, Dimmer!Stands, DimmerTells
  <2>2. ASSUME NEW w \in BOOLEAN PROVE ColorInv(w) => ColorInv(w)'
    <3>1. Color(w)!InFlight' = Color(w)!InFlight
      BY ColorStays
    <3> QED
      BY <3>1 DEF ColorInv, Color!TypeOK, ColorPackets, ColorAlone, ColorSending, ColorTold,
                  ColorExact, Ahead, From, Distinct
  <2>3. FloorInv => FloorInv'
    BY DEF FloorInv, Floor!TypeOK, FloorTold, FloorSetting, KnowsRunning
  <2>4. FanInv => FanInv'
    BY DEF FanInv, Fan!TypeOK, FanDriven, Fan!Ticking, Obeys
  <2> QED
    BY <1>1, <2>1, <2>2, <2>3, <2>4 DEF IndInv, RGB, RGBW
<1> QED
  BY <1>2, <1>3, <1>4, <1>5, <1>6, <1>7, <1>8 DEF ApplianceNext

\* The inductive invariant of the appliances.
THEOREM Invariant == ApplianceSpec => []IndInv
  BY Initially, Step, PTL DEF ApplianceSpec

\* After an exchange that ran alone the entity agrees with its device: the brightness
\* of a dimmed light (src/light.py) stands for the level of its lamp, however often
\* the two were converted into one another; a light of three or four channels has
\* their colour, and is shown on or off as it was commanded; a floor heater
\* (src/climate.py) is known to run, or not, and how warm.
THEOREM LoneExchangesAgree == ApplianceSpec => []ExchangesAgree
<1>1. IndInv => ExchangesAgree
  <2>1. DimmerInv => Dimmer!LoneExchangeAgrees
    BY DEF DimmerInv, DimmerTold, Dimmer!LoneExchangeAgrees, Dimmer!Quiet
  <2>2. FloorInv => Floor!LoneExchangeAgrees
    BY FloorAgrees
  <2> QED
    BY <2>1, <2>2, ColorAgrees DEF ExchangesAgree, IndInv, RGB, RGBW
<1> QED
  BY <1>1, Invariant, PTL

\* The fan of the CPU (src/light.py) does what the temperature asks, at the latest an
\* interval after a user, a setup or the temperature changed that, with any number of
\* sensors and timers.
THEOREM FollowsTheTemperature == ApplianceSpec => []FanFollows
<1>1. IndInv => FanFollows
  BY ApplianceAssumption, FanFollowsIt DEF FanFollows, IndInv
<1> QED
  BY <1>1, Invariant, PTL

\* No order of the events within a service call leaves the panel read only over a
\* lock that is open (src/select.py:76), unless a reload left a task behind.
THEOREM ProtectionFollowsLock == ApplianceSpec => []ReadOnlyOnlyWhileLocked
<1>1. IndInv => ReadOnlyOnlyWhileLocked
  BY DEF IndInv, ProtectionInv
<1> QED
  BY <1>1, Invariant, PTL

\* Lock and panel keep their types.
THEOREM PanelTypeCorrect == ApplianceSpec => []TypeOK
<1>1. IndInv => TypeOK
  BY DEF IndInv, ProtectionInv
<1> QED
  BY <1>1, Invariant, PTL

\* Sending a light the brightness it is shown with (src/light.py) never brightens its
\* lamp, and darkens it by one percent at most.
THEOREM ResendingDarkens == ApplianceSpec => ResendDarkens
<1>1. IndInv /\ [ApplianceNext]_allVars
        => [device = "dimmer" => Dimmer!ResendDarkensByOne]_allVars
  BY DimmerDarkens DEF IndInv, ApplianceNext
<1> QED
  BY <1>1, Invariant, PTL DEF ApplianceSpec, ResendDarkens

\* Setting the temperature of a floor heater (src/climate.py) leaves it on, or off,
\* after exchanges that ran one at a time.
THEOREM SettingKeepsRunning == ApplianceSpec => FloorKeepsRunning
<1>1. IndInv /\ [ApplianceNext]_allVars
        => [device = "floor" => Floor!LoneSettingKeepsRunning]_allVars
  BY ApplianceAssumption, FloorSets DEF IndInv, FloorInv, ApplianceNext
<1> QED
  BY <1>1, Invariant, PTL DEF ApplianceSpec, FloorKeepsRunning

\* On the bus the lock is still the lock of AdminLock (src/lock.py): what is proved of
\* it holds here.
THEOREM LockUnaffected == ApplianceSpec => Lock!Spec
<1>1. ApplianceInit => Lock!Init
  BY DEF ApplianceInit, NoPanel, Init
<1>2. [ApplianceNext]_allVars => [Lock!Next]_(Lock!lockVars)
  BY PanelRests, LockStep DEF lockVars, Lock!lockVars
<1> QED
  BY <1>1, <1>2, PTL DEF ApplianceSpec, Lock!Spec
=============================================================================
