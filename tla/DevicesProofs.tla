---------------------------- MODULE DevicesProofs ----------------------------
(***************************************************************************)
(* Proofs about the device classes, for any number of commands in flight   *)
(* and of reports on the wire, any options, positions, channels, modes and *)
(* temperatures.                                                           *)
(*                                                                         *)
(* What a run checks at the end of an exchange (when all is quiet) is not  *)
(* inductive: the invariants below say what holds while it is under way.   *)
(* An exchange that runs alone is a command that has not been applied,     *)
(* with an empty wire; or one that has, with reports of what it did; or    *)
(* reports only.  Each class of device adds what its entity makes of them. *)
(***************************************************************************)
EXTENDS MCDevices, TLAPS

-----------------------------------------------------------------------------
(* The security panel: what was sent and applied, or is on the wire, is a  *)
(* mode the module has held, and an exchange that is alone is nothing, one *)
(* select, or one feedback.                                                *)
PanelHeld ==
  /\ \A c \in applied : packet[c] # NoPacket /\ packet[c] \in held
  /\ \A m \in Panel!Modes : wire[m] > 0 => m \in held
  /\ Panel!ShownModeWasHeld
PanelAlone ==
  clean =>
    \/ Panel!Quiet /\ option = mode
    \/ /\ \A m \in Panel!Modes : wire[m] = 0
       /\ \E c \in Calls : Panel!InFlight = {c} /\ (c \in applied => mode = packet[c])
    \/ /\ Panel!InFlight = {} /\ mode \in Options
       /\ \A m \in Panel!Modes : wire[m] = IF m = mode THEN 1 ELSE 0
PanelInv == Panel!TypeOK /\ PanelHeld /\ PanelAlone

\* A panel that is created shows Disarm, and says nothing of the module yet.
LEMMA PanelInit ==
  ASSUME Panel!ConstantsOK, Panel!Init
  PROVE  PanelInv
<1> USE DEF Panel!ConstantsOK, Panel!Init, Panel!Modes
<1>1. Panel!TypeOK
  <2>1. packet \in [Calls -> Options \cup {NoPacket}]
    OBVIOUS
  <2>2. wire \in [Panel!Modes -> 0..MaxWire]
    OBVIOUS
  <2> QED
    BY <2>1, <2>2 DEF Panel!TypeOK
<1>2. PanelHeld
  BY DEF PanelHeld, Panel!ShownModeWasHeld
<1>3. PanelAlone
  BY DEF PanelAlone, Panel!Quiet, Panel!InFlight
<1> QED
  BY <1>1, <1>2, <1>3 DEF PanelInv

\* The steps of the panel keep its types.
LEMMA PanelTypes ==
  ASSUME Panel!ConstantsOK, Panel!TypeOK, Panel!Next
  PROVE  Panel!TypeOK'
<1> USE DEF Panel!ConstantsOK, Panel!Modes, Panel!TypeOK, Panel!InFlight
<1>1. ASSUME NEW b \in BOOLEAN, Panel!AdminLockEvent(b) \/ Panel!OtherEvent
      PROVE  Panel!TypeOK'
  BY <1>1 DEF Panel!AdminLockEvent, Panel!OtherEvent, Panel!Protect
<1>2. ASSUME NEW m \in Panel!Modes, Panel!SecurityFeedback(m)
      PROVE  Panel!TypeOK'
  <2>1. wire[m] - 1 \in 0..MaxWire
    BY <1>2 DEF Panel!SecurityFeedback
  <2>2. wire' \in [Panel!Modes -> 0..MaxWire]
    BY <1>2, <2>1 DEF Panel!SecurityFeedback
  <2> QED
    BY <1>2, <2>2 DEF Panel!SecurityFeedback, Panel!Protect
<1>3. ASSUME NEW m \in Panel!Modes, Panel!Keypad(m)
      PROVE  Panel!TypeOK'
  BY <1>3 DEF Panel!Keypad
<1>4. ASSUME NEW m \in Panel!Modes, Panel!LoseFeedback(m)
      PROVE  Panel!TypeOK'
  <2>1. wire[m] - 1 \in 0..MaxWire
    BY <1>4 DEF Panel!LoseFeedback
  <2>2. wire' \in [Panel!Modes -> 0..MaxWire]
    BY <1>4, <2>1 DEF Panel!LoseFeedback
  <2> QED
    BY <1>4, <2>2 DEF Panel!LoseFeedback
<1>5. ASSUME NEW c \in Calls, NEW opt \in Options, Panel!SelectOption(c, opt)
      PROVE  Panel!TypeOK'
  BY <1>5 DEF Panel!SelectOption, Panel!Protect, Panel!Quiet
<1>6. ASSUME NEW c \in Calls, Panel!Acknowledged(c)
      PROVE  Panel!TypeOK'
  BY <1>6 DEF Panel!Acknowledged, Panel!Return, Panel!SetOption, Panel!Protect
<1>7. ASSUME NEW c \in Calls, Panel!NotAcknowledged(c)
      PROVE  Panel!TypeOK'
  BY <1>7 DEF Panel!NotAcknowledged, Panel!Return
<1>8. ASSUME NEW c \in Calls, Panel!Apply(c)
      PROVE  Panel!TypeOK'
  BY <1>8 DEF Panel!Apply
<1>9. CASE Panel!Reload
  BY <1>9 DEF Panel!Reload, Panel!Quiet
<1> QED
  BY <1>1, <1>2, <1>3, <1>4, <1>5, <1>6, <1>7, <1>8, <1>9 DEF Panel!Next

\* What is on its way to the panel, or was applied for it, stays a mode of the past.
LEMMA PanelKeepsHeld ==
  ASSUME Panel!ConstantsOK, Panel!TypeOK, PanelHeld, Panel!Next
  PROVE  PanelHeld'
<1> USE DEF Panel!ConstantsOK, Panel!Modes, Panel!TypeOK, Panel!InFlight,
            PanelHeld, Panel!ShownModeWasHeld
<1>1. ASSUME NEW b \in BOOLEAN, Panel!AdminLockEvent(b) \/ Panel!OtherEvent
      PROVE  PanelHeld'
  BY <1>1 DEF Panel!AdminLockEvent, Panel!OtherEvent
<1>2. ASSUME NEW m \in Panel!Modes, Panel!SecurityFeedback(m)
      PROVE  PanelHeld'
  BY <1>2 DEF Panel!SecurityFeedback
<1>3. ASSUME NEW m \in Panel!Modes, Panel!Keypad(m)
      PROVE  PanelHeld'
  BY <1>3 DEF Panel!Keypad
<1>4. ASSUME NEW m \in Panel!Modes, Panel!LoseFeedback(m)
      PROVE  PanelHeld'
  BY <1>4 DEF Panel!LoseFeedback
<1>5. ASSUME NEW c \in Calls, NEW opt \in Options, Panel!SelectOption(c, opt)
      PROVE  PanelHeld'
  BY <1>5 DEF Panel!SelectOption
<1>6. ASSUME NEW c \in Calls, Panel!Acknowledged(c)
      PROVE  PanelHeld'
  BY <1>6 DEF Panel!Acknowledged, Panel!Return, Panel!SetOption
<1>7. ASSUME NEW c \in Calls, Panel!NotAcknowledged(c)
      PROVE  PanelHeld'
  BY <1>7 DEF Panel!NotAcknowledged, Panel!Return
<1>8. ASSUME NEW c \in Calls, Panel!Apply(c)
      PROVE  PanelHeld'
  BY <1>8 DEF Panel!Apply
<1>9. CASE Panel!Reload
  BY <1>9 DEF Panel!Reload
<1> QED
  BY <1>1, <1>2, <1>3, <1>4, <1>5, <1>6, <1>7, <1>8, <1>9 DEF Panel!Next

\* An exchange of the panel that runs alone stays one of the three.
LEMMA PanelKeepsAlone ==
  ASSUME Panel!ConstantsOK, Panel!TypeOK, PanelHeld, PanelAlone, Panel!Next
  PROVE  PanelAlone'
<1> USE DEF Panel!ConstantsOK, Panel!Modes, Panel!TypeOK, Panel!InFlight,
            PanelAlone, Panel!Quiet
<1>1. ASSUME NEW b \in BOOLEAN, Panel!AdminLockEvent(b) \/ Panel!OtherEvent
      PROVE  PanelAlone'
  BY <1>1 DEF Panel!AdminLockEvent, Panel!OtherEvent
<1>2. ASSUME NEW m \in Panel!Modes, Panel!SecurityFeedback(m)
      PROVE  PanelAlone'
  BY <1>2 DEF Panel!SecurityFeedback
<1>3. ASSUME NEW m \in Panel!Modes, Panel!Keypad(m)
      PROVE  PanelAlone'
  <2> SUFFICES ASSUME Panel!Quiet, m \in Options
               PROVE  /\ Panel!InFlight' = {} /\ mode' \in Options
                      /\ \A n \in Panel!Modes : wire'[n] = IF n = mode' THEN 1 ELSE 0
    BY <1>3 DEF Panel!Keypad
  <2>1. Panel!InFlight' = {} /\ mode' = m
    BY <1>3 DEF Panel!Keypad
  <2>2. \A n \in Panel!Modes : wire'[n] = IF n = m THEN 1 ELSE 0
    BY <1>3 DEF Panel!Keypad
  <2> QED
    BY <2>1, <2>2
<1>4. ASSUME NEW m \in Panel!Modes, Panel!LoseFeedback(m)
      PROVE  PanelAlone'
  BY <1>4 DEF Panel!LoseFeedback
<1>5. ASSUME NEW c \in Calls, NEW opt \in Options, Panel!SelectOption(c, opt)
      PROVE  PanelAlone'
  <2> SUFFICES ASSUME Panel!Quiet
               PROVE  /\ \A m \in Panel!Modes : wire'[m] = 0
                      /\ Panel!InFlight' = {c} /\ (c \in applied' => mode' = packet'[c])
    BY <1>5 DEF Panel!SelectOption
  <2>1. \A m \in Panel!Modes : wire'[m] = 0
    BY <1>5 DEF Panel!SelectOption
  <2>2. Panel!InFlight' = {c}
    BY <1>5 DEF Panel!SelectOption
  <2>3. c \notin applied'
    BY <1>5 DEF Panel!SelectOption, PanelHeld
  <2> QED
    BY <2>1, <2>2, <2>3
<1>6. ASSUME NEW c \in Calls, Panel!Acknowledged(c)
      PROVE  PanelAlone'
  BY <1>6 DEF Panel!Acknowledged, Panel!Return, Panel!SetOption
<1>7. ASSUME NEW c \in Calls, Panel!NotAcknowledged(c)
      PROVE  PanelAlone'
  BY <1>7 DEF Panel!NotAcknowledged, Panel!Return
<1>8. ASSUME NEW c \in Calls, Panel!Apply(c)
      PROVE  PanelAlone'
  BY <1>8 DEF Panel!Apply
<1>9. CASE Panel!Reload
  BY <1>9 DEF Panel!Reload
<1> QED
  BY <1>1, <1>2, <1>3, <1>4, <1>5, <1>6, <1>7, <1>8, <1>9 DEF Panel!Next

-----------------------------------------------------------------------------
(* Switches: the same channel by channel.  A report that is alone on a     *)
(* channel tells its relay, and the command that is alone on it sends what *)
(* no report on the wire is about yet.                                     *)
SwitchesHeld ==
  /\ \A k \in Channels : level[k] \in held[k]
  /\ \A c \in applied : /\ command[c] # Switches!NotSent
                        /\ command[c].level \in held[command[c].channel]
  /\ \A r \in wire : \A k \in Switches!About(r) : r[k] \in held[k]
  /\ Switches!ShownWasHeld
SwitchAlone(k) ==
  clean[k] =>
    /\ \A r \in wire : k \in Switches!About(r) => r[k] = level[k]
    /\ \A c, d \in Switches!InFlight :
         command[c].channel = k /\ command[d].channel = k => c = d
    /\ \A c \in Switches!InFlight :
         command[c].channel = k =>
           IF c \in applied THEN command[c].level = level[k]
                            ELSE \A r \in wire : k \notin Switches!About(r)
    /\ Switches!Quiet(k) => state[k] = level[k]
SwitchesInv == Switches!TypeOK /\ SwitchesHeld /\ \A k \in Channels : SwitchAlone(k)

\* Switches are created unknown, over a module at rest.
LEMMA SwitchesInit ==
  ASSUME Switches!ConstantsOK, Switches!Init
  PROVE  SwitchesInv
<1> USE DEF Switches!ConstantsOK, Switches!Init
<1>1. Switches!TypeOK
  BY DEF Switches!TypeOK, Switches!Level, Switches!Command, Switches!NotSent,
         Switches!Report
<1>2. SwitchesHeld
  BY DEF SwitchesHeld, Switches!ShownWasHeld
<1>3. \A k \in Channels : SwitchAlone(k)
  BY DEF SwitchAlone
<1> QED
  BY <1>1, <1>2, <1>3 DEF SwitchesInv

\* The steps of the module and its switches keep their types.
LEMMA SwitchesTypes ==
  ASSUME Switches!ConstantsOK, Switches!TypeOK, Switches!Next
  PROVE  Switches!TypeOK'
<1> USE DEF Switches!ConstantsOK, Switches!TypeOK, Switches!Level, Switches!Command,
            Switches!NotSent,
            Switches!Report, Switches!InFlight, Switches!About, Switches!ReportOf, Switches!Quiet
<1>1. ASSUME NEW c \in Calls, NEW k \in Channels, NEW v \in Switches!Level,
             Switches!Turn(c, k, v)
      PROVE  Switches!TypeOK'
  BY <1>1 DEF Switches!Turn, Switches!Begin
<1>2. ASSUME NEW c \in Calls, Switches!Acknowledged(c)
      PROVE  Switches!TypeOK'
  BY <1>2 DEF Switches!Acknowledged, Switches!Return
<1>3. ASSUME NEW c \in Calls, Switches!NotAcknowledged(c)
      PROVE  Switches!TypeOK'
  BY <1>3 DEF Switches!NotAcknowledged, Switches!Return
<1>4. ASSUME NEW c \in Calls, Switches!Apply(c)
      PROVE  Switches!TypeOK'
  BY <1>4 DEF Switches!Apply, Switches!Set
<1>5. ASSUME NEW k \in Channels, NEW v \in Switches!Level, Switches!WallSwitch(k, v)
      PROVE  Switches!TypeOK'
  BY <1>5 DEF Switches!WallSwitch, Switches!Set, Switches!Begin
<1>6. ASSUME NEW r \in wire, Switches!Feedback(r)
      PROVE  Switches!TypeOK'
  BY <1>6 DEF Switches!Feedback
<1>7. ASSUME NEW r \in wire, Switches!Lose(r)
      PROVE  Switches!TypeOK'
  BY <1>7 DEF Switches!Lose
<1>8. CASE Switches!ReportAll
  BY <1>8 DEF Switches!ReportAll, Switches!Begin
<1> QED
  BY <1>1, <1>2, <1>3, <1>4, <1>5, <1>6, <1>7, <1>8 DEF Switches!Next

\* What a report or an applied command says of a relay, the relay has been.
LEMMA SwitchesKeepHeld ==
  ASSUME Switches!ConstantsOK, Switches!TypeOK, SwitchesHeld, Switches!Next
  PROVE  SwitchesHeld'
<1> USE DEF Switches!ConstantsOK, Switches!TypeOK, Switches!Level, Switches!Command,
            Switches!NotSent,
            Switches!Report, Switches!InFlight,
            SwitchesHeld, Switches!ShownWasHeld, Switches!About, Switches!ReportOf
<1>1. ASSUME NEW c \in Calls, NEW k \in Channels, NEW v \in Switches!Level,
             Switches!Turn(c, k, v)
      PROVE  SwitchesHeld'
  BY <1>1 DEF Switches!Turn, Switches!Begin
<1>2. ASSUME NEW c \in Calls, Switches!Acknowledged(c)
      PROVE  SwitchesHeld'
  BY <1>2 DEF Switches!Acknowledged, Switches!Return
<1>3. ASSUME NEW c \in Calls, Switches!NotAcknowledged(c)
      PROVE  SwitchesHeld'
  BY <1>3 DEF Switches!NotAcknowledged, Switches!Return
<1>4. ASSUME NEW c \in Calls, Switches!Apply(c)
      PROVE  SwitchesHeld'
  BY <1>4 DEF Switches!Apply, Switches!Set
<1>5. ASSUME NEW k \in Channels, NEW v \in Switches!Level, Switches!WallSwitch(k, v)
      PROVE  SwitchesHeld'
  BY <1>5 DEF Switches!WallSwitch, Switches!Set, Switches!Begin
<1>6. ASSUME NEW r \in wire, Switches!Feedback(r)
      PROVE  SwitchesHeld'
  BY <1>6 DEF Switches!Feedback
<1>7. ASSUME NEW r \in wire, Switches!Lose(r)
      PROVE  SwitchesHeld'
  BY <1>7 DEF Switches!Lose
<1>8. CASE Switches!ReportAll
  BY <1>8 DEF Switches!ReportAll, Switches!Begin
<1> QED
  BY <1>1, <1>2, <1>3, <1>4, <1>5, <1>6, <1>7, <1>8 DEF Switches!Next

\* Whatever happens on the other channels, the exchange of one that runs alone
\* keeps what it says.
LEMMA SwitchesKeepAlone ==
  ASSUME Switches!ConstantsOK, Switches!TypeOK, SwitchesHeld, Switches!Next,
         NEW j \in Channels, SwitchAlone(j)
  PROVE  SwitchAlone(j)'
<1> USE DEF Switches!ConstantsOK, Switches!TypeOK, Switches!Level, Switches!Command,
            Switches!NotSent,
            Switches!Report, Switches!InFlight,
            SwitchAlone, SwitchesHeld, Switches!About, Switches!ReportOf, Switches!Quiet
<1>1. ASSUME NEW c \in Calls, NEW k \in Channels, NEW v \in Switches!Level,
             Switches!Turn(c, k, v)
      PROVE  SwitchAlone(j)'
  BY <1>1 DEF Switches!Turn, Switches!Begin
<1>2. ASSUME NEW c \in Calls, Switches!Acknowledged(c)
      PROVE  SwitchAlone(j)'
  BY <1>2 DEF Switches!Acknowledged, Switches!Return
<1>3. ASSUME NEW c \in Calls, Switches!NotAcknowledged(c)
      PROVE  SwitchAlone(j)'
  BY <1>3 DEF Switches!NotAcknowledged, Switches!Return
<1>4. ASSUME NEW c \in Calls, Switches!Apply(c)
      PROVE  SwitchAlone(j)'
  BY <1>4 DEF Switches!Apply, Switches!Set
<1>5. ASSUME NEW k \in Channels, NEW v \in Switches!Level, Switches!WallSwitch(k, v)
      PROVE  SwitchAlone(j)'
  <2>1. CASE j = k
    <3> SUFFICES ASSUME Switches!Quiet(j) PROVE SwitchAlone(j)'
      BY <1>5, <2>1 DEF Switches!WallSwitch, Switches!Begin
    <3>1. \A c \in Switches!InFlight' : command'[c].channel # j
      BY <1>5 DEF Switches!WallSwitch
    <3>2. \A r \in wire' : j \in Switches!About(r) => r[j] = level'[j]
      BY <1>5, <2>1 DEF Switches!WallSwitch, Switches!Set
    <3>3. ~Switches!Quiet(j)'
      <4>1. Switches!ReportOf(k, v) \in wire'
        BY <1>5 DEF Switches!WallSwitch, Switches!Set
      <4>2. j \in Switches!About(Switches!ReportOf(k, v))
        BY <2>1
      <4> QED
        BY <4>1, <4>2
    <3> QED
      BY <3>1, <3>2, <3>3
  <2>2. CASE j # k
    BY <1>5, <2>2 DEF Switches!WallSwitch, Switches!Set, Switches!Begin
  <2> QED
    BY <2>1, <2>2
<1>6. ASSUME NEW r \in wire, Switches!Feedback(r)
      PROVE  SwitchAlone(j)'
  BY <1>6 DEF Switches!Feedback
<1>7. ASSUME NEW r \in wire, Switches!Lose(r)
      PROVE  SwitchAlone(j)'
  BY <1>7 DEF Switches!Lose
<1>8. CASE Switches!ReportAll
  BY <1>8 DEF Switches!ReportAll, Switches!Begin
<1> QED
  BY <1>1, <1>2, <1>3, <1>4, <1>5, <1>6, <1>7, <1>8 DEF Switches!Next

-----------------------------------------------------------------------------
(* Position covers: what is shown is right, or a command or a full report  *)
(* that will make it right is on its way.                                  *)
PositionShown == position = actual /\ isClosed = (actual = 0)
PositionAlone ==
  clean =>
    /\ \A c, d \in Position!InFlight : c = d
    /\ \A c \in Position!InFlight :
         IF c \in applied THEN target[c] = actual ELSE wire = {}
    /\ \A r \in wire : r.value = actual
    /\ \/ PositionShown \/ Position!InFlight # {}
       \/ \E r \in wire : r.kind = "full"
PositionInv == Position!TypeOK /\ applied \subseteq Position!InFlight
               /\ Position!OpenHasPosition /\ PositionAlone

\* A position cover is created unknown.
LEMMA PositionInit ==
  ASSUME Position!ConstantsOK, Position!Init
  PROVE  PositionInv
<1> USE DEF Position!ConstantsOK, Position!Init
<1>1. Position!TypeOK
  BY DEF Position!TypeOK
<1>2. applied \subseteq Position!InFlight /\ Position!OpenHasPosition
  BY DEF Position!OpenHasPosition
<1>3. PositionAlone
  BY DEF PositionAlone
<1> QED
  BY <1>1, <1>2, <1>3 DEF PositionInv

\* The steps of the cover keep its types, and only commands in flight are applied.
LEMMA PositionTypes ==
  ASSUME Position!ConstantsOK, Position!TypeOK, applied \subseteq Position!InFlight,
         Position!Next
  PROVE  Position!TypeOK' /\ applied' \subseteq Position!InFlight'
<1> USE DEF Position!ConstantsOK, Position!TypeOK, Position!Report, Position!InFlight,
            Position!Quiet
<1>1. ASSUME NEW c \in Calls, NEW p \in Positions, Position!SetPosition(c, p)
      PROVE  Position!TypeOK' /\ applied' \subseteq Position!InFlight'
  BY <1>1 DEF Position!SetPosition
<1>2. ASSUME NEW c \in Calls, Position!Acknowledged(c)
      PROVE  Position!TypeOK' /\ applied' \subseteq Position!InFlight'
  BY <1>2 DEF Position!Acknowledged, Position!Return, Position!Show
<1>3. ASSUME NEW c \in Calls, Position!NotAcknowledged(c)
      PROVE  Position!TypeOK' /\ applied' \subseteq Position!InFlight'
  BY <1>3 DEF Position!NotAcknowledged, Position!Return, Position!Unknown
<1>4. ASSUME NEW c \in Calls, Position!Apply(c)
      PROVE  Position!TypeOK' /\ applied' \subseteq Position!InFlight'
  BY <1>4 DEF Position!Apply, Position!Move
<1>5. ASSUME NEW r \in Position!Report, Position!FullFeedback(r)
      PROVE  Position!TypeOK' /\ applied' \subseteq Position!InFlight'
  BY <1>5 DEF Position!FullFeedback, Position!Show
<1>6. ASSUME NEW r \in Position!Report, Position!BitFeedback(r)
      PROVE  Position!TypeOK' /\ applied' \subseteq Position!InFlight'
  BY <1>6 DEF Position!BitFeedback
<1>7. ASSUME NEW r \in Position!Report, Position!Lose(r)
      PROVE  Position!TypeOK' /\ applied' \subseteq Position!InFlight'
  BY <1>7 DEF Position!Lose
<1>8. ASSUME NEW p \in Positions, NEW kind \in {"full", "bit"}, Position!Wall(p, kind)
      PROVE  Position!TypeOK' /\ applied' \subseteq Position!InFlight'
  BY <1>8 DEF Position!Wall, Position!Move
<1>9. CASE Position!OfflineDevice
  BY <1>9 DEF Position!OfflineDevice, Position!Unknown
<1> QED
  BY <1>1, <1>2, <1>3, <1>4, <1>5, <1>6, <1>7, <1>8, <1>9 DEF Position!Next

\* No step leaves a cover shown open whose position is unknown or 0.
LEMMA PositionKnown ==
  ASSUME Position!ConstantsOK, Position!TypeOK, applied \subseteq Position!InFlight,
         Position!Next,
         Position!OpenHasPosition
  PROVE  Position!OpenHasPosition'
<1> USE DEF Position!ConstantsOK, Position!TypeOK, Position!Report, Position!InFlight,
            Position!OpenHasPosition
<1>1. ASSUME NEW c \in Calls, NEW p \in Positions, Position!SetPosition(c, p)
      PROVE  Position!OpenHasPosition'
  BY <1>1 DEF Position!SetPosition
<1>2. ASSUME NEW c \in Calls, Position!Acknowledged(c)
      PROVE  Position!OpenHasPosition'
  BY <1>2 DEF Position!Acknowledged, Position!Return, Position!Show
<1>3. ASSUME NEW c \in Calls, Position!NotAcknowledged(c)
      PROVE  Position!OpenHasPosition'
  BY <1>3 DEF Position!NotAcknowledged, Position!Return, Position!Unknown
<1>4. ASSUME NEW c \in Calls, Position!Apply(c)
      PROVE  Position!OpenHasPosition'
  BY <1>4 DEF Position!Apply, Position!Move
<1>5. ASSUME NEW r \in Position!Report, Position!FullFeedback(r)
      PROVE  Position!OpenHasPosition'
  BY <1>5 DEF Position!FullFeedback, Position!Show
<1>6. ASSUME NEW r \in Position!Report, Position!BitFeedback(r)
      PROVE  Position!OpenHasPosition'
  BY <1>6 DEF Position!BitFeedback
<1>7. ASSUME NEW r \in Position!Report, Position!Lose(r)
      PROVE  Position!OpenHasPosition'
  BY <1>7 DEF Position!Lose
<1>8. ASSUME NEW p \in Positions, NEW kind \in {"full", "bit"}, Position!Wall(p, kind)
      PROVE  Position!OpenHasPosition'
  BY <1>8 DEF Position!Wall, Position!Move
<1>9. CASE Position!OfflineDevice
  BY <1>9 DEF Position!OfflineDevice, Position!Unknown
<1> QED
  BY <1>1, <1>2, <1>3, <1>4, <1>5, <1>6, <1>7, <1>8, <1>9 DEF Position!Next

\* An exchange of the cover that runs alone ends with what it told.
LEMMA PositionKeepsAlone ==
  ASSUME Position!ConstantsOK, Position!TypeOK, applied \subseteq Position!InFlight,
         Position!Next,
         PositionAlone
  PROVE  PositionAlone'
<1> USE DEF Position!ConstantsOK, Position!TypeOK, Position!Report, Position!InFlight,
            PositionAlone, PositionShown, Position!Quiet
<1>1. ASSUME NEW c \in Calls, NEW p \in Positions, Position!SetPosition(c, p)
      PROVE  PositionAlone'
  BY <1>1 DEF Position!SetPosition
<1>2. ASSUME NEW c \in Calls, Position!Acknowledged(c)
      PROVE  PositionAlone'
  BY <1>2 DEF Position!Acknowledged, Position!Return, Position!Show
<1>3. ASSUME NEW c \in Calls, Position!NotAcknowledged(c)
      PROVE  PositionAlone'
  BY <1>3 DEF Position!NotAcknowledged, Position!Return, Position!Unknown
<1>4. ASSUME NEW c \in Calls, Position!Apply(c)
      PROVE  PositionAlone'
  BY <1>4 DEF Position!Apply, Position!Move
<1>5. ASSUME NEW r \in Position!Report, Position!FullFeedback(r)
      PROVE  PositionAlone'
  BY <1>5 DEF Position!FullFeedback, Position!Show
<1>6. ASSUME NEW r \in Position!Report, Position!BitFeedback(r)
      PROVE  PositionAlone'
  BY <1>6 DEF Position!BitFeedback
<1>7. ASSUME NEW r \in Position!Report, Position!Lose(r)
      PROVE  PositionAlone'
  BY <1>7 DEF Position!Lose
<1>8. ASSUME NEW p \in Positions, NEW kind \in {"full", "bit"}, Position!Wall(p, kind)
      PROVE  PositionAlone'
  <2>1. CASE clean'
    <3>1. /\ Position!InFlight' = {} /\ wire' = {[kind |-> kind, value |-> p]} /\ actual' = p
          /\ kind = "full" \/ (clean /\ p = actual)
      BY <1>8, <2>1 DEF Position!Wall, Position!Move
    <3>2. CASE kind = "full"
      BY <3>1, <3>2
    <3>3. CASE kind # "full"
      <4>1. PositionShown'
        BY <1>8, <3>1, <3>3 DEF Position!Wall, Position!Move
      <4> QED
        BY <3>1, <4>1
    <3> QED
      BY <3>2, <3>3
  <2>2. CASE ~clean'
    BY <2>2
  <2> QED
    BY <2>1, <2>2
<1>9. CASE Position!OfflineDevice
  BY <1>9 DEF Position!OfflineDevice, Position!Unknown
<1> QED
  BY <1>1, <1>2, <1>3, <1>4, <1>5, <1>6, <1>7, <1>8, <1>9 DEF Position!Next

-----------------------------------------------------------------------------
(* Shutters: a stop that is alone is sent to the channel that drives the   *)
(* motor, because what is shown is the direction it was last driven.       *)
ShutterShown == driven # None => lastStatus = driven /\ isClosed = (driven = "down")
ShutterAlone ==
  clean =>
    /\ \A c, d \in Shutter!InFlight : c = d
    /\ \A c \in Shutter!InFlight :
         IF c \in applied THEN packet[c].drive => driven = packet[c].channel
         ELSE /\ wire = {}
              /\ ~packet[c].drive => motor \in {None, packet[c].channel}
    /\ \A p \in wire : p.drive => driven = p.channel
    /\ \/ ShutterShown
       \/ \E c \in Shutter!InFlight : packet[c].drive
       \/ \E p \in wire : p.drive
ShutterInv == Shutter!TypeOK /\ applied \subseteq Shutter!InFlight
              /\ motor \in {None, driven} /\ ShutterAlone

\* A shutter is created unknown, as last driven up.
LEMMA ShutterInit ==
  ASSUME Shutter!ConstantsOK, Shutter!Init
  PROVE  ShutterInv
<1> USE DEF Shutter!ConstantsOK, Shutter!Init
<1>1. Shutter!TypeOK
  BY DEF Shutter!TypeOK, Shutter!Channel, Shutter!Packet, Shutter!NotSent
<1>2. applied \subseteq Shutter!InFlight /\ motor \in {None, driven}
  BY DEF Shutter!InFlight
<1>3. ShutterAlone
  BY DEF ShutterAlone, ShutterShown, Shutter!InFlight
<1> QED
  BY <1>1, <1>2, <1>3 DEF ShutterInv

\* The steps of the shutter keep its types, and its motor runs as last driven.
LEMMA ShutterTypes ==
  ASSUME Shutter!ConstantsOK, Shutter!TypeOK, applied \subseteq Shutter!InFlight,
         motor \in {None, driven},
         Shutter!Next
  PROVE  Shutter!TypeOK' /\ applied' \subseteq Shutter!InFlight' /\ motor' \in {None,
  driven'}
<1> USE DEF Shutter!ConstantsOK, Shutter!TypeOK, Shutter!Channel, Shutter!Packet,
            Shutter!NotSent, Shutter!InFlight, Shutter!Quiet
<1>1. ASSUME NEW c \in Calls, NEW p \in Shutter!Packet, Shutter!Send(c, p)
      PROVE  Shutter!TypeOK' /\ applied' \subseteq Shutter!InFlight' /\ motor' \in {None,
      driven'}
  BY <1>1 DEF Shutter!Send, Shutter!StillClean
<1>2. ASSUME NEW c \in Calls, Shutter!Acknowledged(c)
      PROVE  Shutter!TypeOK' /\ applied' \subseteq Shutter!InFlight' /\ motor' \in {None,
      driven'}
  BY <1>2 DEF Shutter!Acknowledged, Shutter!Return
<1>3. ASSUME NEW c \in Calls, Shutter!NotAcknowledged(c)
      PROVE  Shutter!TypeOK' /\ applied' \subseteq Shutter!InFlight' /\ motor' \in {None,
      driven'}
  BY <1>3 DEF Shutter!NotAcknowledged, Shutter!Return
<1>4. ASSUME NEW c \in Calls, Shutter!Apply(c)
      PROVE  Shutter!TypeOK' /\ applied' \subseteq Shutter!InFlight' /\ motor' \in {None,
      driven'}
  BY <1>4 DEF Shutter!Apply, Shutter!Move
<1>5. ASSUME NEW p \in Shutter!Packet, Shutter!ControlResponse(p)
      PROVE  Shutter!TypeOK' /\ applied' \subseteq Shutter!InFlight' /\ motor' \in {None,
      driven'}
  BY <1>5 DEF Shutter!ControlResponse
<1>6. ASSUME NEW p \in Shutter!Packet, Shutter!WallSwitch(p)
      PROVE  Shutter!TypeOK' /\ applied' \subseteq Shutter!InFlight' /\ motor' \in {None,
      driven'}
  BY <1>6 DEF Shutter!WallSwitch, Shutter!Move, Shutter!StillClean
<1>7. ASSUME NEW p \in Shutter!Packet, Shutter!LoseResponse(p)
      PROVE  Shutter!TypeOK' /\ applied' \subseteq Shutter!InFlight' /\ motor' \in {None,
      driven'}
  BY <1>7 DEF Shutter!LoseResponse
<1>8. CASE Shutter!OtherChannelResponse
  BY <1>8 DEF Shutter!OtherChannelResponse
<1>9. CASE Shutter!EndOfTravel
  BY <1>9 DEF Shutter!EndOfTravel
<1> QED
  BY <1>1, <1>2, <1>3, <1>4, <1>5, <1>6, <1>7, <1>8, <1>9
  DEF Shutter!Next, Shutter!OpenCover, Shutter!CloseCover, Shutter!StopCover

\* An exchange of the shutter that runs alone is about the direction it is driven in.
LEMMA ShutterKeepsAlone ==
  ASSUME Shutter!ConstantsOK, ShutterInv, Shutter!Next
  PROVE  ShutterAlone'
<1> USE DEF Shutter!ConstantsOK, Shutter!TypeOK, Shutter!Channel, Shutter!Packet,
            Shutter!NotSent, Shutter!InFlight, ShutterInv, ShutterAlone, ShutterShown,
            Shutter!Quiet
<1>1. ASSUME NEW c \in Calls,
             Shutter!OpenCover(c) \/ Shutter!CloseCover(c) \/ Shutter!StopCover(c)
      PROVE  ShutterAlone'
  <2>0. PICK q \in Shutter!Packet : Shutter!Send(c, q)
    BY <1>1 DEF Shutter!OpenCover, Shutter!CloseCover, Shutter!StopCover
  <2>1. CASE clean'
    <3>0. /\ \A d \in Calls : packet'[d] # Shutter!NotSent => d = c
          /\ applied' = {} /\ wire' = {} /\ motor' \in {None, driven'}
      BY <2>0, <2>1 DEF Shutter!Send, Shutter!StillClean
    <3>1. \A d \in Shutter!InFlight' : d = c
      BY <3>0
    <3>2. CASE packet'[c].drive
      <4>1. packet'[c] # Shutter!NotSent
        BY <3>2
      <4> QED
        BY <3>0, <3>1, <3>2, <4>1
    <3>3. CASE ~packet'[c].drive
      <4>1. /\ clean /\ Shutter!Quiet
            /\ UNCHANGED <<isClosed, lastStatus, motor, driven>>
        BY <2>0, <2>1, <3>3 DEF Shutter!Send, Shutter!StillClean
      <4>5. ShutterShown
        BY <4>1
      <4>2. packet'[c].channel = IF isClosed = TRUE THEN "down" ELSE "up"
        BY <1>1, <3>3 DEF Shutter!OpenCover, Shutter!CloseCover, Shutter!StopCover,
                          Shutter!Send
      <4>3. motor \in {None, packet'[c].channel}
        BY <4>1, <4>2, <4>5
      <4> QED
        BY <3>0, <3>1, <3>3, <4>1, <4>3, <4>5
    <3> QED
      BY <3>2, <3>3
  <2>2. CASE ~clean'
    BY <2>2
  <2> QED
    BY <2>1, <2>2
<1>2. ASSUME NEW c \in Calls, Shutter!Acknowledged(c)
      PROVE  ShutterAlone'
  <2>1. CASE ~clean
    BY <1>2, <2>1 DEF Shutter!Acknowledged, Shutter!Return
  <2>2. CASE clean
    <3>1. \A d \in Calls : packet[d] # Shutter!NotSent => d = c
      BY <1>2, <2>2 DEF Shutter!Acknowledged, Shutter!Return
    <3>4. Shutter!InFlight' = {}
      BY <1>2, <3>1 DEF Shutter!Acknowledged, Shutter!Return
    <3>2. CASE packet[c].drive
      BY <1>2, <2>2, <3>1, <3>4, <3>2 DEF Shutter!Acknowledged, Shutter!Return
    <3>3. CASE ~packet[c].drive
      BY <1>2, <2>2, <3>1, <3>4, <3>3 DEF Shutter!Acknowledged, Shutter!Return
    <3> QED
      BY <3>2, <3>3
  <2> QED
    BY <2>1, <2>2
<1>3. ASSUME NEW c \in Calls, Shutter!NotAcknowledged(c)
      PROVE  ShutterAlone'
  BY <1>3 DEF Shutter!NotAcknowledged, Shutter!Return
<1>4. ASSUME NEW c \in Calls, Shutter!Apply(c)
      PROVE  ShutterAlone'
  BY <1>4 DEF Shutter!Apply, Shutter!Move
<1>5. ASSUME NEW p \in Shutter!Packet, Shutter!ControlResponse(p)
      PROVE  ShutterAlone'
  BY <1>5 DEF Shutter!ControlResponse
<1>6. ASSUME NEW p \in Shutter!Packet, Shutter!WallSwitch(p)
      PROVE  ShutterAlone'
  BY <1>6 DEF Shutter!WallSwitch, Shutter!Move, Shutter!StillClean
<1>7. ASSUME NEW p \in Shutter!Packet, Shutter!LoseResponse(p)
      PROVE  ShutterAlone'
  BY <1>7 DEF Shutter!LoseResponse
<1>8. CASE Shutter!OtherChannelResponse
  BY <1>8 DEF Shutter!OtherChannelResponse
<1>9. CASE Shutter!EndOfTravel
  BY <1>9 DEF Shutter!EndOfTravel
<1> QED
  BY <1>1, <1>2, <1>3, <1>4, <1>5, <1>6, <1>7, <1>8, <1>9 DEF Shutter!Next

\* So a stop that is alone stops the motor.
LEMMA LoneStops ==
  ASSUME Shutter!ConstantsOK, ShutterInv, Shutter!Next
  PROVE  Shutter!LoneStopStops
<1> SUFFICES ASSUME NEW c \in Calls, c \in applied' \ applied, clean, ~packet[c].drive
             PROVE  motor' = None
  BY DEF Shutter!LoneStopStops
<1>1. Shutter!Apply(c)
  BY DEF Shutter!Next, Shutter!OpenCover, Shutter!CloseCover, Shutter!StopCover,
         Shutter!Send,
         Shutter!Acknowledged, Shutter!NotAcknowledged, Shutter!Return, Shutter!Apply,
         Shutter!ControlResponse, Shutter!WallSwitch, Shutter!LoseResponse,
         Shutter!OtherChannelResponse, Shutter!EndOfTravel
<1>2. motor \in {None, packet[c].channel}
  BY <1>1 DEF Shutter!Apply, ShutterInv, ShutterAlone
<1> QED
  BY <1>1, <1>2 DEF Shutter!Apply, Shutter!Move

-----------------------------------------------------------------------------
(* Air conditioners: each fact the entity is sure of is right, whether or  *)
(* not all is quiet, and a command that is alone and applied has taken     *)
(* effect.                                                                 *)
ACSure ==
  /\ "hvac" \in sure => hvac = IF unit.on THEN AC!Known(unit.mode) ELSE "off"
  /\ "target" \in sure /\ target # None => target = unit.temp
  /\ "bounds" \in sure /\ unit.on /\ unit.mode \in ACModes => bounds = unit.mode
ACTakesEffect(c) ==
  /\ AC!AsksMode(c) => IF command[c].mode = "off" THEN ~unit.on
                       ELSE unit.on /\ unit.mode = command[c].mode
  /\ command[c].temp # None => command[c].temp = unit.temp
ACAlone ==
  IF alone
    THEN /\ \A c, d \in AC!InFlight : c = d
         /\ \A c \in AC!InFlight : IF c \in applied THEN ACTakesEffect(c) ELSE wire = {}
         /\ \A r \in wire : /\ r = AC!Tell(r.about, unit)
                            /\ r.about = "off" => ~unit.on
                            /\ r.about \in {"mode", "temp"} => unit.on
    ELSE sure = {}
ACInv == AC!TypeOK /\ applied \subseteq AC!InFlight /\ ACSure /\ ACAlone

\* An air conditioner is set up with guesses, and sure of none.
LEMMA ACInit ==
  ASSUME AC!ConstantsOK, AC!Init
  PROVE  ACInv
<1> USE DEF AC!ConstantsOK, AC!Init
<1>1. 20 \in Temps
  BY DEF AC!Remembered
<1>2. remembered \in [ACModes -> AC!Temp]
  BY DEF AC!Temp
<1>3. unit \in AC!Unit
  BY <1>1 DEF AC!Unit
<1>4. AC!TypeOK
  BY <1>1, <1>2, <1>3 DEF AC!TypeOK, AC!Shown, AC!Temp, AC!Facts
<1>5. applied \subseteq AC!InFlight
  BY DEF AC!InFlight
<1>6. ACSure /\ ACAlone
  BY DEF ACSure, ACAlone
<1> QED
  BY <1>4, <1>5, <1>6 DEF ACInv

\* What the unit tells is a report about what it is about.
LEMMA ACTellsReport ==
  ASSUME AC!ConstantsOK, NEW u \in AC!Unit, NEW a \in {"off", "on", "temp", "mode", "fan",
         "all"}
  PROVE  AC!Tell(a, u) \in AC!Report /\ AC!Tell(a, u).about = a
BY DEF AC!Tell, AC!Report, AC!Unit, AC!Temp

\* A packet that reaches the unit makes it the unit the command asks for.
LEMMA ACReaches ==
  ASSUME AC!ConstantsOK, AC!TypeOK, NEW c \in Calls, AC!Apply(c)
  PROVE  /\ c \in AC!InFlight \ applied /\ applied' = applied \cup {c}
         /\ unit' = [on |-> IF AC!AsksMode(c) THEN command[c].mode # "off" ELSE unit.on,
                     mode |-> IF AC!AsksMode(c) /\ command[c].mode # "off"
                              THEN command[c].mode ELSE unit.mode,
                     temp |-> IF command[c].temp # None THEN command[c].temp ELSE unit.temp,
                     fan |-> IF AC!AsksFan(c) THEN command[c].fan ELSE unit.fan]
         /\ unit' \in AC!Unit
         /\ wire' = wire \/ wire' = wire \cup {AC!Tell("all", unit')}
         /\ sure' = sure \ AC!Changed(unit')
         /\ UNCHANGED <<hvac, target, fan, bounds, remembered, command, alone>>
<1>1. command[c] \in AC!Command
  BY DEF AC!Apply, AC!InFlight, AC!TypeOK
<1>2. /\ c \in AC!InFlight \ applied /\ applied' = applied \cup {c}
      /\ unit' = [on |-> IF AC!AsksMode(c) THEN command[c].mode # "off" ELSE unit.on,
                  mode |-> IF AC!AsksMode(c) /\ command[c].mode # "off"
                           THEN command[c].mode ELSE unit.mode,
                  temp |-> IF command[c].temp # None THEN command[c].temp ELSE unit.temp,
                  fan |-> IF AC!AsksFan(c) THEN command[c].fan ELSE unit.fan]
      /\ wire' = wire \/ wire' = wire \cup {AC!Tell("all", unit')}
      /\ sure' = sure \ AC!Changed(unit')
      /\ UNCHANGED <<hvac, target, fan, bounds, remembered, command, alone>>
  BY DEF AC!Apply, AC!Become, AC!entity
<1>3. unit' \in AC!Unit
  BY <1>1, <1>2 DEF AC!Unit, AC!Command, AC!Shown, AC!Temp, AC!AsksMode, AC!AsksFan,
                    AC!TypeOK
<1> QED
  BY <1>2, <1>3

\* The steps of the air conditioner keep its types, and only commands in flight are
\* applied.
LEMMA ACTypes ==
  ASSUME AC!ConstantsOK, AC!TypeOK, applied \subseteq AC!InFlight, AC!Next
  PROVE  AC!TypeOK' /\ applied' \subseteq AC!InFlight'
<1> USE DEF AC!ConstantsOK, AC!TypeOK, AC!InFlight
<1>1. ASSUME NEW c \in Calls, NEW m \in AC!Shown, NEW t \in AC!Temp,
             NEW f \in Fans \cup {None},
             AC!Send(c, m, t, f)
      PROVE  AC!TypeOK' /\ applied' \subseteq AC!InFlight'
  <2>1. [mode |-> m, temp |-> t, fan |-> f] \in AC!Command
    BY DEF AC!Command
  <2>2. command' \in [Calls -> AC!Command \cup {None}]
    BY <1>1, <2>1 DEF AC!Send
  <2>3. /\ UNCHANGED <<hvac, target, fan, bounds, remembered, applied, unit, wire>>
        /\ alone' \in BOOLEAN /\ sure' \in SUBSET AC!Facts
    BY <1>1 DEF AC!Send, AC!entity, AC!Quiet
  <2>4. applied' \subseteq AC!InFlight'
    BY <1>1 DEF AC!Send
  <2> QED
    BY <2>2, <2>3, <2>4
<1>2. ASSUME NEW c \in Calls, AC!Acknowledged(c)
      PROVE  AC!TypeOK' /\ applied' \subseteq AC!InFlight'
  <2>1. /\ command' \in [Calls -> AC!Command \cup {None}] /\ applied' \in SUBSET Calls
        /\ applied' \subseteq AC!InFlight' /\ UNCHANGED <<unit, wire, alone>>
    BY <1>2 DEF AC!Acknowledged, AC!Return
  <2>2. command[c].mode \in AC!Shown /\ command[c].temp \in AC!Temp /\ command[c].fan \in Fans \cup {None}
    BY <1>2 DEF AC!Acknowledged, AC!Command
  <2>3. CASE AC!HvacModeSet(c)
    BY <2>1, <2>2, <2>3 DEF AC!HvacModeSet, AC!Learn, AC!Facts, AC!Shown
  <2>4. CASE AC!TemperatureSet(c)
    BY <2>1, <2>2, <2>4 DEF AC!TemperatureSet, AC!Learn, AC!Facts
  <2>5. CASE AC!FanModeSet(c)
    BY <2>1, <2>2, <2>5 DEF AC!FanModeSet
  <2> QED
    BY <1>2, <2>3, <2>4, <2>5 DEF AC!Acknowledged
<1>3. ASSUME NEW c \in Calls, AC!NotAcknowledged(c)
      PROVE  AC!TypeOK' /\ applied' \subseteq AC!InFlight'
  BY <1>3 DEF AC!NotAcknowledged, AC!Return, AC!Shown, AC!Temp
<1>4. ASSUME NEW c \in Calls, AC!Apply(c)
      PROVE  AC!TypeOK' /\ applied' \subseteq AC!InFlight'
  BY <1>4, ACReaches, ACTellsReport
<1>5. ASSUME NEW r \in wire, AC!HandleEvent(r)
      PROVE  AC!TypeOK' /\ applied' \subseteq AC!InFlight'
  <2>1. /\ wire' \in SUBSET AC!Report /\ applied' \subseteq AC!InFlight'
        /\ UNCHANGED <<remembered, command, applied, unit, alone>>
    BY <1>5 DEF AC!HandleEvent
  <2>2. r.mode \in ACModes \cup {"other", None} /\ r.temp \in AC!Temp /\ r.fan \in Fans \cup {None}
    BY DEF AC!Report
  <2>3. CASE AC!Feedback(r)
    BY <2>1, <2>2, <2>3 DEF AC!Feedback, AC!Known, AC!Learn, AC!Facts, AC!Shown
  <2>4. CASE AC!UpdateFeedback(r) \/ AC!UpdateFeedbackUnknown(r) \/ AC!UpdateFeedbackOff(r)
    BY <2>1, <2>2, <2>4 DEF AC!UpdateFeedback, AC!UpdateFeedbackUnknown,
                            AC!UpdateFeedbackOff,
                            AC!Learn, AC!Facts, AC!Shown, AC!Temp
  <2> QED
    BY <1>5, <2>3, <2>4 DEF AC!HandleEvent
<1>6. ASSUME NEW r \in wire, AC!Lose(r)
      PROVE  AC!TypeOK' /\ applied' \subseteq AC!InFlight'
  BY <1>6 DEF AC!Lose, AC!entity
<1>7. ASSUME NEW u \in AC!Unit, NEW a \in {"off", "on", "temp", "mode", "fan", "all"},
             AC!Remote(u, a)
      PROVE  AC!TypeOK' /\ applied' \subseteq AC!InFlight'
  <2>1. AC!Tell(a, u) \in AC!Report
    BY ACTellsReport
  <2> QED
    BY <1>7, <2>1 DEF AC!Remote, AC!Become, AC!entity, AC!Quiet
<1> QED
  <2>1. ASSUME NEW c \in Calls, NEW m \in ACModes \cup {"off"}, AC!SetHvacMode(c, m)
        PROVE  AC!TypeOK' /\ applied' \subseteq AC!InFlight'
    <3>1. m \in AC!Shown /\ (IF m = "off" THEN None ELSE remembered[m]) \in AC!Temp
          /\ None \in Fans \cup {None}
      BY DEF AC!Shown, AC!Temp
    <3> QED
      BY <1>1, <2>1, <3>1 DEF AC!SetHvacMode
  <2>2. ASSUME NEW c \in Calls, NEW t \in Temps, AC!SetTemperature(c, t)
        PROVE  AC!TypeOK' /\ applied' \subseteq AC!InFlight'
    BY <1>1, <2>2 DEF AC!SetTemperature, AC!Shown, AC!Temp
  <2>3. ASSUME NEW c \in Calls, NEW f \in Fans, AC!SetFanMode(c, f)
        PROVE  AC!TypeOK' /\ applied' \subseteq AC!InFlight'
    BY <1>1, <2>3 DEF AC!SetFanMode, AC!Shown, AC!Temp
  <2> QED
    BY <1>2, <1>3, <1>4, <1>5, <1>6, <1>7, <2>1, <2>2, <2>3 DEF AC!Next

\* What is sure stays right: a step that changes the unit makes what changes unsure.
LEMMA ACKeepsSure ==
  ASSUME AC!ConstantsOK, ACInv, AC!Next
  PROVE  ACSure'
<1> USE DEF ACInv
<1>1. ASSUME NEW c \in Calls, NEW m, NEW t, NEW f, AC!Send(c, m, t, f)
      PROVE  ACSure'
  BY <1>1 DEF AC!Send, AC!entity, ACSure
<1>2. ASSUME NEW c \in Calls, AC!Acknowledged(c)
      PROVE  ACSure'
  <2>1. UNCHANGED <<unit, wire, alone>> /\ (alone => ACTakesEffect(c))
    BY <1>2 DEF AC!Acknowledged, AC!Return, ACAlone
  <2>3. CASE AC!HvacModeSet(c)
    <3>1. command[c].mode \in ACModes \cup {"off"}
      BY <1>2, <2>3 DEF AC!Acknowledged, AC!HvacModeSet, AC!AsksMode, AC!Command, AC!Shown,
                        AC!TypeOK, AC!InFlight
    <3> QED
    BY <2>1, <2>3, <3>1 DEF AC!HvacModeSet, AC!Learn, AC!Known, ACSure, ACAlone,
                            ACTakesEffect
  <2>4. CASE AC!TemperatureSet(c)
    BY <2>1, <2>4 DEF AC!TemperatureSet, AC!Learn, ACSure, ACAlone, ACTakesEffect
  <2>5. CASE AC!FanModeSet(c)
    BY <2>1, <2>5 DEF AC!FanModeSet, ACSure
  <2> QED
    BY <1>2, <2>3, <2>4, <2>5 DEF AC!Acknowledged
<1>3. ASSUME NEW c \in Calls, AC!NotAcknowledged(c)
      PROVE  ACSure'
  BY <1>3 DEF AC!NotAcknowledged, ACSure
<1>4. ASSUME NEW c \in Calls, AC!Apply(c)
      PROVE  ACSure'
  <2>1. sure' = sure \ AC!Changed(unit') /\ UNCHANGED <<hvac, target, bounds>>
    BY <1>4, ACReaches
  <2> QED
    BY <2>1 DEF AC!Changed, ACSure, AC!Known
<1>5. ASSUME NEW r \in wire, AC!HandleEvent(r)
      PROVE  ACSure'
  <2>1. UNCHANGED <<unit, alone>>
    BY <1>5 DEF AC!HandleEvent
  <2>2. ASSUME alone
        PROVE  /\ r.on = unit.on
               /\ r.about \in {"temp", "mode"} => unit.on /\ r.mode = unit.mode
               /\ r.about = "temp" => r.temp = unit.temp
               /\ r.about = "all" /\ unit.on => r.mode = unit.mode /\ r.temp = unit.temp
               /\ r.about = "off" => ~unit.on
    <3>1. r = AC!Tell(r.about, unit)
      BY <2>2 DEF ACAlone
    <3> QED
      BY <2>2, <3>1 DEF AC!Tell, ACAlone
  <2>7. ~alone => sure = {}
    BY DEF ACAlone
  <2>3. CASE AC!Feedback(r)
    BY <2>1, <2>2, <2>7, <2>3 DEF AC!Feedback, AC!Known, AC!Learn, ACSure
  <2>4. CASE AC!UpdateFeedback(r)
    BY <2>1, <2>2, <2>7, <2>4 DEF AC!UpdateFeedback, AC!Known, AC!Learn, ACSure
  <2>5. CASE AC!UpdateFeedbackUnknown(r)
    BY <2>1, <2>2, <2>5 DEF AC!UpdateFeedbackUnknown, AC!Known, ACSure, ACAlone
  <2>6. CASE AC!UpdateFeedbackOff(r)
    BY <2>1, <2>2, <2>7, <2>6 DEF AC!UpdateFeedbackOff, AC!Learn, ACSure
  <2> QED
    BY <1>5, <2>3, <2>4, <2>5, <2>6 DEF AC!HandleEvent
<1>6. ASSUME NEW r \in wire, AC!Lose(r)
      PROVE  ACSure'
  BY <1>6 DEF AC!Lose, ACSure
<1>7. ASSUME NEW u \in AC!Unit, NEW a \in {"off", "on", "temp", "mode", "fan", "all"},
             AC!Remote(u, a)
      PROVE  ACSure'
  BY <1>7 DEF AC!Remote, AC!Become, AC!Changed, AC!entity, AC!Known, ACSure
<1> QED
  BY <1>1, <1>2, <1>3, <1>4, <1>5, <1>6, <1>7
  DEF AC!Next, AC!SetHvacMode, AC!SetTemperature, AC!SetFanMode

\* An exchange with the unit that runs alone keeps what it says.
LEMMA ACKeepsAlone ==
  ASSUME AC!ConstantsOK, ACInv, AC!Next
  PROVE  ACAlone'
<1> USE DEF ACInv
<1>1. ASSUME NEW c \in Calls, NEW m, NEW t, NEW f, AC!Send(c, m, t, f)
      PROVE  ACAlone'
  <2>1. CASE AC!Quiet
    <3>1. alone' /\ wire' = {} /\ applied' = {}
      BY <1>1, <2>1 DEF AC!Send, AC!Quiet
    <3>2. \A d \in AC!InFlight' : d = c
      BY <1>1, <2>1 DEF AC!Send, AC!Quiet, AC!InFlight, AC!TypeOK
    <3> QED
      BY <3>1, <3>2 DEF ACAlone
  <2>2. CASE ~AC!Quiet
    BY <1>1, <2>2 DEF AC!Send, ACAlone
  <2> QED
    BY <2>1, <2>2
<1>2. ASSUME NEW c \in Calls, AC!Return(c), alone' => alone, ~alone' => sure' = {}
      PROVE  ACAlone'
  <2>1. CASE alone'
    <3>1. \A d \in Calls : command[d] # None => d = c
      BY <1>2, <2>1 DEF AC!Return, AC!InFlight, ACAlone
    <3>2. AC!InFlight' = {}
      BY <1>2, <3>1 DEF AC!Return, AC!InFlight, AC!TypeOK
    <3>3. UNCHANGED <<unit, wire, alone>>
      BY <1>2 DEF AC!Return
    <3> QED
      BY <2>1, <3>2, <3>3 DEF ACAlone
  <2>2. CASE ~alone'
    BY <1>2, <2>2 DEF ACAlone
  <2> QED
    BY <2>1, <2>2
<1>3. ASSUME NEW c \in Calls, AC!Acknowledged(c)
      PROVE  ACAlone'
  <2>1. AC!Return(c) /\ alone' = alone
    BY <1>3 DEF AC!Acknowledged, AC!Return
  <2>2. ~alone' => sure' = {}
    BY <1>3, <2>1 DEF AC!Acknowledged, AC!HvacModeSet, AC!TemperatureSet, AC!FanModeSet,
                      AC!Learn, ACAlone
  <2> QED
    BY <1>2, <2>1, <2>2
<1>4. ASSUME NEW c \in Calls, AC!NotAcknowledged(c)
      PROVE  ACAlone'
  BY <1>2, <1>4 DEF AC!NotAcknowledged, AC!Return
<1>5. ASSUME NEW c \in Calls, AC!Apply(c)
      PROVE  ACAlone'
  <2>1. CASE alone
    <3>1. wire = {} /\ \A d \in AC!InFlight : d = c
      BY <1>5, <2>1, ACReaches DEF ACAlone
    <3>2. AC!InFlight' = AC!InFlight /\ alone' = alone
      BY <1>5, ACReaches DEF AC!InFlight
    <3>3. ACTakesEffect(c)'
      <4>1. command'[c] = command[c] /\ command[c] \in AC!Command
        BY <1>5, ACReaches DEF AC!InFlight, AC!TypeOK
      <4>2. /\ unit'.on = IF AC!AsksMode(c) THEN command[c].mode # "off" ELSE unit.on
            /\ AC!AsksMode(c) /\ command[c].mode # "off" => unit'.mode = command[c].mode
            /\ command[c].temp # None => unit'.temp = command[c].temp
        BY <1>5, ACReaches
      <4> QED
        BY <4>1, <4>2 DEF ACTakesEffect, AC!AsksMode
    <3>4. \A r \in wire' : r = AC!Tell("all", unit') /\ r.about = "all"
      BY <1>5, <3>1, ACReaches, ACTellsReport
    <3>5. \A d \in AC!InFlight' : d = c /\ ACTakesEffect(d)' /\ d \in applied'
      BY <1>5, <3>1, <3>2, <3>3, ACReaches
    <3> QED
      BY <2>1, <3>2, <3>4, <3>5 DEF ACAlone
  <2>2. CASE ~alone
    BY <1>5, <2>2, ACReaches DEF ACAlone
  <2> QED
    BY <2>1, <2>2
<1>6. ASSUME NEW r \in wire, AC!HandleEvent(r)
      PROVE  ACAlone'
  <2>1. wire' = wire \ {r} /\ UNCHANGED <<command, applied, unit, alone>>
    BY <1>6 DEF AC!HandleEvent
  <2>2. ~alone => sure' = {}
    BY <1>6 DEF AC!HandleEvent, AC!Feedback, AC!UpdateFeedback, AC!UpdateFeedbackUnknown,
                AC!UpdateFeedbackOff, AC!Learn, ACAlone
  <2> QED
    BY <2>1, <2>2 DEF ACAlone, ACTakesEffect, AC!InFlight, AC!AsksMode
<1>7. ASSUME NEW r \in wire, AC!Lose(r)
      PROVE  ACAlone'
  BY <1>7 DEF AC!Lose, ACAlone
<1>8. ASSUME NEW u \in AC!Unit, NEW a \in {"off", "on", "temp", "mode", "fan", "all"},
             AC!Remote(u, a)
      PROVE  ACAlone'
  <2>1. CASE AC!Quiet
    <3>1. /\ wire' = {AC!Tell(a, u)} /\ unit' = u /\ AC!InFlight' = {} /\ alone'
      BY <1>8, <2>1 DEF AC!Remote, AC!Become, AC!Quiet, AC!InFlight
    <3>2. AC!Tell(a, u).about = a
      BY ACTellsReport
    <3>3. (a = "off" => ~u.on) /\ (a \in {"mode", "temp"} => u.on)
      BY <1>8 DEF AC!Remote, AC!TypeOK, AC!Unit
    <3> QED
      BY <3>1, <3>2, <3>3 DEF ACAlone
  <2>2. CASE ~AC!Quiet
    BY <1>8, <2>2 DEF AC!Remote, ACAlone
  <2> QED
    BY <2>1, <2>2
<1> QED
  BY <1>1, <1>3, <1>4, <1>5, <1>6, <1>7, <1>8
  DEF AC!Next, AC!SetHvacMode, AC!SetTemperature, AC!SetFanMode

\* So a temperature set alone is remembered for the mode the unit runs in.
LEMMA ACRemembersForItsMode ==
  ASSUME AC!ConstantsOK, ACInv, AC!Next
  PROVE  AC!RemembersForItsMode
<1> SUFFICES ASSUME NEW c \in Calls, c \in AC!InFlight, c \notin AC!InFlight', alone, "hvac" \in sure,
                    NEW m \in ACModes, remembered'[m] # remembered[m]
             PROVE  unit.on /\ unit.mode = m
  BY DEF AC!RemembersForItsMode
<1>1. PICK d \in Calls : AC!Acknowledged(d) /\ AC!TemperatureSet(d)
  BY DEF AC!Next, AC!SetHvacMode, AC!SetTemperature, AC!SetFanMode, AC!Send,
         AC!NotAcknowledged, AC!Apply,
         AC!HandleEvent, AC!Lose, AC!Remote, AC!Acknowledged, AC!HvacModeSet, AC!FanModeSet
<1>2. m = hvac
  BY <1>1 DEF AC!TemperatureSet, ACInv, AC!TypeOK
<1> QED
  BY <1>2 DEF ACInv, ACSure, AC!Known, AC!ConstantsOK

\* So what was told, alone, is right once all is quiet.
LEMMA ACIsRight ==
  ASSUME AC!ConstantsOK, ACInv
  PROVE  AC!ToldIsRight
<1>1. None \notin ACModes /\ "off" \notin ACModes
  BY DEF AC!ConstantsOK
<1>2. ASSUME "hvac" \in sure, hvac \in ACModes
      PROVE  unit.on /\ unit.mode = hvac
  BY <1>1, <1>2 DEF ACInv, ACSure, AC!Known
<1> QED
  BY <1>2 DEF AC!ToldIsRight, ACInv, ACSure

-----------------------------------------------------------------------------
(* A behaviour of MCDevices is one of one device.                          *)
IndInv ==
  /\ device \in {"panel", "shutter", "position", "switches", "ac", "busy ac"}
  /\ device = "panel" => PanelInv
  /\ device = "switches" => SwitchesInv
  /\ device = "position" => PositionInv
  /\ device = "shutter" => ShutterInv
  /\ AnAC => ACInv

\* Whatever the device, it starts as its class does.
LEMMA Initially == Init => IndInv
<1> SUFFICES ASSUME Init PROVE IndInv
  OBVIOUS
<1> USE DeviceAssumption
<1>1. CASE device = "panel" /\ Panel!Init
  BY <1>1, PanelInit DEF IndInv, AnAC
<1>2. CASE device = "shutter" /\ Shutter!Init
  BY <1>2, ShutterInit DEF IndInv, AnAC
<1>3. CASE device = "position" /\ Position!Init
  BY <1>3, PositionInit DEF IndInv, AnAC
<1>4. CASE device = "switches" /\ Switches!Init
  BY <1>4, SwitchesInit DEF IndInv, AnAC
<1>5. CASE AnAC /\ AC!Init
  BY <1>5, ACInit DEF IndInv, AnAC
<1> QED
  BY <1>1, <1>2, <1>3, <1>4, <1>5 DEF Init

\* A step is one of the device's class, and keeps what its class keeps.
LEMMA Step == IndInv /\ [Next]_vars => IndInv'
<1> SUFFICES ASSUME IndInv, [Next]_vars PROVE IndInv'
  OBVIOUS
<1> USE DeviceAssumption
<1>1. CASE device = "panel" /\ device' = device /\ Panel!Next
  <2>1. PanelInv'
    BY <1>1, PanelTypes, PanelKeepsHeld, PanelKeepsAlone DEF IndInv, PanelInv
  <2> QED
    BY <1>1, <2>1 DEF IndInv, AnAC
<1>2. CASE device = "shutter" /\ device' = device /\ Shutter!Next
  <2>1. ShutterInv'
    BY <1>2, ShutterTypes, ShutterKeepsAlone DEF IndInv, ShutterInv
  <2> QED
    BY <1>2, <2>1 DEF IndInv, AnAC
<1>3. CASE device = "position" /\ device' = device /\ Position!Next
  <2>1. PositionInv'
    BY <1>3, PositionTypes, PositionKnown, PositionKeepsAlone DEF IndInv, PositionInv
  <2> QED
    BY <1>3, <2>1 DEF IndInv, AnAC
<1>4. CASE device = "switches" /\ device' = device /\ Switches!Next
  <2>1. SwitchesInv'
    BY <1>4, SwitchesTypes, SwitchesKeepHeld, SwitchesKeepAlone DEF IndInv, SwitchesInv
  <2> QED
    BY <1>4, <2>1 DEF IndInv, AnAC
<1>5. CASE AnAC /\ device' = device /\ AC!Next
  <2>1. ACInv'
    BY <1>5, ACTypes, ACKeepsSure, ACKeepsAlone DEF IndInv, ACInv
  <2> QED
    BY <1>5, <2>1 DEF IndInv, AnAC
<1>6. CASE UNCHANGED vars
  <2> USE <1>6 DEF vars, ofPanel, ofShutter, ofPosition, ofSwitches, ofAC
  <2>1. PanelInv => PanelInv'
    BY DEF PanelInv, Panel!TypeOK, PanelHeld, Panel!ShownModeWasHeld, PanelAlone,
           Panel!Quiet,
           Panel!InFlight, Panel!Modes
  <2>2. ShutterInv => ShutterInv'
    BY DEF ShutterInv, Shutter!TypeOK, Shutter!InFlight, ShutterAlone, ShutterShown
  <2>3. PositionInv => PositionInv'
    BY DEF PositionInv, Position!TypeOK, Position!InFlight, Position!OpenHasPosition,
           PositionAlone, PositionShown
  <2>4. SwitchesInv => SwitchesInv'
    BY DEF SwitchesInv, Switches!TypeOK, SwitchesHeld, Switches!ShownWasHeld, SwitchAlone,
           Switches!InFlight, Switches!About, Switches!Quiet
  <2>5. ACInv => ACInv'
    BY DEF ACInv, AC!TypeOK, AC!InFlight, ACSure, ACAlone, ACTakesEffect, AC!AsksMode,
           AC!Known
  <2> QED
    BY <2>1, <2>2, <2>3, <2>4, <2>5 DEF IndInv, AnAC
<1> QED
  BY <1>1, <1>2, <1>3, <1>4, <1>5, <1>6 DEF Next

\* The inductive invariant of the devices.
THEOREM Invariant == Spec => []IndInv
  BY Initially, Step, PTL DEF Spec

\* After an exchange that ran alone and lost nothing, the entity agrees with its
\* device: the security panel (src/select.py), position covers (src/cover.py) and
\* switches (src/switch.py), channel by channel.
THEOREM LoneExchangesAgree == Spec => []ExchangesAgree
<1>1. IndInv => ExchangesAgree
  <2>1. ASSUME Panel!ConstantsOK, PanelInv PROVE Panel!LoneExchangeAgrees
    BY <2>1 DEF Panel!LoneExchangeAgrees, PanelInv, PanelAlone, Panel!Quiet, Panel!TypeOK,
                Panel!Modes
  <2>2. PositionInv => Position!LoneExchangeAgrees
    BY DEF Position!LoneExchangeAgrees, PositionInv, PositionAlone, PositionShown,
           Position!Quiet
  <2>3. SwitchesInv => Switches!LoneExchangeAgrees
    BY DEF Switches!LoneExchangeAgrees, SwitchesInv, SwitchAlone
  <2> QED
    BY DeviceAssumption, <2>1, <2>2, <2>3 DEF ExchangesAgree, IndInv
<1> QED
  BY <1>1, Invariant, PTL

\* What is shown is not made up, however packets, acknowledgements and reports are
\* lost and overlap: a panel shows a mode, and a switch a state, that was held; a
\* shutter (after exchanges one at a time) its last drive; an open cover has a
\* position; what an air conditioner (src/climate.py) was told, alone, is right.
THEOREM NothingIsInvented == Spec => []InventsNothing
<1>1. IndInv => InventsNothing
  <2>1. ShutterInv => Shutter!ShowsLastDrive
    BY DEF Shutter!ShowsLastDrive, ShutterInv, ShutterAlone, ShutterShown, Shutter!Quiet
  <2>2. AC!ConstantsOK /\ ACInv => AC!ToldIsRight
    BY ACIsRight
  <2> QED
    BY DeviceAssumption, <2>1, <2>2
    DEF InventsNothing, IndInv, PanelInv, PanelHeld, SwitchesInv, SwitchesHeld, PositionInv
<1> QED
  BY <1>1, Invariant, PTL

\* After exchanges that ran one at a time, stopping a shutter (src/cover.py,
\* TISCoverNoPos) reaches the channel that drives its motor, although the entity
\* only guesses that channel from what it shows.
THEOREM StopsTheMotor == Spec => ShutterStops
<1>1. IndInv /\ [Next]_vars => [device = "shutter" => Shutter!LoneStopStops]_vars
  BY DeviceAssumption, LoneStops DEF IndInv, Next, AnAC
<1> QED
  BY <1>1, Invariant, PTL DEF Spec, ShutterStops

\* A temperature that is set alone is remembered for the mode the unit runs in, and
\* for no other, although it is stored under the mode that is shown when the
\* acknowledgement comes (src/climate.py).
THEOREM RemembersTemperature == Spec => ACRemembers
<1>1. IndInv /\ [Next]_vars => [AnAC => AC!RemembersForItsMode]_vars
  BY DeviceAssumption, ACRemembersForItsMode DEF IndInv, Next, AnAC
<1> QED
  BY <1>1, Invariant, PTL DEF Spec, ACRemembers
=============================================================================
