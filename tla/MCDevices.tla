------------------------------ MODULE MCDevices ------------------------------
(***************************************************************************)
(* The device classes side by side.  Entities of different devices share   *)
(* no state, so that interleaving them adds nothing: each behaviour is one *)
(* of one device, chosen at the start, and a run is the union of theirs.   *)
(* The variables of the other devices stay Unused.  An air conditioner has *)
(* one command in flight and reports, or two commands and no reports.      *)
(***************************************************************************)
EXTENDS Naturals, FiniteSets, TLC

CONSTANTS Calls, MaxWire, None,
          Options, Disarm, UnknownMode, NoPacket,
          Positions,
          Channels, NoChannel,
          ACModes, Fans, Temps

VARIABLES device, clean, applied, wire, packet, held, isClosed, target, command,
          readOnly, option, mode,
          lastStatus, motor, driven,
          position, actual,
          state, level,
          hvac, fan, bounds, remembered, unit, alone, sure

Panel == INSTANCE SecurityPanel
Shutter == INSTANCE ShutterCover
Position == INSTANCE PositionCover
Switches == INSTANCE SwitchModule
AC == INSTANCE AirConditioner WITH Modes <- ACModes

ASSUME DeviceAssumption ==
  /\ Panel!ConstantsOK /\ Shutter!ConstantsOK /\ Position!ConstantsOK
  /\ Switches!ConstantsOK /\ AC!ConstantsOK

ofPanel == <<readOnly, option, mode>>
ofShutter == <<lastStatus, motor, driven>>
ofPosition == <<position, actual>>
ofSwitches == <<state, level>>
ofAC == <<hvac, fan, bounds, remembered, unit, alone, sure>>
vars == <<device, clean, applied, wire, packet, held, isClosed, target, command,
          ofPanel, ofShutter, ofPosition, ofSwitches, ofAC>>

Unused == {"unused"}
AnAC == device \in {"ac", "busy ac"}

NoPanel == readOnly \in Unused /\ option \in Unused /\ mode \in Unused
NoShutter == lastStatus \in Unused /\ motor \in Unused /\ driven \in Unused
NoPosition == position \in Unused /\ actual \in Unused
NoSwitches == state \in Unused /\ level \in Unused
NoAC == /\ hvac \in Unused /\ fan \in Unused /\ bounds \in Unused
        /\ remembered \in Unused /\ unit \in Unused
        /\ alone \in Unused /\ sure \in Unused

Init ==
  \/ /\ device = "panel" /\ Panel!Init
     /\ NoShutter /\ NoPosition /\ NoSwitches /\ NoAC
     /\ isClosed \in Unused /\ target \in Unused /\ command \in Unused
  \/ /\ device = "shutter" /\ Shutter!Init
     /\ NoPanel /\ NoPosition /\ NoSwitches /\ NoAC
     /\ held \in Unused /\ target \in Unused /\ command \in Unused
  \/ /\ device = "position" /\ Position!Init
     /\ NoPanel /\ NoShutter /\ NoSwitches /\ NoAC
     /\ held \in Unused /\ packet \in Unused /\ command \in Unused
  \/ /\ device = "switches" /\ Switches!Init
     /\ NoPanel /\ NoShutter /\ NoPosition /\ NoAC
     /\ isClosed \in Unused /\ packet \in Unused /\ target \in Unused
  \/ /\ AnAC /\ AC!Init
     /\ NoPanel /\ NoShutter /\ NoPosition /\ NoSwitches
     /\ isClosed \in Unused /\ packet \in Unused /\ held \in Unused /\ clean \in Unused

Next ==
  \/ /\ device = "panel" /\ Panel!Next
     /\ UNCHANGED <<device, isClosed, target, command, ofShutter, ofPosition, ofSwitches, ofAC>>
  \/ /\ device = "shutter" /\ Shutter!Next
     /\ UNCHANGED <<device, held, target, command, ofPanel, ofPosition, ofSwitches, ofAC>>
  \/ /\ device = "position" /\ Position!Next
     /\ UNCHANGED <<device, held, packet, command, ofPanel, ofShutter, ofSwitches, ofAC>>
  \/ /\ device = "switches" /\ Switches!Next
     /\ UNCHANGED <<device, isClosed, packet, target, ofPanel, ofShutter, ofPosition, ofAC>>
  \/ /\ AnAC /\ AC!Next
     /\ IF device = "ac" THEN Cardinality(wire') <= 1 /\ Cardinality(AC!InFlight') <= 1
                        ELSE wire' = {}
     /\ UNCHANGED <<device, clean, isClosed, packet, held, ofPanel, ofShutter, ofPosition,
                    ofSwitches>>

Spec == Init /\ [][Next]_vars

DeviceSymmetry ==
  Permutations(Calls) \cup Permutations(Channels) \cup Permutations(Options \ {Disarm})
-----------------------------------------------------------------------------
\* After an exchange that ran alone and lost nothing, the entity agrees with its
\* device: the security panel (src/select.py) shows the module's mode; a position
\* cover (src/cover.py, TISCoverWPos) that was told its position shows it and
\* whether it is closed; a switch (src/switch.py) shows its relay, whatever
\* happened on the other channels of the module.
ExchangesAgree ==
  /\ device = "panel" => Panel!LoneExchangeAgrees
  /\ device = "position" => Position!LoneExchangeAgrees
  /\ device = "switches" => Switches!LoneExchangeAgrees

\* What is shown is not made up: however packets, acknowledgements and reports are
\* lost and overlap, the panel never shows a mode, and no switch a state, that the
\* device has not been in; after exchanges that ran one at a time, a shutter
\* (src/cover.py, TISCoverNoPos) is shown as its motor was last driven; a position
\* cover that is shown open has a position, which is not 0; and what was told,
\* alone, of an air conditioner (src/climate.py, TISClimate) since it last changed
\* is right.
InventsNothing ==
  /\ device = "panel" => Panel!ShownModeWasHeld
  /\ device = "switches" => Switches!ShownWasHeld
  /\ device = "shutter" => Shutter!ShowsLastDrive
  /\ device = "position" => Position!OpenHasPosition
  /\ AnAC => AC!ToldIsRight

\* After exchanges that ran one at a time, stopping a shutter reaches the channel
\* that drives its motor.
ShutterStops == [][device = "shutter" => Shutter!LoneStopStops]_vars

\* A temperature that is set alone is remembered for the mode the unit runs in,
\* and for no other.
ACRemembers ==
  [][AnAC => AC!RemembersForItsMode]_vars
=============================================================================
