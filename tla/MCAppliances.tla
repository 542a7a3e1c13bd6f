---------------------------- MODULE MCAppliances ----------------------------
(***************************************************************************)
(* The security panel behind its lock, the lights, the fan of the CPU and  *)
(* the floor heaters side by side, as MCDevices does it for the others:    *)
(* each behaviour is one of one device, chosen at the start; the panel     *)
(* rests in one state when it is not chosen, and the variables of the      *)
(* other devices stay Unused.  The light of four channels comes with one   *)
(* command in flight, and nobody at its wall.                              *)
(***************************************************************************)
EXTENDS LockedPanel, FiniteSets, TLC

CONSTANTS TwoCalls, LightWire, None,
          Brightnesses, Walls, Shades, ColorWalls,
          Temps,
          CpuSensors, CpuTemps, Interval

VARIABLES device, feedbacks, lone, delivered, target, command, level, hvac,
          brightness, seen, actual,
          color, mutable, lit, flags, stale, wanted,
          state, settings, packets, heater, setting,
          temperature, duty, loaded, dueIn, calm

Dimmer == INSTANCE DimmerLight WITH
            Calls <- TwoCalls, MaxWire <- LightWire, wire <- feedbacks,
            clean <- lone, applied <- delivered, shown <- seen
CallsOf(White) == IF White THEN Calls ELSE TwoCalls
WallsOf(White) == IF White THEN {} ELSE ColorWalls
Color(White) == INSTANCE ColorLight WITH
                  Calls <- CallsOf(White), Walls <- WallsOf(White), wire <- feedbacks,
                  clean <- lone, applied <- delivered
RGB == FALSE
RGBW == TRUE
Floor == INSTANCE FloorHeating WITH
           Calls <- TwoCalls, MaxWire <- LightWire, wire <- feedbacks,
           clean <- lone, pending <- settings
Fan == INSTANCE CpuFan WITH
         Temperatures <- CpuTemps, Levels <- Brightnesses, due <- dueIn

ASSUME ApplianceAssumption ==
  /\ Dimmer!ConstantsOK /\ Color(RGB)!ConstantsOK /\ Color(RGBW)!ConstantsOK
  /\ Floor!ConstantsOK /\ Fan!ConstantsOK

ofDimmer == <<brightness, seen, actual>>
ofColor == <<color, mutable, lit, flags, stale, wanted>>
ofFloor == <<state, settings, packets, heater, setting>>
ofFan == <<temperature, duty, loaded, dueIn, calm>>
ofLights == <<feedbacks, lone, delivered, target, command, level, hvac,
              ofDimmer, ofColor, ofFloor, ofFan>>
allVars == <<device, vars, ofLights>>

Unused == {"unused"}
NoDimmer == brightness \in Unused /\ seen \in Unused /\ actual \in Unused
NoColor == /\ color \in Unused /\ mutable \in Unused /\ lit \in Unused
           /\ flags \in Unused /\ stale \in Unused /\ wanted \in Unused
NoFloor == /\ state \in Unused /\ settings \in Unused /\ packets \in Unused
           /\ heater \in Unused /\ setting \in Unused
NoFan == /\ temperature \in Unused /\ duty \in Unused /\ loaded \in Unused
         /\ dueIn \in Unused /\ calm \in Unused
NoPanel == Init /\ mode = Disarm

ApplianceInit ==
  \/ /\ device = "panel" /\ Init
     /\ NoDimmer /\ NoColor /\ NoFloor /\ NoFan
     /\ feedbacks \in Unused /\ lone \in Unused /\ delivered \in Unused
     /\ target \in Unused /\ command \in Unused /\ level \in Unused /\ hvac \in Unused
  \/ /\ device = "dimmer" /\ Dimmer!Init
     /\ NoPanel /\ NoColor /\ NoFloor /\ NoFan
     /\ command \in Unused /\ level \in Unused /\ hvac \in Unused
  \/ /\ \/ device = "rgb" /\ Color(RGB)!Init
        \/ device = "rgbw" /\ Color(RGBW)!Init
     /\ NoPanel /\ NoDimmer /\ NoFloor /\ NoFan /\ target \in Unused /\ hvac \in Unused
  \/ /\ device = "floor" /\ Floor!Init
     /\ NoPanel /\ NoDimmer /\ NoColor /\ NoFan
     /\ delivered \in Unused /\ command \in Unused /\ level \in Unused
  \/ /\ device = "fan" /\ Fan!Init
     /\ NoPanel /\ NoColor
     /\ seen \in Unused /\ actual \in Unused
     /\ settings \in Unused /\ packets \in Unused /\ heater \in Unused
     /\ setting \in Unused
     /\ feedbacks \in Unused /\ lone \in Unused /\ delivered \in Unused
     /\ target \in Unused /\ command \in Unused /\ level \in Unused /\ hvac \in Unused

ApplianceNext ==
  \/ device = "panel" /\ Next /\ UNCHANGED <<device, ofLights>>
  \/ /\ device = "dimmer" /\ Dimmer!Next
     /\ UNCHANGED <<device, vars, command, level, hvac, ofColor, ofFloor, ofFan>>
  \/ /\ \/ device = "rgb" /\ Color(RGB)!Next
        \/ device = "rgbw" /\ Color(RGBW)!Next
     /\ UNCHANGED <<device, vars, target, hvac, ofDimmer, ofFloor, ofFan>>
  \/ /\ device = "floor" /\ Floor!Next
     /\ UNCHANGED <<device, vars, delivered, command, level, ofDimmer, ofColor,
                    ofFan>>
  \/ /\ device = "fan" /\ Fan!Next
     /\ UNCHANGED <<device, vars, feedbacks, lone, delivered, target, command, level,
                    hvac, seen, actual, ofColor, settings, packets, heater, setting>>

ApplianceSpec == ApplianceInit /\ [][ApplianceNext]_allVars

ApplianceSymmetry == Permutations(TwoCalls) \cup Permutations(Tasks)
-----------------------------------------------------------------------------
\* After an exchange that ran alone, the entity agrees with its device: the
\* brightness of a dimmed light (src/light.py, TISLight) that was told stands for
\* the level of its lamp; a light of several channels (TISRGBLight, TISRGBWLight)
\* has the colour of its channels, and Home Assistant shows it on or off as it is;
\* the entity of a floor heater (src/climate.py, TISFloorHeating) knows whether
\* and how warm it runs.
ExchangesAgree ==
  /\ device = "dimmer" => Dimmer!LoneExchangeAgrees
  /\ device = "rgb" => Color(RGB)!LoneExchangeAgrees /\ Color(RGB)!LoneCommandIsShown
  /\ device = "rgbw" => Color(RGBW)!LoneExchangeAgrees /\ Color(RGBW)!LoneCommandIsShown
  /\ device = "floor" => Floor!LoneExchangeAgrees

\* The fan of the CPU (src/light.py, TISCPUFan) follows the temperature, whatever
\* the users do.
FanFollows == device = "fan" => Fan!FollowsTemperature

\* Sending a dimmed light the brightness it is shown with never brightens its
\* lamp, and darkens it by one percent at most.
ResendDarkens == [][device = "dimmer" => Dimmer!ResendDarkensByOne]_allVars

\* After exchanges that ran one at a time, setting the temperature of a floor
\* heater does not switch it.
FloorKeepsRunning == [][device = "floor" => Floor!LoneSettingKeepsRunning]_allVars
=============================================================================
