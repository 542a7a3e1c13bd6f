--------------------------- MODULE AirConditioner ---------------------------
(***************************************************************************)
(* An air conditioner: TISClimate (src/climate.py) and the unit it speaks  *)
(* to.                                                                     *)
(*                                                                         *)
(* Two kinds of feedback reach the entity: ac_feedback tells one thing that*)
(* changed, update_feedback tells all.  The entity remembers a temperature *)
(* for each mode (mode_target_temperatures) and sends it along when the    *)
(* mode is set.  _attr_state and _attr_current_temperature are left out:   *)
(* only is_on reads the one, which a climate entity's state does not, and  *)
(* the property current_temperature hides the other.                       *)
(*                                                                         *)
(* External: the unit and the network.  A packet changes what the command  *)
(* names (the packet for a mode carries a temperature too); the unit also  *)
(* has a remote control.  Packets, acknowledgements and reports may be     *)
(* lost, delayed or reordered.                                             *)
(***************************************************************************)
EXTENDS Naturals, FiniteSets

CONSTANTS Modes,    \* bound: the modes in use, of "cool", "heat", "fan", "auto"
          Temps,    \* bound: the temperatures in use, those of Remembered among them
          Fans,     \* bound: the fan speeds in use, "medium" among them
          Calls,    \* bound: commands that may be in flight at once
          MaxWire,  \* bound: reports on the wire at once
          None      \* Python's None; a call that is not in flight

\* mode_target_temperatures, initially.
Remembered == [cool |-> 20, heat |-> 30, auto |-> 20, fan |-> None]

ConstantsOK ==
  /\ "cool" \in Modes /\ Modes \subseteq {"cool", "heat", "fan", "auto"}
  /\ "medium" \in Fans /\ Temps \subseteq Nat
  /\ \A m \in Modes : Remembered[m] \in Temps \cup {None}
  /\ None \notin Nat /\ None \notin {"off"} \cup Modes \cup Fans /\ MaxWire \in Nat

VARIABLES hvac,        \* _attr_hvac_mode
          target,      \* _attr_target_temperature
          fan,         \* _attr_fan_mode
          bounds,      \* the mode of which _attr_min_temp, _attr_max_temp are the range
          remembered,  \* mode_target_temperatures, of the modes it is read for
          command,     \* the mode, temperature or fan speed each command in flight
                       \* sends
          applied,     \* the commands in flight that have reached the unit
          unit,        \* the unit: running or not, its mode, temperature and fan
          wire,        \* reports on their way to the entity
          alone,       \* history: the exchange under way began in quiet
          sure         \* history: what was told, alone, since it last changed

vars == <<hvac, target, fan, bounds, remembered, command, applied, unit, wire,
          alone, sure>>

Facts == {"hvac", "target", "bounds"}
Shown == Modes \cup {"off", None}
Temp == Temps \cup {None}
Command == [mode : Shown, temp : Temp, fan : Fans \cup {None}]
\* temp is the temperature of the mode it is in.
Unit == [on : BOOLEAN, mode : Modes \cup {"other"}, temp : Temps, fan : Fans]
\* What a report is about, and what it tells of the unit.
Report == [about : {"off", "on", "temp", "mode", "fan", "all"},
           on : BOOLEAN, mode : Modes \cup {"other", None}, temp : Temp,
           fan : Fans \cup {None}]
Tell(about, u) ==
  [about |-> about,
   on |-> u.on,
   mode |-> IF about \in {"temp", "mode", "all"} /\ u.on THEN u.mode ELSE None,
   temp |-> IF about \in {"temp", "all"} /\ u.on THEN u.temp ELSE None,
   fan |-> IF about \in {"fan", "all"} THEN u.fan ELSE None]

TypeOK ==
  /\ hvac \in Shown /\ target \in Temp /\ fan \in Fans \cup {None}
  /\ bounds \in Shown
  /\ remembered \in [Modes -> Temp]
  /\ command \in [Calls -> Command \cup {None}]
  /\ applied \in SUBSET Calls
  /\ unit \in Unit
  /\ wire \in SUBSET Report
  /\ alone \in BOOLEAN
  /\ sure \in SUBSET Facts

\* setup_ac guesses; the update packet of async_added_to_hass may be lost.
Init ==
  /\ hvac = "cool" /\ target = 20 /\ fan = "medium" /\ bounds = "cool"
  /\ remembered = [m \in Modes |-> Remembered[m]]
  /\ command = [c \in Calls |-> None]
  /\ applied = {}
  /\ unit \in [on : {FALSE}, mode : Modes, temp : {20}, fan : {"medium"}]
  /\ wire = {}
  /\ alone = FALSE
  /\ sure = {}

InFlight == {c \in Calls : command[c] # None}
Quiet == InFlight = {} /\ wire = {}
entity == <<hvac, target, fan, bounds>>

-----------------------------------------------------------------------------
\* A command up to its await.
Send(c, mode, temp, speed) ==
  /\ c \notin InFlight
  /\ command' = [command EXCEPT ![c] = [mode |-> mode, temp |-> temp, fan |-> speed]]
  /\ alone' = Quiet
  /\ sure' = IF Quiet THEN sure ELSE {}
  /\ UNCHANGED <<entity, remembered, applied, unit, wire>>

\* The temperature remembered for the mode goes with it (off has none).
SetHvacMode(c, m) == Send(c, m, IF m = "off" THEN None ELSE remembered[m], None)

SetTemperature(c, t) == Send(c, None, t, None)

SetFanMode(c, f) == Send(c, None, None, f)

AsksMode(c) == command[c].mode # None
AsksFan(c) == command[c].fan # None
AsksTemp(c) == ~AsksMode(c) /\ ~AsksFan(c)

\* The await returns: the command is over.
Return(c) ==
  /\ c \in InFlight
  /\ command' = [command EXCEPT ![c] = None]
  /\ applied' = applied \ {c}
  /\ UNCHANGED <<unit, wire, alone>>

Learn(facts) == sure' = IF alone THEN sure \cup facts ELSE sure

HvacModeSet(c) ==
  /\ AsksMode(c)
  /\ hvac' = command[c].mode
  /\ bounds' = IF hvac' = "off" THEN None ELSE hvac'
  /\ target' = command[c].temp
  /\ Learn({"hvac", "target", "bounds"})
  /\ UNCHANGED <<fan, remembered>>

\* Mutation: every temperature is remembered for the mode of setup_ac.
TemperatureSetForCool(c) ==
  /\ AsksTemp(c)
  /\ target' = command[c].temp
  /\ remembered' = [remembered EXCEPT !["cool"] = command[c].temp]
  /\ Learn({"target"})
  /\ UNCHANGED <<hvac, fan, bounds>>

\* Remembered for the mode that is shown by now.
TemperatureSet(c) ==
  /\ AsksTemp(c)
  /\ target' = command[c].temp
  /\ remembered' = [m \in Modes |-> IF m = hvac THEN command[c].temp ELSE remembered[m]]
  /\ Learn({"target"})
  /\ UNCHANGED <<hvac, fan, bounds>>

FanModeSet(c) ==
  /\ AsksFan(c)
  /\ fan' = command[c].fan
  /\ UNCHANGED <<hvac, target, bounds, remembered, sure>>

Acknowledged(c) ==
  /\ c \in applied
  /\ HvacModeSet(c) \/ TemperatureSet(c) \/ FanModeSet(c)
  /\ Return(c)

\* Not acknowledged: what is unknown from now on depends on the command.
NotAcknowledged(c) ==
  /\ Return(c)
  /\ hvac' = IF AsksFan(c) THEN hvac ELSE None
  /\ target' = IF AsksTemp(c) THEN None ELSE target
  /\ fan' = IF AsksFan(c) THEN None ELSE fan
  /\ sure' = {}
  /\ UNCHANGED <<bounds, remembered>>

\* The mode of TEMPERATURE_RANGES with that index, or None.
Known(mode) == IF mode \in Modes THEN mode ELSE None

\* ac_feedback.  0x03 takes notice of off only.  0x06 changes the mode, 0x04,
\* 0x07 and 0x08 the mode and its temperature: the bounds stay.  (A fan speed
\* or a sub operation that is not known changes nothing.)
Feedback(r) ==
  /\ r.about # "all"
  /\ hvac' = CASE r.about = "off" -> "off"
               [] r.about \in {"mode", "temp"} -> Known(r.mode)
               [] OTHER -> hvac
  /\ target' = IF r.about = "temp" THEN r.temp ELSE target
  /\ fan' = IF r.about = "fan" THEN r.fan ELSE fan
  /\ Learn(CASE r.about \in {"off", "mode"} -> {"hvac"}
             [] r.about = "temp" -> {"hvac", "target"}
             [] OTHER -> {})
  /\ UNCHANGED bounds

\* Mutation: the ranges are set before the mode is.
UpdateFeedbackRangeFirst(r) ==
  /\ r.about = "all" /\ r.on /\ r.mode \in Modes
  /\ bounds' = hvac
  /\ hvac' = r.mode
  /\ fan' = r.fan
  /\ target' = IF hvac' = "fan" THEN None ELSE r.temp
  /\ Learn(Facts)

\* update_feedback of a unit that runs in a mode the entity knows.
UpdateFeedback(r) ==
  /\ r.about = "all" /\ r.on /\ r.mode \in Modes
  /\ hvac' = r.mode
  /\ fan' = r.fan
  /\ bounds' = hvac'
  /\ target' = IF hvac' = "fan" THEN None ELSE r.temp
  /\ Learn(Facts)

\* In another mode: the KeyError of its range leaves the rest as it is.
UpdateFeedbackUnknown(r) ==
  /\ r.about = "all" /\ r.on /\ r.mode \notin Modes
  /\ hvac' = None
  /\ fan' = r.fan
  /\ UNCHANGED <<target, bounds, sure>>

UpdateFeedbackOff(r) ==
  /\ r.about = "all" /\ ~r.on
  /\ hvac' = "off"
  /\ Learn({"hvac"})
  /\ UNCHANGED <<target, fan, bounds>>

HandleEvent(r) ==
  /\ r \in wire
  /\ wire' = wire \ {r}
  /\ \/ Feedback(r) \/ UpdateFeedback(r)
     \/ UpdateFeedbackUnknown(r) \/ UpdateFeedbackOff(r)
  /\ UNCHANGED <<remembered, command, applied, unit, alone>>

-----------------------------------------------------------------------------
\* What changes with the unit.
Changed(u) ==
  (IF u.on # unit.on \/ u.mode # unit.mode THEN {"hvac", "target", "bounds"} ELSE {})
  \cup (IF u.temp # unit.temp THEN {"target"} ELSE {})

Become(u, reports) ==
  /\ unit' = u
  /\ wire' = wire \cup reports
  /\ Cardinality(wire') <= MaxWire

\* The packet of a command reaches the unit, which may report all.
Apply(c) ==
  /\ c \in InFlight \ applied
  /\ applied' = applied \cup {c}
  /\ LET p == command[c]
         u == [on |-> IF AsksMode(c) THEN p.mode # "off" ELSE unit.on,
               mode |-> IF AsksMode(c) /\ p.mode # "off" THEN p.mode ELSE unit.mode,
               temp |-> IF p.temp # None THEN p.temp ELSE unit.temp,
               fan |-> IF AsksFan(c) THEN p.fan ELSE unit.fan]
     IN  /\ \E reports \in {{}, {Tell("all", u)}} : Become(u, reports)
         /\ sure' = sure \ Changed(u)
  /\ UNCHANGED <<entity, remembered, command, alone>>

\* Somebody uses the remote control: the unit becomes u and says a.
Remote(u, a) ==
  /\ CASE a = "off" -> u = [unit EXCEPT !.on = FALSE]
       [] a = "on" -> u = [unit EXCEPT !.on = TRUE]
       [] a = "temp" -> u.on /\ u.mode \in Modes \ {"fan"} /\ u.fan = unit.fan
       [] a = "mode" -> u.on /\ u.fan = unit.fan
       [] a = "fan" -> u = [unit EXCEPT !.fan = u.fan]
       [] a = "all" -> TRUE
  /\ Become(u, {Tell(a, u)})
  /\ alone' = Quiet
  /\ sure' = IF Quiet THEN sure \ Changed(u) ELSE {}
  /\ UNCHANGED <<entity, remembered, command, applied>>

Lose(r) ==
  /\ r \in wire
  /\ wire' = wire \ {r}
  /\ sure' = {}
  /\ alone' = FALSE
  /\ UNCHANGED <<entity, remembered, command, applied, unit>>

Next ==
  \/ \E c \in Calls : \/ \E m \in Modes \cup {"off"} : SetHvacMode(c, m)
                      \/ \E t \in Temps : SetTemperature(c, t)
                      \/ \E f \in Fans : SetFanMode(c, f)
                      \/ Acknowledged(c) \/ NotAcknowledged(c) \/ Apply(c)
  \/ \E r \in wire : HandleEvent(r) \/ Lose(r)
  \/ \E u \in Unit, a \in {"off", "on", "temp", "mode", "fan", "all"} : Remote(u, a)

Spec == Init /\ [][Next]_vars

-----------------------------------------------------------------------------
\* Once all is quiet, what was told by exchanges that ran alone is right.  The
\* temperature and its bounds mean something only while the unit runs.
ToldIsRight ==
  Quiet =>
    /\ "hvac" \in sure => hvac = IF unit.on THEN Known(unit.mode) ELSE "off"
    /\ {"hvac", "target"} \subseteq sure /\ hvac \in Modes /\ target # None => target = unit.temp
    /\ {"hvac", "bounds"} \subseteq sure /\ hvac \in Modes => bounds = hvac

\* A temperature that was set alone, while the mode was told right, is remembered
\* for the mode the unit runs in, and for no other.
RemembersForItsMode ==
  \A c \in Calls :
    c \in InFlight /\ c \notin InFlight' /\ alone /\ "hvac" \in sure
      => \A m \in Modes : remembered'[m] # remembered[m] => unit.on /\ unit.mode = m
=============================================================================
