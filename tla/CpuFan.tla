------------------------------- MODULE CpuFan -------------------------------
(***************************************************************************)
(* The fan of the CPU: TISCPUFan (src/light.py) drives a pin from the      *)
(* events that CPUTemperatureSensor (src/sensor.py) fires, one for every   *)
(* interval of 10 s.  A light to Home Assistant, the fan is also set and   *)
(* switched off by hand.                                                   *)
(*                                                                         *)
(* Nothing of the two is taken back by an unload but the pin.  The timer   *)
(* of a sensor object has no owner and fires for ever; its events go to    *)
(* the fan of every load, and a fan that is gone commands the pin that it  *)
(* shares with the fan that is there, to the same effect.                  *)
(*                                                                         *)
(* External: the CPU, and the PWM of the pin, which follows a command only *)
(* while it runs.  Temperatures are in tenths of a degree, the duty of the *)
(* pin is given by the brightness it comes from.                           *)
(***************************************************************************)
EXTENDS Integers

CONSTANTS CpuSensors,   \* bound: sensor objects, one for each load
          Temperatures, \* of the CPU
          Levels,       \* brightnesses a user asks for
          Interval      \* of the sensor's timer, in ticks

ConstantsOK ==
  /\ Temperatures \subseteq Nat /\ Levels \subseteq 0..255 /\ Interval \in Nat

VARIABLES temperature, \* of the CPU
          duty,        \* of the pin, 0 while the PWM is stopped
          brightness,  \* _attr_brightness of the fan
          state,       \* _state of the fan: it is on
          loaded,      \* the fan is in Home Assistant
          due,         \* of each sensor object, the ticks until its timer fires
          calm         \* history: ticks since a user, a setup or the CPU changed
                       \* what the fan is to do

vars == <<temperature, duty, brightness, state, loaded, due, calm>>

Never == -1
Threshold == 40
Half == 127
Full == 255
Ticking == {s \in CpuSensors : due[s] # Never}

TypeOK ==
  /\ temperature \in Temperatures
  /\ duty \in 0..Full /\ brightness \in 0..Full
  /\ state \in BOOLEAN /\ loaded \in BOOLEAN
  /\ due \in [CpuSensors -> Never..Interval]
  /\ calm \in 0..Interval + 1

Init ==
  /\ temperature \in Temperatures
  /\ duty = 0 /\ brightness = Half /\ state = TRUE /\ loaded = FALSE
  /\ due = [s \in CpuSensors |-> Never]
  /\ calm = 0

\* What the fan is to do of itself.
Wanted(degrees) == IF degrees > Threshold THEN Full ELSE Half

\* The light platform is set up, and is unloaded.
SetUp ==
  /\ ~loaded /\ loaded' = TRUE
  /\ brightness' = Half /\ state' = TRUE /\ duty' = Half
  /\ calm' = 0 /\ UNCHANGED <<temperature, due>>

WillRemoveFromHass ==
  /\ loaded /\ loaded' = FALSE /\ duty' = 0
  /\ UNCHANGED <<temperature, brightness, state, due, calm>>

\* The sensor platform is set up; its unload leaves the timer.
NewSensor(s) ==
  /\ due[s] = Never /\ due' = [due EXCEPT ![s] = Interval]
  /\ calm' = IF Ticking = {} THEN 0 ELSE calm
  /\ UNCHANGED <<temperature, duty, brightness, state, loaded>>

\* Mutation: only a fan that is on is driven.
DrivesIfOn(b) ==
  IF state THEN brightness' = b /\ duty' = b /\ UNCHANGED state
  ELSE UNCHANGED <<brightness, duty, state>>

\* What async_turn_on and async_turn_off do to the fan that is there.
Drives(b) == brightness' = b /\ duty' = b /\ state' = TRUE
Stops == duty' = 0 /\ state' = FALSE /\ UNCHANGED brightness

TurnOn(b) ==
  /\ loaded /\ Drives(b) /\ calm' = 0
  /\ UNCHANGED <<temperature, loaded, due>>

TurnOff ==
  /\ loaded /\ Stops /\ calm' = 0
  /\ UNCHANGED <<temperature, loaded, due>>

HandleOverheatEvent(degrees) ==
  IF loaded THEN Drives(Wanted(degrees))
  ELSE UNCHANGED <<brightness, duty, state>>

\* The timer of a sensor fires and is set again; the event carries whole degrees.
Update(s) ==
  /\ due[s] = 0 /\ due' = [due EXCEPT ![s] = Interval]
  /\ HandleOverheatEvent(temperature \div 10)
  /\ UNCHANGED <<temperature, loaded, calm>>

Tick ==
  /\ \A s \in CpuSensors : due[s] # 0
  /\ due' = [s \in CpuSensors |-> IF s \in Ticking THEN due[s] - 1 ELSE Never]
  /\ calm' = IF calm > Interval THEN calm ELSE calm + 1
  /\ UNCHANGED <<temperature, duty, brightness, state, loaded>>

CpuChanges(t) ==
  /\ t # temperature /\ temperature' = t
  /\ calm' = IF Wanted(t \div 10) = Wanted(temperature \div 10) THEN calm ELSE 0
  /\ UNCHANGED <<duty, brightness, state, loaded, due>>

Next ==
  \/ SetUp \/ WillRemoveFromHass
  \/ \E s \in CpuSensors : NewSensor(s) \/ Update(s)
  \/ \E b \in Levels : TurnOn(b)
  \/ TurnOff
  \/ Tick
  \/ \E t \in Temperatures : CpuChanges(t)

Spec == Init /\ [][Next]_vars

-----------------------------------------------------------------------------
\* A full degree above the threshold the fan runs at full speed, and below it at
\* half: at the latest one interval after it was loaded or set by hand, or the CPU
\* got hot or cool, whoever switched it off meanwhile and however often it was
\* reloaded (handle_overheat_event, src/light.py, and async_update, src/sensor.py).
FollowsTemperature ==
  loaded /\ Ticking # {} /\ calm > Interval
    => /\ state /\ duty = brightness
       /\ duty = IF temperature >= 10 * (Threshold + 1) THEN Full ELSE Half
=============================================================================
