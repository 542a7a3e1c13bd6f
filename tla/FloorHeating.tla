---------------------------- MODULE FloorHeating ----------------------------
(***************************************************************************)
(* A floor heater: TISFloorHeating (src/climate.py) and the module that    *)
(* drives it.                                                              *)
(*                                                                         *)
(* The entity stores nothing of what it sends: only feedback changes it.   *)
(* Setting the temperature takes two packets, the first of which switches  *)
(* the heater on or off, as _attr_state says it is.  The bounds are those  *)
(* of heating for good, and _attr_current_temperature is never read.       *)
(*                                                                         *)
(* External: the module and the network.  The packets are not awaited (the *)
(* last one's acknowledgement is, and ignored): they and the reports may be*)
(* lost, delayed or reordered.                                             *)
(***************************************************************************)
EXTENDS Naturals, FiniteSets

CONSTANTS Temps,    \* bound: the temperatures in use, 28 among them
          Calls,    \* bound: set_temperature calls that may be in flight at once
          MaxWire,  \* bound: packets and reports on the wire at once
          None      \* a call that is not in flight; a packet that only switches

ConstantsOK ==
  /\ 28 \in Temps /\ Temps \subseteq Nat \ {0} /\ None \notin Nat /\ MaxWire \in Nat

VARIABLES hvac,     \* _attr_hvac_mode
          state,    \* _attr_state
          target,   \* _attr_target_temperature
          pending,  \* the temperature each call has still to send
          packets,  \* packets on their way to the module
          heater,   \* the heater: running or not, and its temperature
          wire,     \* reports on their way to the entity
          setting,  \* history: the last exchange to begin, in quiet, was the
                    \* setting of a temperature
          clean     \* history: nothing was lost, no two exchanges and no two
                    \* reports overlapped, since a report that tells all was
                    \* sent in quiet

vars == <<hvac, state, target, pending, packets, heater, wire, setting, clean>>

Heater == [on : BOOLEAN, temp : Temps]
\* A packet switches the heater, or sets its temperature.
Switch(on) == [on |-> on, temp |-> None]
SetTo(t) == [on |-> TRUE, temp |-> t]
Packet == [on : BOOLEAN, temp : Temps \cup {None}]
\* "power" is a floor_feedback 0x14, "temp" a 0x18, "all" a floor_update.
Report == [about : {"power", "temp", "all"}, heater : Heater]

TypeOK ==
  /\ hvac \in {"heat", "off"} /\ state \in {"on", "off"} /\ target \in Temps
  /\ pending \in [Calls -> Temps \cup {None}]
  /\ packets \in SUBSET Packet
  /\ heater \in Heater
  /\ wire \in SUBSET Report
  /\ setting \in BOOLEAN /\ clean \in BOOLEAN

\* Shown as heating, remembered as off; the update packet may be lost.
Init ==
  /\ hvac = "heat" /\ state = "off" /\ target = 28
  /\ pending = [c \in Calls |-> None]
  /\ packets = {}
  /\ heater \in Heater
  /\ wire \in {{}, {[about |-> "all", heater |-> heater]}}
  /\ setting = FALSE
  /\ clean = (wire # {})

Quiet == packets = {} /\ wire = {} /\ \A c \in Calls : pending[c] = None
Room == Cardinality(packets \cup wire) < MaxWire
entity == <<hvac, state, target>>

-----------------------------------------------------------------------------
\* async_set_hvac_mode.
SetHvacMode(m) ==
  /\ Room
  /\ packets' = packets \cup {Switch(m # "off")}
  /\ setting' = FALSE
  /\ clean' = (clean /\ Quiet)
  /\ UNCHANGED <<entity, pending, heater, wire>>

\* Mutation: the packet takes the heater for running.
SetTemperatureSwitchingOn(c, t) ==
  /\ Room
  /\ pending[c] = None
  /\ packets' = packets \cup {Switch(TRUE)}
  /\ pending' = [pending EXCEPT ![c] = t]
  /\ setting' = Quiet
  /\ clean' = (clean /\ Quiet)
  /\ UNCHANGED <<entity, heater, wire>>

\* async_set_temperature up to the end of its first packet.
SetTemperature(c, t) ==
  /\ Room
  /\ pending[c] = None
  /\ packets' = packets \cup {Switch(state # "off")}
  /\ pending' = [pending EXCEPT ![c] = t]
  /\ setting' = Quiet
  /\ clean' = (clean /\ Quiet)
  /\ UNCHANGED <<entity, heater, wire>>

\* Its second packet.  What follows changes nothing.
SecondPacket(c) ==
  /\ Room
  /\ pending[c] # None
  /\ packets' = packets \cup {SetTo(pending[c])}
  /\ pending' = [pending EXCEPT ![c] = None]
  /\ UNCHANGED <<entity, heater, wire, setting, clean>>

\* Mutation: a temperature is taken for a running heater.
FeedbackTempRuns(r) ==
  /\ r.about \in {"power", "temp"}
  /\ hvac' = IF r.heater.on \/ r.about = "temp" THEN "heat" ELSE "off"
  /\ state' = IF r.heater.on \/ r.about = "temp" THEN "on" ELSE "off"
  /\ target' = IF r.heater.on THEN r.heater.temp ELSE target

\* floor_feedback.
Feedback(r) ==
  \/ /\ r.about = "power"
     /\ hvac' = IF r.heater.on THEN "heat" ELSE "off"
     /\ state' = IF r.heater.on THEN "on" ELSE "off"
     /\ target' = IF r.heater.on THEN r.heater.temp ELSE target
  \/ /\ r.about = "temp"
     /\ target' = r.heater.temp
     /\ UNCHANGED <<hvac, state>>

\* floor_update: the temperature of a heater that is off is not taken.
Update(r) ==
  /\ r.about = "all"
  /\ hvac' = IF r.heater.on THEN "heat" ELSE "off"
  /\ state' = IF r.heater.on THEN "on" ELSE "off"
  /\ target' = IF r.heater.on THEN r.heater.temp ELSE target

HandleEvent(r) ==
  /\ r \in wire
  /\ wire' = wire \ {r}
  /\ Feedback(r) \/ Update(r)
  /\ clean' = (clean /\ wire' = {})
  /\ UNCHANGED <<pending, packets, heater, setting>>

-----------------------------------------------------------------------------
\* A packet reaches the module, which reports what it was about.
Apply(p) ==
  /\ p \in packets
  /\ packets' = packets \ {p}
  /\ heater' = IF p.temp = None THEN [heater EXCEPT !.on = p.on]
               ELSE [heater EXCEPT !.temp = p.temp]
  /\ wire' = wire \cup {[about |-> IF p.temp = None THEN "power" ELSE "temp",
                         heater |-> heater']}
  /\ UNCHANGED <<entity, pending, setting, clean>>

\* The heater is set at the wall, or its state asked for.
Wall(h) ==
  /\ Room
  /\ heater' = h
  /\ wire' = wire \cup {[about |-> "all", heater |-> h]}
  /\ setting' = FALSE
  /\ clean' = Quiet
  /\ UNCHANGED <<entity, pending, packets>>

Lose ==
  /\ \/ \E p \in packets : packets' = packets \ {p} /\ UNCHANGED wire
     \/ \E r \in wire : wire' = wire \ {r} /\ UNCHANGED packets
  /\ clean' = FALSE
  /\ UNCHANGED <<entity, pending, heater, setting>>

Next ==
  \/ \E m \in {"heat", "off"} : SetHvacMode(m)
  \/ \E c \in Calls : \/ \E t \in Temps : SetTemperature(c, t)
                      \/ SecondPacket(c)
  \/ \E r \in wire : HandleEvent(r)
  \/ \E p \in packets : Apply(p)
  \/ \E h \in Heater : Wall(h)
  \/ Lose

Spec == Init /\ [][Next]_vars

-----------------------------------------------------------------------------
\* As long as exchanges run one at a time and lose nothing, the entity knows
\* whether the heater runs, and while it runs, to which temperature.
LoneExchangeAgrees ==
  Quiet /\ clean => /\ hvac = IF heater.on THEN "heat" ELSE "off"
                    /\ state = IF heater.on THEN "on" ELSE "off"
                    /\ heater.on => target = heater.temp

\* Under the same condition, setting a temperature does not switch the heater:
\* its first packet carries the state that the heater is in.
LoneSettingKeepsRunning == setting /\ setting' /\ clean => heater'.on = heater.on
=============================================================================
