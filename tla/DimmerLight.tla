----------------------------- MODULE DimmerLight -----------------------------
(***************************************************************************)
(* One dimmed channel: TISLight (src/light.py) and the module that drives  *)
(* the lamp.                                                               *)
(*                                                                         *)
(* The entity's state is its brightness: is_on derives from it, and nothing*)
(* reads _attr_state.  So binary_feedback and offline_device, which set    *)
(* only _attr_state, change nothing that is shown: a lamp that a bit says  *)
(* is off, or whose module is offline, is shown as before.                 *)
(*                                                                         *)
(* External: the module and the network.  A packet sets the level of the   *)
(* lamp, and the module reports it; packets, acknowledgements and reports  *)
(* may be lost, delayed or reordered.                                      *)
(***************************************************************************)
EXTENDS LightLevels, FiniteSets

CONSTANTS Brightnesses,  \* bound: what a command may ask for
          Walls,         \* bound: the levels set at the wall
          Calls,         \* bound: commands that may be in flight at once
          MaxWire,       \* bound: reports on the wire at once
          None           \* Python's None; a call that is not in flight

ConstantsOK ==
  /\ Brightnesses \subseteq Byte \ {0} /\ Walls \subseteq Percent
  /\ None \notin Byte /\ MaxWire \in Nat

VARIABLES brightness,  \* _attr_brightness
          shown,       \* the brightness of the last async_write_ha_state
          target,      \* what each command in flight has asked for
          applied,     \* the commands in flight that have reached the module
          actual,      \* the level of the lamp, in percent
          wire,        \* reports on their way to the entity
          clean        \* history: nothing was lost or left untold, and nothing
                       \* overlapped, since an exchange began in quiet

vars == <<brightness, shown, target, applied, actual, wire, clean>>

Report == [kind : {"control_response", "update_response", "binary_feedback"},
           value : Percent]

TypeOK ==
  /\ brightness \in Byte \cup {None}
  /\ shown \in Byte \cup {None}
  /\ target \in [Calls -> Byte \cup {None}]
  /\ applied \in SUBSET Calls
  /\ actual \in Percent
  /\ wire \in SUBSET Report
  /\ clean \in BOOLEAN

\* The update packet of async_added_to_hass is answered, or one of them is lost.
Init ==
  /\ brightness = None
  /\ shown = None
  /\ target = [c \in Calls |-> None]
  /\ applied = {}
  /\ actual \in Walls
  /\ wire \in {{}, {[kind |-> "update_response", value |-> actual]}}
  /\ clean = (wire # {})

InFlight == {c \in Calls : target[c] # None}
Quiet == InFlight = {} /\ wire = {}

-----------------------------------------------------------------------------
\* async_turn_on with a brightness or with none (255), or async_turn_off (0),
\* up to the await.
Send(c, b) ==
  /\ c \notin InFlight
  /\ target' = [target EXCEPT ![c] = b]
  /\ clean' = Quiet
  /\ UNCHANGED <<brightness, shown, applied, actual, wire>>

TurnOn(c, b) == Send(c, b)

TurnOff(c) == Send(c, 0)

\* The await returns and the state is written: the command is over.
Return(c) ==
  /\ c \in InFlight
  /\ target' = [target EXCEPT ![c] = None]
  /\ applied' = applied \ {c}
  /\ shown' = brightness'
  /\ UNCHANGED <<actual, wire>>

\* The entity stores what it was asked, not what the packet carried.
Acknowledged(c) ==
  /\ c \in applied
  /\ brightness' = target[c]
  /\ Return(c)
  /\ UNCHANGED clean

NotAcknowledged(c) ==
  /\ brightness' = None
  /\ Return(c)
  /\ clean' = FALSE

\* Mutation: the percentage is taken for a brightness.
ControlResponseUnscaled(r) ==
  /\ r.kind = "control_response"
  /\ brightness' = r.value
  /\ shown' = brightness'

\* A control_response for the channel is shown at once.
ControlResponse(r) ==
  /\ r.kind = "control_response"
  /\ brightness' = ToByte(r.value)
  /\ shown' = brightness'

\* An update_response is not: the next poll shows it.
UpdateResponse(r) ==
  /\ r.kind = "update_response"
  /\ brightness' = ToByte(r.value)
  /\ UNCHANGED shown

\* A binary_feedback writes the state as it is.
BinaryFeedback(r) ==
  /\ r.kind = "binary_feedback"
  /\ shown' = brightness
  /\ UNCHANGED brightness

HandleEvent(r) ==
  /\ r \in wire
  /\ wire' = wire \ {r}
  /\ ControlResponse(r) \/ UpdateResponse(r) \/ BinaryFeedback(r)
  /\ UNCHANGED <<target, applied, actual, clean>>

\* A control_response for another channel of the module, or the poll of the
\* platform: both write the state.
WriteState ==
  /\ shown' = brightness
  /\ UNCHANGED <<brightness, target, applied, actual, wire, clean>>

-----------------------------------------------------------------------------
\* The lamp is at v, and the module says so.
Dim(v, kind) ==
  /\ Cardinality(wire) < MaxWire
  /\ actual' = v
  /\ wire' = wire \cup {[kind |-> kind, value |-> v]}

\* The packet of a command reaches the module.
Apply(c) ==
  /\ c \in InFlight \ applied
  /\ applied' = applied \cup {c}
  /\ Dim(ToPercent(target[c]), "control_response")
  /\ UNCHANGED <<brightness, shown, target, clean>>

\* The lamp is dimmed at the wall (or its state is asked for).
Wall(v, kind) ==
  /\ Dim(v, kind)
  /\ clean' = (Quiet /\ (kind # "binary_feedback" \/ (clean /\ v = actual)))
  /\ UNCHANGED <<brightness, shown, target, applied>>

Lose(r) ==
  /\ r \in wire
  /\ wire' = wire \ {r}
  /\ clean' = FALSE
  /\ UNCHANGED <<brightness, shown, target, applied, actual>>

Next ==
  \/ \E c \in Calls :
       \/ \E b \in Brightnesses : TurnOn(c, b)
       \/ TurnOff(c)
       \/ Acknowledged(c) \/ NotAcknowledged(c) \/ Apply(c)
  \/ \E r \in wire : HandleEvent(r) \/ Lose(r)
  \/ WriteState
  \/ \E v \in Walls, kind \in {"control_response", "update_response", "binary_feedback"} :
       Wall(v, kind)

Spec == Init /\ [][Next]_vars

-----------------------------------------------------------------------------
\* After an exchange that ran alone and told the level, the brightness stands
\* for the level of the lamp: the truncations of the two conversions, whichever
\* of the acknowledgement and the response came last, have not added up.
LoneExchangeAgrees == Quiet /\ clean => Stands(brightness, actual)

\* Sending a light the brightness it is rightly shown with, as a scene does, may
\* only darken the lamp, and by one percent at most: it never brightens it.
ResendDarkensByOne ==
  \A c \in Calls :
    c \in applied' \ applied /\ target[c] = brightness /\ Stands(brightness, actual)
      => actual' \in {actual, IF actual = 0 THEN 0 ELSE actual - 1}
=============================================================================
