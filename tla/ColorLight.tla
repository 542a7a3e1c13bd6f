----------------------------- MODULE ColorLight -----------------------------
(***************************************************************************)
(* A light of three or four dimmed channels: TISRGBLight and TISRGBWLight  *)
(* (src/light.py) and the module that drives the channels.                 *)
(*                                                                         *)
(* A command sends one packet per channel and awaits each acknowledgement  *)
(* before the next, but ignores the answers, and stores the colour it was  *)
(* asked at its end.  Feedback changes the colour one channel at a time.   *)
(* The handlers raise in several states: where one does, the action keeps  *)
(* what was assigned before and skips the rest.                            *)
(*                                                                         *)
(* External: the module and the network, which may lose or delay packets,  *)
(* acknowledgements and reports.                                           *)
(***************************************************************************)
EXTENDS LightLevels, Sequences, FiniteSets

CONSTANTS White,    \* whether it is a TISRGBWLight
          Shades,   \* bound: the bytes of the colours commands ask for
          Walls,    \* bound: the levels set at the wall
          Calls,    \* bound: commands that may be in flight at once
          MaxWire,  \* bound: reports on the wire at once
          None      \* Python's None; a call that is not in flight

Channel == {"r", "g", "b"} \cup IF White THEN {"w"} ELSE {}

\* The order in which a command sends its packets.
Order(on) ==
  IF White THEN <<"r", "g", "b", "w">>
  ELSE IF on THEN <<"r", "g", "b">> ELSE <<"g", "r", "b">>

Color == [Channel -> Byte]
Black == [k \in Channel |-> 0]
\* The colours asked for, with and without a share of one of the channels.
Asked == {[k \in Channel |-> IF k = "g" THEN 0 ELSE s] : s \in Shades}

VARIABLES color,    \* _attr_rgb_color, _attr_rgbw_color
          mutable,  \* whether it is a list, as the update_response of RGB makes it
          lit,      \* _attr_state
          flags,    \* rgbw_value_flags, as the set of channels flagged
          stale,    \* whether state or colour changed since the last async_write_ha_state
          command,  \* what each command in flight asks, and the packets left;
                    \* the first of them is out
          applied,  \* the commands whose packet has reached the module
          level,    \* the level of each channel, in percent
          wire,     \* control_responses on their way to the entity
          wanted,   \* history: what the last command asked for, until a report
          clean     \* history: nothing was lost, and nothing overlapped, since
                    \* an exchange began in quiet

vars == <<color, mutable, lit, flags, stale, command, applied, level, wire,
          wanted, clean>>

Command == [on : BOOLEAN, color : Color, todo : Seq(Channel)]

ConstantsOK ==
  /\ White \in BOOLEAN /\ Shades \subseteq Byte /\ Walls \subseteq Percent
  /\ None \notin {"on", "off", "unknown", "color"} \cup Color \cup Command
  /\ MaxWire \in Nat

Lit == {"on", "off", "unknown", None}
On(is) == IF is THEN "on" ELSE "off"
Report == [channel : Channel, value : Percent]

TypeOK ==
  /\ color \in Color \cup {None}
  /\ mutable \in BOOLEAN
  /\ lit \in Lit
  /\ flags \in SUBSET Channel
  /\ stale \in BOOLEAN
  /\ command \in [Calls -> Command \cup {None}]
  /\ applied \in SUBSET Calls
  /\ level \in [Channel -> Percent]
  /\ wire \in SUBSET Report
  /\ wanted \in {None, "off", "on", "color"}
  /\ clean \in BOOLEAN

\* The entity while async_added_to_hass sends its update packets.
Init ==
  /\ color = None
  /\ mutable = FALSE
  /\ lit = None
  /\ flags = {}
  /\ stale = FALSE
  /\ command = [c \in Calls |-> None]
  /\ applied = {}
  /\ level \in [Channel -> {0}]
  /\ wire = {}
  /\ wanted = None
  /\ clean = FALSE

InFlight == {c \in Calls : command[c] # None}
Quiet == InFlight = {} /\ wire = {}
device == <<level, wire>>
commands == <<command, applied, wanted>>

WriteState == stale' = FALSE
DoNotWrite == stale' = (stale \/ <<lit, color>>' # <<lit, color>>)

-----------------------------------------------------------------------------
\* The end of async_added_to_hass, without an answer, and the first write.
AddedToHass ==
  /\ color = None
  /\ color' = Black
  /\ lit' = "unknown"
  /\ WriteState
  /\ UNCHANGED <<mutable, flags, commands, device, clean>>

\* A command up to its first await.
Send(c, on, asked) ==
  /\ c \notin InFlight
  /\ command' = [command EXCEPT ![c] = [on |-> on, color |-> asked, todo |-> Order(on)]]
  /\ wanted' = IF on THEN "color" ELSE "off"
  /\ clean' = Quiet
  /\ UNCHANGED <<color, mutable, lit, flags, stale, applied, device>>

TurnOnColor(c, asked) == Send(c, TRUE, asked)

TurnOff(c) == Send(c, FALSE, Black)

\* async_turn_on without a colour: the KeyError is logged and nothing is sent.
TurnOnPlain ==
  /\ UNCHANGED <<color, lit>>
  /\ WriteState
  /\ wanted' = "on"
  /\ clean' = (clean /\ Quiet)
  /\ UNCHANGED <<mutable, flags, command, applied, device>>

\* An await returns, acknowledged or not, and it was not the last packet.
NextPacket(c) ==
  /\ c \in InFlight
  /\ Len(command[c].todo) > 1
  /\ command' = [command EXCEPT ![c].todo = Tail(@)]
  /\ applied' = applied \ {c}
  /\ clean' = (clean /\ c \in applied)
  /\ UNCHANGED <<color, mutable, lit, flags, stale, device, wanted>>

\* Mutation: the colour is stored as it was asked.
LastPacketAsAsked(c) ==
  /\ c \in InFlight
  /\ Len(command[c].todo) = 1
  /\ command' = [command EXCEPT ![c] = None]
  /\ applied' = applied \ {c}
  /\ clean' = (clean /\ c \in applied)
  /\ color' = command[c].color
  /\ mutable' = FALSE
  /\ lit' = On(command[c].on)
  /\ WriteState
  /\ UNCHANGED <<flags, device, wanted>>

\* Mutation: the write is forgotten, as in async_turn_off of the CPU fan.
LastPacketWithoutWrite(c) ==
  /\ c \in InFlight
  /\ Len(command[c].todo) = 1
  /\ command' = [command EXCEPT ![c] = None]
  /\ applied' = applied \ {c}
  /\ clean' = (clean /\ c \in applied)
  /\ color' = [k \in Channel |-> ToByte(ToPercent(command[c].color[k]))]
  /\ mutable' = FALSE
  /\ lit' = On(command[c].on)
  /\ DoNotWrite
  /\ UNCHANGED <<flags, device, wanted>>

\* The last await returns: the colour asked is stored, as the packets carried it.
LastPacket(c) ==
  /\ c \in InFlight
  /\ Len(command[c].todo) = 1
  /\ command' = [command EXCEPT ![c] = None]
  /\ applied' = applied \ {c}
  /\ clean' = (clean /\ c \in applied)
  /\ color' = [k \in Channel |-> ToByte(ToPercent(command[c].color[k]))]
  /\ mutable' = FALSE
  /\ lit' = On(command[c].on)
  /\ WriteState
  /\ UNCHANGED <<flags, device, wanted>>

\* A control_response before the entity has a colour: None has no items.
ResponseTooEarly(r) ==
  /\ r \in wire
  /\ color = None
  /\ wire' = wire \ {r}
  /\ clean' = FALSE
  /\ UNCHANGED <<color, mutable, lit, flags, stale, commands, level>>

\* The channel's share of the colour; an RGB light then raises, since it has
\* no rgb_values_flag, and an RGBW light writes once all flags are set, for
\* good: nothing resets them.
ControlResponse(r) ==
  /\ r \in wire
  /\ color # None
  /\ wire' = wire \ {r}
  /\ color' = [color EXCEPT ![r.channel] = ToByte(r.value)]
  /\ mutable' = FALSE
  /\ flags' = IF White THEN flags \cup {r.channel} ELSE flags
  /\ UNCHANGED lit
  /\ IF White /\ flags' = Channel THEN WriteState ELSE DoNotWrite
  /\ UNCHANGED <<commands, level, clean>>

\* An update_response, answered with the levels as they are.  RGB: the channel
\* it is about, or none of the light's, and only as long as the colour is not a
\* tuple.  RGBW: all channels (kept unrounded by the code).
UpdateResponseRGB(k) ==
  /\ ~White
  /\ (color # None /\ ~mutable) => k = None
  /\ color' = LET c == IF color = None THEN Black ELSE color
              IN  IF k = None THEN c ELSE [c EXCEPT ![k] = ToByte(level[k])]
  /\ mutable' = (color = None \/ mutable)
  /\ lit' = "on"
  /\ wanted' = None
  /\ DoNotWrite
  /\ UNCHANGED <<flags, command, applied, device, clean>>

UpdateResponseRGBW ==
  /\ White
  /\ color' = [k \in Channel |-> ToByte(level[k])]
  /\ lit' = On(\E k \in Channel : level[k] # 0)
  /\ wanted' = None
  /\ DoNotWrite
  /\ UNCHANGED <<mutable, flags, command, applied, device, clean>>

OfflineDevice ==
  /\ lit' = "unknown"
  /\ clean' = FALSE
  /\ UNCHANGED color
  /\ DoNotWrite
  /\ UNCHANGED <<mutable, flags, commands, device>>

\* The platform's poll.
Poll ==
  /\ color # None
  /\ UNCHANGED <<color, lit>>
  /\ WriteState
  /\ UNCHANGED <<mutable, flags, commands, device, clean>>

-----------------------------------------------------------------------------
\* A channel is set to v, and the module says so.
Dim(k, v) ==
  /\ Cardinality(wire) < MaxWire
  /\ level' = [level EXCEPT ![k] = v]
  /\ wire' = wire \cup {[channel |-> k, value |-> v]}

Apply(c) ==
  /\ c \in InFlight \ applied
  /\ applied' = applied \cup {c}
  /\ LET k == Head(command[c].todo) IN Dim(k, ToPercent(command[c].color[k]))
  /\ UNCHANGED <<color, mutable, lit, flags, stale, command, wanted, clean>>

Wall(k, v) ==
  /\ Dim(k, v)
  /\ wanted' = None
  /\ clean' = (Quiet /\ clean)
  /\ UNCHANGED <<color, mutable, lit, flags, stale, command, applied>>

Lose(r) ==
  /\ r \in wire
  /\ wire' = wire \ {r}
  /\ clean' = FALSE
  /\ UNCHANGED <<color, mutable, lit, flags, stale, commands, level>>

Next ==
  \/ AddedToHass
  \/ \E c \in Calls : \/ \E a \in Asked : TurnOnColor(c, a)
                      \/ TurnOff(c) \/ NextPacket(c) \/ LastPacket(c) \/ Apply(c)
  \/ TurnOnPlain
  \/ \E r \in wire : ResponseTooEarly(r) \/ ControlResponse(r) \/ Lose(r)
  \/ \E k \in Channel \cup {None} : UpdateResponseRGB(k)
  \/ UpdateResponseRGBW
  \/ OfflineDevice
  \/ Poll
  \/ \E k \in Channel, v \in Walls : Wall(k, v)

Spec == Init /\ [][Next]_vars

-----------------------------------------------------------------------------
\* As long as exchanges run one at a time and lose nothing, the entity has the
\* colour of its channels, however acknowledgements and responses interleave.
LoneExchangeAgrees ==
  Quiet /\ clean => color = [k \in Channel |-> ToByte(level[k])]

\* After such a command that gave a colour, or turned off, the entity is on, or
\* off, and Home Assistant shows it: the responses still to come bring the very
\* colour the command has stored, so that it does not matter that an RGB light
\* never writes its state on a response.
LoneCommandIsShown ==
  Quiet /\ clean /\ wanted \in {"color", "off"}
    => lit = On(wanted = "color") /\ ~stale

\* What the docstring at src/light.py:394 says of async_turn_on: "Turn the light on."
TurnOnTurnsOn == Quiet /\ clean /\ wanted = "on" => lit = "on"
=============================================================================
