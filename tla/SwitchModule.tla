---------------------------- MODULE SwitchModule ----------------------------
(***************************************************************************)
(* The switches of one relay module: TISSwitch (src/switch.py), one entity *)
(* per channel, all listening to the events of the module's device_id.     *)
(*                                                                         *)
(* A turn_on or turn_off sends a packet and awaits its acknowledgement.    *)
(* When none comes the entity becomes unknown and fires an offline_device  *)
(* event, which every entity of the module hears and which names the       *)
(* channel.  The module reports one channel (control_response) or all of   *)
(* them (binary_feedback, update_response).                                *)
(*                                                                         *)
(* External: the module and the network; everything on the wire may be     *)
(* lost, delayed and reordered.  Levels are 0 and 100: on such a module    *)
(* the three readings of a level (value = 100, bit = 1, value > 0) agree.  *)
(* The state Home Assistant shows is _state: every branch ends in a write. *)
(***************************************************************************)
EXTENDS Naturals, FiniteSets

CONSTANTS Channels,  \* the channels that are switches
          NoChannel, \* the channel of a call that is not in flight
          Calls,     \* bound: commands that may be in flight at once
          MaxWire    \* bound: reports on the wire at once

ConstantsOK == NoChannel \notin Channels /\ MaxWire \in Nat

VARIABLES state,    \* _state, per channel
          command,  \* what each command in flight asks of which channel
          applied,  \* the commands in flight that have reached the module
          level,    \* the relays
          wire,     \* reports on their way: per channel its level, or "none"
          held,     \* history: the levels each relay has had since the setup
          clean     \* history: nothing was lost, and nothing overlapped, since
                    \* an exchange about the channel began in quiet

vars == <<state, command, applied, level, wire, held, clean>>

Level == {"on", "off"}
Command == [channel : Channels, level : Level]
NotSent == [channel |-> NoChannel, level |-> "off"]
Report == [Channels -> Level \cup {"none"}]

TypeOK ==
  /\ state \in [Channels -> Level \cup {"unknown"}]
  /\ command \in [Calls -> Command \cup {NotSent}]
  /\ applied \in SUBSET Calls
  /\ level \in [Channels -> Level]
  /\ wire \in SUBSET Report
  /\ held \in [Channels -> SUBSET Level]
  /\ clean \in [Channels -> BOOLEAN]

Init ==
  /\ state = [k \in Channels |-> "unknown"]
  /\ command = [c \in Calls |-> NotSent]
  /\ applied = {}
  /\ level \in [Channels -> Level]
  /\ wire = {}
  /\ held = [k \in Channels |-> {level[k]}]
  /\ clean = [k \in Channels |-> FALSE]

About(r) == {k \in Channels : r[k] # "none"}
InFlight == {c \in Calls : command[c] # NotSent}
Quiet(k) == /\ \A c \in InFlight : command[c].channel # k
            /\ \A r \in wire : k \notin About(r)

\* The report of one channel, and of all of them.
ReportOf(k, v) == [j \in Channels |-> IF j = k THEN v ELSE "none"]

\* An exchange about the channels in K begins.
Begin(K) == clean' = [k \in Channels |-> IF k \in K THEN Quiet(k) ELSE clean[k]]

-----------------------------------------------------------------------------
\* async_turn_on, async_turn_off up to their await.
Turn(c, k, v) ==
  /\ c \notin InFlight
  /\ command' = [command EXCEPT ![c] = [channel |-> k, level |-> v]]
  /\ Begin({k})
  /\ UNCHANGED <<state, applied, level, wire, held>>

\* The await returns: the command is over.
Return(c) ==
  /\ c \in InFlight
  /\ command' = [command EXCEPT ![c] = NotSent]
  /\ applied' = applied \ {c}
  /\ UNCHANGED <<level, wire, held>>

Acknowledged(c) ==
  /\ c \in applied
  /\ Return(c)
  /\ state' = [state EXCEPT ![command[c].channel] = command[c].level]
  /\ UNCHANGED clean

\* Mutation: the missing acknowledgement is not looked at.
UncheckedAck(c) ==
  /\ Return(c)
  /\ state' = [state EXCEPT ![command[c].channel] = command[c].level]
  /\ clean' = [clean EXCEPT ![command[c].channel] = FALSE]

\* Mutation: handle_event takes offline_device for its own whatever the channel.
OfflineForAll(c) ==
  /\ Return(c)
  /\ state' = [k \in Channels |-> "unknown"]
  /\ clean' = [clean EXCEPT ![command[c].channel] = FALSE]

\* No acknowledgement: unknown, and the offline_device event, in which the
\* entities of the other channels do not find their channel_number.
NotAcknowledged(c) ==
  /\ Return(c)
  /\ state' = [state EXCEPT ![command[c].channel] = "unknown"]
  /\ clean' = [clean EXCEPT ![command[c].channel] = FALSE]

\* A report reaches handle_event of every entity.
Feedback(r) ==
  /\ r \in wire
  /\ wire' = wire \ {r}
  /\ state' = [k \in Channels |-> IF k \in About(r) THEN r[k] ELSE state[k]]
  /\ UNCHANGED <<command, applied, level, held, clean>>

-----------------------------------------------------------------------------
\* A relay changes, and the module reports it.
Set(k, v) ==
  /\ Cardinality(wire) < MaxWire
  /\ level' = [level EXCEPT ![k] = v]
  /\ held' = [held EXCEPT ![k] = @ \cup {v}]
  /\ wire' = wire \cup {ReportOf(k, v)}

Apply(c) ==
  /\ c \in InFlight \ applied
  /\ applied' = applied \cup {c}
  /\ Set(command[c].channel, command[c].level)
  /\ UNCHANGED <<state, command, clean>>

WallSwitch(k, v) ==
  /\ Set(k, v)
  /\ Begin({k})
  /\ UNCHANGED <<state, command, applied>>

\* The module answers an update packet, or sends a binary_feedback by itself.
ReportAll ==
  /\ Cardinality(wire) < MaxWire
  /\ wire' = wire \cup {level}
  /\ Begin(Channels)
  /\ UNCHANGED <<state, command, applied, level, held>>

Lose(r) ==
  /\ r \in wire
  /\ wire' = wire \ {r}
  /\ clean' = [k \in Channels |-> clean[k] /\ k \notin About(r)]
  /\ UNCHANGED <<state, command, applied, level, held>>

Next ==
  \/ \E c \in Calls : \/ \E k \in Channels, v \in Level : Turn(c, k, v)
                      \/ Acknowledged(c) \/ NotAcknowledged(c) \/ Apply(c)
  \/ \E k \in Channels, v \in Level : WallSwitch(k, v)
  \/ \E r \in wire : Feedback(r) \/ Lose(r)
  \/ ReportAll

Spec == Init /\ [][Next]_vars

-----------------------------------------------------------------------------
\* A channel whose last exchange ran alone and lost nothing is shown as its
\* relay is, whatever failed or overlapped on the other channels.
LoneExchangeAgrees == \A k \in Channels : Quiet(k) /\ clean[k] => state[k] = level[k]

\* A channel is never shown in a state its relay has not had since the setup.
ShownWasHeld == \A k \in Channels : state[k] \in held[k] \cup {"unknown"}
=============================================================================
