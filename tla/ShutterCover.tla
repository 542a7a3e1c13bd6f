---------------------------- MODULE ShutterCover ----------------------------
(***************************************************************************)
(* A shutter without position feedback: TISCoverNoPos (src/cover.py) and   *)
(* the relay module that drives its motor.                                 *)
(*                                                                         *)
(* The entity knows the shutter only by the last direction it was driven:  *)
(* last_status remembers it, _attr_is_closed shows it, and is None after a *)
(* command that was not acknowledged.  A stop is sent to one of the two    *)
(* channels, the one _attr_is_closed points at before the await.           *)
(*                                                                         *)
(* External: the relay module and the network.  A packet for a channel     *)
(* drives the motor that way and releases the other channel; a stop packet *)
(* for a channel releases that channel only.  The module answers a packet, *)
(* and reports the wall switch, with a control_response.  Packets,         *)
(* acknowledgements and responses may be lost, delayed or reordered.       *)
(***************************************************************************)
EXTENDS Naturals, FiniteSets

CONSTANTS Calls,  \* bound: commands that may be in flight at once
          None    \* Python's None; a call that is not in flight

ConstantsOK == None \notin BOOLEAN /\ None \notin {"up", "down"}

Channel == {"up", "down"}
\* What a packet asks of a channel: to drive (value 100) or to stop (0).
Packet == [channel : Channel, drive : BOOLEAN]

VARIABLES isClosed,    \* _attr_is_closed
          lastStatus,  \* last_status, as the channel it stands for
          packet,      \* the packet each command in flight has sent
          applied,     \* the commands whose packet has reached the module
          motor,       \* the channel that drives the motor, or None
          wire,        \* control_responses on their way to the entity
          driven,      \* history: the direction of the last drive, or None
          clean        \* history: nothing was lost, and nothing overlapped, since
                       \* an exchange that drove the motor began in quiet

vars == <<isClosed, lastStatus, packet, applied, motor, wire, driven, clean>>

NotSent == [channel |-> None, drive |-> FALSE]

TypeOK ==
  /\ isClosed \in BOOLEAN \cup {None}
  /\ lastStatus \in Channel
  /\ packet \in [Calls -> Packet \cup {NotSent}]
  /\ applied \in SUBSET Calls
  /\ motor \in Channel \cup {None}
  /\ wire \in SUBSET Packet
  /\ driven \in Channel \cup {None}
  /\ clean \in BOOLEAN

\* The entity does not ask the module for its state.
Init ==
  /\ isClosed = None
  /\ lastStatus = "up"
  /\ packet = [c \in Calls |-> NotSent]
  /\ applied = {}
  /\ motor \in Channel \cup {None}
  /\ wire = {}
  /\ driven = motor
  /\ clean = (motor = None)

InFlight == {c \in Calls : packet[c] # NotSent}
Quiet == InFlight = {} /\ wire = {}
\* An exchange that asks p of a channel begins.
StillClean(p) == Quiet /\ (clean \/ p.drive)

-----------------------------------------------------------------------------
\* A command up to its await: the packet goes out.
Send(c, p) ==
  /\ c \notin InFlight
  /\ packet' = [packet EXCEPT ![c] = p]
  /\ clean' = StillClean(p)
  /\ UNCHANGED <<isClosed, lastStatus, applied, motor, wire, driven>>

OpenCover(c) == Send(c, [channel |-> "up", drive |-> TRUE])

CloseCover(c) == Send(c, [channel |-> "down", drive |-> TRUE])

\* Mutation: the two branches of async_stop_cover are swapped.
StopOtherChannel(c) ==
  Send(c, [channel |-> IF isClosed = TRUE THEN "up" ELSE "down", drive |-> FALSE])

\* async_stop_cover: None is falsy, so that it takes the branch of an open one.
StopCover(c) ==
  Send(c, [channel |-> IF isClosed = TRUE THEN "down" ELSE "up", drive |-> FALSE])

\* The await returns: the command is over.
Return(c) ==
  /\ c \in InFlight
  /\ packet' = [packet EXCEPT ![c] = NotSent]
  /\ applied' = applied \ {c}
  /\ UNCHANGED <<motor, wire, driven>>

\* Acknowledged: a drive is remembered; a stop shows the last drive again,
\* whatever it is by now.
Acknowledged(c) ==
  /\ c \in applied
  /\ Return(c)
  /\ lastStatus' = IF packet[c].drive THEN packet[c].channel ELSE lastStatus
  /\ isClosed' = (lastStatus' = "down")
  /\ UNCHANGED clean

\* Not acknowledged: the packet, or its acknowledgement, is lost.
NotAcknowledged(c) ==
  /\ Return(c)
  /\ isClosed' = None
  /\ clean' = FALSE
  /\ UNCHANGED lastStatus

\* Mutation: the value of the channel is not looked at.
ResponseWithoutValue(p) ==
  /\ p \in wire
  /\ wire' = wire \ {p}
  /\ isClosed' = (p.channel = "down")
  /\ lastStatus' = p.channel
  /\ UNCHANGED <<packet, applied, motor, driven, clean>>

\* A control_response for one of the two channels.  Value 0 changes nothing.
ControlResponse(p) ==
  /\ p \in wire
  /\ wire' = wire \ {p}
  /\ IF p.drive
     THEN isClosed' = (p.channel = "down") /\ lastStatus' = p.channel
     ELSE UNCHANGED <<isClosed, lastStatus>>
  /\ UNCHANGED <<packet, applied, motor, driven, clean>>

\* A control_response for another channel of the same module: an unknown state
\* is replaced by the last drive.
OtherChannelResponse ==
  /\ isClosed' = (lastStatus = "down")
  /\ UNCHANGED <<lastStatus, packet, applied, motor, wire, driven, clean>>

-----------------------------------------------------------------------------
\* What a packet, or the wall switch, does to the motor.
Move(p) ==
  /\ motor' = IF p.drive THEN p.channel
              ELSE IF motor = p.channel THEN None ELSE motor
  /\ driven' = IF p.drive THEN p.channel ELSE driven
  /\ wire' = wire \cup {p}

Apply(c) ==
  /\ c \in InFlight \ applied
  /\ applied' = applied \cup {c}
  /\ Move(packet[c])
  /\ UNCHANGED <<isClosed, lastStatus, packet, clean>>

WallSwitch(p) ==
  /\ Move(p)
  /\ clean' = StillClean(p)
  /\ UNCHANGED <<isClosed, lastStatus, packet, applied>>

\* The shutter reaches its end and its limit switch stops the motor.
EndOfTravel ==
  /\ motor # None
  /\ motor' = None
  /\ UNCHANGED <<isClosed, lastStatus, packet, applied, wire, driven, clean>>

LoseResponse(p) ==
  /\ p \in wire
  /\ wire' = wire \ {p}
  /\ clean' = FALSE
  /\ UNCHANGED <<isClosed, lastStatus, packet, applied, motor, driven>>

Next ==
  \/ \E c \in Calls : \/ OpenCover(c) \/ CloseCover(c) \/ StopCover(c)
                      \/ Acknowledged(c) \/ NotAcknowledged(c)
                      \/ Apply(c)
  \/ \E p \in Packet : ControlResponse(p) \/ WallSwitch(p) \/ LoseResponse(p)
  \/ OtherChannelResponse
  \/ EndOfTravel

Spec == Init /\ [][Next]_vars

-----------------------------------------------------------------------------
\* As long as exchanges run one at a time and lose nothing, the entity shows
\* the direction the motor was last driven, once all is quiet.
ShowsLastDrive ==
  Quiet /\ clean /\ driven # None => /\ isClosed = (driven = "down")
                                     /\ lastStatus = driven

\* Under the same condition, a stop reaches the channel that drives the motor.
LoneStopStops ==
  \A c \in Calls : c \in applied' \ applied /\ clean /\ ~packet[c].drive
                      => motor' = None

\* What the comment at src/cover.py:345 says: a stop is sent to both channels,
\* so that when it arrives the motor stops.
StopStops ==
  [][\A c \in Calls : c \in applied' \ applied /\ ~packet[c].drive
                        => motor' = None]_vars
=============================================================================
