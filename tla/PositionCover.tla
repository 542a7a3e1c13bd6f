---------------------------- MODULE PositionCover ----------------------------
(***************************************************************************)
(* A cover with position feedback: TISCoverWPos (src/cover.py) and the     *)
(* channel of the module that drives it.                                   *)
(*                                                                         *)
(* The entity keeps two facts that should tell the same story: the position*)
(* and whether it is closed.  Most feedback sets both; binary_feedback     *)
(* carries one bit and sets at most one of them; offline_device, which any *)
(* entity of the same module may fire when a command of its own is not     *)
(* acknowledged, clears both (the channel is not checked).                 *)
(*                                                                         *)
(* async_open_cover and async_close_cover are not actions: the entity only *)
(* declares SET_POSITION, so no service reaches them.                      *)
(*                                                                         *)
(* External: the module and the network.  Every branch of handle_event ends*)
(* in a write, and the service call ends in one since the entity is polled.*)
(***************************************************************************)
EXTENDS Naturals, FiniteSets

CONSTANTS Positions,  \* the positions of the example, 0 among them
          Calls,      \* bound: commands that may be in flight at once
          MaxWire,    \* bound: reports on the wire at once
          None        \* Python's None; a call that is not in flight

ConstantsOK ==
  /\ 0 \in Positions /\ Positions \subseteq 0..100
  /\ None \notin BOOLEAN /\ None \notin Positions
  /\ MaxWire \in Nat

VARIABLES isClosed,  \* _attr_is_closed
          position,  \* _attr_current_cover_position
          target,    \* the position each command in flight has asked for
          applied,   \* the commands in flight that have reached the module
          actual,    \* the position of the cover
          wire,      \* reports on their way to the entity
          clean      \* history: nothing was lost, cleared or left untold, and
                     \* nothing overlapped, since an exchange began in quiet

vars == <<isClosed, position, target, applied, actual, wire, clean>>

\* "full" is a control_response or an update_response, "bit" a binary_feedback.
Report == [kind : {"full", "bit"}, value : Positions]

TypeOK ==
  /\ isClosed \in BOOLEAN \cup {None}
  /\ position \in Positions \cup {None}
  /\ target \in [Calls -> Positions \cup {None}]
  /\ applied \in SUBSET Calls
  /\ actual \in Positions
  /\ wire \in SUBSET Report
  /\ clean \in BOOLEAN

Init ==
  /\ isClosed = None
  /\ position = None
  /\ target = [c \in Calls |-> None]
  /\ applied = {}
  /\ actual \in Positions
  /\ wire = {}
  /\ clean = FALSE

InFlight == {c \in Calls : target[c] # None}
Quiet == InFlight = {} /\ wire = {}

\* The entity learns a position, and with it whether the cover is closed.
Show(p) == position' = p /\ isClosed' = (p = 0)

Unknown == position' = None /\ isClosed' = None

-----------------------------------------------------------------------------
\* async_set_cover_position up to its await.
SetPosition(c, p) ==
  /\ c \notin InFlight
  /\ target' = [target EXCEPT ![c] = p]
  /\ clean' = Quiet
  /\ UNCHANGED <<isClosed, position, applied, actual, wire>>

\* The await returns: the command is over.
Return(c) ==
  /\ c \in InFlight
  /\ target' = [target EXCEPT ![c] = None]
  /\ applied' = applied \ {c}
  /\ UNCHANGED <<actual, wire>>

Acknowledged(c) ==
  /\ c \in applied
  /\ Return(c)
  /\ Show(target[c])
  /\ UNCHANGED clean

NotAcknowledged(c) ==
  /\ Return(c)
  /\ Unknown
  /\ clean' = FALSE

\* Mutation: a full report of another cover of the module is taken for one's
\* own (the channel is not checked, as it is not for offline_device).
FullFeedbackOfAny(r) ==
  /\ r \in wire
  /\ r.kind = "full"
  /\ wire' = wire \ {r}
  /\ \E p \in Positions : Show(p)
  /\ UNCHANGED <<target, applied, actual, clean>>

\* control_response for the entity's channel, or update_response.
FullFeedback(r) ==
  /\ r \in wire
  /\ r.kind = "full"
  /\ wire' = wire \ {r}
  /\ Show(r.value)
  /\ UNCHANGED <<target, applied, actual, clean>>

\* Mutation: the bit also says that the cover is open.
BitFeedbackBothWays(r) ==
  /\ r \in wire
  /\ r.kind = "bit"
  /\ wire' = wire \ {r}
  /\ isClosed' = (r.value = 0)
  /\ UNCHANGED <<position, target, applied, actual, clean>>

\* binary_feedback: a bit that is 0 says closed, the other says nothing.
BitFeedback(r) ==
  /\ r \in wire
  /\ r.kind = "bit"
  /\ wire' = wire \ {r}
  /\ isClosed' = IF r.value = 0 THEN TRUE ELSE isClosed
  /\ UNCHANGED <<position, target, applied, actual, clean>>

\* offline_device, of this or of any other entity of the module.
OfflineDevice ==
  /\ Unknown
  /\ clean' = FALSE
  /\ UNCHANGED <<target, applied, actual, wire>>

-----------------------------------------------------------------------------
\* The cover is at p, and the module says so.
Move(p, kind) ==
  /\ Cardinality(wire) < MaxWire
  /\ actual' = p
  /\ wire' = wire \cup {[kind |-> kind, value |-> p]}

Apply(c) ==
  /\ c \in InFlight \ applied
  /\ applied' = applied \cup {c}
  /\ Move(target[c], "full")
  /\ UNCHANGED <<isClosed, position, target, clean>>

\* The cover is moved at the wall (or not moved, and its state asked for).
Wall(p, kind) ==
  /\ Move(p, kind)
  /\ clean' = (Quiet /\ (kind = "full" \/ (clean /\ p = actual)))
  /\ UNCHANGED <<isClosed, position, target, applied>>

Lose(r) ==
  /\ r \in wire
  /\ wire' = wire \ {r}
  /\ clean' = FALSE
  /\ UNCHANGED <<isClosed, position, target, applied, actual>>

Next ==
  \/ \E c \in Calls : \/ \E p \in Positions : SetPosition(c, p)
                      \/ Acknowledged(c) \/ NotAcknowledged(c) \/ Apply(c)
  \/ \E r \in Report : FullFeedback(r) \/ BitFeedback(r) \/ Lose(r)
  \/ OfflineDevice
  \/ \E p \in Positions, kind \in {"full", "bit"} : Wall(p, kind)

Spec == Init /\ [][Next]_vars

-----------------------------------------------------------------------------
\* The two facts never contradict each other the unsafe way round: a cover
\* shown as open has a known position other than 0.  (The other way they do:
\* a bit can declare closed a cover whose last known position is 50.)
OpenHasPosition == isClosed = FALSE => position \in Positions \ {0}

\* After an exchange that ran alone and told the position, both are right.
LoneExchangeAgrees ==
  Quiet /\ clean => position = actual /\ isClosed = (actual = 0)
=============================================================================
