--------------------------- MODULE SecurityPanel ---------------------------
(***************************************************************************)
(* The security panel: TISSecurity (src/select.py) and the TIS security    *)
(* module it controls over UDP.                                            *)
(*                                                                         *)
(* The panel listens to every event of the bus.  Its handler takes the key *)
(* "locked" of the event's data for the admin lock: an event without that  *)
(* key makes the panel writable.  It also copies the mode of a             *)
(* security_feedback event into the option it shows.                       *)
(*                                                                         *)
(* A select sends a packet and awaits its acknowledgement; the option      *)
(* changes only if one came.  While it waits, other selects, feedbacks and *)
(* lock events run.                                                        *)
(*                                                                         *)
(* The bus runs the handler synchronously, and it is called for the panel's*)
(* own state_changed events and for the call_service event that Home       *)
(* Assistant fires before it runs a service.  Options are identified with  *)
(* the mode numbers they stand for (SECURITY_OPTIONS is a bijection).      *)
(* The option shown by Home Assistant is always the panel's, since every   *)
(* change of it is followed by a write in the same run of the event loop.  *)
(*                                                                         *)
(* External: the security module and the network (TISControlProtocol).     *)
(***************************************************************************)
EXTENDS Naturals, FiniteSets

CONSTANTS Options,      \* SECURITY_OPTIONS
          Disarm,       \* the option the panel is created with
          UnknownMode,  \* modes of the module that no option stands for
          NoPacket,     \* a select that is not in flight
          Calls,        \* bound: selects that may be in flight at once
          MaxWire       \* bound: feedbacks in flight at once

ConstantsOK ==
  /\ Disarm \in Options
  /\ UnknownMode \notin Options
  /\ NoPacket \notin Options
  /\ MaxWire \in Nat

Modes == Options \cup {UnknownMode}

VARIABLES readOnly,  \* _attr_read_only
          option,    \* _attr_current_option
          packet,    \* the option each select in flight has sent
          applied,   \* the selects whose packet has reached the module
          mode,      \* the security module's mode
          wire,      \* feedbacks of the module on their way to the panel
          held,      \* history: the modes the module has held
          clean      \* history: nothing overlapped or was lost since all was quiet

panelVars == <<readOnly, option, packet, applied, mode, wire, held, clean>>

TypeOK ==
  /\ readOnly \in BOOLEAN
  /\ option \in Options
  /\ packet \in [Calls -> Options \cup {NoPacket}]
  /\ applied \in SUBSET Calls
  /\ mode \in Modes
  /\ wire \in [Modes -> 0..MaxWire]
  /\ held \in SUBSET Modes
  /\ clean \in BOOLEAN

\* The panel as its setup leaves it: created read only, then made writable by
\* the state_changed event of its own first write.  It does not ask the module.
Init ==
  /\ readOnly = FALSE
  /\ option = Disarm
  /\ packet = [c \in Calls |-> NoPacket]
  /\ applied = {}
  /\ mode \in Modes
  /\ wire = [m \in Modes |-> 0]
  /\ held = {mode}
  /\ clean = (mode = Disarm)

InFlight == {c \in Calls : packet[c] # NoPacket}
Quiet == InFlight = {} /\ \A m \in Modes : wire[m] = 0

-----------------------------------------------------------------------------
\* Mutation: any truthy data protects.
ProtectOnAnything(locked) == readOnly' = TRUE

\* handle_event's first line, on an event whose data has (or lacks) a true
\* value under "locked".
Protect(locked) == readOnly' = locked

\* An event of the admin lock.
AdminLockEvent(locked) ==
  /\ Protect(locked)
  /\ UNCHANGED <<option, packet, applied, mode, wire, held, clean>>

\* Any other event of the bus but security_feedback.
OtherEvent ==
  /\ Protect(FALSE)
  /\ UNCHANGED <<option, packet, applied, mode, wire, held, clean>>

\* Mutation: handle_event returns before it looks at the feedback.
IgnoredFeedback(m) ==
  /\ wire[m] > 0
  /\ wire' = [wire EXCEPT ![m] = @ - 1]
  /\ Protect(FALSE)
  /\ UNCHANGED <<option, packet, applied, mode, held, clean>>

\* A security_feedback event for the panel's channel.
SecurityFeedback(m) ==
  /\ wire[m] > 0
  /\ wire' = [wire EXCEPT ![m] = @ - 1]
  /\ Protect(FALSE)
  /\ option' = IF m \in Options THEN m ELSE option
  /\ UNCHANGED <<packet, applied, mode, held, clean>>

\* The service select.select_option, up to the await.  The call_service event
\* comes first, so that the read-only test of async_select_option passes.
SelectOption(c, opt) ==
  /\ c \notin InFlight
  /\ Protect(FALSE)
  /\ ~readOnly'
  /\ packet' = [packet EXCEPT ![c] = opt]
  /\ clean' = Quiet
  /\ UNCHANGED <<option, applied, mode, wire, held>>

\* The outcome of a select's await: the call is over.
Return(c) ==
  /\ c \in InFlight
  /\ packet' = [packet EXCEPT ![c] = NoPacket]
  /\ applied' = applied \ {c}
  /\ UNCHANGED <<mode, wire, held>>

\* A change of the option is written, and the state_changed event reaches the
\* panel's own handler.
SetOption(opt) ==
  /\ option' = opt
  /\ IF opt # option THEN Protect(FALSE) ELSE UNCHANGED readOnly

\* Mutation: the acknowledgement is not looked at.
UncheckedAck(c) ==
  /\ Return(c)
  /\ SetOption(packet[c])
  /\ UNCHANGED clean

\* The await returns an acknowledgement.
Acknowledged(c) ==
  /\ c \in applied
  /\ Return(c)
  /\ SetOption(packet[c])
  /\ UNCHANGED clean

\* The await returns none: the packet, or its acknowledgement, is lost.
NotAcknowledged(c) ==
  /\ Return(c)
  /\ clean' = FALSE
  /\ UNCHANGED <<readOnly, option>>

-----------------------------------------------------------------------------
\* The module receives the packet of a select.  A retry that arrives again
\* only repeats the step.
Apply(c) ==
  /\ c \in InFlight
  /\ applied' = applied \cup {c}
  /\ mode' = packet[c]
  /\ held' = held \cup {mode'}
  /\ UNCHANGED <<readOnly, option, packet, wire, clean>>

\* The mode is changed at the module, which reports it.
Keypad(m) ==
  /\ m # mode
  /\ wire[m] < MaxWire
  /\ mode' = m
  /\ held' = held \cup {m}
  /\ wire' = [wire EXCEPT ![m] = @ + 1]
  /\ clean' = (Quiet /\ m \in Options)
  /\ UNCHANGED <<readOnly, option, packet, applied>>

LoseFeedback(m) ==
  /\ wire[m] > 0
  /\ wire' = [wire EXCEPT ![m] = @ - 1]
  /\ clean' = FALSE
  /\ UNCHANGED <<readOnly, option, packet, applied, mode, held>>

\* The select platform is reloaded: a new panel, showing Disarm.  Selects of
\* the old one can still reach the module; their outcome is shown nowhere.
Reload ==
  /\ readOnly' = FALSE
  /\ option' = Disarm
  /\ packet' = [c \in Calls |-> NoPacket]
  /\ applied' = {}
  /\ \E m \in {mode} \cup {packet[c] : c \in InFlight} :
       /\ mode' = m
       /\ held' = held \cup {m}
  /\ clean' = (Quiet /\ mode' = Disarm)
  /\ UNCHANGED wire

Next ==
  \/ \E locked \in BOOLEAN : AdminLockEvent(locked)
  \/ OtherEvent
  \/ \E m \in Modes : SecurityFeedback(m) \/ Keypad(m) \/ LoseFeedback(m)
  \/ \E c \in Calls : \/ \E opt \in Options : SelectOption(c, opt)
                      \/ Acknowledged(c) \/ NotAcknowledged(c) \/ Apply(c)
  \/ Reload

Spec == Init /\ [][Next]_panelVars

-----------------------------------------------------------------------------
\* An exchange that runs alone and loses nothing - a select and its
\* acknowledgement, or a change at the module and its feedback - leaves the
\* panel showing the module's mode.  Overlaps do not: acknowledgements carry
\* no order.
LoneExchangeAgrees == Quiet /\ clean => option = mode

\* Whatever overlaps, is lost or repeated, the panel shows the mode it was
\* created with or one the module has really held: a packet nobody answered
\* never changes it.
ShownModeWasHeld == option \in held \cup {Disarm}
=============================================================================
