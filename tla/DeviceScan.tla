----------------------------- MODULE DeviceScan -----------------------------
(***************************************************************************)
(* The scan for devices: GET /api/scan_devices (src/__init__.py).          *)
(*                                                                         *)
(* A scan empties the list of discovered devices in hass.data, broadcasts a*)
(* number of times a second apart and returns the list, to which the       *)
(* protocol library adds every device that answers.  The list belongs to   *)
(* no scan: one that begins while another waits empties it for both.       *)
(***************************************************************************)
EXTENDS Naturals, FiniteSets

CONSTANTS Scans,       \* requests in progress at once
          Devices,     \* modules on the network
          Broadcasts   \* prodcast_attempts

ScanConstantsOK == Broadcasts \in Nat \ {0}

VARIABLES discovered,  \* hass.data[DOMAIN]["discovered_devices"]
          left,        \* broadcasts each scan has still to send
          scanning,    \* the scans that wait
          answers,     \* answers on their way
          found,       \* what each scan has returned
          heard,       \* history: the devices that answered during each scan
          undisturbed  \* history: no other scan began during it

vars == <<discovered, left, scanning, answers, found, heard, undisturbed>>

TypeOK ==
  /\ discovered \in SUBSET Devices
  /\ left \in [Scans -> 0..Broadcasts]
  /\ scanning \in SUBSET Scans
  /\ answers \in SUBSET Devices
  /\ found \in [Scans -> SUBSET Devices]
  /\ heard \in [Scans -> SUBSET Devices]
  /\ undisturbed \in [Scans -> BOOLEAN]

Init ==
  /\ discovered = {}
  /\ left = [s \in Scans |-> 0]
  /\ scanning = {}
  /\ answers = {}
  /\ found = [s \in Scans |-> {}]
  /\ heard = [s \in Scans |-> {}]
  /\ undisturbed = [s \in Scans |-> FALSE]

-----------------------------------------------------------------------------
\* A broadcast, which some of the devices answer.
Broadcast(s, n) ==
  /\ left' = [left EXCEPT ![s] = n - 1]
  /\ \E some \in SUBSET Devices : answers' = answers \cup some

\* Mutation: the list of the scan before is kept.
BeginWithOldList(s) ==
  /\ s \notin scanning
  /\ scanning' = scanning \cup {s}
  /\ Broadcast(s, Broadcasts)
  /\ heard' = [heard EXCEPT ![s] = {}]
  /\ undisturbed' = [t \in Scans |-> t = s \/ (undisturbed[t] /\ t \notin scanning)]
  /\ UNCHANGED <<discovered, found>>

\* A request comes: the list is emptied, the first packet sent.
Begin(s) ==
  /\ s \notin scanning
  /\ scanning' = scanning \cup {s}
  /\ discovered' = {}
  /\ Broadcast(s, Broadcasts)
  /\ heard' = [heard EXCEPT ![s] = {}]
  /\ undisturbed' = [t \in Scans |-> t = s \/ (undisturbed[t] /\ t \notin scanning)]
  /\ UNCHANGED found

\* A second is over: the next packet.
Again(s) ==
  /\ s \in scanning /\ left[s] > 0
  /\ Broadcast(s, left[s])
  /\ UNCHANGED <<discovered, scanning, found, heard, undisturbed>>

\* The last second is over: the scan returns the list.
Return(s) ==
  /\ s \in scanning /\ left[s] = 0
  /\ scanning' = scanning \ {s}
  /\ found' = [found EXCEPT ![s] = discovered]
  /\ UNCHANGED <<discovered, left, answers, heard, undisturbed>>

\* An answer arrives; an answer that nobody waits for any more is heard, too.
Answer(d) ==
  /\ d \in answers
  /\ answers' = answers \ {d}
  /\ discovered' = discovered \cup {d}
  /\ heard' = [s \in Scans |-> IF s \in scanning THEN heard[s] \cup {d} ELSE heard[s]]
  /\ UNCHANGED <<left, scanning, found, undisturbed>>

\* An answer is lost.
LoseAnswer(d) ==
  /\ d \in answers
  /\ answers' = answers \ {d}
  /\ UNCHANGED <<discovered, left, scanning, found, heard, undisturbed>>

Next ==
  \/ \E s \in Scans : Begin(s) \/ Again(s) \/ Return(s)
  \/ \E d \in Devices : Answer(d) \/ LoseAnswer(d)

Spec == Init /\ [][Next]_vars

-----------------------------------------------------------------------------
\* A scan returns nothing but devices that answered while it ran, whoever else
\* scans; and all of them, if no other scan began meanwhile.
ScanFinds ==
  \A s \in Scans : (s \notin scanning) =>
    /\ found[s] \subseteq heard[s]
    /\ undisturbed[s] => found[s] = heard[s]
=============================================================================
