---------------------------- MODULE RelockingLock ----------------------------
(***************************************************************************)
(* What the admin lock (src/lock.py) promises the house, without entities, *)
(* tasks and handles: a lock that somebody opens is closed by hand, or by  *)
(* itself once a full timeout has passed since it was last opened, and what*)
(* is shown of it lags behind only while it has closed by itself.          *)
(* AdminLock implements it.                                                *)
(***************************************************************************)
EXTENDS Naturals

CONSTANT Timeout

VARIABLES open,       \* whether the lock is open
          age,        \* ticks since it was last opened, up to the timeout
          shownOpen   \* whether it is shown open

contractVars == <<open, age, shownOpen>>

Init == open = FALSE /\ age = 0 /\ shownOpen = FALSE

Open == open' = TRUE /\ age' = 0 /\ shownOpen' = TRUE

Close == open' = FALSE /\ shownOpen' = FALSE /\ UNCHANGED age

Expire ==
  /\ open /\ age = Timeout
  /\ open' = FALSE
  /\ UNCHANGED <<age, shownOpen>>

Show == shownOpen' = open /\ UNCHANGED <<open, age>>

Tick ==
  /\ age < Timeout
  /\ age' = age + 1
  /\ UNCHANGED <<open, shownOpen>>

\* A reload puts a new lock in its place, which is closed: its age means nothing.
Replace == open' = FALSE /\ shownOpen' = FALSE /\ age' \in 0..Timeout

Next == Open \/ Close \/ Expire \/ Show \/ Tick \/ Replace

Spec == Init /\ [][Next]_contractVars

LiveSpec ==
  /\ Spec
  /\ WF_contractVars(Tick) /\ WF_contractVars(Expire) /\ WF_contractVars(Show)
=============================================================================
