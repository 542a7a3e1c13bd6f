------------------------------ MODULE SavedCopy ------------------------------
(***************************************************************************)
(* What a store (src/homeassistant/helpers/storage.py) promises the owner  *)
(* of the data, whatever its timers, locks, listeners and threads do: the  *)
(* copy on disk follows the data in memory, never runs ahead of it and     *)
(* never goes back, is complete after an orderly stop, and is what the     *)
(* next start finds.  The data of a process that is gone counts as 0.      *)
(*                                                                         *)
(* The promise is void while `excused': after a write that failed, after a *)
(* caller who gave up or removed the data, and for what is asked when the  *)
(* stop no longer waits.                                                   *)
(***************************************************************************)
EXTENDS Naturals

CONSTANTS MaxVersion,  \* bound: the owner changes the data this often
          Durable      \* a copy survives the loss of power at once (fsync)

VARIABLES mem,      \* the version of the data in memory
          disk,     \* the version on disk; 0 is no data
          life,     \* "up", "stopped" or "crashed"
          excused

vars == <<mem, disk, life, excused>>

Versions == 0..MaxVersion

Init == mem = 0 /\ disk = 0 /\ life = "stopped" /\ excused = FALSE

\* The owner changes the data, or asks once more for what there is.
Change ==
  /\ life = "up" /\ mem' \in Versions \cap {mem, mem + 1}
  /\ excused' \in BOOLEAN /\ UNCHANGED <<disk, life>>

\* A copy gets newer, and older only while nothing is promised.
Persist ==
  /\ life = "up" /\ disk' \in 0..mem /\ (disk' < disk => excused)
  /\ excused' \in {excused, TRUE} /\ UNCHANGED <<mem, life>>

\* Something goes wrong that the store does not make good.
GiveUp == life = "up" /\ excused' = TRUE /\ UNCHANGED <<mem, disk, life>>

\* An orderly stop leaves nothing behind in memory.
Stop ==
  /\ life = "up" /\ (disk = mem \/ excused)
  /\ life' = "stopped" /\ mem' = 0 /\ excused' = FALSE /\ UNCHANGED disk

\* A crash leaves what was saved; without fsync the loss of power may take it.
Crash ==
  /\ life = "up" /\ life' = "crashed"
  /\ disk' \in {disk} \cup (IF Durable THEN {} ELSE {0})
  /\ mem' = 0 /\ excused' = FALSE

\* What was saved is what there is.
Start == life # "up" /\ life' = "up" /\ mem' = disk /\ excused' = FALSE /\ UNCHANGED disk

Next == Change \/ Persist \/ GiveUp \/ Stop \/ Crash \/ Start

Spec == Init /\ [][Next]_vars
=============================================================================
