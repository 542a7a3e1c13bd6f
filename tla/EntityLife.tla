----------------------------- MODULE EntityLife -----------------------------
(***************************************************************************)
(* The life of one entity of a platform through unloads and reloads, and   *)
(* changes in the entity registry: EntityPlatform                          *)
(* (src/homeassistant/helpers/entity_platform.py), Entity                  *)
(* (src/homeassistant/helpers/entity.py) and the part of the state machine *)
(* that tells them apart (src/homeassistant/core.py).                      *)
(*                                                                         *)
(* Each load makes a new platform with a new object, which takes over the  *)
(* entity_id the registry has for its unique_id, if the state there is one *)
(* that the last object left as "restored".  The listeners of the TIS      *)
(* entities outlive their object (src/switch.py), so that any object that  *)
(* was once added writes its state again and again.                        *)
(*                                                                         *)
(* Left out: polling, and the devices of the entities.                     *)
(***************************************************************************)
EXTENDS Naturals, FiniteSets

CONSTANTS MaxLoads,   \* bound of the loads: object n is that of the n-th
          Ids,        \* entity_ids
          None,
          Reserved,   \* an entity_id that is taken, and has no state yet
          Restored    \* the state an unloaded entity leaves

LifeConstantsOK ==
  /\ MaxLoads \in Nat
  /\ None \notin Ids \cup Nat /\ Reserved \notin Nat /\ Restored \notin Nat
  /\ None # Reserved /\ None # Restored /\ Reserved # Restored

Objects == 1..MaxLoads

VARIABLES load,      \* the loads so far
          phase,     \* of the last platform
          object,    \* Entity._platform_state
          id,        \* Entity.entity_id
          placed,    \* the objects in their EntityPlatform.entities
          adding,    \* the objects that await async_added_to_hass
          removing,  \* the objects that await async_will_remove_from_hass
          forced,    \* those whose state goes with them
          again,     \* those that are added again with a new entity_id
          unloading, \* the object the unload waits for
          states,    \* hass.states: who has written, restored, or reserved
          registry,  \* the entity_id registered for the unique_id
          disabled,  \* the registry entry is disabled
          failed,    \* history: the objects whose removal has raised
          crossed    \* history: the registry changed while an object was added
                     \* or removed, or an object could not be added

removal == <<removing, forced, again>>
vars == <<load, phase, object, id, placed, adding, removal, unloading, states,
          registry, disabled, failed, crossed>>

LifeTypeOK ==
  /\ load \in 0..MaxLoads
  /\ phase \in {"unloaded", "loading", "loaded", "unloading"}
  /\ object \in [Objects -> {"new", "added", "removed"}]
  /\ id \in [Objects -> Ids \cup {None}]
  /\ placed \in SUBSET Objects /\ adding \in SUBSET Objects
  /\ removing \in SUBSET Objects /\ forced \in SUBSET removing
  /\ again \in SUBSET removing
  /\ unloading \in Objects \cup {0}
  /\ states \in [Ids -> {None, Reserved, Restored} \cup Objects]
  /\ registry \in Ids \cup {None}
  /\ disabled \in BOOLEAN
  /\ failed \in SUBSET Objects /\ crossed \in BOOLEAN

Init ==
  /\ load = 0 /\ phase = "unloaded"
  /\ object = [e \in Objects |-> "new"]
  /\ id = [e \in Objects |-> None]
  /\ placed = {} /\ adding = {} /\ removing = {} /\ forced = {} /\ again = {}
  /\ unloading = 0
  /\ states = [i \in Ids |-> None]
  /\ registry = None /\ disabled = FALSE
  /\ failed = {} /\ crossed = FALSE

-----------------------------------------------------------------------------
\* _entity_id_already_exists: the state is not there, or one that was restored.
MayTake(state) == state \in {None, Restored}

\* The entity_ids async_get_or_create may give: the registered one, or one that
\* is not taken.
Offered ==
  IF registry # None THEN {registry} ELSE {i \in Ids : states[i] = None}

\* _async_add_entity: the entity_id is taken over and, if it has no state,
\* reserved, up to the await of async_added_to_hass; or the object is refused.
Place(e, i, before) ==
  /\ registry' = i
  /\ id' = [id EXCEPT ![e] = i]
  /\ IF MayTake(before[i]) /\ ~disabled
       THEN /\ object' = [object EXCEPT ![e] = "added"]
            /\ placed' = placed \cup {e}
            /\ adding' = adding \cup {e}
            /\ states' = [before EXCEPT ![i] = IF @ = None THEN Reserved ELSE @]
       ELSE /\ object' = [object EXCEPT ![e] = "removed"]
            /\ states' = before
            /\ UNCHANGED <<placed, adding>>

\* async_setup_entry of the platform makes its object, and adds it.
Load ==
  /\ phase = "unloaded" /\ load < MaxLoads
  /\ load' = load + 1
  /\ phase' = "loading"
  /\ \E i \in Offered : Place(load + 1, i, states)
  /\ UNCHANGED <<removal, unloading, disabled, failed, crossed>>

\* Mutation: the platform state is not asked.
WritesAnyway(e) == object[e] # "new"

\* _async_write_ha_state: nothing is written for an object that is removed, or
\* whose registry entry is disabled.
Writes(e) == object[e] = "added" /\ ~disabled

\* add_to_platform_finish
Added(e) ==
  /\ e \in adding
  /\ adding' = adding \ {e}
  /\ states' = IF Writes(e) THEN [states EXCEPT ![id[e]] = e] ELSE states
  /\ UNCHANGED <<load, phase, object, id, placed, removal, unloading, registry,
                 disabled, failed, crossed>>

\* async_added_to_hass raises, as in the switches when a packet cannot be sent:
\* the object stays, with no state.
AddedRaises(e) ==
  /\ e \in adding
  /\ adding' = adding \ {e}
  /\ crossed' = TRUE
  /\ UNCHANGED <<load, phase, object, id, placed, removal, unloading, states,
                 registry, disabled, failed>>

\* The platform has waited for its entities.
Loaded ==
  /\ phase = "loading" /\ load \notin adding
  /\ phase' = "loaded"
  /\ UNCHANGED <<load, object, id, placed, adding, removal, unloading, states,
                 registry, disabled, failed, crossed>>

\* A packet of the device: every object that was ever added hears it.
Feedback(e) ==
  /\ object[e] # "new" /\ id[e] # None
  /\ states' = IF Writes(e) THEN [states EXCEPT ![id[e]] = e] ELSE states
  /\ UNCHANGED <<load, phase, object, id, placed, adding, removal, unloading,
                 registry, disabled, failed, crossed>>

-----------------------------------------------------------------------------
\* async_remove of an object that is there, up to the await of
\* async_will_remove_from_hass.
Remove(e) ==
  /\ object' = [object EXCEPT ![e] = "removed"]
  /\ placed' = placed \ {e}
  /\ removing' = removing \cup {e}

\* async_reset of the platform removes the object, if it has it.
Unload ==
  /\ phase = "loaded"
  /\ phase' = "unloading"
  /\ IF load \in placed
       THEN Remove(load) /\ unloading' = load
       ELSE unloading' = 0 /\ UNCHANGED <<object, placed, removing>>
  /\ crossed' = (crossed \/ again # {})
  /\ UNCHANGED <<load, id, adding, forced, again, states, registry, disabled,
                 failed>>

Unloaded ==
  /\ phase = "unloading" /\ unloading \notin removing
  /\ phase' = "unloaded"
  /\ UNCHANGED <<load, object, id, placed, adding, removal, unloading, states,
                 registry, disabled, failed, crossed>>

\* Mutation: what was left behind is as the object left it.
LeftAsItIs(e) == IF e \in forced THEN None ELSE states[id[e]]

\* What async_remove leaves: the state stays as restored, unless the object has
\* heard, before it was removed, that it is to go.
LeftBehind(e) == IF e \in forced THEN None ELSE Restored

NotRemoving(e) ==
  /\ removing' = removing \ {e}
  /\ forced' = forced \ {e}
  /\ again' = again \ {e}

\* The end of async_remove.
Removed(e) ==
  /\ e \in removing \ again
  /\ states' = [states EXCEPT ![id[e]] = LeftBehind(e)]
  /\ NotRemoving(e)
  /\ UNCHANGED <<load, phase, object, id, placed, adding, unloading, registry,
                 disabled, failed, crossed>>

\* async_will_remove_from_hass raises: the state is left as it is.
RemovalRaises(e) ==
  /\ e \in removing
  /\ failed' = failed \cup {e}
  /\ NotRemoving(e)
  /\ UNCHANGED <<load, phase, object, id, placed, adding, unloading, states,
                 registry, disabled, crossed>>

\* The end of async_remove in a change of the entity_id, and the addition to the
\* same platform: the new entity_id may have been taken meanwhile.
AddedAgain(e) ==
  /\ e \in again
  /\ \E i \in Offered : Place(e, i, [states EXCEPT ![id[e]] = None])
  /\ NotRemoving(e)
  /\ UNCHANGED <<load, phase, unloading, disabled, failed, crossed>>

-----------------------------------------------------------------------------
\* The registry is changed: who is added hears it.
Heard == {e \in Objects : object[e] = "added"}
Busy == adding \cup removing # {}

\* Who has heard that it is to go is removed, up to the same await.
HeardToGo ==
  /\ object' = [e \in Objects |-> IF e \in Heard THEN "removed" ELSE object[e]]
  /\ placed' = placed \ Heard
  /\ removing' = removing \cup Heard
  /\ forced' = forced \cup Heard

\* The user deletes the entity.
Delete ==
  /\ registry # None
  /\ registry' = None /\ disabled' = FALSE
  /\ crossed' = (crossed \/ Busy)
  /\ HeardToGo
  /\ states' = [states EXCEPT ![registry] = IF @ = Restored THEN None ELSE @]
  /\ UNCHANGED <<load, phase, id, adding, again, unloading, failed>>

\* The user disables it, or enables it: a reload follows sooner or later.
Disable ==
  /\ registry # None
  /\ disabled' = ~disabled
  /\ crossed' = (crossed \/ Busy)
  /\ IF disabled THEN UNCHANGED <<object, placed, removing, forced>> ELSE HeardToGo
  /\ UNCHANGED <<load, phase, id, adding, again, unloading, states, registry, failed>>

\* The user gives it another entity_id, one that is free.
Rename(i) ==
  /\ registry # None /\ states[i] = None
  /\ registry' = i
  /\ crossed' = (crossed \/ Busy)
  /\ HeardToGo
  /\ again' = again \cup Heard
  /\ UNCHANGED <<load, phase, id, adding, unloading, states, disabled, failed>>

Finished == load = MaxLoads /\ phase = "unloaded" /\ UNCHANGED vars

Next ==
  \/ Load \/ Loaded \/ Unload \/ Unloaded
  \/ \E e \in Objects : \/ Added(e) \/ AddedRaises(e) \/ Feedback(e)
                        \/ Removed(e) \/ RemovalRaises(e) \/ AddedAgain(e)
  \/ Delete \/ Disable \/ \E i \in Ids : Rename(i)
  \/ Finished

Spec == Init /\ [][Next]_vars

-----------------------------------------------------------------------------
\* What is shown was written by an object that is added, or being removed: no
\* listener that outlived its object shows a state of an entity that is unloaded,
\* removed or taken over, unless the removal of that object raised.
NoGhost ==
  \A i \in Ids : states[i] \in Objects =>
    \/ object[states[i]] = "added" /\ id[states[i]] = i
    \/ states[i] \in removing \cup failed

\* No two objects are added for the entity at once, unless the registry changed
\* while one was added or removed.
OneObject == ~crossed => Cardinality(Heard) <= 1

\* The entity of a loaded platform is shown, by the object of the last load.
LoadedIsShown ==
  phase = "loaded" /\ ~Busy /\ ~crossed /\ object[load] = "added"
    => states[registry] = load

\* The object of a load is added: what the last one left behind does not keep it
\* out, unless the removal of one raised.
NewOneIsAdded ==
  [][load' # load /\ ~crossed /\ failed = {} /\ ~disabled => load' \in placed']_vars
=============================================================================
