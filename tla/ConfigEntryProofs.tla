-------------------------- MODULE ConfigEntryProofs --------------------------
(***************************************************************************)
(* Proofs about ConfigEntry, for any number of callers and timers.         *)
(*                                                                         *)
(* What keeps two setups apart is not one thing.  Of those who hold the    *)
(* reload_lock one works at a time; the first setup holds no lock, but     *)
(* while it works the state refuses the others; and a removal, or a retry  *)
(* that comes too early, is what `disorderly' excuses.  The invariant says *)
(* who may be where (LockOK), and what is then true of the entry (Orderly).*)
(***************************************************************************)
EXTENDS ConfigEntry, FiniteSetTheorems, TLAPS

Waiting == {"lock to reload", "lock to retry"}
Holding == {"unload", "unloaded", "kept"}
AtSetup == {"setup", "failed", "not ready"}

InLock(s, c) == \E i \in DOMAIN s : s[i] = c

\* The queue s of the lock and what the callers do (w): who is in the queue is there
\* once, and only the first works; who waits, or works as only a reload does, is in
\* it; and the first setup, which is not, is one.
LockOf(s, w) ==
  /\ \A i, j \in DOMAIN s : s[i] = s[j] => i = j
  /\ \A i \in DOMAIN s : w[s[i]] \in Waiting \cup Holding \cup AtSetup
  /\ \A i \in DOMAIN s : i > 1 => w[s[i]] \in Waiting
  /\ \A c \in Callers : w[c] \in Waiting \cup Holding => InLock(s, c)
  /\ \A c, d \in Callers :
       (w[c] \in AtSetup /\ ~InLock(s, c)) /\ (w[d] \in AtSetup /\ ~InLock(s, d)) => c = d

LockOK == LockOf(reloadLock, at)

\* What is true of the entry while a caller is somewhere.
Apart(c) ==
  /\ at[c] # "lock to retry"
  /\ at[c] \in {"setup", "failed"} =>
       /\ state = "setup_in_progress"
       /\ ~InLock(reloadLock, c) => reloadLock = <<>>
  /\ at[c] \in {"unload", "kept"} => state = "loaded"
  /\ at[c] = "unloaded" => state = "not_loaded"
  /\ at[c] = "not ready" /\ InLock(reloadLock, c) => state = "setup_retry"
  /\ at[c] \in Removal => /\ known /\ \A d \in Callers \ {c} : at[d] = "nothing"
  /\ at[c] \in {"unload to remove", "kept to remove"} => state = "loaded"
  /\ at[c] = "unloaded to remove" => state = "not_loaded"

Orderly ==
  /\ \A c \in Callers : Apart(c)
  /\ state = "setup_in_progress" => \E c \in Callers : at[c] \in {"setup", "failed"}
  /\ state # "failed_unload" => (up <=> state = "loaded")
  /\ timers \subseteq {cancelRetry}
  /\ timers # {} => state = "setup_retry"
  /\ ~known => Idle /\ timers = {} /\ (restart \/ ~up)

IndInv == TypeOK /\ LockOK /\ (~disorderly => Orderly)

-----------------------------------------------------------------------------
(* What happens to the queue.                                               *)

\* A caller that did nothing joins the queue (Append in src/homeassistant/config_entries.py,
\* reload_lock).
LEMMA Joins ==
  ASSUME NEW s \in Seq(Callers), NEW w \in [Callers -> Awaits], NEW c \in Callers,
         NEW x \in Waiting \cup Holding \cup AtSetup,
         LockOf(s, w), w[c] = "nothing", s # <<>> => x \in Waiting
  PROVE  /\ LockOf(Append(s, c), [w EXCEPT ![c] = x])
         /\ \A d \in Callers : InLock(Append(s, c), d) <=> InLock(s, d) \/ d = c
<1> DEFINE t == Append(s, c)
           v == [w EXCEPT ![c] = x]
<1>1. /\ DOMAIN s = 1..Len(s) /\ DOMAIN t = 1..Len(s) + 1 /\ Len(s) \in Nat
      /\ t[Len(s) + 1] = c /\ \A i \in DOMAIN s : t[i] = s[i] /\ s[i] \in Callers
  OBVIOUS
<1>2. \A i \in DOMAIN s : s[i] # c
  BY DEF LockOf, Waiting, Holding, AtSetup
<1>3. \A d \in Callers : InLock(t, d) <=> InLock(s, d) \/ d = c
  BY <1>1 DEF InLock
<1>4. \A d \in Callers : d # c => v[d] = w[d]
  OBVIOUS
<1>5. v[c] = x
  OBVIOUS
<1>6. \A i, j \in DOMAIN t : t[i] = t[j] => i = j
  BY <1>1, <1>2 DEF LockOf
<1>7. \A i \in DOMAIN t : v[t[i]] \in Waiting \cup Holding \cup AtSetup
  BY <1>1, <1>2, <1>4, <1>5 DEF LockOf
<1>8. \A i \in DOMAIN t : i > 1 => v[t[i]] \in Waiting
  <2> SUFFICES ASSUME NEW i \in DOMAIN t, i > 1 PROVE v[t[i]] \in Waiting
    OBVIOUS
  <2>1. CASE i \in DOMAIN s
    BY <2>1, <1>1, <1>2, <1>4 DEF LockOf
  <2>2. CASE i = Len(s) + 1
    <3>1. s # <<>>
      BY <2>2, <1>1
    <3> QED
      BY <3>1, <2>2, <1>1, <1>5
  <2> QED
    BY <2>1, <2>2, <1>1
<1>9. \A d \in Callers : v[d] \in Waiting \cup Holding => InLock(t, d)
  BY <1>3, <1>4 DEF LockOf
<1>10. ASSUME NEW d \in Callers, NEW e \in Callers,
              v[d] \in AtSetup, ~InLock(t, d), v[e] \in AtSetup, ~InLock(t, e)
       PROVE  d = e
  BY <1>10, <1>3, <1>4 DEF LockOf
<1> QED
  BY <1>3, <1>6, <1>7, <1>8, <1>9, <1>10 DEF LockOf

\* The one that holds the lock is through.
LEMMA Passes ==
  ASSUME NEW s \in Seq(Callers), NEW w \in [Callers -> Awaits], NEW c \in Callers,
         LockOf(s, w), s # <<>>, Head(s) = c
  PROVE  /\ LockOf(Tail(s), [w EXCEPT ![c] = "nothing"])
         /\ \A d \in Callers : InLock(Tail(s), d) <=> InLock(s, d) /\ d # c
<1> DEFINE t == Tail(s)
           v == [w EXCEPT ![c] = "nothing"]
<1>1. /\ DOMAIN s = 1..Len(s) /\ DOMAIN t = 1..Len(s) - 1 /\ Len(s) \in Nat \ {0}
      /\ s[1] = c /\ \A i \in DOMAIN t : t[i] = s[i + 1] /\ i + 1 \in DOMAIN s
  OBVIOUS
<1>2. \A i \in DOMAIN t : t[i] # c /\ t[i] \in Callers
  BY <1>1 DEF LockOf
<1>3. ASSUME NEW d \in Callers
      PROVE  InLock(t, d) <=> InLock(s, d) /\ d # c
  <2>1. ASSUME InLock(t, d) PROVE InLock(s, d) /\ d # c
    BY <2>1, <1>1, <1>2 DEF InLock
  <2>2. ASSUME InLock(s, d), d # c PROVE InLock(t, d)
    <3>1. PICK i \in DOMAIN s : s[i] = d
      BY <2>2 DEF InLock
    <3>2. i # 1 /\ i \in 1..Len(s)
      BY <3>1, <1>1, <2>2
    <3>3. i - 1 \in DOMAIN t /\ t[i - 1] = s[(i - 1) + 1]
      BY <3>2, <1>1
    <3> QED
      BY <3>1, <3>2, <3>3 DEF InLock
  <2> QED
    BY <2>1, <2>2
<1>4. \A d \in Callers : d # c => v[d] = w[d]
  OBVIOUS
<1>5. v[c] = "nothing" /\ "nothing" \notin Waiting \cup Holding \cup AtSetup
  BY DEF Waiting, Holding, AtSetup
<1>6. \A i, j \in DOMAIN t : t[i] = t[j] => i = j
  BY <1>1 DEF LockOf
<1>7. \A i \in DOMAIN t : v[t[i]] \in Waiting
  <2> SUFFICES ASSUME NEW i \in DOMAIN t PROVE v[t[i]] \in Waiting
    OBVIOUS
  <2>1. i + 1 \in DOMAIN s /\ i + 1 > 1 /\ t[i] = s[i + 1]
    BY <1>1
  <2> QED
    BY <2>1, <1>2, <1>4 DEF LockOf
<1>8. \A d \in Callers : v[d] \in Waiting \cup Holding => InLock(t, d)
  BY <1>3, <1>4, <1>5 DEF LockOf
<1>9. ASSUME NEW d \in Callers, NEW e \in Callers,
             v[d] \in AtSetup, ~InLock(t, d), v[e] \in AtSetup, ~InLock(t, e)
      PROVE  d = e
  BY <1>9, <1>3, <1>4, <1>5 DEF LockOf
<1> QED
  BY <1>3, <1>6, <1>7, <1>8, <1>9 DEF LockOf

\* The one that holds the lock goes on.
LEMMA GoesOn ==
  ASSUME NEW s \in Seq(Callers), NEW w \in [Callers -> Awaits], NEW c \in Callers,
         NEW x \in Waiting \cup Holding \cup AtSetup,
         LockOf(s, w), s # <<>>, Head(s) = c
  PROVE  LockOf(s, [w EXCEPT ![c] = x])
<1> DEFINE v == [w EXCEPT ![c] = x]
<1>1. DOMAIN s = 1..Len(s) /\ Len(s) \in Nat \ {0} /\ s[1] = c
  OBVIOUS
<1>2. \A i \in DOMAIN s : s[i] \in Callers /\ (i > 1 => s[i] # c)
  BY <1>1 DEF LockOf
<1>3. InLock(s, c)
  BY <1>1 DEF InLock
<1>4. v[c] = x /\ \A d \in Callers : d # c => v[d] = w[d]
  OBVIOUS
<1>5. \A i \in DOMAIN s : v[s[i]] \in Waiting \cup Holding \cup AtSetup
  BY <1>2, <1>4 DEF LockOf
<1>6. \A i \in DOMAIN s : i > 1 => v[s[i]] \in Waiting
  BY <1>2, <1>4 DEF LockOf
<1>7. \A d \in Callers : v[d] \in Waiting \cup Holding => InLock(s, d)
  BY <1>3, <1>4 DEF LockOf
<1>8. ASSUME NEW d \in Callers, NEW e \in Callers,
             v[d] \in AtSetup, ~InLock(s, d), v[e] \in AtSetup, ~InLock(s, e)
      PROVE  d = e
  BY <1>8, <1>3, <1>4 DEF LockOf
<1> QED
  BY <1>5, <1>6, <1>7, <1>8 DEF LockOf

\* One that is not in the queue ends, removes the entry, or goes on with the first
\* setup.
LEMMA OutsideTheLock ==
  ASSUME NEW s \in Seq(Callers), NEW w \in [Callers -> Awaits], NEW c \in Callers,
         NEW x \in {"nothing"} \cup Removal \cup AtSetup,
         LockOf(s, w), ~InLock(s, c), x \in AtSetup => w[c] \in AtSetup
  PROVE  LockOf(s, [w EXCEPT ![c] = x])
<1> DEFINE v == [w EXCEPT ![c] = x]
<1>1. \A i \in DOMAIN s : s[i] \in Callers /\ s[i] # c
  BY DEF InLock
<1>2. v[c] = x /\ \A d \in Callers : d # c => v[d] = w[d]
  OBVIOUS
<1>3. x \notin Waiting \cup Holding
  BY DEF Waiting, Holding, AtSetup, Removal
<1>4. \A d \in Callers : v[d] \in Waiting \cup Holding => InLock(s, d)
  BY <1>2, <1>3 DEF LockOf
<1>5. ASSUME NEW d \in Callers, NEW e \in Callers,
             v[d] \in AtSetup, ~InLock(s, d), v[e] \in AtSetup, ~InLock(s, e)
      PROVE  d = e
  BY <1>5, <1>2 DEF LockOf
<1> QED
  BY <1>1, <1>2, <1>4, <1>5 DEF LockOf

\* Who works in the queue is the one that holds the lock; who does nothing, or
\* removes the entry, is not in it.
LEMMA WhoIsWhere ==
  ASSUME TypeOK, LockOK, NEW c \in Callers
  PROVE  /\ InLock(reloadLock, c) /\ at[c] \notin Waiting => Holds(c)
         /\ Holds(c) => InLock(reloadLock, c) /\ reloadLock # <<>>
         /\ at[c] \in {"nothing"} \cup Removal => ~InLock(reloadLock, c)
         /\ at[c] \in Holding => Holds(c)
<1>1. reloadLock \in Seq(Callers)
  BY DEF TypeOK
<1>2. DOMAIN reloadLock = 1..Len(reloadLock) /\ Len(reloadLock) \in Nat
  BY <1>1
<1>3. InLock(reloadLock, c) /\ at[c] \notin Waiting => Holds(c)
  <2> SUFFICES ASSUME InLock(reloadLock, c), at[c] \notin Waiting PROVE Holds(c)
    OBVIOUS
  <2>1. PICK i \in DOMAIN reloadLock : reloadLock[i] = c
    BY DEF InLock
  <2>2. i = 1
    BY <2>1, <1>2 DEF LockOK, LockOf
  <2> QED
    BY <2>1, <2>2, <1>1, <1>2 DEF Holds
<1>4. Holds(c) => InLock(reloadLock, c) /\ reloadLock # <<>>
  BY <1>1, <1>2 DEF Holds, InLock
<1>5. at[c] \in {"nothing"} \cup Removal => ~InLock(reloadLock, c)
  BY DEF LockOK, LockOf, InLock, Waiting, Holding, AtSetup, Removal
<1>6. at[c] \in Holding => Holds(c)
  BY <1>3 DEF LockOK, LockOf, Waiting, Holding
<1> QED
  BY <1>3, <1>4, <1>5, <1>6

-----------------------------------------------------------------------------
(* The types, and who may be where.                                         *)

\* What reload_lock's queue becomes is a queue.
LEMMA Queues ==
  ASSUME NEW s \in Seq(Callers), NEW c \in Callers
  PROVE  /\ <<c>> \in Seq(Callers) /\ Append(s, c) \in Seq(Callers)
         /\ s # <<>> => Tail(s) \in Seq(Callers)
<1>1. <<c>> \in Seq(Callers)
  OBVIOUS
<1>2. Append(s, c) \in Seq(Callers)
  OBVIOUS
<1>3. s # <<>> => Tail(s) \in Seq(Callers)
  OBVIOUS
<1> QED
  BY <1>1, <1>2, <1>3

\* A step preserves the types.
LEMMA TypeStep ==
  ASSUME EntryConstantsOK, TypeOK, [Next]_vars
  PROVE  TypeOK'
<1> USE DEF TypeOK, State, Awaits, registry
<1>1. ASSUME NEW c \in Callers, NEW off \in BOOLEAN, StartReload(c, off)
      PROVE  at' \in [Callers -> Awaits] /\ state' \in State
  BY <1>1 DEF StartReload, Await, SetUp
<1>2. CancelRetry => timers' \in SUBSET Timers /\ cancelRetry' \in Timers \cup {NoTimer}
  BY DEF CancelRetry
<1>3. \A c \in Callers : <<c>> \in Seq(Callers) /\ Append(reloadLock, c) \in Seq(Callers)
  BY Queues
<1>4. ASSUME NEW c \in Callers, Holds(c) PROVE Tail(reloadLock) \in Seq(Callers)
  BY <1>4, Queues DEF Holds
<1>5. ASSUME NEW c \in Callers, Leave(c)
      PROVE  at' \in [Callers -> Awaits] /\ reloadLock' \in Seq(Callers)
  BY <1>5, <1>4 DEF Leave, Await
<1>6. ASSUME NEW c \in Callers, NEW x \in Awaits, Await(c, x)
      PROVE  at' \in [Callers -> Awaits]
  BY <1>6 DEF Await
<1>7. \A c \in Callers : MetRemoval(c) \in BOOLEAN /\ Idle \in BOOLEAN
  BY DEF MetRemoval, Idle
<1>8. ASSUME NEW c \in Callers, NEW off \in BOOLEAN, StartOrWait(c, off)
      PROVE  /\ at' \in [Callers -> Awaits] /\ state' \in State
             /\ reloadLock' \in Seq(Callers) /\ disorderly' \in BOOLEAN
             /\ timers' \in SUBSET Timers /\ cancelRetry' \in Timers \cup {NoTimer}
             /\ UNCHANGED <<stopping, up>>
  <2>1. at' \in [Callers -> Awaits] /\ state' \in State /\ reloadLock' \in Seq(Callers)
    BY <1>8, <1>1, <1>3, <1>6 DEF StartOrWait
  <2>2. disorderly' \in BOOLEAN
    BY <1>8, <1>7 DEF StartOrWait
  <2> QED
    BY <2>1, <2>2, <1>8, <1>2 DEF StartOrWait
<1>9. CASE UNCHANGED vars
  BY <1>9 DEF vars
<1>10. ASSUME NEW c \in Callers, Reload(c) PROVE TypeOK'
  BY <1>10, <1>8, <1>9 DEF Reload
<1>11. ASSUME NEW c \in Callers, SetDisabled(c) PROVE TypeOK'
  BY <1>11, <1>8 DEF SetDisabled
<1>12. ASSUME NEW c \in Callers, LockToReload(c) PROVE TypeOK'
  <2>1. at' \in [Callers -> Awaits] /\ state' \in State
    BY <1>12, <1>1 DEF LockToReload
  <2> QED
    BY <2>1, <1>12, <1>2, <1>4 DEF LockToReload
<1>13. ASSUME NEW c \in Callers, LockToRetry(c) PROVE TypeOK'
  BY <1>13, <1>5, <1>6 DEF LockToRetry, SetUp
<1>14. ASSUME NEW c \in Callers, NEW t \in Timers, SetupAgain(t, c) PROVE TypeOK'
  <2>1. at' \in [Callers -> Awaits] /\ state' \in State /\ reloadLock' \in Seq(Callers)
    BY <1>14, <1>3, <1>6 DEF SetupAgain, SetUp
  <2>2. disorderly' \in BOOLEAN
    BY <1>14, <1>7 DEF SetupAgain
  <2> QED
    BY <2>1, <2>2, <1>14 DEF SetupAgain
<1>15. ASSUME NEW c \in Callers, SetupEnds(c) PROVE TypeOK'
  <2>1. ASSUME SetupNotReady(c) PROVE TypeOK'
    BY <2>1, <1>6 DEF SetupNotReady
  <2> QED
    BY <2>1, <1>15, <1>2, <1>5, <1>6 DEF SetupEnds, SetupSucceeds, SetupFails, SetupRaises
<1>16. ASSUME NEW c \in Callers, UnloadEnds(c) PROVE TypeOK'
  BY <1>16, <1>5, <1>6 DEF UnloadEnds, UnloadSucceeds, UnloadDeclined, UnloadRaises
<1>17. ASSUME NEW c \in Callers, CleanedUp(c) PROVE TypeOK'
  BY <1>17, <1>2, <1>5, <1>6 DEF CleanedUp, SetUp
<1>18. ASSUME NEW c \in Callers, NEW b \in BOOLEAN, Delete(c, b)
       PROVE  at' \in [Callers -> Awaits] /\ known' \in BOOLEAN /\ restart' \in BOOLEAN
              /\ disabled' = disabled
  BY <1>18, <1>6 DEF Delete
<1>19. ASSUME NEW c \in Callers, Remove(c) PROVE TypeOK'
  <2>1. disorderly' \in BOOLEAN
    BY <1>19, <1>7 DEF Remove
  <2> QED
    BY <2>1, <1>19, <1>2, <1>6, <1>18 DEF Remove
<1>20. ASSUME NEW c \in Callers, RemovalEnds(c) PROVE TypeOK'
  BY <1>20, <1>6, <1>18 DEF RemovalEnds, UnloadedToRemove, Removed
<1>21. CASE Stop
  BY <1>21, <1>2 DEF Stop
<1> QED
  BY <1>9, <1>10, <1>11, <1>12, <1>13, <1>14, <1>15, <1>16, <1>17, <1>19, <1>20, <1>21
  DEF Next, GetsLock

\* How c moves: not at all, into the queue, out of it, on at its head, or on
\* without the lock.
Moves(c) ==
  \/ UNCHANGED <<at, reloadLock>>
  \/ \E x \in Waiting \cup Holding \cup AtSetup :
       /\ at[c] = "nothing" /\ (reloadLock # <<>> => x \in Waiting)
       /\ Await(c, x) /\ reloadLock' = Append(reloadLock, c)
  \/ Holds(c) /\ Await(c, "nothing") /\ reloadLock' = Tail(reloadLock)
  \/ /\ Holds(c) /\ UNCHANGED reloadLock
     /\ \E x \in Waiting \cup Holding \cup AtSetup : Await(c, x)
  \/ /\ ~InLock(reloadLock, c) /\ UNCHANGED reloadLock
     /\ \E x \in {"nothing"} \cup Removal \cup AtSetup :
          Await(c, x) /\ (x \in AtSetup => at[c] \in AtSetup)

\* The invariant of the lock outlasts a move, and the others stay where they are.
LEMMA MoveKeepsLock ==
  ASSUME TypeOK, LockOK, NEW c \in Callers, Moves(c)
  PROVE  /\ LockOK'
         /\ \A d \in Callers \ {c} :
              at'[d] = at[d] /\ (InLock(reloadLock', d) <=> InLock(reloadLock, d))
<1> USE DEF LockOK
<1>1. reloadLock \in Seq(Callers) /\ at \in [Callers -> Awaits]
  BY DEF TypeOK
<1>2. CASE UNCHANGED <<at, reloadLock>>
  BY <1>2
<1>3. ASSUME NEW x \in Waiting \cup Holding \cup AtSetup,
             at[c] = "nothing", reloadLock # <<>> => x \in Waiting,
             Await(c, x), reloadLock' = Append(reloadLock, c)
      PROVE  /\ LockOK'
             /\ \A d \in Callers \ {c} :
                  at'[d] = at[d] /\ (InLock(reloadLock', d) <=> InLock(reloadLock, d))
  BY <1>1, <1>3, Joins DEF Await
<1>4. CASE Holds(c) /\ Await(c, "nothing") /\ reloadLock' = Tail(reloadLock)
  BY <1>1, <1>4, Passes DEF Await, Holds
<1>5. ASSUME NEW x \in Waiting \cup Holding \cup AtSetup,
             Holds(c), UNCHANGED reloadLock, Await(c, x)
      PROVE  /\ LockOK'
             /\ \A d \in Callers \ {c} :
                  at'[d] = at[d] /\ (InLock(reloadLock', d) <=> InLock(reloadLock, d))
  BY <1>1, <1>5, GoesOn DEF Await, Holds
<1>6. ASSUME NEW x \in {"nothing"} \cup Removal \cup AtSetup,
             ~InLock(reloadLock, c), UNCHANGED reloadLock, Await(c, x),
             x \in AtSetup => at[c] \in AtSetup
      PROVE  /\ LockOK'
             /\ \A d \in Callers \ {c} :
                  at'[d] = at[d] /\ (InLock(reloadLock', d) <=> InLock(reloadLock, d))
  BY <1>1, <1>6, OutsideTheLock DEF Await
<1> QED
  BY <1>2, <1>3, <1>4, <1>5, <1>6 DEF Moves

\* One that works is through, or awaits the next thing.
LEMMA LeaveMoves ==
  ASSUME TypeOK, LockOK, NEW c \in Callers, at[c] \notin Waiting, Leave(c)
  PROVE  Moves(c)
<1>1. CASE Holds(c)
  BY <1>1 DEF Leave, Moves
<1>2. CASE ~Holds(c)
  <2>1. ~InLock(reloadLock, c)
    BY <1>2, WhoIsWhere
  <2>2. Await(c, "nothing") /\ UNCHANGED reloadLock
    BY <1>2 DEF Leave
  <2>3. "nothing" \notin AtSetup
    BY DEF AtSetup
  <2> QED
    BY <2>1, <2>2, <2>3 DEF Moves
<1> QED
  BY <1>1, <1>2

\* One that works goes on.
LEMMA GoesOnMoves ==
  ASSUME TypeOK, LockOK, NEW c \in Callers, at[c] \in Holding \cup AtSetup,
         NEW x \in Holding \cup AtSetup, x \in Holding => Holds(c),
         Await(c, x), UNCHANGED reloadLock
  PROVE  Moves(c)
<1>1. CASE Holds(c)
  BY <1>1 DEF Moves
<1>2. CASE ~Holds(c)
  <2>1. at[c] \in AtSetup /\ x \in AtSetup
    BY <1>2, WhoIsWhere
  <2> QED
    BY <1>2, <2>1, WhoIsWhere DEF Moves, Waiting, AtSetup
<1> QED
  BY <1>1, <1>2

\* async_reload with the lock: it sends its caller to the integration, or back.
LEMMA StartReloadMoves ==
  ASSUME NEW c \in Callers, NEW off, StartReload(c, off), TypeOK
  PROVE  \/ Await(c, "nothing") /\ at'[c] = "nothing"
         \/ /\ at'[c] # "nothing"
            /\ \E x \in Holding \cup AtSetup : Await(c, x) /\ at'[c] = x
<1>1. CASE Await(c, "nothing")
  BY <1>1 DEF Await, TypeOK
<1>2. ASSUME NEW x \in {"unload", "setup"}, Await(c, x)
      PROVE  at'[c] # "nothing" /\ x \in Holding \cup AtSetup /\ at'[c] = x
  BY <1>2 DEF Await, TypeOK, Holding, AtSetup
<1> QED
  BY <1>1, <1>2 DEF StartReload, SetUp

\* async_reload joins the queue, or comes back at once.
LEMMA StartOrWaitMoves ==
  ASSUME TypeOK, LockOK, NEW c \in Callers, NEW off, StartOrWait(c, off)
  PROVE  Moves(c)
<1>1. at[c] = "nothing" /\ at \in [Callers -> Awaits]
  BY DEF StartOrWait, TypeOK
<1>2. CASE reloadLock # <<>>
  BY <1>1, <1>2 DEF StartOrWait, Moves, Waiting
<1>3. CASE reloadLock = <<>>
  <2>1. StartReload(c, off) /\ reloadLock' = IF at'[c] = "nothing" THEN <<>> ELSE <<c>>
    BY <1>3 DEF StartOrWait
  <2>2. CASE Await(c, "nothing") /\ at'[c] = "nothing"
    <3>1. at' = at
      BY <2>2, <1>1 DEF Await
    <3> QED
      BY <3>1, <2>1, <2>2, <1>3 DEF Moves
  <2>3. ASSUME NEW x \in Holding \cup AtSetup, Await(c, x), at'[c] # "nothing"
        PROVE  Moves(c)
    <3>1. reloadLock' = Append(reloadLock, c)
      BY <2>1, <2>3, <1>3
    <3> QED
      BY <3>1, <2>3, <1>1, <1>3 DEF Moves
  <2> QED
    BY <2>1, <2>2, <2>3, StartReloadMoves
<1> QED
  BY <1>2, <1>3

\* Whatever a caller does is one of the moves.
LEMMA CallersMove ==
  ASSUME TypeOK, LockOK, NEW c \in Callers,
         \/ Reload(c) \/ SetDisabled(c) \/ GetsLock(c)
         \/ \E t \in Timers : SetupAgain(t, c)
         \/ SetupEnds(c) \/ UnloadEnds(c) \/ CleanedUp(c)
         \/ Remove(c) \/ RemovalEnds(c)
  PROVE  Moves(c)
<1>0. at \in [Callers -> Awaits]
  BY DEF TypeOK
<1>1. CASE Reload(c)
  BY <1>1, StartOrWaitMoves DEF Reload, vars, Moves
<1>2. CASE SetDisabled(c)
  BY <1>2, StartOrWaitMoves DEF SetDisabled
<1>3. CASE LockToReload(c)
  <2>1. /\ Holds(c) /\ StartReload(c, disabled)
        /\ reloadLock' = IF at'[c] = "nothing" THEN Tail(reloadLock) ELSE reloadLock
    BY <1>3 DEF LockToReload
  <2> QED
    BY <2>1, StartReloadMoves DEF Moves
<1>4. CASE LockToRetry(c)
  <2>1. CASE disabled
    BY <1>4, <2>1 DEF LockToRetry, Leave, Moves
  <2>2. CASE ~disabled
    <3>1. Holds(c) /\ Await(c, "setup") /\ UNCHANGED reloadLock
      BY <1>4, <2>2 DEF LockToRetry, SetUp
    <3> QED
      BY <3>1 DEF Moves, AtSetup
  <2> QED
    BY <2>1, <2>2
<1>5. ASSUME NEW t \in Timers, SetupAgain(t, c) PROVE Moves(c)
  <2>1. CASE UNCHANGED <<at, reloadLock>>
    BY <2>1 DEF Moves
  <2>2. CASE reloadLock' = Append(reloadLock, c) /\ reloadLock = <<>> /\ Await(c, "setup")
    BY <2>2, <1>5 DEF SetupAgain, Moves, AtSetup
  <2>3. CASE reloadLock' = Append(reloadLock, c) /\ Await(c, "lock to retry")
    BY <2>3, <1>5 DEF SetupAgain, Moves, Waiting
  <2> QED
    BY <2>1, <2>2, <2>3, <1>5 DEF SetupAgain, SetUp
<1>6. CASE SetupEnds(c)
  <2>1. at[c] = "setup"
    BY <1>6 DEF SetupEnds, SetupSucceeds, SetupFails, SetupRaises, SetupNotReady
  <2>2. at[c] \in Holding \cup AtSetup /\ at[c] \notin Waiting
    BY <2>1 DEF Holding, AtSetup, Waiting
  <2>3. "failed" \in AtSetup /\ "not ready" \in AtSetup
        /\ "failed" \notin Holding /\ "not ready" \notin Holding
    BY DEF AtSetup, Holding
  <2>4. ASSUME NEW x \in {"failed", "not ready"}, Await(c, x), UNCHANGED reloadLock
        PROVE  Moves(c)
    BY <2>2, <2>3, <2>4, GoesOnMoves
  <2> QED
    BY <1>6, <2>2, <2>4, LeaveMoves
    DEF SetupEnds, SetupSucceeds, SetupFails, SetupRaises, SetupNotReady
<1>7. CASE UnloadEnds(c)
  <2>1. at[c] = "unload" /\ at[c] \in Holding \cup AtSetup /\ at[c] \notin Waiting
    BY <1>7 DEF UnloadEnds, UnloadSucceeds, UnloadDeclined, UnloadRaises,
                Holding, AtSetup, Waiting
  <2>2. Holds(c)
    BY <2>1, WhoIsWhere DEF Holding
  <2>3. ASSUME NEW x \in {"unloaded", "kept"}, Await(c, x), UNCHANGED reloadLock
        PROVE  Moves(c)
    BY <2>1, <2>2, <2>3, GoesOnMoves DEF Holding
  <2> QED
    BY <1>7, <2>1, <2>3, LeaveMoves
    DEF UnloadEnds, UnloadSucceeds, UnloadDeclined, UnloadRaises
<1>8. CASE CleanedUp(c)
  <2>1. at[c] \in Holding \cup AtSetup /\ at[c] \notin Waiting
    BY <1>8 DEF CleanedUp, Holding, AtSetup, Waiting
  <2>2. CASE Leave(c)
    BY <2>1, <2>2, LeaveMoves
  <2>3. CASE SetUp(c) /\ UNCHANGED reloadLock
    BY <2>1, <2>3, GoesOnMoves DEF SetUp, AtSetup, Holding
  <2> QED
    BY <1>8, <2>2, <2>3 DEF CleanedUp
<1>9. CASE Remove(c) \/ RemovalEnds(c)
  <2>1. at[c] \in {"nothing"} \cup Removal /\ UNCHANGED reloadLock
    BY <1>9 DEF Remove, RemovalEnds, UnloadedToRemove, Removed, Removal
  <2>2. ~InLock(reloadLock, c)
    BY <2>1, WhoIsWhere
  <2>3. \E x \in {"nothing"} \cup Removal : Await(c, x)
    BY <1>9 DEF Remove, RemovalEnds, UnloadedToRemove, Removed, Removal, Delete
  <2>4. \A x \in {"nothing"} \cup Removal : x \notin AtSetup
    BY DEF Removal, AtSetup
  <2> QED
    BY <2>1, <2>2, <2>3, <2>4 DEF Moves
<1> QED
  BY <1>1, <1>2, <1>3, <1>4, <1>5, <1>6, <1>7, <1>8, <1>9 DEF GetsLock

-----------------------------------------------------------------------------
(* What is true of the entry while nobody met another.                      *)

\* Where one may be whatever becomes of the entry.
Bystander(d) ==
  at[d] \in {"nothing", "lock to reload"} \/ (at[d] = "not ready" /\ ~InLock(reloadLock, d))

\* The others are where they were.
Frame(c) ==
  \A d \in Callers \ {c} :
    at'[d] = at[d] /\ (InLock(reloadLock', d) <=> InLock(reloadLock, d))

\* Beside one that holds the lock, or sets up, there are bystanders.
LEMMA Alone ==
  ASSUME IndInv, Orderly, NEW c \in Callers, NEW d \in Callers \ {c},
         Holds(c) \/ at[c] \in {"setup", "failed"}
  PROVE  Bystander(d)
<1>0. TypeOK /\ LockOK /\ Apart(c) /\ Apart(d) /\ at[d] \in Awaits
  BY DEF IndInv, Orderly, TypeOK
<1>1. at[c] # "nothing"
  BY <1>0, WhoIsWhere
<1>2. at[d] \notin Removal
  BY <1>0, <1>1 DEF Apart
<1>3. at[d] # "lock to retry"
  BY <1>0 DEF Apart
<1>4. CASE Holds(c)
  <2>1. ~Holds(d) /\ reloadLock # <<>>
    BY <1>4 DEF Holds
  <2>2. InLock(reloadLock, d) => at[d] = "lock to reload"
    BY <2>1, <1>0, <1>3, WhoIsWhere DEF Waiting
  <2>3. at[d] \notin Holding
    BY <2>1, <1>0, WhoIsWhere
  <2>4. at[d] \in {"setup", "failed"} => InLock(reloadLock, d)
    BY <2>1, <1>0 DEF Apart
  <2> QED
    BY <2>2, <2>3, <2>4, <1>0, <1>2, <1>3 DEF Bystander, Awaits, Removal, Holding
<1>5. CASE at[c] \in {"setup", "failed"} /\ ~Holds(c)
  <2>1. ~InLock(reloadLock, c)
    BY <1>5, <1>0, WhoIsWhere DEF Waiting
  <2>2. reloadLock = <<>>
    BY <2>1, <1>5, <1>0 DEF Apart
  <2>3. ~InLock(reloadLock, d)
    BY <2>2 DEF InLock
  <2>4. at[d] \notin Waiting \cup Holding
    BY <2>3, <1>0 DEF LockOK, LockOf
  <2>5. at[d] \notin AtSetup
    BY <2>1, <2>3, <1>0, <1>5 DEF LockOK, LockOf, AtSetup
  <2> QED
    BY <2>4, <2>5, <1>0, <1>2 DEF Bystander, Awaits, Removal, Holding, Waiting, AtSetup
<1> QED
  BY <1>4, <1>5

\* Beside bystanders one may do as one likes.
LEMMA AmongBystanders ==
  ASSUME NEW c \in Callers, Frame(c), \A d \in Callers \ {c} : Bystander(d), Apart(c)'
  PROVE  \A d \in Callers : Apart(d)'
BY DEF Frame, Bystander, Apart, Removal

\* Of the one timer there may be, none is left.
LEMMA CancelsAll ==
  ASSUME timers \subseteq {cancelRetry}, CancelRetry
  PROVE  timers' = {}
BY DEF CancelRetry

\* A reload that waits for the lock, or that is refused, changes no more than the
\* timers.
LEMMA OnlyTimers ==
  ASSUME IndInv, Orderly, NEW c \in Callers, Frame(c),
         at[c] \in {"nothing", "lock to reload"}, at'[c] \in {"nothing", "lock to reload"},
         UNCHANGED <<state, known, restart, up>>, known,
         \A d \in Callers \ {c} : at[d] \notin Removal,
         reloadLock = <<>> => reloadLock' = <<>>,
         timers' = {} \/ UNCHANGED <<timers, cancelRetry>>
  PROVE  Orderly'
<1>1. ASSUME NEW d \in Callers PROVE Apart(d)'
  <2>1. CASE d = c
    BY <2>1 DEF Apart, Removal
  <2>2. CASE d # c
    BY <2>2 DEF Frame, Orderly, Apart
  <2> QED
    BY <2>1, <2>2
<1>2. (state = "setup_in_progress" => \E d \in Callers : at[d] \in {"setup", "failed"})'
  BY DEF Orderly, Frame
<1> QED
  BY <1>1, <1>2 DEF Orderly

-----------------------------------------------------------------------------
(* The steps.                                                               *)

\* A reload that may start finds bystanders: it unloads, sets up, or, if the entry is
\* disabled, leaves it not loaded.
LEMMA StartReloadStep ==
  ASSUME IndInv, Orderly, TypeOK', NEW c \in Callers, Frame(c), NEW off,
         StartReload(c, off), at[c] \in {"nothing", "lock to reload"},
         reloadLock' = <<>> \/ InLock(reloadLock', c) \/ at'[c] = "nothing",
         \A d \in Callers \ {c} : at[d] \notin Removal,
         state \in Recoverable => \A d \in Callers \ {c} : Bystander(d),
         reloadLock = <<>> => reloadLock' = <<>> \/ at'[c] # "nothing",
         UNCHANGED <<known, restart, up>>, known,
         timers' = {} \/ UNCHANGED <<timers, cancelRetry>>,
         state \in {"setup_error", "setup_retry"} => timers' = {}
  PROVE  Orderly'
<1>0. at \in [Callers -> Awaits] /\ state \in State
  BY DEF IndInv, TypeOK
<1>1. CASE state \notin Recoverable
  <2>1. at'[c] = "nothing" /\ UNCHANGED state
    BY <1>1, <1>0 DEF StartReload, Await, Recoverable, State
  <2> QED
    BY <2>1, OnlyTimers
<1>2. CASE state \in Recoverable
  <2>1. ASSUME Apart(c)' PROVE \A d \in Callers : Apart(d)'
    BY <2>1, <1>2, AmongBystanders
  <2>2. state # "setup_in_progress" /\ state # "failed_unload"
    BY <1>2 DEF Recoverable
  <2>3. CASE state = "loaded"
    <3>1. at'[c] = "unload" /\ UNCHANGED state
      BY <2>3, <1>2, <1>0 DEF StartReload, Await
    <3>2. Apart(c)'
      BY <3>1, <2>3 DEF Apart, Removal
    <3> QED
      BY <3>1, <3>2, <2>1, <2>3 DEF Orderly
  <2>4. CASE state # "loaded"
    <3>1. ~up /\ timers' = {}
      BY <2>2, <2>4, <1>0 DEF Orderly
    <3>2. \/ state' = "not_loaded" /\ at'[c] = "nothing"
          \/ state' = "setup_in_progress" /\ at'[c] = "setup"
      BY <2>4, <1>2, <1>0 DEF StartReload, Await, SetUp
    <3>3. CASE state' = "not_loaded" /\ at'[c] = "nothing"
      <4>1. Apart(c)'
        BY <3>3 DEF Apart, Removal
      <4> QED
        BY <4>1, <3>1, <3>3, <2>1 DEF Orderly
    <3>4. CASE state' = "setup_in_progress" /\ at'[c] = "setup"
      <4>1. Apart(c)'
        BY <3>4 DEF Apart, Removal
      <4> QED
        BY <4>1, <3>1, <3>4, <2>1 DEF Orderly
    <3> QED
      BY <3>2, <3>3, <3>4
  <2> QED
    BY <2>3, <2>4
<1> QED
  BY <1>1, <1>2

\* async_reload, when it meets no removal.
LEMMA StartOrWaitStep ==
  ASSUME IndInv, Orderly, TypeOK', NEW c \in Callers, Frame(c), NEW off,
         StartOrWait(c, off), ~disorderly', known, UNCHANGED <<known, restart>>
  PROVE  Orderly'
<1>0. TypeOK /\ LockOK /\ at \in [Callers -> Awaits] /\ at[c] = "nothing"
  BY DEF IndInv, TypeOK, StartOrWait
<1>1. timers' = {}
  BY CancelsAll DEF Orderly, StartOrWait
<1>2. \A d \in Callers \ {c} : at[d] \notin Removal
  BY DEF StartOrWait, MetRemoval
<1>3. UNCHANGED up
  BY DEF StartOrWait
<1>4. CASE reloadLock # <<>>
  <2>1. at'[c] = "lock to reload" /\ UNCHANGED state
    BY <1>4, <1>0 DEF StartOrWait, Await
  <2> QED
    BY <2>1, <1>0, <1>1, <1>2, <1>3, <1>4, OnlyTimers
<1>5. CASE reloadLock = <<>>
  <2>1. StartReload(c, off) /\ reloadLock' = IF at'[c] = "nothing" THEN <<>> ELSE <<c>>
    BY <1>5 DEF StartOrWait
  <2>2. InLock(<<c>>, c)
    BY DEF InLock
  <2>3. reloadLock' = <<>> \/ InLock(reloadLock', c) \/ at'[c] = "nothing"
    BY <2>1, <2>2
  <2>4. ASSUME state \in Recoverable, NEW d \in Callers \ {c} PROVE Bystander(d)
    <3>1. ~InLock(reloadLock, d)
      BY <1>5 DEF InLock
    <3>2. at[d] \notin Waiting \cup Holding
      BY <3>1, <1>0 DEF LockOK, LockOf
    <3>3. at[d] \notin {"setup", "failed"}
      BY <2>4 DEF Orderly, Apart, Recoverable
    <3> QED
      BY <3>1, <3>2, <3>3, <1>0, <1>2 DEF Bystander, Awaits, Waiting, Holding, Removal
  <2> QED
    BY <2>1, <2>3, <2>4, <1>0, <1>1, <1>2, <1>3, StartReloadStep
<1> QED
  BY <1>4, <1>5

\* The reload that has got the lock.
LEMMA LockToReloadStep ==
  ASSUME IndInv, Orderly, TypeOK', NEW c \in Callers, Frame(c), LockToReload(c)
  PROVE  Orderly'
<1>0. TypeOK /\ at \in [Callers -> Awaits] /\ at[c] = "lock to reload"
  BY DEF IndInv, TypeOK, LockToReload
<1>1. known
  BY <1>0 DEF Orderly, Idle
<1>2. Holds(c) /\ StartReload(c, disabled) /\ UNCHANGED <<known, restart, up>>
  BY DEF LockToReload, registry
<1>3. \A d \in Callers \ {c} : Bystander(d)
  BY <1>2, Alone
<1>4. \A d \in Callers \ {c} : at[d] \notin Removal
  BY <1>3 DEF Bystander, Removal
<1>5. InLock(reloadLock, c) /\ reloadLock # <<>>
  BY <1>0, <1>2, WhoIsWhere DEF IndInv
<1>6. InLock(reloadLock', c) \/ at'[c] = "nothing"
  BY <1>5 DEF LockToReload
<1>7. timers' = {} \/ UNCHANGED <<timers, cancelRetry>>
  BY CancelsAll DEF LockToReload, Orderly
<1>8. state \in {"setup_error", "setup_retry"} => timers' = {}
  BY <1>1, CancelsAll DEF LockToReload, Orderly
<1> QED
  BY <1>0, <1>1, <1>2, <1>3, <1>4, <1>5, <1>6, <1>7, <1>8, StartReloadStep

\* The retry, when its timer fires on an entry that has come to rest.
LEMMA SetupAgainStep ==
  ASSUME IndInv, Orderly, TypeOK', NEW c \in Callers, Frame(c), NEW t \in Timers,
         SetupAgain(t, c), ~disorderly'
  PROVE  Orderly'
<1>0. TypeOK /\ LockOK /\ at \in [Callers -> Awaits] /\ at[c] = "nothing"
  BY DEF IndInv, TypeOK, SetupAgain
<1>1. timers' = {} /\ state = "setup_retry" /\ ~up /\ known
  <2>1. t \in timers /\ timers' = timers \ {t}
    BY DEF SetupAgain
  <2> QED
    BY <2>1 DEF Orderly
<1>2. reloadLock = <<>> /\ \A d \in Callers \ {c} : at[d] # "not ready" /\ at[d] \notin Removal
  BY DEF SetupAgain, MetRemoval
<1>3. UNCHANGED <<known, restart, up>>
  BY DEF SetupAgain, registry
<1>4. CASE UNCHANGED <<state, at, reloadLock>>
  BY <1>0, <1>1, <1>2, <1>3, <1>4, OnlyTimers
<1>5. CASE reloadLock' = Append(reloadLock, c) /\ SetUp(c)
  <2>1. state' = "setup_in_progress" /\ at'[c] = "setup"
    BY <1>5, <1>0 DEF SetUp, Await
  <2>2. InLock(reloadLock', c)
    <3>1. Append(<<>>, c) = <<c>> /\ InLock(<<c>>, c)
      BY DEF InLock
    <3> QED
      BY <3>1, <1>2, <1>5
  <2>3. ASSUME NEW d \in Callers \ {c} PROVE Bystander(d)
    <3>1. ~InLock(reloadLock, d)
      <4>1. ~InLock(<<>>, d)
        BY DEF InLock
      <4> QED
        BY <4>1, <1>2
    <3>2. at[d] \notin Waiting \cup Holding
      BY <3>1, <1>0 DEF LockOK, LockOf
    <3>3. at[d] \notin {"setup", "failed"}
      BY <1>1 DEF Orderly, Apart
    <3> QED
      BY <3>2, <3>3, <1>0, <1>2 DEF Bystander, Awaits, Waiting, Holding, Removal
  <2>4. Apart(c)'
    BY <2>1, <2>2 DEF Apart, Removal
  <2>5. \A d \in Callers : Apart(d)'
    BY <2>3, <2>4, AmongBystanders
  <2> QED
    BY <2>1, <2>5, <1>1, <1>3 DEF Orderly
<1> QED
  BY <1>2, <1>4, <1>5 DEF SetupAgain

\* The integration's setup ends.
LEMMA SetupEndsStep ==
  ASSUME EntryConstantsOK, IndInv, Orderly, TypeOK', NEW c \in Callers, Frame(c),
         SetupEnds(c)
  PROVE  Orderly'
<1>0. TypeOK /\ at \in [Callers -> Awaits] /\ at[c] = "setup"
  BY DEF IndInv, TypeOK, SetupEnds, SetupSucceeds, SetupFails, SetupRaises, SetupNotReady
<1>1. state = "setup_in_progress" /\ ~up /\ timers = {} /\ known
  BY <1>0 DEF Orderly, Apart, Idle
<1>2. UNCHANGED <<known, restart>>
  BY DEF SetupEnds, SetupSucceeds, SetupFails, SetupRaises, SetupNotReady, registry
<1>3. ASSUME Apart(c)' PROVE \A d \in Callers : Apart(d)'
  BY <1>0, <1>3, Alone, AmongBystanders
<1>4. ASSUME Leave(c) PROVE at'[c] = "nothing" /\ Apart(c)'
  <2>1. at'[c] = "nothing"
    BY <1>0, <1>4 DEF Leave, Await
  <2> QED
    BY <2>1 DEF Apart, Removal
<1>5. CASE SetupSucceeds(c)
  <2>1. state' = "loaded" /\ up' /\ timers' = {} /\ Leave(c)
    BY <1>1, <1>5 DEF SetupSucceeds, CancelRetry
  <2> QED
    BY <2>1, <1>1, <1>2, <1>3, <1>4 DEF Orderly
<1>6. CASE SetupFails(c)
  <2>1. state' = "setup_error" /\ ~up' /\ timers' = {} /\ Leave(c)
    BY <1>1, <1>6 DEF SetupFails, CancelRetry
  <2> QED
    BY <2>1, <1>1, <1>2, <1>3, <1>4 DEF Orderly
<1>7. CASE SetupRaises(c)
  <2>1. at'[c] = "failed" /\ UNCHANGED <<state, reloadLock, timers, up>>
    BY <1>0, <1>7 DEF SetupRaises, Await
  <2>2. Apart(c)'
    BY <2>1, <1>0 DEF Orderly, Apart, Removal
  <2> QED
    BY <2>1, <2>2, <1>1, <1>2, <1>3 DEF Orderly
<1>8. CASE SetupNotReady(c)
  <2>1. /\ at'[c] = "not ready" /\ state' = "setup_retry" /\ ~up'
        /\ timers' \subseteq {cancelRetry'}
    BY <1>0, <1>1, <1>8 DEF SetupNotReady, Await
  <2>2. Apart(c)'
    BY <2>1 DEF Apart, Removal
  <2> QED
    BY <2>1, <2>2, <1>1, <1>2, <1>3 DEF Orderly
<1> QED
  BY <1>5, <1>6, <1>7, <1>8 DEF SetupEnds

\* The integration's unload ends.
LEMMA UnloadEndsStep ==
  ASSUME IndInv, Orderly, TypeOK', NEW c \in Callers, Frame(c), UnloadEnds(c)
  PROVE  Orderly'
<1>0. TypeOK /\ LockOK /\ at \in [Callers -> Awaits] /\ at[c] = "unload"
  BY DEF IndInv, TypeOK, UnloadEnds, UnloadSucceeds, UnloadDeclined, UnloadRaises
<1>1. state = "loaded" /\ up /\ timers = {} /\ known
  BY <1>0 DEF Orderly, Apart, Idle
<1>2. UNCHANGED <<known, restart, timers>>
  BY DEF UnloadEnds, UnloadSucceeds, UnloadDeclined, UnloadRaises, registry
<1>3. Holds(c)
  BY <1>0, WhoIsWhere DEF Holding
<1>4. ASSUME Apart(c)' PROVE \A d \in Callers : Apart(d)'
  BY <1>3, <1>4, Alone, AmongBystanders
<1>5. CASE UnloadSucceeds(c)
  <2>1. at'[c] = "unloaded" /\ state' = "not_loaded" /\ ~up'
    BY <1>0, <1>5 DEF UnloadSucceeds, Await
  <2>2. Apart(c)'
    BY <2>1 DEF Apart, Removal
  <2> QED
    BY <2>1, <2>2, <1>1, <1>2, <1>4 DEF Orderly
<1>6. CASE UnloadDeclined(c)
  <2>1. at'[c] = "kept" /\ UNCHANGED <<state, up>>
    BY <1>0, <1>6 DEF UnloadDeclined, Await
  <2>2. Apart(c)'
    BY <2>1, <1>1 DEF Apart, Removal
  <2> QED
    BY <2>1, <2>2, <1>1, <1>2, <1>4 DEF Orderly
<1>7. CASE UnloadRaises(c)
  <2>1. at'[c] = "nothing" /\ state' = "failed_unload"
    BY <1>0, <1>7 DEF UnloadRaises, Leave, Await
  <2>2. Apart(c)'
    BY <2>1 DEF Apart, Removal
  <2> QED
    BY <2>1, <2>2, <1>1, <1>2, <1>4 DEF Orderly
<1> QED
  BY <1>5, <1>6, <1>7 DEF UnloadEnds

\* The clean-up ends.
LEMMA CleanedUpStep ==
  ASSUME IndInv, Orderly, TypeOK', NEW c \in Callers, Frame(c), CleanedUp(c)
  PROVE  Orderly'
<1>0. /\ TypeOK /\ LockOK /\ at \in [Callers -> Awaits]
      /\ at[c] \in {"unloaded", "kept", "not ready", "failed"}
  BY DEF IndInv, TypeOK, CleanedUp
<1>1. known /\ UNCHANGED <<known, restart, up>>
  BY <1>0 DEF Orderly, Idle, CleanedUp, registry
<1>2. ASSUME Leave(c) PROVE at'[c] = "nothing" /\ Apart(c)'
  <2>1. at'[c] = "nothing"
    BY <1>0, <1>2 DEF Leave, Await
  <2> QED
    BY <2>1 DEF Apart, Removal
<1>3. ASSUME Holds(c) \/ at[c] = "failed", Apart(c)' PROVE \A d \in Callers : Apart(d)'
  BY <1>3, Alone, AmongBystanders
<1>4. CASE at[c] = "unloaded"
  <2>1. Holds(c)
    BY <1>0, <1>4, WhoIsWhere DEF Holding
  <2>2. state = "not_loaded" /\ ~up /\ timers = {} /\ UNCHANGED timers
    BY <1>4 DEF Orderly, Apart, CleanedUp
  <2>3. CASE SetUp(c) /\ UNCHANGED reloadLock
    <3>1. state' = "setup_in_progress" /\ at'[c] = "setup"
      BY <2>3, <1>0 DEF SetUp, Await
    <3>2. InLock(reloadLock', c)
      BY <2>1, <2>3, <1>0, WhoIsWhere
    <3>3. Apart(c)'
      BY <3>1, <3>2 DEF Apart, Removal
    <3> QED
      BY <3>1, <3>3, <2>1, <2>2, <1>1, <1>3 DEF Orderly
  <2>4. CASE Leave(c) /\ UNCHANGED state
    BY <2>1, <2>2, <2>4, <1>1, <1>2, <1>3 DEF Orderly
  <2> QED
    BY <2>3, <2>4, <1>4 DEF CleanedUp
<1>5. CASE at[c] \in {"kept", "not ready"}
  <2>1. Leave(c) /\ UNCHANGED <<state, timers, cancelRetry>>
    BY <1>5 DEF CleanedUp
  <2>2. ASSUME NEW d \in Callers PROVE Apart(d)'
    <3>1. CASE d = c \/ Holds(c)
      BY <3>1, <2>1, <1>2, <1>3
    <3>2. CASE d # c /\ ~Holds(c)
      <4>1. UNCHANGED reloadLock
        BY <3>2, <2>1 DEF Leave
      <4>2. at[d] \notin Removal
        BY <3>2, <1>0 DEF Orderly, Apart
      <4> QED
        BY <4>1, <4>2, <3>2, <2>1 DEF Frame, Orderly, Apart
    <3> QED
      BY <3>1, <3>2
  <2>3. (state = "setup_in_progress" => \E d \in Callers : at[d] \in {"setup", "failed"})'
    BY <2>1, <1>5 DEF Orderly, Frame
  <2> QED
    BY <2>1, <2>2, <2>3, <1>1 DEF Orderly
<1>6. CASE at[c] = "failed"
  <2>1. state = "setup_in_progress" /\ ~up
    BY <1>6 DEF Orderly, Apart
  <2>2. timers' = {} /\ state' = "setup_error" /\ Leave(c)
    BY <1>6, CancelsAll DEF CleanedUp, Orderly
  <2> QED
    BY <2>1, <2>2, <1>1, <1>2, <1>3, <1>6 DEF Orderly
<1> QED
  BY <1>0, <1>4, <1>5, <1>6

\* A removal that finds everybody idle.
LEMMA RemoveStep ==
  ASSUME IndInv, Orderly, TypeOK', NEW c \in Callers, Remove(c), ~disorderly'
  PROVE  Orderly'
<1>0. TypeOK /\ at \in [Callers -> Awaits] /\ state \in State
  BY DEF IndInv, TypeOK
<1>1. Idle /\ known /\ UNCHANGED <<reloadLock, up>>
  BY DEF Remove
<1>2. state # "setup_in_progress" /\ (timers # {} => state = "setup_retry")
  BY <1>1 DEF Orderly, Idle
<1>3. ASSUME NEW b, Delete(c, b) PROVE Idle' /\ ~known' /\ (b => restart')
  BY <1>0, <1>1, <1>3 DEF Delete, Await, Idle
<1>4. ASSUME Idle' PROVE \A d \in Callers : Apart(d)'
  BY <1>4 DEF Idle, Apart, Removal
<1>5. CASE state \notin Recoverable
  <2>1. state = "failed_unload"
    BY <1>0, <1>2, <1>5 DEF Recoverable, State
  <2>2. Delete(c, state = "failed_unload") /\ UNCHANGED <<state, timers, cancelRetry>>
    BY <1>5, <2>1 DEF Remove, Recoverable
  <2>3. Idle' /\ ~known' /\ restart'
    BY <1>3, <2>1, <2>2
  <2>4. timers = {}
    BY <2>1, <1>2
  <2> QED
    BY <2>1, <2>2, <2>3, <2>4, <1>1, <1>4 DEF Orderly
<1>6. CASE state = "loaded"
  <2>1. /\ at'[c] = "unload to remove" /\ \A d \in Callers \ {c} : at'[d] = "nothing"
        /\ UNCHANGED <<state, timers, known>>
    BY <1>0, <1>1, <1>6 DEF Remove, Await, Idle, Recoverable, State, registry
  <2>2. ASSUME NEW d \in Callers PROVE Apart(d)'
    <3>1. CASE d = c
      BY <3>1, <2>1, <1>1, <1>6 DEF Apart, Removal
    <3>2. CASE d # c
      <4>1. at'[d] = "nothing"
        BY <3>2, <2>1
      <4> QED
        BY <4>1 DEF Apart, Removal
    <3> QED
      BY <3>1, <3>2
  <2> QED
    BY <2>1, <2>2, <1>1, <1>2, <1>6 DEF Orderly
<1>7. CASE state \in Recoverable \ {"loaded"}
  <2>1. state' = "not_loaded" /\ Delete(c, FALSE)
    BY <1>7 DEF Remove
  <2>2. timers' = {}
    BY <1>2, <1>7, CancelsAll DEF Remove, Orderly
  <2>3. ~up'
    BY <1>1, <1>7 DEF Orderly, Recoverable
  <2> QED
    BY <2>1, <2>2, <2>3, <1>3, <1>4 DEF Orderly
<1> QED
  BY <1>5, <1>6, <1>7

\* The unload of a removal ends, and its clean-up; nobody else is there.
LEMMA RemovalEndsStep ==
  ASSUME IndInv, Orderly, TypeOK', NEW c \in Callers, RemovalEnds(c)
  PROVE  Orderly'
<1>0. TypeOK /\ at \in [Callers -> Awaits] /\ at[c] \in Removal
  BY DEF IndInv, TypeOK, RemovalEnds, UnloadedToRemove, Removed, Removal
<1>1. /\ known /\ \A d \in Callers \ {c} : at[d] = "nothing"
      /\ at[c] \in {"unload to remove", "kept to remove"} => state = "loaded"
      /\ at[c] = "unloaded to remove" => state = "not_loaded"
  BY <1>0 DEF Orderly, Apart
<1>2. timers = {} /\ UNCHANGED timers
  BY <1>0, <1>1 DEF Orderly, RemovalEnds, UnloadedToRemove, Removed, Removal
<1>3. ASSUME NEW b, Delete(c, b) PROVE Idle' /\ ~known' /\ (b => restart')
  BY <1>0, <1>1, <1>3 DEF Delete, Await, Idle
<1>4. ASSUME Idle' PROVE \A d \in Callers : Apart(d)'
  BY <1>4 DEF Idle, Apart, Removal
<1>5. CASE /\ at[c] = "unload to remove" /\ Await(c, "unloaded to remove")
           /\ state' = "not_loaded" /\ ~up' /\ UNCHANGED registry
  <2>1. at'[c] = "unloaded to remove" /\ \A d \in Callers \ {c} : at'[d] = "nothing"
    BY <1>0, <1>1, <1>5 DEF Await
  <2>2. known'
    BY <1>1, <1>5 DEF registry
  <2>3. ASSUME NEW d \in Callers PROVE Apart(d)'
    BY <2>1, <2>2, <1>5 DEF Apart, Removal
  <2> QED
    BY <2>2, <2>3, <1>2, <1>5 DEF Orderly
<1>6. CASE /\ at[c] = "unload to remove" /\ Await(c, "kept to remove")
           /\ UNCHANGED <<state, up, registry>>
  <2>1. at'[c] = "kept to remove" /\ \A d \in Callers \ {c} : at'[d] = "nothing"
    BY <1>0, <1>1, <1>6 DEF Await
  <2>2. known' /\ state' = "loaded"
    BY <1>1, <1>6 DEF registry
  <2>3. ASSUME NEW d \in Callers PROVE Apart(d)'
    BY <2>1, <2>2 DEF Apart, Removal
  <2> QED
    BY <2>2, <2>3, <1>1, <1>2, <1>6 DEF Orderly
<1>7. CASE state' = "failed_unload" /\ Delete(c, TRUE)
  <2>1. Idle' /\ ~known' /\ restart'
    BY <1>3, <1>7
  <2> QED
    BY <2>1, <1>2, <1>4, <1>7 DEF Orderly
<1>8. CASE at[c] = "unloaded to remove" /\ Delete(c, FALSE) /\ UNCHANGED <<state, up>>
  <2>1. state = "not_loaded" /\ ~up
    BY <1>1, <1>8 DEF Orderly
  <2> QED
    BY <2>1, <1>2, <1>3, <1>4, <1>8 DEF Orderly
<1>9. CASE at[c] = "kept to remove" /\ Delete(c, TRUE) /\ UNCHANGED <<state, up>>
  <2>1. state = "loaded" /\ up
    BY <1>1, <1>9 DEF Orderly
  <2>2. Idle' /\ ~known' /\ restart'
    BY <1>3, <1>9
  <2> QED
    BY <2>1, <2>2, <1>2, <1>4, <1>9 DEF Orderly
<1>10. CASE UnloadedToRemove(c)
  BY <1>5, <1>6, <1>7, <1>10 DEF UnloadedToRemove
<1>11. CASE Removed(c)
  BY <1>8, <1>9, <1>11 DEF Removed
<1> QED
  BY <1>10, <1>11 DEF RemovalEnds

\* Home Assistant stops.
LEMMA StopStep ==
  ASSUME IndInv, Orderly, Stop
  PROVE  Orderly'
<1>1. UNCHANGED <<state, at, reloadLock, known, restart, up>>
  BY DEF Stop, registry
<1>2. timers' = {} \/ UNCHANGED <<timers, cancelRetry>>
  BY CancelsAll DEF Stop, Orderly
<1>3. ASSUME NEW d \in Callers PROVE Apart(d)'
  BY <1>1 DEF Orderly, Apart
<1> QED
  BY <1>1, <1>2, <1>3 DEF Orderly, Idle

-----------------------------------------------------------------------------
(* The invariant and what follows.                                          *)

\* The setup of the component has just called the first setup.
LEMMA EntryInitInv == Init => IndInv
<1> SUFFICES ASSUME Init PROVE IndInv
  OBVIOUS
<1>1. TypeOK
  <2>1. <<>> \in Seq(Callers)
    OBVIOUS
  <2>2. at \in [Callers -> Awaits]
    BY DEF Init, Awaits
  <2> QED
    BY <2>1, <2>2 DEF Init, TypeOK, State
<1>2. PICK c \in Callers : at = [d \in Callers |-> IF d = c THEN "setup" ELSE "nothing"]
  BY DEF Init
<1>3. at[c] = "setup" /\ \A d \in Callers \ {c} : at[d] = "nothing"
  BY <1>2
<1>4. reloadLock = <<>> /\ \A d \in Callers : ~InLock(reloadLock, d)
  BY DEF Init, InLock
<1>5. LockOK
  <2>1. DOMAIN reloadLock = {}
    BY <1>4
  <2>2. \A d \in Callers : at[d] \notin Waiting \cup Holding
    BY <1>3 DEF Waiting, Holding
  <2>3. \A d \in Callers : at[d] \in AtSetup => d = c
    BY <1>3 DEF AtSetup
  <2> QED
    BY <2>1, <2>2, <2>3 DEF LockOK, LockOf
<1>6. state = "setup_in_progress" /\ timers = {} /\ known /\ ~up
  BY DEF Init
<1>7. ASSUME NEW d \in Callers PROVE Apart(d)
  BY <1>3, <1>4, <1>6 DEF Apart, Removal
<1>8. Orderly
  BY <1>3, <1>6, <1>7 DEF Orderly
<1> QED
  BY <1>1, <1>5, <1>8 DEF IndInv

\* Whatever its callers do, the entry keeps the invariant.
LEMMA EntryStepInv ==
  ASSUME EntryConstantsOK
  PROVE  IndInv /\ [Next]_vars => IndInv'
<1> SUFFICES ASSUME IndInv, [Next]_vars PROVE IndInv'
  OBVIOUS
<1>1. TypeOK'
  BY TypeStep DEF IndInv
<1>2. CASE UNCHANGED vars
  BY <1>2, <1>1 DEF vars, registry, IndInv, LockOK, Orderly, Apart, Idle
<1>3. ASSUME NEW c \in Callers,
             \/ Reload(c) \/ SetDisabled(c) \/ GetsLock(c)
             \/ \E t \in Timers : SetupAgain(t, c)
             \/ SetupEnds(c) \/ UnloadEnds(c) \/ CleanedUp(c)
             \/ Remove(c) \/ RemovalEnds(c)
      PROVE  IndInv'
  <2>1. LockOK' /\ Frame(c)
    BY <1>3, CallersMove, MoveKeepsLock DEF IndInv, Frame
  <2>2. ASSUME Orderly, ~disorderly' PROVE Orderly'
    <3>1. CASE Reload(c)
      BY <3>1, <2>1, <2>2, <1>1, <1>2, StartOrWaitStep DEF Reload, registry, IndInv
    <3>2. CASE SetDisabled(c)
      BY <3>2, <2>1, <2>2, <1>1, StartOrWaitStep DEF SetDisabled
    <3>3. CASE LockToReload(c)
      BY <3>3, <2>1, <2>2, <1>1, LockToReloadStep
    <3>4. CASE LockToRetry(c)
      BY <3>4, <2>2 DEF LockToRetry, Orderly, Apart
    <3>5. ASSUME NEW t \in Timers, SetupAgain(t, c) PROVE Orderly'
      BY <3>5, <2>1, <2>2, <1>1, SetupAgainStep
    <3>6. CASE SetupEnds(c)
      BY <3>6, <2>1, <2>2, <1>1, SetupEndsStep
    <3>7. CASE UnloadEnds(c)
      BY <3>7, <2>1, <2>2, <1>1, UnloadEndsStep
    <3>8. CASE CleanedUp(c)
      BY <3>8, <2>1, <2>2, <1>1, CleanedUpStep
    <3>9. CASE Remove(c)
      BY <3>9, <2>2, <1>1, RemoveStep
    <3>10. CASE RemovalEnds(c)
      BY <3>10, <2>2, <1>1, RemovalEndsStep
    <3> QED
      BY <1>3, <3>1, <3>2, <3>3, <3>4, <3>5, <3>6, <3>7, <3>8, <3>9, <3>10 DEF GetsLock
  <2>3. disorderly => disorderly'
    BY <1>3, <1>1 DEF TypeOK, Reload, SetDisabled, StartOrWait, GetsLock, LockToReload,
         LockToRetry, SetupAgain, SetupEnds, SetupSucceeds, SetupFails, SetupRaises,
         SetupNotReady, UnloadEnds, UnloadSucceeds, UnloadDeclined, UnloadRaises,
         CleanedUp, Remove, RemovalEnds, UnloadedToRemove, Removed, vars
  <2> QED
    BY <1>1, <2>1, <2>2, <2>3 DEF IndInv
<1>4. CASE Stop
  <2>1. LockOK' /\ UNCHANGED disorderly
    BY <1>4 DEF Stop, IndInv, LockOK
  <2> QED
    BY <2>1, <1>1, <1>4, StopStep DEF IndInv
<1> QED
  BY <1>2, <1>3, <1>4 DEF Next

\* The integration's code runs for one caller at a time, never to set up what is set
\* up, and the state tells what came of it.
LEMMA OneAtWork ==
  ASSUME EntryConstantsOK
  PROVE  IndInv => SetUpOnce
<1> SUFFICES ASSUME IndInv, ~disorderly
             PROVE  /\ Cardinality(Running) <= 1
                    /\ \A c \in Callers : at[c] = "setup" => ~up
                    /\ Running = {} /\ state # "failed_unload" => (up <=> state = "loaded")
  BY DEF SetUpOnce
<1>1. Orderly /\ TypeOK /\ LockOK
  BY DEF IndInv
<1>2. ASSUME NEW c \in Running PROVE Running \subseteq {c}
  <2>1. c \in Callers /\ at[c] \in {"setup", "unload", "unload to remove"}
    BY DEF Running
  <2>2. CASE at[c] = "unload to remove"
    BY <2>1, <2>2, <1>1 DEF Orderly, Apart, Removal, Running
  <2>3. CASE at[c] \in {"setup", "unload"}
    <3>1. Holds(c) \/ at[c] \in {"setup", "failed"}
      BY <2>1, <2>3, <1>1, WhoIsWhere DEF Holding
    <3>2. \A d \in Callers \ {c} : Bystander(d)
      BY <3>1, <2>1, <1>1, Alone
    <3> QED
      BY <3>2 DEF Bystander, Running
  <2> QED
    BY <2>1, <2>2, <2>3
<1>3. Cardinality(Running) <= 1
  <2>1. CASE Running = {}
    BY <2>1, FS_EmptySet
  <2>2. ASSUME NEW c \in Running PROVE Cardinality(Running) <= 1
    <3>1. Running = {c}
      BY <1>2, <2>2
    <3>2. Cardinality({c}) = 1
      BY FS_Singleton
    <3> QED
      BY <3>1, <3>2
  <2> QED
    BY <2>1, <2>2
<1>4. \A c \in Callers : at[c] = "setup" => ~up
  BY <1>1 DEF Orderly, Apart
<1> QED
  BY <1>1, <1>3, <1>4 DEF Orderly

\* No step forgets an entry that waits for its retry.
LEMMA RetryStep ==
  ASSUME EntryConstantsOK
  PROVE  IndInv /\ RetryIsPending /\ [Next]_vars => RetryIsPending'
<1> SUFFICES ASSUME IndInv, RetryIsPending, [Next]_vars, state' = "setup_retry", known',
                    ~stopping', ~disabled', cancelRetry' \notin timers'
             PROVE  \E d \in Callers : at'[d] \in {"lock to reload", "lock to retry"}
  BY DEF RetryIsPending
<1>1. TypeOK /\ LockOK /\ at \in [Callers -> Awaits]
  BY DEF IndInv, TypeOK
<1>2. CASE UNCHANGED vars
  BY <1>2 DEF vars, registry, RetryIsPending
<1>3. CASE Stop
  BY <1>3 DEF Stop
<1>4. ASSUME NEW c \in Callers, NEW off, StartOrWait(c, off), off = disabled', known
      PROVE  at'[c] = "lock to reload"
  <2>1. CASE reloadLock # <<>>
    BY <2>1, <1>1, <1>4 DEF StartOrWait, Await
  <2>2. CASE reloadLock = <<>>
    BY <2>2, <1>4 DEF StartOrWait, StartReload, SetUp, Recoverable, State
  <2> QED
    BY <2>1, <2>2
<1>5. ASSUME NEW c \in Callers, NEW t \in Timers, SetupAgain(t, c)
      PROVE  at'[c] = "lock to retry"
  BY <1>1, <1>5 DEF SetupAgain, SetUp, Await, registry
<1>6. ASSUME NEW c \in Callers, LockToReload(c) PROVE FALSE
  BY <1>6 DEF LockToReload, StartReload, SetUp, Recoverable, State, registry
<1>7. ASSUME NEW c \in Callers, LockToRetry(c) PROVE FALSE
  BY <1>7 DEF LockToRetry, SetUp, registry
<1>8. ASSUME NEW c \in Callers,
             \/ SetupEnds(c) \/ UnloadEnds(c) \/ CleanedUp(c)
             \/ Remove(c) \/ RemovalEnds(c)
      PROVE  \E d \in Callers : at'[d] \in {"lock to reload", "lock to retry"}
  <2>1. state = "setup_retry" /\ UNCHANGED <<timers, cancelRetry>>
        /\ known /\ ~stopping /\ ~disabled
    <3>1. known /\ ~stopping /\ ~disabled
      <4>1. UNCHANGED <<stopping, disabled>> /\ (known' => known)
        BY <1>8 DEF SetupEnds, SetupSucceeds, SetupFails, SetupRaises, SetupNotReady,
             UnloadEnds, UnloadSucceeds, UnloadDeclined, UnloadRaises, CleanedUp, Remove,
             RemovalEnds, UnloadedToRemove, Removed, Delete, registry
      <4> QED
        BY <4>1
    <3>2. CASE SetupEnds(c)
      <4>1. SetupRaises(c)
        BY <3>2 DEF SetupEnds, SetupSucceeds, SetupFails, SetupNotReady
      <4> QED
        BY <4>1, <3>1 DEF SetupRaises
    <3>3. CASE UnloadEnds(c)
      <4>1. UnloadDeclined(c)
        BY <3>3 DEF UnloadEnds, UnloadSucceeds, UnloadRaises
      <4> QED
        BY <4>1, <3>1 DEF UnloadDeclined
    <3>4. CASE CleanedUp(c)
      BY <3>1, <3>4 DEF CleanedUp, SetUp
    <3>5. CASE Remove(c)
      BY <3>1, <3>5 DEF Remove, Delete
    <3>6. CASE RemovalEnds(c)
      BY <3>1, <3>6 DEF RemovalEnds, UnloadedToRemove, Removed, Delete
    <3> QED
      BY <1>8, <3>2, <3>3, <3>4, <3>5, <3>6
  <2>2. at[c] \notin {"lock to reload", "lock to retry"}
    BY <1>8 DEF SetupEnds, SetupSucceeds, SetupFails, SetupRaises, SetupNotReady,
         UnloadEnds, UnloadSucceeds, UnloadDeclined, UnloadRaises, CleanedUp, Remove,
         RemovalEnds, UnloadedToRemove, Removed
  <2>3. PICK d \in Callers : at[d] \in {"lock to reload", "lock to retry"}
    BY <2>1 DEF RetryIsPending
  <2>4. at'[d] = at[d]
    BY <1>1, <1>8, <2>2, <2>3, CallersMove, MoveKeepsLock
  <2> QED
    BY <2>3, <2>4
<1> QED
  BY <1>2, <1>3, <1>4, <1>5, <1>6, <1>7, <1>8
  DEF Next, GetsLock, Reload, SetDisabled, registry, vars, RetryIsPending

-----------------------------------------------------------------------------
\* The invariant holds in every state of every run, however many callers there are.
THEOREM Invariant ==
  ASSUME EntryConstantsOK
  PROVE  Spec => []IndInv
<1>1. Init => IndInv
  BY EntryInitInv
<1>2. IndInv /\ [Next]_vars => IndInv'
  BY EntryStepInv
<1> QED
  BY <1>1, <1>2, PTL DEF Spec

\* The integration's code runs for one caller at a time, never to set up what is set
\* up, and the state tells what came of it (ConfigEntry.async_setup and async_unload).
THEOREM SetUpIsOnce ==
  ASSUME EntryConstantsOK
  PROVE  Spec => []SetUpOnce
<1>1. IndInv => SetUpOnce
  BY OneAtWork
<1> QED
  BY <1>1, Invariant, PTL

\* The retry timer is the one that the entry can cancel, and there is none but for an
\* entry that waits for its retry (async_cancel_retry_setup).
THEOREM NoRetryStrays ==
  ASSUME EntryConstantsOK
  PROVE  Spec => []NoStrayRetry
<1>1. IndInv => NoStrayRetry
  BY DEF IndInv, Orderly, NoStrayRetry
<1> QED
  BY <1>1, Invariant, PTL

\* What async_remove reports as removed is down and stays down.
THEOREM RemovedStaysDown ==
  ASSUME EntryConstantsOK
  PROVE  Spec => []RemovedIsDown
<1>1. IndInv => RemovedIsDown
  BY DEF IndInv, Orderly, RemovedIsDown, Idle, Running
<1> QED
  BY <1>1, Invariant, PTL

\* No entry is forgotten that waits for its retry, in whatever order its callers meet
\* (_async_setup_again and async_reload).
THEOREM RetryStaysPending ==
  ASSUME EntryConstantsOK
  PROVE  Spec => []RetryIsPending
<1>1. Init => RetryIsPending
  BY DEF Init, RetryIsPending
<1>2. IndInv /\ RetryIsPending /\ [Next]_vars => RetryIsPending'
  BY RetryStep
<1> QED
  BY <1>1, <1>2, Invariant, PTL DEF Spec
=============================================================================
