-------------------------- MODULE WorkQueueProofs ---------------------------
(***************************************************************************)
(* The theorem about WorkQueue: no event is lost, for any number of keys,  *)
(* pieces of work, errors and crashes.                                     *)
(***************************************************************************)
EXTENDS WorkQueue, TLAPS

(***************************************************************************)
(* Nothing is found but by a pass that runs, and there are always slices   *)
(* to list when the process starts: with this WorkHasKey is inductive.     *)
(***************************************************************************)
QueueInv ==
  /\ WorkHasKey
  /\ running = NoKey => seen = {}
  /\ Permanent \subseteq objects
  /\ again \in BOOLEAN

\* A key that is added waits, and so do those that waited.
LEMMA AddedWaits ==
  ASSUME NEW key, Add(key), delayed' \in {delayed, delayed \ {key}},
         again \in BOOLEAN
  PROVE  KeyWaits' /\ again' \in BOOLEAN
<1>1. CASE key = running
  BY <1>1 DEF Add, KeyWaits
<1>2. CASE key # running
  <2>1. key \in queue' /\ again' = again
    BY <1>2 DEF Add
  <2> QED
    BY <2>1 DEF KeyWaits
<1> QED
  BY <1>1, <1>2

\* When a pass ends, a key that waits still does.
LEMMA DoneWaits ==
  ASSUME KeyWaits, Done, delayed \subseteq delayed'
  PROVE  KeyWaits'
<1>1. CASE again
  <2>1. running \in queue'
    BY <1>1 DEF Done
  <2> QED
    BY <2>1 DEF KeyWaits
<1>2. CASE ~again
  BY <1>2 DEF Done, KeyWaits
<1> QED
  BY <1>1, <1>2

\* Every step keeps a key for the work.
LEMMA QueueStep ==
  ASSUME QueueInv, [Next]_vars
  PROVE  QueueInv'
<1> USE DEF QueueInv
<1>1. CASE main
  <2>1. CASE EnvValid(setting)
    <3>1. /\ status' = "running" /\ queue' = objects /\ UNCHANGED objects
          /\ UNCHANGED <<running, seen, again>>
      BY <1>1, <2>1 DEF main, SetupWithManager
    <3>2. KeyWaits'
      BY <3>1, KeysAssumption DEF KeyWaits
    <3> QED
      BY <3>1, <3>2 DEF WorkHasKey
  <2>2. CASE ~EnvValid(setting)
    BY <1>1, <2>2 DEF main, WorkHasKey
  <2> QED
    BY <2>1, <2>2
<1>2. CASE Crash
  BY <1>2 DEF Crash, WorkHasKey
<1>3. ASSUME NEW key \in Keys, Get(key)
      PROVE  QueueInv'
  <2>1. /\ running' = key /\ seen' = due /\ UNCHANGED <<due, status, objects>>
        /\ UNCHANGED <<interval, again>>
    BY <1>3 DEF Get
  <2>2. key # NoKey
    BY KeysAssumption
  <2> QED
    BY <2>1, <2>2 DEF WorkHasKey
<1>4. ASSUME NEW key \in Keys, Expire(key)
      PROVE  QueueInv'
  <2>1. KeyWaits' /\ again' \in BOOLEAN
    BY <1>4, AddedWaits DEF Expire
  <2> QED
    BY <1>4, <2>1 DEF Expire, WorkHasKey
<1>5. CASE Reconcile
  <2>1. /\ due' = due \ seen /\ seen' = {} /\ running' = NoKey
        /\ again' = FALSE /\ UNCHANGED <<status, interval, objects>>
        /\ delayed \subseteq delayed'
        /\ interval > 0 => running \in delayed'
    BY <1>5 DEF Reconcile, Done
  <2>2. KeyWaits => KeyWaits'
    BY <1>5, <2>1, DoneWaits DEF Reconcile
  <2>3. interval > 0 => KeyWaits'
    BY <2>1 DEF KeyWaits
  <2>4. (due \ Silent)' \ seen' = (due \ Silent) \ seen
    BY <2>1
  <2> QED
    BY <2>1, <2>2, <2>3, <2>4 DEF WorkHasKey
<1>6. CASE ReconcileError
  <2>1. running \in delayed'
    BY <1>6 DEF ReconcileError
  <2>2. KeyWaits'
    BY <2>1 DEF KeyWaits
  <2> QED
    BY <1>6, <2>2 DEF ReconcileError, Done, WorkHasKey
<1>7. ASSUME NEW key \in Keys, NEW left \in SUBSET Keys, NEW new,
             Event(key, left, new)
      PROVE  QueueInv'
  <2>1. CASE status = "running"
    <3>1. KeyWaits' /\ again' \in BOOLEAN
      BY <1>7, <2>1, AddedWaits DEF Event
    <3> QED
      BY <1>7, <2>1, <3>1 DEF Event, WorkHasKey
  <2>2. CASE status # "running"
    BY <1>7, <2>2 DEF Event, WorkHasKey
  <2> QED
    BY <2>1, <2>2
<1>8. ASSUME NEW work \in Silent, SilentChange(work)
      PROVE  QueueInv'
  <2>1. (due \ Silent)' = due \ Silent /\ UNCHANGED queueVars
    BY <1>8 DEF SilentChange
  <2> QED
    BY <1>8, <2>1 DEF SilentChange, queueVars, WorkHasKey, KeyWaits
<1>9. CASE UNCHANGED vars
  BY <1>9 DEF vars, queueVars, WorkHasKey, KeyWaits
<1> QED
  BY <1>1, <1>2, <1>3, <1>4, <1>5, <1>6, <1>7, <1>8, <1>9 DEF Next

(***************************************************************************)
(* Work that an event made due and no pass has found has a key waiting for *)
(* it, whichever passes, errors, crashes and other events come between,    *)
(* and with an interval over zero there is always a next pass.  That the   *)
(* key is taken in the end is a matter of fairness, and checked by TLC.    *)
(***************************************************************************)
THEOREM NoEventLost == Spec => []WorkHasKey
<1>1. Init => QueueInv
  BY DEF Init, QueueInv, WorkHasKey
<1>2. QueueInv /\ [Next]_vars => QueueInv'
  BY QueueStep
<1>3. QueueInv => WorkHasKey
  BY DEF QueueInv
<1> QED
  BY <1>1, <1>2, <1>3, PTL DEF Spec

=============================================================================
