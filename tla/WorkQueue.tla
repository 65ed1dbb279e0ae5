----------------------------- MODULE WorkQueue ------------------------------
(***************************************************************************)
(* When a pass runs.  main reads SCAN_INTERVAL and hands the reconciler to *)
(* controller-runtime; events of ResourceClaims and ResourceSlices put the *)
(* key of their object into a work queue; one worker takes a key and calls *)
(* Reconcile, which does not look at the key and asks for it again after   *)
(* the scan interval, or, after an error, with backoff.  ResourceMonitor   *)
(* describes what one pass does; here a pass does all the work that was    *)
(* due when it read the cluster.                                           *)
(*                                                                         *)
(* Some work becomes due without an event the scaler watches: a device has *)
(* been attached, has become old enough, the administrator changed a node  *)
(* label or the ConfigMap.                                                 *)
(***************************************************************************)
EXTENDS Integers

CONSTANTS
  Keys,       \* keys of claims and slices
  Permanent,  \* keys of objects nobody deletes: the slices of the pools
  NoKey,
  Work,       \* pieces of work
  Silent,     \* the ones that become due without an event
  Settings,   \* what SCAN_INTERVAL may be
  Unset,      \* the variable is not set
  NotANumber, \* a text Atoi refuses
  MaxFaults   \* errors and crashes at most

ASSUME KeysAssumption ==
  /\ Permanent \subseteq Keys /\ Permanent # {} /\ NoKey \notin Keys
  /\ Silent \subseteq Work /\ MaxFaults \in Nat

VARIABLES
  setting,   \* SCAN_INTERVAL in the environment of the process
  status,    \* "starting", "running" or "exited"
  interval,  \* ScanInterval, in seconds
  objects,   \* keys of the objects that exist
  queue,     \* keys that are ready
  again,     \* the key being processed has to be queued again
  delayed,   \* keys that wait for a delay
  running,   \* the key being processed, or NoKey
  due,       \* work nobody has done yet
  seen,      \* work the running pass has found
  faults

queueVars == <<queue, again, delayed, running, seen>>
vars == <<setting, status, interval, objects, queueVars, due, faults>>

-----------------------------------------------------------------------------
(***************************************************************************)
(* The process.                                                            *)
(***************************************************************************)

EnvValid(value) == value = Unset \/ value \in 0..86400

getEnvAsInt(value, default) == IF value = Unset THEN default ELSE value

\* Watches: the first list of both kinds queues every object there is.
SetupWithManager == queue' = objects

main ==
  /\ status = "starting"
  /\ IF EnvValid(setting)
       THEN /\ status' = "running" /\ interval' = getEnvAsInt(setting, 60)
            /\ SetupWithManager
       ELSE status' = "exited" /\ UNCHANGED <<interval, queue>>
  /\ UNCHANGED <<setting, objects, again, delayed, running, due, seen, faults>>

\* What the process had in memory is lost, and it is started again.
Crash ==
  /\ status = "running" /\ faults < MaxFaults
  /\ status' = "starting" /\ faults' = faults + 1
  /\ queue' = {} /\ again' = FALSE /\ delayed' = {} /\ running' = NoKey
  /\ seen' = {}
  /\ UNCHANGED <<setting, interval, objects, due>>

-----------------------------------------------------------------------------
(***************************************************************************)
(* The queue of controller-runtime.  A key that is being processed is not  *)
(* handed out a second time: it is marked, and queued when it is done.     *)
(***************************************************************************)

\* Mutant: an event of the key being processed is left to that pass.
Add_Dropped(key) ==
  queue' = (queue \cup {key}) \ {running} /\ UNCHANGED again

Add(key) ==
  IF key = running THEN again' = TRUE /\ UNCHANGED queue
  ELSE queue' = queue \cup {key} /\ UNCHANGED again

Done ==
  /\ queue' = IF again THEN queue \cup {running} ELSE queue
  /\ again' = FALSE /\ running' = NoKey /\ seen' = {}

Expire(key) ==
  /\ key \in delayed
  /\ delayed' = delayed \ {key} /\ Add(key)
  /\ UNCHANGED <<setting, status, interval, objects, running, due, seen,
                 faults>>

\* A worker takes a key, and the pass begins by reading the cluster.
Get(key) ==
  /\ status = "running" /\ running = NoKey /\ key \in queue
  /\ running' = key /\ queue' = queue \ {key} /\ seen' = due
  /\ UNCHANGED <<setting, status, interval, objects, again, delayed, due,
                 faults>>

\* Mutant: the successful pass asks for no other.
Reconcile_NoRequeue ==
  /\ running # NoKey
  /\ due' = due \ seen /\ Done
  /\ UNCHANGED <<setting, status, interval, objects, delayed, faults>>

\* The pass succeeds; RequeueAfter zero is no request at all.
Reconcile ==
  /\ running # NoKey
  /\ due' = due \ seen
  /\ delayed' = IF interval > 0 THEN delayed \cup {running} ELSE delayed
  /\ Done
  /\ UNCHANGED <<setting, status, interval, objects, faults>>

\* Mutant: the error is not returned.
ReconcileError_Dropped ==
  /\ running # NoKey /\ faults < MaxFaults
  /\ faults' = faults + 1 /\ Done
  /\ UNCHANGED <<setting, status, interval, objects, delayed, due>>

\* The pass returns an error, and its key comes back with backoff.
ReconcileError ==
  /\ running # NoKey /\ faults < MaxFaults
  /\ faults' = faults + 1
  /\ delayed' = delayed \cup {running}
  /\ Done
  /\ UNCHANGED <<setting, status, interval, objects, due>>

-----------------------------------------------------------------------------
(***************************************************************************)
(* The cluster.  Work that becomes due after the pass read the cluster is  *)
(* not found by that pass.                                                 *)
(***************************************************************************)

\* A claim or slice is created, updated or deleted, and work may come of it.
Event(key, left, new) ==
  /\ left \in {objects, objects \cup {key}, objects \ {key}}
  /\ key \in objects \cup left /\ Permanent \subseteq left
  /\ new \cap due = {}
  /\ objects' = left /\ due' = due \cup new
  /\ IF status = "running" THEN Add(key) ELSE UNCHANGED <<queue, again>>
  /\ UNCHANGED <<setting, status, interval, delayed, running, seen, faults>>

SilentChange(work) ==
  /\ work \notin due
  /\ due' = due \cup {work}
  /\ UNCHANGED <<setting, status, interval, objects, queueVars, faults>>

-----------------------------------------------------------------------------

Init ==
  /\ setting \in Settings /\ status = "starting" /\ interval = 0
  /\ objects = Permanent
  /\ queue = {} /\ again = FALSE /\ delayed = {} /\ running = NoKey
  /\ due = {} /\ seen = {} /\ faults = 0

Next ==
  \/ main \/ Crash
  \/ \E key \in Keys : Get(key) \/ Expire(key)
  \/ Reconcile \/ ReconcileError
  \/ \E key \in Keys, left \in SUBSET Keys, new \in SUBSET (Work \ Silent) :
       Event(key, left, new)
  \/ \E work \in Silent : SilentChange(work)

Spec == Init /\ [][Next]_vars

(***************************************************************************)
(* The process is started, delays end, the worker takes keys and a pass    *)
(* comes to an end.  Nothing is assumed of the cluster; errors and crashes *)
(* stop at some time, by MaxFaults.                                        *)
(***************************************************************************)
FairSpec ==
  /\ Spec
  /\ WF_vars(main)
  /\ WF_vars(\E key \in Keys : Get(key))
  /\ WF_vars(Reconcile)
  /\ \A key \in Keys : WF_vars(Expire(key))

-----------------------------------------------------------------------------

(***************************************************************************)
(* No event is lost: as long as the process runs, work that an event made  *)
(* due and the running pass has not found has a key waiting for it, also   *)
(* if the event came during a pass for the same key, before a restart, or  *)
(* if that pass ends in an error.  With an interval over zero there is     *)
(* always a next pass, for the work that no event announces.               *)
(***************************************************************************)
KeyWaits == queue # {} \/ delayed # {} \/ again

WorkHasKey ==
  status = "running" =>
    /\ (due \ Silent) \ seen # {} => KeyWaits
    /\ interval > 0 => running # NoKey \/ KeyWaits

(***************************************************************************)
(* What an event of a claim or slice made due is done in the end, whatever *)
(* interval is set: an event during a pass, before an error, a crash or a  *)
(* restart, or the deletion of an object while the process is down, is not *)
(* lost.  A process that refuses its environment does nothing.             *)
(***************************************************************************)
EventsHandled ==
  \A work \in Work \ Silent :
    (work \in due /\ EnvValid(setting)) ~> (work \notin due)

(***************************************************************************)
(* With an interval over zero, so is what became due without an event: a   *)
(* device that was attached or has become old enough.  It takes the        *)
(* requeueing of a key at the end of every pass.                           *)
(***************************************************************************)
ScansHandled ==
  \A work \in Work :
    (work \in due /\ EnvValid(setting) /\ getEnvAsInt(setting, 60) > 0)
      ~> (work \notin due)

=============================================================================
