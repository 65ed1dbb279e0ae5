# Dynamic Device Scaler: TLA+ model, checks and proofs

The Dynamic Device Scaler (DDS) is a Kubernetes controller. It watches what the
scheduler promised to pods from a pool of composable devices, asks the
Composable Resource Operator to attach or detach devices, and tells the
scheduler when a pod should be scheduled again. This directory holds models of
its reconcile loop and of the parts around it, the model-checking runs and the
proofs about them.

## The system

| part | state | operations | source |
|---|---|---|---|
| reconcile loop | what one pass collected (claims, slices, node limits) | `Reconcile`, `collectInfo`, `handleNodes` | `internal/controller/resourcemonitor_controller.go` |
| collection | none | `GetResourceClaimInfo`, `GetResourceSliceInfo`, `GetNodeInfo`, `GetConfigMapInfo` | `internal/utils/info_utils.go` |
| failed notifications | states of claims, in memory and in `status.devices` | `RescheduleFailedNotification`, `setDevicesState` | `internal/utils/reschedule_utils.go` |
| reschedule notifications | the same, and last-used times of devices | `RescheduleNotification` | `internal/utils/reschedule_utils.go` |
| request sizing | sizes of `ComposabilityRequest`s | `handleDevices`, `DynamicAttach`, `DynamicDetach`, `getNextSize` | `internal/utils/device_utils.go` |
| last-used times | annotation of `ComposableResource`s | `updateComposableResourceLastUsedTime`, `isLastUsedOverThreshold` | controller, `reschedule_utils.go` |
| node labels | one label per model and node | `UpdateNodeLabel`, `patchNodeLabel` | `internal/utils/patch_utils.go` |
| claim status | `status.devices` of a claim, shared with other writers | `PatchResourceClaimDeviceConditions` and how `GetResourceClaimInfo` reads it | `patch_utils.go`, `info_utils.go` |
| configuration | ConfigMap and node labels | `GetConfigMapInfo`, `validateDeviceInfo`, `processNodeInfo` | `info_utils.go`, `types/configmap.go` |
| work queue | keys that are ready or delayed | `SetupWithManager`, the results of `Reconcile` | controller, controller-runtime |
| start-up | three durations | `main`, `getEnvAsInt` | `cmd/main.go` |

Nothing is kept between two passes: everything the scaler knows is in API
objects. A pass reads them, mostly through informer caches, and writes them one
patch at a time. The other writers are the scheduler and the pods (claims), the
operator (resources), the vendor's DRA plugin (slices) and the administrator
(labels with limits).

One claim's life: the scheduler allocates it from the fabric pool
(*Preparing*); DDS fails it at once if it cannot be served
(`FabricDeviceFailed`), or raises the size of a request; the operator attaches a
device; the plugin publishes it; a later pass finds it idle and tells the
scheduler (`FabricDeviceReschedule`); the scheduler gives the allocation up and
allocates the claim again, now on the attached device. Once the pod is gone and
`DEVICE_NO_REMOVAL_DURATION` has passed, the request shrinks again.

What is hard here:

* a pass works on a snapshot of claims, slices and limits, but lists resources,
  claims and requests again in each phase, while all other writers go on;
* a pass is a series of writes to different objects and can stop after any of
  them; the next pass must cope with what it finds;
* the loops change the states they iterate over (a claim failed earlier no
  longer counts towards the limit);
* "recently used" is a time stamp written by one phase and read by others;
* every answer depends on several later passes and on other components;
* `status.devices` and the labels of a node have several writers, and the scaler
  replaces the first as a whole and reads limits from where it writes labels;
* a pass starts only when a key comes out of the queue, and what the scaler waits
  for (a device attached, a device old enough) is no event it watches.

`PROJECT.json` lists the hazards at their lines, with the property that watches
each of them or the reason why none does yet.

## Modules

* `DeviceConfig`: what is configured. Models, the relation
  `CannotCoexistWith`, limits and their defaults, the two durations.
* `Cluster` (extends `DeviceConfig`): API objects and the components around the
  scaler. All its actions are external: they say what DDS relies on. Informer
  caches are part of it: kinds of object in `Lagging` are read from `cache`,
  which `Sync` brings up to date one kind at a time.
* `ResourceMonitor` (extends `Cluster`): the reconciler. `pc` names the phase
  or loop the pass is in; the remaining variables are the local variables of
  the pass, and `Return` clears them.
* `ScalerService`: what the scaler promises, abstractly: a life per claim
  (free, waiting, failed, reschedule, bound, gone) and the requests by name.
  `ResourceMonitor` instantiates it (`Service`) with the life of a claim read
  off its status and the requests as they are.
* `ClaimStatus`: one claim with an entry per device in `status.devices`, other
  writers, and the status patch as Get, Patch and Conflict. A pass is reduced to
  the decisions it may take for the claim. The list at the start of a pass and the
  Get of a patch are both answered by the informer's cache (`main.go:144` gives the
  reconciler the manager's client), so the claim is there twice, as the API server
  has it and in `cache`, and `Sync` is a watch event. With `OwnWritesSeen` the cache
  has a patch of the scaler by the time the pass goes on, and may be behind every
  other write; without it, behind all of them. The module instantiates
  `ScalerService` too, with the life of the claim read off all its entries.
* `NodeLabels`: device-info entries with index, model, device name and list of
  indexes as they are, size labels visited in any order, and the labels the
  scaler writes. `DeviceConfig` takes model, index and device name for one thing;
  here entries may share any of them.
* `Naming`: the two checks of names, over sequences of characters that keep apart
  what a character is and what its first and last bytes are. A name is typed one
  character at a time, and its length in bytes is kept beside it.
* `WorkQueue`: when passes run. Keys, delays, one worker, `SCAN_INTERVAL`,
  errors and restarts; a pass does the work that was due when it began.
* `MCResourceMonitor`, `MCClaimStatus`, `MCNodeLabels`, `MCWorkQueue`: values for
  the constants of the runs.
* `ResourceMonitorProofs`, `NotificationProofs` and `ServiceProofs` (which extend
  it), `ClaimStatusProofs`, `NodeLabelsProofs`, `NamingProofs`, `WorkQueueProofs`:
  theorems and proofs. `Extrema`: the two facts about `Max` and `Min` they share.

The modules meet as follows. `WorkQueue` justifies the fairness `ResourceMonitor`
assumes of its passes; `ClaimStatus!DevicesAgree` justifies that it keeps one set
of conditions per claim, and `ClaimServed` that a claim whose status has other
writers still goes through the life `ScalerService` gives it; `NodeLabels` justifies that a limit is a function of node
and model and that device-info is a relation on models (`Proper`).

How actions correspond to code:

| `pc` | actions | code |
|---|---|---|
| `idle` | `collectInfo` | the snapshot at the start of `Reconcile` |
| `touch`, `touching` | `updateComposableResourceLastUsedTime`, `PatchComposableResourceAnnotation`, `AnnotationRejected` | devices in use get a new last-used time |
| `node` | `handleNodes` | next node, or the end of the pass |
| `failed`, `failing`, `limits` | `RescheduleFailedNotification`, `CheckClaim`, `CheckLimit`, `LimitsDone`, `FailingDone` | newest claim first: conflicts, then limits per model |
| `patching` | `setDevicesState`, `PatchRejected` | state in memory and the status patch, for a claim and then for the peer it conflicts with |
| `resched`, `matching`, `annotating` | `RescheduleNotification`, `MatchClaim`, `PatchComposableResourceAnnotation`, `MatchingDone` | oldest claim first: idle devices for all its items |
| `devices`, `sizing` | `handleDevices`, `SizeModel`, `SizeRefused`, `SizingDone` | size of each model's request; a model over its limit ends the pass |
| `label` | `UpdateNodeLabel` | labels of models that may be scheduled |
| any | `PassCutShort` | an API error or a crash |

Abstractions:

* A claim has *items* (device requests) allocated from the pool, and *red*
  devices (already attached to the node). Conditions are recorded per claim: the
  scaler writes them to all devices of a claim at once. That is exact as long as
  other writers of `status.devices` report on all devices of the claim together
  and set no binding condition (`ClaimStatus`, run `status`).
* One device-info entry is one model; index, CDI model name and device name
  stand for each other (they do not in `NodeLabels`). A pool names its model.
* The scheduler may give an allocation up at any time, also without an answer
  (`BindingTimeout`).
* A device is one `ComposableResource` at a time. Its age counts ticks since the
  last-used time, or since creation, up to one more than both durations.
* `sort.Slice` is not stable and time stamps have seconds, so claims with equal
  `Created` come in any order. Lists of requests and resources come in any
  order. Nodes and device-info entries keep their order.
* The cluster moves at the boundaries of phases named in `OpenPhases`, never
  between two lists or writes of one phase. Inside a phase only a stop of the
  pass can intervene. `SizeModel` is one step, from the count to the patch, and so
  is `CheckLimit`, although the code lists claims and resources again for each
  model: what others do in between is seen by the next phase or pass.
* `ComposabilityRequest`s are created by the scaler only and are never deleted.
* A retry on a conflict is not visible: it ends in success, or in an error that
  is a `PassCutShort`. `ClaimStatus` has the retries of the status patch.
* Passes are one sequence. `manager.yaml` has one replica and
  controller-runtime runs one worker for the controller.

## Properties and runs

Sizes are chosen so that claims compete: two claims and one device, or one claim
of two items and two devices, which is the least that makes a limit exceeded, a
verdict on a peer, a partial hand-out and a kept device beside a free one
possible. Durations of 0 or 1 tick make a device recent and then old.

| run | instance | checks |
|---|---|---|
| `notify` | 2 claims, 1 device, limits that move between a maximum of 1 and a minimum of 1 over a maximum of 0; cluster moves at `idle`, `resched`, `devices` | `TypeOK`, `SurvivorsFit`, `OneRequestPerModel`, `SizesWithinLimits`, `VerdictFinal`, `NewestFailFirst`, `SeenDevicesKept`, `ServiceProvided` |
| `scale_down` | 1 claim of 2 items, 2 devices (symmetric), no-removal time 1, one pass cut short; cluster moves at `idle`, `devices` | `DemandRequested`, `ScaleDownKeepsRecent`, `RescheduledIsAttached` |
| `coexist` | 2 claims of models that exclude each other, created at the same time, cluster moves at `idle` and `resched`, the cache of resources lags | `WaitingClaimsCoexist`, `SurvivorsFit` |
| `answered` | 2 claims, 1 device, maximum 1, one pass cut short, cluster moves between passes, fair | `ClaimsAnswered`, `IdleReleased` |
| `moves` | 2 nodes, 1 claim, 1 device, a maximum of -1 that comes and goes, cluster moves between passes, fair | `ClaimsAnswered`, `IdleReleased` |
| `status` | 3 results, 2 of them from pools; another writer that reports on all of them, or on one at a time with binding conditions too; a cache behind all writes but the scaler's own; fair | `TypeOK`, `DevicesAgree`, `FailedNotRescheduled`, `ClaimServed`, `AnsweredOnAll` |
| `node_labels` | every device-info of two entries over two indexes, models and names; labels absent, -1, 0, 2 or no number | `ErrorIsDetermined`, `LimitsMeetLabels`, `InvitedIsAccepted` |
| `names` | all names of up to 6 characters (`MaxTyped`, one over the larger limit), with limits 3 and 5 for 50 and 100 | `LabelsChecked`, `PrefixesChecked` |
| `queue` | a slice that stays, a claim that comes and goes, two faults, `SCAN_INTERVAL` unset, no number, -1, 0, 1, 86400, 86401; fair | `WorkHasKey`, `EventsHandled`, `ScansHandled` |

Two entries are the least that share an index, a name or a model; three results
the least with two pool devices and a device that has no state; two faults the
least for an error and then a crash.

* `SurvivorsFit`: a claim that the failed-notification loop visited and left
  Preparing has no conflict and no model over its limit, also after later rounds
  changed other claims.
* `NewestFailFirst`: when a claim is failed for a limit, no newer Preparing claim
  uses a model that is over its limit.
* `VerdictFinal`: a claim never carries both verdicts nor loses one before its
  allocation ends, in any later phase or pass.
* `OneRequestPerModel`: a second request for a model and node would never be
  adjusted again; there is none.
* `ScaleDownKeepsRecent`: a request is not lowered below the devices used,
  handed out or created within `DEVICE_NO_REMOVAL_DURATION`.
* `DemandRequested`: the other half. Once `handleDevices` has visited a model, the
  node has a request for as many devices as its waiting and rescheduled claims and
  its pods need at that moment. Claims are counted as the pass has them in memory
  and devices by the claims of now; a claim that exchanged a pool device for an
  attached one in between is in the first count, in the second or in both, never in
  none. The need is stated over API objects, not with the code's own counts.
* `RescheduledIsAttached`: a claim that is told to reschedule, and is still the one
  the pass read, has an attached device on its node for each of its items, although
  the devices were read once for all claims.
* `WaitingClaimsCoexist`: what reaches `handleDevices` as Preparing conflicts
  with no request and no other waiting claim, although the cluster moved since
  it was checked.
* `ClaimsAnswered`: a reserved claim that waits for a pool device does not wait
  for ever, unless some node stays over its maximum (`Blocked`), which ends every
  pass with an error.
* `SeenDevicesKept`: a request is not lowered below its devices that pods hold, for
  the devices that were published when the pass began, while the cluster moves.
* `IdleReleased`: a model for which demand has ended on a node ends with no
  device requested there.
* `SizesWithinLimits`: no request asks for more than the larger of a maximum and a
  minimum that some label allowed, although pods take devices between the check
  of a limit and the count that is written.
* `ServiceProvided`: every step of `ResourceMonitor` is a step of `ScalerService`
  or changes nothing it shows.
* `DevicesAgree`, `AnsweredOnAll`: a pass reads the pool devices of a claim in the
  one state the conditions of the claim stand for, and each is answered, although
  the cache is behind the other writers.
* `FailedNotRescheduled`: a failed device is not told to reschedule, whatever is
  overwritten between Get and patch, as long as the cache has what the scaler wrote.
* `ClaimServed`: a claim is answered once in an allocation and only while it waits,
  whatever happens to it and to its status between the reading of the pass, the Get
  and the patch, and however often the patch is in conflict; again as long as the
  cache has the scaler's own patches.
* `ErrorIsDetermined`, `LimitsMeetLabels`: whether a pass fails on labels, and the
  limits it gets from them, do not depend on the order of a Go map (with two
  device names for one model, the limit is that of one of them).
* `InvitedIsAccepted`: with a symmetric `cannot-coexist-with` and no maximum below
  zero, a label the scaler leaves on a node invites only devices its own checks
  would accept there: they coexist with what is installed, and the limit allows a
  first one.
* `LabelsChecked`, `PrefixesChecked`: the checks of names agree with Kubernetes'
  definitions, apart from capitals, letters outside ASCII and dashes beside
  dots, which the code accepts.
* `WorkHasKey`: no lost wake-up. While the process runs, work that an event made
  due and the running pass has not found has a key waiting for it.
* `EventsHandled`, `ScansHandled`: no work is lost to an error, a crash, or an
  event during the pass; work that comes without an event needs an interval over
  zero.

Three runs show a disagreement between the code and what its documents or tests
say; `PROJECT.json` quotes the lines:

* `double_booking`: the resources are listed once and each claim starts with an
  empty set of matched devices, so one attached device is promised to two claims
  in one pass (`RescheduleMeansAttached`). The second one comes back as waiting
  later, which is why `ClaimsAnswered` still holds. Claim by claim the promise is
  kept: `RescheduledIsAttached`.
* `mixed_models`: `getNextSize` counts devices of all models, so an unused model
  is kept while another one is in use (`UnusedScaledDown`). Theorem
  `UnusedIsScaledDown` shows that it takes a second model.
* `stale_claims`: the status patch replaces a list it read from a lagging cache,
  and a failed claim is told to reschedule (`FailedNotRescheduled`).

### Where the properties stop holding

The conditions under which the passing runs hold are not arbitrary. TLC finds
counterexamples when they are dropped:

* `SeenDevicesKept` for all devices that pods hold, with `"touch"` in `OpenPhases`: a
  device published and taken by a pod after `collectInfo` does not count as used
  (`device_utils.go:82`), and if nothing else needs it, and it was attached longer
  ago than `DEVICE_NO_REMOVAL_DURATION`, its request is lowered.
* `WaitingClaimsCoexist` with one `ClaimName` for both claims: claims of one name
  in two namespaces are not checked against each other
  (`reschedule_utils.go:152`).
* `OneRequestPerModel` with `"requests"` in `Lagging`: a request that is not in
  the cache yet is created a second time
  (`resourcemonitor_controller.go:248`), and only one of the two is ever scaled
  down again.
* `ClaimsAnswered` without `Blocked`: a maximum below zero on one node ends every
  pass there, and claims on the nodes after it are not answered.
* `FailedNotRescheduled` and `ClaimServed` of `ClaimStatus` without `OwnWritesSeen`: a
  pass that gets a claim without the last patch takes it for one that waits and
  answers it again. Being behind other writers only does no harm, and the other
  three properties of the run hold in either case.
* `AnsweredOnAll` without `Thorough`: once one device of a claim has an entry, the
  others have no state (`info_utils.go:105`), and the claim is never told to
  reschedule.
* `InvitedIsAccepted` with a maximum below zero: `UpdateNodeLabel` takes only zero for
  a ban (`patch_utils.go:329`), so that the label stays on the node, while every
  claim for the model is refused (`reschedule_utils.go:192`).
* `FailedNotRescheduled` of `ClaimStatus` with one `DeviceName` for two results:
  entries are looked up by device name alone (`info_utils.go:108`), and devices of
  two pools may have the same one.
* `ScansHandled` with an interval of zero: an attached device is not noticed until
  a claim or slice changes.
* An answer is not compared with the allocation it was found for
  (`reschedule_utils.go:386`): a claim allocated anew on another node during a
  pass gets the answer for the first node. `ServiceProvided` shows no more than
  that the claim is waiting when it gets it.

### Fairness

`FairSpec` assumes weak fairness of the reconciler's steps: after a pass
`Reconcile` is requeued, with `ScanInterval` or with backoff after an error (an
interval over zero is assumed, and at least one event that started the first
pass; `WorkQueue` is about both). Clock, operator, plugin and the scheduler's
reaction to a verdict are strongly fair, because in the model they can act only at
the boundaries named in `OpenPhases`, and strong fairness says no more than that
they get on with their work in the long run. Nothing is assumed of pods, users and the
administrator. `PassCutShort` is bounded by `MaxFaults`: errors do not last for
ever.

In `ClaimStatus` passes come and end and watch events arrive (weak), a patch is not in conflict for ever
and the devices are attached again and again (strong: another writer or the
scheduler may get in between). In `WorkQueue` the container is started, the worker
takes keys, passes and delays end (all weak); errors and crashes are bounded by
`MaxFaults`, and there is a slice nobody deletes, as the pools of the Composable
DRA Driver have: without any object a restarted process has no key to begin with.

## Proofs

`ResourceMonitorProofs` proves, for every finite number of nodes, models,
claims and devices, every coexistence relation, all limits and durations, every
choice of `OpenPhases` and any number of faults:

* `TypeCorrect`: `Spec => []TypeOK`, for any lagging caches. The type alone is
  not inductive: a patch step needs a claim to patch, and a step of a node phase
  a node. `TypeInv` adds `PassOK` (in the phases of a node `cur` is a node,
  while patching `patch` names a claim and a verdict and a phase to return to,
  while checking limits `cl` is a claim) and `RequestsRemain` (what the cache
  shows of a request is backed by one that exists).
* `RequestsUnique`: `Spec => []OneRequestPerModel` while the cache of requests
  is up to date. `OnlySizeModelWrites` shows that no other action touches the
  requests; then `SizeModel` changes only a size, or creates a request where the
  list had none.
* `RecentDevicesKept`: `Spec => ScaleDownKeepsRecent` while requests and
  resources are read up to date. A size goes down only through `getNextSize`,
  whose kept devices include the recent ones of the model.
* `VerdictsAreFinal`: `Spec => VerdictFinal` while claims are read up to date.
  The inductive `VerdictInv` says that a claim the pass holds as Preparing has
  no condition in the API server, and that a claim being patched has none but
  the one the patch adds.
* `SizesLimited`: `Spec => []SizesWithinLimits`, for any lagging caches. The
  inductive `SizesInv` adds that the limits of a pass are ones some labels had
  (`LimitsSeen`) and that sizes in the cache are within limits too, because
  `DynamicDetach` compares with the size it saw, not with the one there is.
* `DemandIsRequested`: `Spec => []DemandRequested` while requests, resources and claims
  are read up to date, for every choice of `OpenPhases`. A claim that still is what
  the pass has in memory is counted there (`WantedIsCounted`), a published device
  that a pod holds is counted from the lists of now (`SeenCounted`), and a request
  is left with at least the sum (`VisitRequests`). The cluster cannot move between
  the models of one node (`DemandUnchanged`), and a later model leaves the requests
  of the earlier ones alone (`OthersStay`). It needs `OneRequestPerModel`: a second
  request would be left as it was.
* `UnusedIsScaledDown`: `Spec => UnusedScaledDown` while requests and resources are
  read up to date, if there is one model only. This is the property that run `mixed_models` violates: several
  models are what the violation takes.
* `SeenDevicesStay`: `Spec => SeenDevicesKept` while requests, resources and claims are
  read up to date, for every choice of `OpenPhases`: claims and resources are listed
  again when the sizes are computed, so only the slices can be old.

`NotificationProofs` is about the nested loops of the failed notifications, for
any lagging caches unless said otherwise:

* `SurvivorsDoFit`: `Spec => []SurvivorsFit`, and `NewestDoFailFirst`:
  `Spec => NewestFailFirst`. The loop invariant `FitInv` says what is true between
  any two checks, also while a patch for a claim or its peer is under way: the
  claims visited so far and still Preparing fit (`VisitedFit`), so do the models
  checked so far of the claim at hand (`CheckedSoFar`), and the claims visited are
  the newest (`NewestVisited`). A claim that fails makes the counts of the others
  smaller, never larger (`CountShrinks`), which is why earlier checks stay true.
* `WaitingDoCoexist`: `Spec => []WaitingClaimsCoexist` while requests are read up
  to date and no two claims share a name. `CoexistInv` carries the result of the
  loop through the phases after it; without the second hypothesis the property
  fails (see above).
* `RescheduledAreAttached`: `Spec => RescheduledIsAttached` while claims and resources
  are read up to date. `AttachedInv`: from the list of resources to the status patch
  the devices on offer are online on the node, and while the patch is under way
  those set aside for its claim are among them and match all its items.

`ServiceProofs` has the refinement:

* `ServiceImplemented`: `Spec => ServiceProvided` while claims and requests are
  read up to date. `ClaimsInv` (a claim never has both verdicts, and none without
  an allocation), `VerdictInv` and `SizesInv` make the mapping well defined;
  `LifeStep` maps every change of a claim and `RequestStep` every change of a
  request to a step of the service, and `OneAtATime` shows that no step of the
  scaler makes two of them at once.
* `FailedStayFailed`: `Spec => FailedNotRescheduled` while claims are read up to
  date. The lagging cache of run `stale_claims` is thus the only way to that
  violation.

`ClaimStatusProofs`, for any number of devices and any other writers:

* `StatusTypeCorrect`: `Spec => []TypeOK`. `StatusType` adds that a patch under way
  has a verdict to write and that another Get happens only with an attempt left.
* `FailedDevicesStay`: `Spec => FailedNotRescheduled`, if a pool device shares its
  name with no other result (`OwnNames`), nobody else writes the two verdicts
  (`OwnVerdicts`) and the cache has the scaler's own patches (`OwnWritesSeen`).
  `SeenInv` says what that last hypothesis is worth: the cache knows every verdict
  the claim has, if not everything else. `FailedInv` follows a state from where it is
  read, over the pass's memory, to the list that is sent: a device held as Preparing
  has not failed, and a list drafted to fail devices has no verdict that a failed
  device does not have already.
* `DevicesDoAgree`: `Spec => []DevicesAgree`. Under `Thorough` all entries of the
  status, of the cache and of the list about to replace the status are alike
  (`Uniform`), each for itself, so the cache may be as old as it likes. Device names
  may repeat here: with equal entries it does not matter which of them is last.
* `ClaimIsServed`: `Spec => ClaimServed`, the refinement of `ScalerService` by a claim
  with an entry per device, if the other writers are `Thorough` and leave the
  verdicts alone (`LeavesVerdicts`) and the cache has the scaler's own patches
  (`OwnWritesSeen`). With `SeenInv`, `AnswerInv`: a pass that holds a device as
  Preparing, or has an answer under way, works on a claim without an answer, and the
  list it is about to send says that answer and no other. The invariant survives the
  end of the allocation and a new one: the late answer is then still the first.

`NodeLabelsProofs`, for every device-info and all labels:

* `ErrorsAreDetermined`: `Spec => []ErrorIsDetermined`. The bad labels a pass has not
  met are among those it has yet to visit (`BadAhead`).
* `LimitsDoMeetLabels`: `Spec => []LimitsMeetLabels`. `ConstraintsInv`: there is one
  entry per device name, for exactly the names of the labels visited, and it says
  what those labels say. Without the uniqueness the first of two entries would
  decide, with one limit of the two.
* `InvitedAreAccepted`: `Spec => []InvitedIsAccepted`, from `ConstraintsInv` and
  `InvitedInv` (no name left on the node has an index that was ruled out), for a
  `Proper` device-info and no maximum below zero (`NoNegativeMaximum`).

`NamingProofs`, for names of every length and every pair of limits:

* `LabelsAreChecked`: `Spec => []LabelsChecked`, and `PrefixesAreChecked`:
  `Spec => []PrefixesChecked`. `LengthInv` says that a name without capitals and
  letters outside ASCII has as many bytes as characters; the bytes are part of the
  state, so this takes an induction over steps and none over sequences. The
  definition of a subdomain speaks of the labels between two neighbouring dots and
  the code of the characters beside each dot. `SubdomainByCuts` and `LabelBetween`
  join the two: around a character the nearest dots are the `Max` of those before it
  and the `Min` of those behind it.

`WorkQueueProofs`, for any number of keys, errors and crashes:

* `NoEventLost`: `Spec => []WorkHasKey`. `QueueInv` adds that only a running pass
  has found work and that there are always slices to list after a restart.

The assumptions are those on constants in `DeviceConfig`, `Cluster`,
`ResourceMonitor`, `ClaimStatus`, `NodeLabels`, `Naming` and `WorkQueue`, which TLC
evaluates in every run of the module, and the hypotheses stated in the theorems. The
strengthened invariants were also checked with TLC on the instances of the runs.

Only model-checked: liveness (`ClaimsAnswered`, `IdleReleased`, `AnsweredOnAll`,
`EventsHandled`, `ScansHandled`). Fairness and `ENABLED` are outside what the prover
handles; `NoEventLost` is the safety part of the last two, `DemandIsRequested` and
`RescheduledAreAttached` are steps towards the first ones. Every other property of a
passing run is stated by a theorem.

## Not modelled

* YAML decoding of the ConfigMap and the splitting of label keys: work of
  libraries. Their results, and that they failed, are inputs.
* A device name that is another one with `-size-max` or `-size-min` behind it. The
  validation accepts it, the scaler sets its label to `true`, and the next pass
  reads that label as a limit and fails. Names are values of the model without
  any structure, so they cannot coincide.
* A pool that device-info does not name (an error or an empty model, depending on
  whether its slice is listed).
* A claim whose allocation has no NodeSelector, or one that does not name its node:
  it is collected with an empty node (`info_utils.go:132`) and no node handles it.
  Every allocated claim has a node here.
* Two device-info entries of one CDI model in `handleDevices`: requests are listed
  before the loop over the entries (`resourcemonitor_controller.go:198`), so both
  would create one. `NodeLabels` has such entries, `ResourceMonitor` does not.
* A last-used time that cannot be parsed: an error of the pass, which is a
  `PassCutShort`.
* Flags, TLS, metrics, health endpoints, leader election, manifests: set up once
  and handed to controller-runtime. One replica is what makes passes sequential.
* Several informers at different points of one kind's history, and what the other
  components do beyond what the scaler relies on.

## What is left

1. `WaitingClaimsCoexist` and `RescheduledIsAttached` with lagging caches: which
   delays they survive, and which they do not.
2. Device names with structure, so that labels the scaler writes and limits it reads
   can be the same label.
3. Two replicas during a leader change, where two passes overlap.
