-------------------------- MODULE ResourceMonitor ---------------------------
(***************************************************************************)
(* The ResourceMonitorReconciler: one Reconcile pass after the other, each *)
(* a snapshot of claims, slices and nodes (collectInfo) followed by the    *)
(* phases that act on it: last-used times, then per node the failed        *)
(* notifications, the reschedule notifications, the sizes of the           *)
(* ComposabilityRequests and the node's labels.                            *)
(*                                                                         *)
(* Every write to the API server is a step of its own, so that a pass can  *)
(* stop after any of them.  The cluster moves between the phases and       *)
(* stands still inside one: the lists a phase reads, once or again for     *)
(* each model, all show the same cluster.                                  *)
(***************************************************************************)
EXTENDS Cluster

CONSTANTS
  NoClaim,    \* no claim
  OpenPhases, \* bound: the points of a pass at which the cluster may move
  MaxFaults   \* bound: passes that an API error or a crash may cut short

\* Between two passes, and between the phases of a pass.
Boundaries == {"idle", "touch", "failed", "resched", "devices", "label"}

ASSUME MonitorAssumption ==
  NoClaim \notin Claims /\ OpenPhases \subseteq Boundaries /\ MaxFaults \in Nat

VARIABLES
  pc,          \* the phase of the pass, or "idle" between two passes
  infos,       \* claim -> ResourceClaimInfo; updated in memory by the pass
  reds,        \* ResourceSliceInfos: device -> the node it was seen on
  lims,        \* NodeInfos: the limits seen on the nodes
  nodesLeft,   \* nodes handleNodes has yet to visit
  cur,         \* the node being handled
  claimsLeft,  \* claims the running loop has yet to visit
  modelsLeft,  \* models the running loop has yet to visit
  cl,          \* the claim whose models are checked against the limits
  avail,       \* devices RescheduleNotification may hand out
  marks,       \* devices whose last-used-time is to be written
  patch,       \* the status patch about to be sent
  faults       \* passes cut short so far

loopVars == <<claimsLeft, modelsLeft, cl, avail, marks, patch>>
passVars == <<infos, reds, lims, nodesLeft, cur, loopVars>>
monitorVars == <<pc, passVars, faults>>
vars == <<clusterVars, monitorVars>>

-----------------------------------------------------------------------------
(***************************************************************************)
(* Data gathered by collectInfo.                                           *)
(***************************************************************************)

DeviceStates == {"Preparing", "Reschedule", "Failed"}

ClaimInfo ==
  [state : DeviceStates \cup {"None"}, node : Nodes \cup {NoNode},
   items : SUBSET Items]

\* The claim is not in the list that GetResourceClaimInfo returns.
NoInfo == [state |-> "None", node |-> NoNode, items |-> {}]

\* Mutant: FabricDeviceFailed is not looked for.
GetResourceClaimInfo_NoFailed(claim) ==
  IF ~claim.reserved \/ claim.pool = {} THEN NoInfo
  ELSE [state |-> IF "FabricDeviceReschedule" \in claim.cond THEN "Reschedule"
                  ELSE "Preparing",
        node |-> claim.node, items |-> claim.pool]

\* Mutant: a device without conditions keeps the zero value of its state.
GetResourceClaimInfo_NoDefault(claim) ==
  IF ~claim.reserved \/ claim.pool = {} THEN NoInfo
  ELSE [state |-> IF "FabricDeviceReschedule" \in claim.cond THEN "Reschedule"
                  ELSE IF "FabricDeviceFailed" \in claim.cond THEN "Failed"
                  ELSE "",
        node |-> claim.node, items |-> claim.pool]

\* Reschedule wins over Failed; a pool device without either is Preparing.
GetResourceClaimInfo(claim) ==
  IF ~claim.reserved \/ claim.pool = {} THEN NoInfo
  ELSE [state |-> IF "FabricDeviceReschedule" \in claim.cond THEN "Reschedule"
                  ELSE IF "FabricDeviceFailed" \in claim.cond THEN "Failed"
                  ELSE "Preparing",
        node |-> claim.node, items |-> claim.pool]

-----------------------------------------------------------------------------
(***************************************************************************)
(* Counting and thresholds.                                                *)
(***************************************************************************)

IsDeviceResourceSliceRed(d) == reds[d] # NoNode

\* Mutant: only claims that wait for a pool device, too, are looked at.
IsDeviceUsedByPod_Waiting(d) ==
  \E c \in Claims : /\ d \in ClaimView[c].red /\ ClaimView[c].node = reds[d]
                    /\ ClaimView[c].pool # {}

\* Pool, driver and name have to match: the device on the node it was seen on.
IsDeviceUsedByPod(d) ==
  \E c \in Claims : d \in ClaimView[c].red /\ ClaimView[c].node = reds[d]

UsedOnline(d) ==
  /\ ResourceView[d].state = "Online"
  /\ IsDeviceResourceSliceRed(d) /\ IsDeviceUsedByPod(d)

\* Mutant: a resource without annotation is never over the threshold.
isLastUsedOverThreshold_Stamped(res, threshold, useCreateTimeWhenNotExists) ==
  (res.stamped \/ useCreateTimeWhenNotExists) /\ res.age > threshold

isLastUsedOverThreshold(res, threshold, useCreateTimeWhenNotExists) ==
  res.stamped \/ useCreateTimeWhenNotExists => res.age > threshold

ItemsInState(states, model, n) ==
  {i \in Items : /\ ItemModel[i] = model
                 /\ \E c \in Claims : /\ infos[c].state \in states
                                      /\ infos[c].node = n
                                      /\ i \in infos[c].items}

\* Mutant: a claim that was told to reschedule is not counted any more.
getPreparingRescheduleDevicesCount_Preparing(model, n) ==
  Cardinality(ItemsInState({"Preparing"}, model, n))

getPreparingRescheduleDevicesCount(model, n) ==
  Cardinality(ItemsInState({"Preparing", "Reschedule"}, model, n))

getPodAllocatedDevicesCount(model, n) ==
  Cardinality({d \in Devices : /\ ResourceView[d].node = n
                               /\ DeviceModel[d] = model /\ UsedOnline(d)})

GetConfiguredDeviceCount(model, n) ==
  getPreparingRescheduleDevicesCount(model, n)
    + getPodAllocatedDevicesCount(model, n)

\* Mutants: devices that are being attached are not kept; all are kept.
KeptDevices_OnlineOnly(n) ==
  {d \in Devices :
     /\ ResourceView[d].state = "Online"
     /\ ResourceView[d].node = n /\ ~ResourceView[d].deleting
     /\ ~isLastUsedOverThreshold(ResourceView[d], DeviceNoRemoval, TRUE)}

KeptDevices_AnyAge(n) ==
  {d \in Devices :
     /\ ResourceView[d].state \in {"Online", "Attaching"}
     /\ ResourceView[d].node = n /\ ~ResourceView[d].deleting}

(***************************************************************************)
(* The devices of a node that scaling down has to keep.  The model of the  *)
(* request that is scaled down plays no part.                              *)
(***************************************************************************)
KeptDevices(n) ==
  {d \in Devices :
     /\ ResourceView[d].state \in {"Online", "Attaching"}
     /\ ResourceView[d].node = n /\ ~ResourceView[d].deleting
     /\ ~isLastUsedOverThreshold(ResourceView[d], DeviceNoRemoval, TRUE)}

getNextSize(count, n) == Larger(count, Cardinality(KeptDevices(n)))

-----------------------------------------------------------------------------
(***************************************************************************)
(* The life of a pass.                                                     *)
(***************************************************************************)

NoPatch == [claim |-> NoClaim, peer |-> NoClaim, type |-> "None",
            next |-> "idle"]

NoReds == [d \in Devices |-> NoNode]
NoInfos == [c \in Claims |-> NoInfo]
NoLims == [n \in Nodes |-> [m \in Models |-> Unlimited]]

Init ==
  /\ ClusterInit
  /\ pc = "idle" /\ faults = 0
  /\ infos = NoInfos /\ reds = NoReds /\ lims = NoLims
  /\ nodesLeft = {} /\ cur = NoNode
  /\ claimsLeft = {} /\ modelsLeft = {} /\ cl = NoClaim
  /\ avail = {} /\ marks = {} /\ patch = NoPatch

\* Reconcile returns; what the pass had in memory is gone.
Return ==
  /\ pc' = "idle"
  /\ infos' = NoInfos /\ reds' = NoReds /\ lims' = NoLims
  /\ nodesLeft' = {} /\ cur' = NoNode
  /\ claimsLeft' = {} /\ modelsLeft' = {} /\ cl' = NoClaim
  /\ avail' = {} /\ marks' = {} /\ patch' = NoPatch

\* The pass goes on to the phase or loop named p.
Goto(p) == pc' = p /\ UNCHANGED faults

\* The devices in slices that are bound to a node and have no binding
\* conditions; the slices of the fabric pools are left out.
GetResourceSliceInfo == SliceView

\* collectInfo: the snapshot the whole pass works from.
collectInfo ==
  /\ pc = "idle"
  /\ Goto("touch")
  /\ infos' = [c \in Claims |-> GetResourceClaimInfo(ClaimView[c])]
  /\ reds' = GetResourceSliceInfo
  /\ lims' = limits
  /\ nodesLeft' = Nodes
  /\ UNCHANGED <<clusterVars, cur, loopVars>>

\* An error of the API server at any call, or a crash and restart.
PassCutShort ==
  /\ pc # "idle" /\ faults < MaxFaults
  /\ faults' = faults + 1
  /\ Return
  /\ UNCHANGED clusterVars

\* updateComposableResourceLastUsedTime picks the devices in use.
updateComposableResourceLastUsedTime ==
  /\ pc = "touch"
  /\ Goto("touching")
  /\ marks' = {d \in Devices : UsedOnline(d)}
  /\ UNCHANGED <<clusterVars, infos, reds, lims, nodesLeft, cur,
                 claimsLeft, modelsLeft, cl, avail, patch>>

\* Writes one last-used-time; the object must still be there.
PatchComposableResourceAnnotation(d) ==
  /\ pc \in {"touching", "annotating"} /\ d \in marks
  /\ resources[d].state # "Absent"
  /\ resources' = [resources EXCEPT ![d].stamped = TRUE, ![d].age = 0]
  /\ marks' = marks \ {d}
  /\ Goto(pc)
  /\ UNCHANGED <<claims, slices, requests, limits, labels, cache, infos, reds,
                 lims, nodesLeft, cur, claimsLeft, modelsLeft, cl, avail,
                 patch>>

\* The object is gone: the error ends the pass.
AnnotationRejected(d) ==
  /\ pc \in {"touching", "annotating"} /\ d \in marks
  /\ resources[d].state = "Absent"
  /\ Return
  /\ UNCHANGED <<clusterVars, faults>>

AnnotationsDone ==
  /\ pc \in {"touching", "annotating"} /\ marks = {}
  /\ Goto(IF pc = "touching" THEN "node" ELSE "matching")
  /\ UNCHANGED <<clusterVars, passVars>>

\* handleNodes takes the next node of the list, or is done.
handleNodes ==
  /\ pc = "node"
  /\ \/ /\ nodesLeft = {}
        /\ Return
        /\ UNCHANGED faults
     \/ \E n \in First(nodesLeft, NodeRank) :
          /\ cur' = n
          /\ nodesLeft' = nodesLeft \ {n}
          /\ Goto("failed")
          /\ UNCHANGED <<infos, reds, lims, loopVars>>
  /\ UNCHANGED clusterVars

NodeClaims == {c \in Claims : infos[c].state # "None" /\ infos[c].node = cur}

-----------------------------------------------------------------------------
(***************************************************************************)
(* setDevicesState and PatchResourceClaimDeviceConditions: the state is    *)
(* changed in memory and the condition is added to all devices of the      *)
(* claim.  The patch replaces status.devices by what the cache held plus   *)
(* the new condition; a claim seen without allocation is skipped.          *)
(***************************************************************************)
TargetState(type) ==
  IF type = "FabricDeviceFailed" THEN "Failed" ELSE "Reschedule"

\* status.devices may only name allocated devices; the API server checks it.
PatchAccepted(c) ==
  /\ ClaimView[c].exists
  /\ ClaimView[c].pool \subseteq claims[c].pool
  /\ ClaimView[c].red \subseteq claims[c].red

PatchedConditions(c, type) ==
  IF Allocated(ClaimView[c]) THEN ClaimView[c].cond \cup {type}
  ELSE claims[c].cond

\* Mutant: the claim's devices in memory keep their state.
setDevicesState_PatchOnly ==
  /\ pc = "patching" /\ PatchAccepted(patch.claim)
  /\ claims' = [claims EXCEPT ![patch.claim].cond =
                                 PatchedConditions(patch.claim, patch.type)]
  /\ IF patch.peer = NoClaim
       THEN Goto(patch.next) /\ patch' = NoPatch
       ELSE Goto(pc) /\ patch' = [patch EXCEPT !.claim = patch.peer,
                                               !.peer = NoClaim]
  /\ UNCHANGED <<resources, slices, requests, limits, labels, cache, infos,
                 reds, lims, nodesLeft, cur, claimsLeft, modelsLeft, cl, avail,
                 marks>>

setDevicesState ==
  /\ pc = "patching" /\ PatchAccepted(patch.claim)
  /\ infos' = [infos EXCEPT ![patch.claim].state = TargetState(patch.type)]
  /\ claims' = [claims EXCEPT ![patch.claim].cond =
                                 PatchedConditions(patch.claim, patch.type)]
  /\ IF patch.peer = NoClaim
       THEN Goto(patch.next) /\ patch' = NoPatch
       ELSE Goto(pc) /\ patch' = [patch EXCEPT !.claim = patch.peer,
                                               !.peer = NoClaim]
  /\ UNCHANGED <<resources, slices, requests, limits, labels, cache, reds,
                 lims, nodesLeft, cur, claimsLeft, modelsLeft, cl, avail,
                 marks>>

PatchRejected ==
  /\ pc = "patching" /\ ~PatchAccepted(patch.claim)
  /\ Return
  /\ UNCHANGED <<clusterVars, faults>>

-----------------------------------------------------------------------------
(***************************************************************************)
(* RescheduleFailedNotification: newest claim first.                       *)
(***************************************************************************)

RescheduleFailedNotification ==
  /\ pc = "failed"
  /\ Goto("failing")
  /\ claimsLeft' = NodeClaims
  /\ UNCHANGED <<clusterVars, infos, reds, lims, nodesLeft, cur, modelsLeft,
                 cl, avail, marks, patch>>

\* Mutant: the claims are sorted in ascending order.
Newest_Ascending(S) == {c \in S : \A c2 \in S : Created[c] <= Created[c2]}

\* sort.Slice is not stable: any order among claims of the same second.
Newest(S) == {c \in S : \A c2 \in S : Created[c2] <= Created[c]}
Oldest(S) == {c \in S : \A c2 \in S : Created[c] <= Created[c2]}

\* An item that cannot share a node with another item of its own claim.
OwnConflict(c, i) ==
  \E j \in infos[c].items : ~isDeviceCoexistence(ItemModel[i], ItemModel[j])

\* ... with a request that asks for devices on the node ...
RequestConflict(c, i) ==
  \E q \in RequestIds :
    /\ RequestView[q] # NoRequest /\ RequestView[q].size > 0
    /\ RequestView[q].node = infos[c].node
    /\ ~isDeviceCoexistence(ItemModel[i], RequestView[q].model)

\* ... with a device that is on the node or about to be ...
ResourceConflict(c, i) ==
  \E d \in Devices :
    /\ ResourceView[d].state \in {"Online", "Attaching"}
    /\ ResourceView[d].node = infos[c].node
    /\ ~isDeviceCoexistence(ItemModel[i], DeviceModel[d])

\* Mutant: the other claims of the node are not looked at.
ConflictingPeers_Unchecked(c, i) == {}

\* ... and the claims of another name that still wait for such a device.
ConflictingPeers(c, i) ==
  {c2 \in NodeClaims :
     /\ ClaimName[c2] # ClaimName[c] /\ infos[c2].state = "Preparing"
     /\ \E j \in infos[c2].items :
          ~isDeviceCoexistence(ItemModel[i], ItemModel[j])}

SelfConflict(c, i) ==
  OwnConflict(c, i) \/ RequestConflict(c, i) \/ ResourceConflict(c, i)

ConflictingItems(c) ==
  {i \in infos[c].items : SelfConflict(c, i) \/ ConflictingPeers(c, i) # {}}

\* The devices of a claim are checked in order, up to the first conflict.
FirstConflict(c) ==
  {i \in ConflictingItems(c) : \A j \in ConflictingItems(c) : i <= j}

FailClaim(c, peer, next) ==
  /\ Goto("patching")
  /\ patch' = [claim |-> c, peer |-> peer, type |-> "FabricDeviceFailed",
               next |-> next]

\* One round of the outer loop, up to the limits of the claim's models.
CheckClaim(c) ==
  /\ pc = "failing" /\ c \in Newest(claimsLeft)
  /\ claimsLeft' = claimsLeft \ {c}
  /\ \/ /\ infos[c].state # "Preparing"
        /\ Goto(pc)
        /\ UNCHANGED <<modelsLeft, cl, patch>>
     \/ /\ infos[c].state = "Preparing"
        /\ \E i \in FirstConflict(c) :
             \/ SelfConflict(c, i) /\ FailClaim(c, NoClaim, "failing")
             \/ /\ ~SelfConflict(c, i)
                /\ \E c2 \in Newest(ConflictingPeers(c, i)) :
                     FailClaim(c, c2, "failing")
        /\ UNCHANGED <<modelsLeft, cl>>
     \/ /\ infos[c].state = "Preparing" /\ ConflictingItems(c) = {}
        /\ Goto("limits")
        /\ cl' = c
        /\ modelsLeft' = {ItemModel[i] : i \in infos[c].items}
        /\ UNCHANGED patch
  /\ UNCHANGED <<clusterVars, infos, reds, lims, nodesLeft, cur, avail, marks>>

\* Mutant: off by one.
CheckLimit_OffByOne(m) ==
  /\ pc = "limits" /\ m \in modelsLeft
  /\ modelsLeft' = modelsLeft \ {m}
  /\ IF GetConfiguredDeviceCount(m, cur) > GetModelLimit(lims[cur][m]).max + 1
       THEN FailClaim(cl, NoClaim, "limits")
       ELSE Goto(pc) /\ UNCHANGED patch
  /\ UNCHANGED <<clusterVars, infos, reds, lims, nodesLeft, cur, claimsLeft,
                 cl, avail, marks>>

\* One model of the claim; the map is visited in any order.
CheckLimit(m) ==
  /\ pc = "limits" /\ m \in modelsLeft
  /\ modelsLeft' = modelsLeft \ {m}
  /\ IF GetConfiguredDeviceCount(m, cur) > GetModelLimit(lims[cur][m]).max
       THEN FailClaim(cl, NoClaim, "limits")
       ELSE Goto(pc) /\ UNCHANGED patch
  /\ UNCHANGED <<clusterVars, infos, reds, lims, nodesLeft, cur, claimsLeft,
                 cl, avail, marks>>

LimitsDone ==
  /\ pc = "limits" /\ modelsLeft = {}
  /\ Goto("failing")
  /\ cl' = NoClaim
  /\ UNCHANGED <<clusterVars, infos, reds, lims, nodesLeft, cur, claimsLeft,
                 modelsLeft, avail, marks, patch>>

FailingDone ==
  /\ pc = "failing" /\ claimsLeft = {}
  /\ Goto("resched")
  /\ UNCHANGED <<clusterVars, passVars>>

-----------------------------------------------------------------------------
(***************************************************************************)
(* RescheduleNotification: oldest claim first.  The resources are listed   *)
(* once, before the loop, so a device handed to one claim is not taken     *)
(* out of what the next claim is offered.                                  *)
(***************************************************************************)

IdleDevices ==
  {d \in Devices :
     /\ ResourceView[d].state = "Online" /\ ~ResourceView[d].deleting
     /\ ResourceView[d].node = cur
     /\ IsDeviceResourceSliceRed(d) /\ ~IsDeviceUsedByPod(d)
     /\ isLastUsedOverThreshold(ResourceView[d], DeviceNoAllocation, FALSE)}

RescheduleNotification ==
  /\ pc = "resched"
  /\ Goto("matching")
  /\ claimsLeft' = NodeClaims
  /\ avail' = IdleDevices
  /\ UNCHANGED <<clusterVars, infos, reds, lims, nodesLeft, cur, modelsLeft,
                 cl, marks, patch>>

\* Mutant: one device of each model will do.
Matches_Any(c, found) ==
  \A m \in Models : (\E i \in infos[c].items : ItemModel[i] = m)
                       <=> Cardinality({d \in found : DeviceModel[d] = m}) = 1

\* One device of avail for every item of the claim, model by model.
Matches(c, found) ==
  \A m \in Models : Cardinality({d \in found : DeviceModel[d] = m})
                      = Cardinality({i \in infos[c].items : ItemModel[i] = m})

MatchClaim(c) ==
  /\ pc = "matching" /\ c \in Oldest(claimsLeft)
  /\ claimsLeft' = claimsLeft \ {c}
  /\ \/ /\ infos[c].state = "Preparing"
        /\ \E found \in SUBSET avail :
             /\ Matches(c, found)
             /\ marks' = found
        /\ Goto("patching")
        /\ patch' = [claim |-> c, peer |-> NoClaim,
                     type |-> "FabricDeviceReschedule", next |-> "annotating"]
     \/ /\ infos[c].state = "Preparing"
           => \A found \in SUBSET avail : ~Matches(c, found)
        /\ Goto(pc)
        /\ UNCHANGED <<marks, patch>>
  /\ UNCHANGED <<clusterVars, infos, reds, lims, nodesLeft, cur, modelsLeft,
                 cl, avail>>

MatchingDone ==
  /\ pc = "matching" /\ claimsLeft = {}
  /\ Goto("devices")
  /\ avail' = {}
  /\ UNCHANGED <<clusterVars, infos, reds, lims, nodesLeft, cur, claimsLeft,
                 modelsLeft, cl, marks, patch>>

-----------------------------------------------------------------------------
(***************************************************************************)
(* handleDevices: per model, the size its ComposabilityRequest should have *)
(***************************************************************************)

handleDevices ==
  /\ pc = "devices"
  /\ Goto("sizing")
  /\ modelsLeft' = Models
  /\ UNCHANGED <<clusterVars, infos, reds, lims, nodesLeft, cur, claimsLeft,
                 cl, avail, marks, patch>>

\* Mutant: a request scaled down to nothing is not found again.
RequestsFor_NonEmpty(model, n) ==
  {q \in RequestIds : /\ RequestView[q] # NoRequest
                      /\ RequestView[q].model = model
                      /\ RequestView[q].node = n
                      /\ RequestView[q].size > 0}

\* The requests of the list that are for this model and node.
RequestsFor(model, n) ==
  {q \in RequestIds : /\ RequestView[q] # NoRequest
                      /\ RequestView[q].model = model
                      /\ RequestView[q].node = n}

PatchComposabilityRequestSize(q, count) ==
  requests' = [requests EXCEPT ![q].size = count]

DynamicDetach(q, count) ==
  IF getNextSize(count, cur) < RequestView[q].size
    THEN PatchComposabilityRequestSize(q, getNextSize(count, cur))
    ELSE UNCHANGED requests

\* The API server generates the name, a new one every time.
createNewComposabilityRequestCR(model, count) ==
  \E q \in RequestIds :
    /\ requests[q] = NoRequest
    /\ \A r \in RequestIds : requests[r] = NoRequest => q <= r
    /\ requests' = [requests EXCEPT ![q] =
                      [model |-> model, node |-> cur, size |-> count]]

\* What the size should be: at least the node's minimum.
WantedSize(m) ==
  Larger(GetConfiguredDeviceCount(m, cur), GetModelLimit(lims[cur][m]).min)

\* Mutant: the limit RescheduleFailedNotification enforced is relied upon.
OverLimit_Unchecked(m) == FALSE

OverLimit(m) ==
  GetConfiguredDeviceCount(m, cur) > GetModelLimit(lims[cur][m]).max

\* Only the first request found is adjusted.
AdjustRequest(m, q) ==
  \/ /\ WantedSize(m) > RequestView[q].size
     /\ PatchComposabilityRequestSize(q, WantedSize(m))
  \/ WantedSize(m) < RequestView[q].size /\ DynamicDetach(q, WantedSize(m))
  \/ WantedSize(m) = RequestView[q].size /\ UNCHANGED requests

SizeModel(m) ==
  /\ pc = "sizing" /\ m \in First(modelsLeft, ModelRank) /\ ~OverLimit(m)
  /\ modelsLeft' = modelsLeft \ {m}
  /\ \/ \E q \in RequestsFor(m, cur) : AdjustRequest(m, q)
     \/ /\ RequestsFor(m, cur) = {}
        /\ IF WantedSize(m) > 0
             THEN createNewComposabilityRequestCR(m, WantedSize(m))
             ELSE UNCHANGED requests
  /\ Goto(pc)
  /\ UNCHANGED <<claims, resources, slices, limits, labels, cache, infos,
                 reds, lims, nodesLeft, cur, claimsLeft, cl, avail, marks,
                 patch>>

\* A model over its limit is an error that ends the pass for every node.
SizeRefused(m) ==
  /\ pc = "sizing" /\ m \in First(modelsLeft, ModelRank) /\ OverLimit(m)
  /\ Return
  /\ UNCHANGED <<clusterVars, faults>>

SizingDone ==
  /\ pc = "sizing" /\ modelsLeft = {}
  /\ Goto("label")
  /\ UNCHANGED <<clusterVars, passVars>>

-----------------------------------------------------------------------------
(***************************************************************************)
(* UpdateNodeLabel: a model's label is removed while a model that lists it *)
(* as not coexisting is installed, or when its own maximum is zero.        *)
(***************************************************************************)

InstalledModels(n) ==
  {RequestView[q].model : q \in {r \in RequestIds :
      RequestView[r] # NoRequest /\ RequestView[r].node = n
        /\ RequestView[r].size > 0}}
  \cup {DeviceModel[d] : d \in {e \in Devices :
      ResourceView[e].node = n /\ ResourceView[e].state = "Online"}}

ExcludedModels(n) ==
  (UNION {CannotCoexistWith[m] : m \in InstalledModels(n)})
  \cup {m \in Models : lims[n][m].maxSet /\ lims[n][m].max = 0}

patchNodeLabel(n, addLabels, deleteLabels) ==
  labels' = [labels EXCEPT ![n] = (@ \cup addLabels) \ deleteLabels]

UpdateNodeLabel ==
  /\ pc = "label"
  /\ patchNodeLabel(cur, Models \ ExcludedModels(cur), ExcludedModels(cur))
  /\ Goto("node")
  /\ UNCHANGED <<claims, resources, slices, requests, limits, cache, passVars>>

-----------------------------------------------------------------------------

Reconcile ==
  \/ collectInfo
  \/ updateComposableResourceLastUsedTime
  \/ \E d \in Devices : PatchComposableResourceAnnotation(d)
  \/ \E d \in Devices : AnnotationRejected(d)
  \/ AnnotationsDone
  \/ handleNodes
  \/ setDevicesState
  \/ PatchRejected
  \/ RescheduleFailedNotification
  \/ \E c \in Claims : CheckClaim(c)
  \/ \E m \in Models : CheckLimit(m)
  \/ LimitsDone
  \/ FailingDone
  \/ RescheduleNotification
  \/ \E c \in Claims : MatchClaim(c)
  \/ MatchingDone
  \/ handleDevices
  \/ \E m \in Models : SizeModel(m)
  \/ \E m \in Models : SizeRefused(m)
  \/ SizingDone
  \/ UpdateNodeLabel

\* A step of the cluster around the scaler, at a phase boundary.
Outside(A) == pc \in OpenPhases /\ A /\ UNCHANGED monitorVars

Next == Reconcile \/ PassCutShort \/ Outside(Environment)

Spec == Init /\ [][Next]_vars

(***************************************************************************)
(* Requeueing after ScanInterval, or with backoff after an error, keeps    *)
(* the passes coming.  The operator, the plugin, the clock and the         *)
(* scheduler's reaction to a verdict make progress when they can again and *)
(* again: strong fairness makes up for the phase boundaries, at which they *)
(* wait only in the model.  Pods come and go as they like.                 *)
(***************************************************************************)
Fairness ==
  /\ WF_vars(Reconcile)
  /\ SF_vars(Outside(Tick))
  /\ SF_vars(Outside(\E c \in Claims : GiveUpAllocation(c)))
  /\ SF_vars(Outside(Operator))
  /\ SF_vars(Outside(\E d \in Devices : Publish(d)))

FairSpec == Spec /\ Fairness

-----------------------------------------------------------------------------

PhaseNames ==
  {"idle", "touch", "touching", "node", "failed", "failing", "limits",
   "patching", "resched", "matching", "annotating", "devices", "sizing",
   "label"}

\* Every variable stays within its type: in particular the pass never loses
\* track of the node it handles or of the claim whose status it is writing.
TypeOK ==
  /\ ClusterTypeOK
  /\ pc \in PhaseNames
  /\ infos \in [Claims -> ClaimInfo]
  /\ reds \in [Devices -> Nodes \cup {NoNode}]
  /\ lims \in [Nodes -> [Models -> ModelConstraints]]
  /\ nodesLeft \in SUBSET Nodes
  /\ cur \in Nodes \cup {NoNode}
  /\ claimsLeft \in SUBSET Claims
  /\ modelsLeft \in SUBSET Models
  /\ cl \in Claims \cup {NoClaim}
  /\ avail \in SUBSET Devices
  /\ marks \in SUBSET Devices
  /\ patch \in [claim : Claims \cup {NoClaim}, peer : Claims \cup {NoClaim},
                type : Verdicts \cup {"None"}, next : PhaseNames]
  /\ faults \in 0..MaxFaults

-----------------------------------------------------------------------------

(***************************************************************************)
(* A verdict is final: once a claim carries FabricDeviceFailed or          *)
(* FabricDeviceReschedule, no later phase or pass adds the other one or    *)
(* takes it back; only the end of the allocation removes it.  About        *)
(* GetResourceClaimInfo, setDevicesState and the order of the two          *)
(* notifications, which all work on a snapshot the scheduler outdates.     *)
(***************************************************************************)
VerdictFinal ==
  [][\A c \in Claims :
       claims[c].cond # {} => \/ claims'[c].cond = claims[c].cond
                             \/ ~Allocated(claims'[c])]_vars

(***************************************************************************)
(* handleDevices adjusts the first request it finds for a model and node   *)
(* and creates one when it finds none: over all passes there is never a    *)
(* second one, which nothing would ever scale down.                        *)
(***************************************************************************)
OneRequestPerModel ==
  \A q1, q2 \in RequestIds :
    requests[q1] # NoRequest /\ requests[q2] # NoRequest
      /\ requests[q1].model = requests[q2].model
      /\ requests[q1].node = requests[q2].node => q1 = q2

(***************************************************************************)
(* What RescheduleFailedNotification is for: a claim it has visited and    *)
(* left Preparing conflicts with nothing on the node, requested, attached  *)
(* or still waiting, and none of its models is over the node's maximum.    *)
(* Later rounds of the loop keep it so while they fail other claims.       *)
(***************************************************************************)
Fits(c) ==
  ConflictingItems(c) = {} /\ \A i \in infos[c].items : ~OverLimit(ItemModel[i])

SurvivorsFit ==
  pc = "failing" =>
    \A c \in NodeClaims \ claimsLeft : infos[c].state = "Preparing" => Fits(c)

(***************************************************************************)
(* The node's maximum is enforced against the newest claims: when a claim  *)
(* is failed for a limit, no newer claim of the node that is still         *)
(* Preparing uses a model that is over its limit.                          *)
(***************************************************************************)
NewestFailFirst ==
  [][pc = "limits" /\ pc' = "patching" =>
       \A c \in NodeClaims :
         infos[c].state = "Preparing" /\ Created[c] > Created[cl]
           => \A i \in infos[c].items : ~OverLimit(ItemModel[i])]_vars

(***************************************************************************)
(* Scaling down (DynamicDetach, getNextSize) never asks for fewer devices  *)
(* than the node has that were used, handed out or created within          *)
(* DEVICE_NO_REMOVAL_DURATION.                                             *)
(***************************************************************************)
RecentDevices(n, m) ==
  {d \in Devices :
     /\ DeviceModel[d] = m /\ resources[d].node = n
     /\ resources[d].state \in {"Online", "Attaching"}
     /\ ~resources[d].deleting /\ resources[d].age <= DeviceNoRemoval}

ScaleDownKeepsRecent ==
  [][\A q \in RequestIds :
       requests[q] # NoRequest /\ requests'[q].size < requests[q].size
         => requests'[q].size >=
              Cardinality(RecentDevices(requests[q].node, requests[q].model))
    ]_vars

(***************************************************************************)
(* The limits hold whatever happens between the phases of a pass: claims   *)
(* that were within a node's maximum when they were checked may be over it *)
(* by the time handleDevices counts again, because a pod took a device     *)
(* meanwhile.  No request ever asks for more than the larger of a maximum  *)
(* and a minimum that some label allowed.                                  *)
(***************************************************************************)
SizesWithinLimits ==
  \A q \in RequestIds : requests[q] # NoRequest =>
    \E l \in LimitChoices :
      requests[q].size <= Larger(GetModelLimit(l).max, GetModelLimit(l).min)

(***************************************************************************)
(* cannot-coexist-with: no claim reaches handleDevices, which will request *)
(* its devices, while it asks for models that exclude each other, while    *)
(* another claim that gets there excludes or is excluded by it, or while   *)
(* devices it excludes are already requested for the node.  What           *)
(* RescheduleFailedNotification decided has to stay true through the       *)
(* whole of RescheduleNotification.                                        *)
(***************************************************************************)
WaitingClaimsCoexist ==
  pc = "devices" =>
    \A c \in NodeClaims : infos[c].state = "Preparing" =>
      \A i \in infos[c].items :
        /\ ~RequestConflict(c, i)
        /\ \A c2 \in NodeClaims : infos[c2].state = "Preparing" =>
             \A j \in infos[c2].items :
               isDeviceCoexistence(ItemModel[i], ItemModel[j])

-----------------------------------------------------------------------------
(***************************************************************************)
(* The abstract view.  A condition that reaches a claim after the claim    *)
(* has got attached devices means nothing any more: the claim is bound.    *)
(***************************************************************************)
Life(claim) ==
  CASE ~claim.exists -> "gone"
    [] claim.exists /\ ~Allocated(claim) -> "free"
    [] claim.pool = {} /\ claim.red # {} -> "bound"
    [] claim.pool # {} /\ claim.cond = {} -> "waiting"
    [] claim.pool # {} /\ claim.cond = {"FabricDeviceFailed"} -> "failed"
    [] claim.pool # {} /\ claim.cond = {"FabricDeviceReschedule"}
         -> "reschedule"
    [] OTHER -> "both"

AllowedSizes ==
  UNION {0..Larger(GetModelLimit(l).max, GetModelLimit(l).min)
           : l \in LimitChoices}

Service == INSTANCE ScalerService
  WITH Sizes <- AllowedSizes,
       life  <- [c \in Claims |-> Life(claims[c])],
       asked <- requests

(***************************************************************************)
(* The passes, with everything that goes on between their phases, give the *)
(* service ScalerService describes.                                        *)
(***************************************************************************)
ServiceProvided == Service!Spec

-----------------------------------------------------------------------------

\* The pod of the claim waits for a fabric device and has no answer yet.
Waiting(c) ==
  claims[c].reserved /\ claims[c].pool # {} /\ claims[c].cond = {}

\* Pods hold more devices of a model than the node's maximum, which makes
\* handleDevices fail: a maximum was lowered, or is less than zero.
Blocked ==
  \E n \in Nodes, m \in Models :
    /\ limits[n][m].maxSet
    /\ Cardinality({d \in HeldDevices(n) : DeviceModel[d] = m})
         > limits[n][m].max

(***************************************************************************)
(* Every waiting claim is answered: the device is attached and the claim   *)
(* is told to reschedule, or it is told that it failed.  One node over its *)
(* maximum holds up the claims of all nodes, but only as long as it is.    *)
(***************************************************************************)
ClaimsAnswered ==
  \A c \in Claims : Waiting(c) ~> (~Waiting(c) \/ Blocked)

\* No claim holds or waits for a device of this model on this node, and the
\* administrator reserves none.
NoDemand(n, m) ==
  /\ \A c \in Claims : claims[c].node = n =>
       /\ \A i \in claims[c].pool : ItemModel[i] # m
       /\ \A d \in claims[c].red : DeviceModel[d] # m
  /\ limits[n][m].min <= 0

(***************************************************************************)
(* "scale them down when they are no longer required" (README): a model    *)
(* nobody on the node asks for any more ends up with no device requested.  *)
(***************************************************************************)
IdleReleased ==
  \A n \in Nodes, m \in Models :
    <>[](NoDemand(n, m) /\ ~Blocked) =>
      <>[](\A q \in RequestIds :
             requests[q] # NoRequest /\ requests[q].node = n
               /\ requests[q].model = m => requests[q].size <= 0)

(***************************************************************************)
(* The same of one visit of handleDevices: a model of which no device is   *)
(* wanted and none was used or created within DEVICE_NO_REMOVAL_DURATION   *)
(* is left with no device requested.                                       *)
(***************************************************************************)
UnusedScaledDown ==
  [][\A m \in modelsLeft \ modelsLeft' :
       pc = "sizing" /\ pc' = "sizing"
         /\ WantedSize(m) <= 0 /\ RecentDevices(cur, m) = {}
         => \A q \in RequestsFor(m, cur) : requests'[q].size <= 0]_vars

(***************************************************************************)
(* Step 7 of the README: the reschedule instruction is given when the      *)
(* device "is attached".  The claims of a node that have it never need     *)
(* more devices of a model than the node has attached.                     *)
(***************************************************************************)
RescheduledItems(n, m) ==
  {i \in Items : /\ ItemModel[i] = m
                 /\ \E c \in Claims :
                      /\ "FabricDeviceReschedule" \in claims[c].cond
                      /\ claims[c].node = n /\ i \in claims[c].pool}

AttachedDevices(n, m) ==
  {d \in Devices : /\ DeviceModel[d] = m /\ resources[d].node = n
                   /\ resources[d].state = "Online"}

RescheduleMeansAttached ==
  [][\A n \in Nodes, m \in Models :
       RescheduledItems(n, m)' # RescheduledItems(n, m)
         => Cardinality(RescheduledItems(n, m)')
              <= Cardinality(AttachedDevices(n, m))]_vars

(***************************************************************************)
(* What is true of it claim by claim: a claim that is told to reschedule,  *)
(* and is still the one the pass has read, has an attached device on its   *)
(* node for each of its items, although the state of the devices was read  *)
(* once for all claims of the node.                                        *)
(***************************************************************************)
RescheduledIsAttached ==
  [][\A c \in Claims, m \in Models :
       (/\ "FabricDeviceReschedule" \in claims'[c].cond \ claims[c].cond
        /\ infos[c].node = claims[c].node /\ infos[c].items = claims[c].pool)
       => Cardinality({i \in claims[c].pool : ItemModel[i] = m})
            <= Cardinality(AttachedDevices(claims[c].node, m))]_vars

(***************************************************************************)
(* RescheduleNotification leaves a claim alone whose devices have failed,  *)
(* as its test "resourceClaim with failed devices" says: it is not told to *)
(* reschedule while that allocation lasts.                                 *)
(***************************************************************************)
FailedNotRescheduled ==
  [][\A c \in Claims :
       "FabricDeviceFailed" \in claims[c].cond /\ Allocated(claims'[c])
         => "FabricDeviceReschedule" \notin claims'[c].cond]_vars

(***************************************************************************)
(* README: devices are scaled down "when they are no longer required".  A  *)
(* request is not lowered below the number of its devices that pods hold,  *)
(* that stay attached, and that were published when the pass began:        *)
(* whoever takes or gives back one of them meanwhile is seen when the      *)
(* sizes are computed.  A device that is published and taken only after    *)
(* collectInfo has read the slices does not count as used in that pass.    *)
(***************************************************************************)
HeldOn(n, m) ==
  {d \in HeldDevices(n) :
     /\ DeviceModel[d] = m /\ slices[d] = n /\ resources[d].node = n
     /\ resources[d].state = "Online" /\ ~resources[d].deleting}

SeenOn(n, m) == {d \in HeldOn(n, m) : reds[d] = n}

SeenDevicesKept ==
  [][\A q \in RequestIds :
       requests[q] # NoRequest /\ requests'[q].size < requests[q].size
         => requests'[q].size >=
              Cardinality(SeenOn(requests[q].node, requests[q].model))]_vars

(***************************************************************************)
(* Once handleDevices has visited a model, the node has a request for as   *)
(* many devices as are needed there at that moment: by the claims that     *)
(* wait or were told to reschedule, and by the pods.  Claims are counted   *)
(* as the pass has them in memory and devices by the claims of now, so a   *)
(* claim that exchanged a pool device for an attached one in between, or   *)
(* that the pass itself answered, must not be missed in both.  Of claims   *)
(* and slices that changed otherwise the next pass takes care.             *)
(***************************************************************************)
PendingItems(n, m) ==
  {i \in Items :
     /\ ItemModel[i] = m
     /\ \E c \in Claims :
          /\ claims[c].reserved /\ claims[c].node = n /\ i \in claims[c].pool
          /\ "FabricDeviceFailed" \notin claims[c].cond
          /\ infos[c] = GetResourceClaimInfo(claims[c])}

Demand(n, m) == Cardinality(PendingItems(n, m)) + Cardinality(SeenOn(n, m))

DemandRequested ==
  pc = "sizing" =>
    \A m \in Models \ modelsLeft : Demand(cur, m) > 0 =>
      \E q \in RequestIds :
        /\ requests[q] # NoRequest
        /\ requests[q].node = cur /\ requests[q].model = m
        /\ requests[q].size >= Demand(cur, m)

=============================================================================
