----------------------- MODULE ResourceMonitorProofs ------------------------
(***************************************************************************)
(* Theorems about ResourceMonitor, for every number of nodes, models,      *)
(* claims and devices, every configuration, every choice of OpenPhases     *)
(* and of MaxFaults.                                                       *)
(***************************************************************************)
EXTENDS ResourceMonitor, FiniteSetTheorems, TLAPS

(***************************************************************************)
(* Type correctness.  TypeOK is not inductive: a request is created for    *)
(* the node the pass is at, and a condition is written to the claim and    *)
(* of the type that the pending patch names, so these have to be proper    *)
(* values in the phases that use them.  And a request that is seen through *)
(* an outdated cache still has to be there to be patched.                  *)
(***************************************************************************)
NodePhases == PhaseNames \ {"idle", "touch", "touching", "node"}

PassOK ==
  /\ pc = "patching" =>
       /\ patch.claim \in Claims /\ patch.type \in Verdicts
       /\ patch.next \in {"failing", "limits", "annotating"}
  /\ pc = "limits" \/ (pc = "patching" /\ patch.next = "limits")
       => cl \in Claims
  /\ pc \in NodePhases => cur \in Nodes

RequestsRemain ==
  \A q \in RequestIds :
    cache.requests[q] # NoRequest => requests[q] # NoRequest

TypeInv == TypeOK /\ PassOK /\ RequestsRemain

\* Ages stay between zero and MaxAge, which is over both durations.
LEMMA MaxAgeType ==
  MaxAge \in Nat /\ DeviceNoAllocation < MaxAge /\ DeviceNoRemoval < MaxAge
BY DurationsAssumption DEF MaxAge, Larger

\* What the informers answer has the type of what they cache.
LEMMA ViewType ==
  ASSUME ClusterTypeOK
  PROVE  /\ ClaimView \in [Claims -> ClaimState]
         /\ ResourceView \in [Devices -> ResourceState]
         /\ SliceView \in [Devices -> Nodes \cup {NoNode}]
         /\ RequestView \in [RequestIds -> RequestState \cup {NoRequest}]
BY DEF ClusterTypeOK, ClaimView, ResourceView, SliceView, RequestView

\* A step that leaves the cluster alone leaves its types alone.
LEMMA ClusterUnchanged ==
  ASSUME ClusterTypeOK, RequestsRemain, UNCHANGED clusterVars
  PROVE  ClusterTypeOK' /\ RequestsRemain'
BY DEF ClusterTypeOK, RequestsRemain, clusterVars

\* Every subset of a finite set has a natural number of elements.
LEMMA CountType ==
  ASSUME NEW S, IsFiniteSet(S), NEW T \in SUBSET S
  PROVE  IsFiniteSet(T) /\ Cardinality(T) \in Nat
BY FS_Subset, FS_CardinalityType

\* The numbers handleDevices computes are integers.
LEMMA SizeType ==
  ASSUME TypeOK, NEW m \in Models, NEW n \in Nodes
  PROVE  /\ GetConfiguredDeviceCount(m, n) \in Nat
         /\ lims[n][m].max \in Int /\ lims[n][m].min \in Int
         /\ \A count \in Int : getNextSize(count, n) \in Int
<1>1. getPreparingRescheduleDevicesCount(m, n) \in Nat
  <2>1. ItemsInState({"Preparing", "Reschedule"}, m, n) \in SUBSET Items
    BY DEF ItemsInState
  <2> QED
    BY <2>1, CountType, ClaimsAssumption
    DEF getPreparingRescheduleDevicesCount
<1>2. getPodAllocatedDevicesCount(m, n) \in Nat
  BY CountType, DevicesAssumption DEF getPodAllocatedDevicesCount
<1>3. Cardinality(KeptDevices(n)) \in Nat
  <2>1. KeptDevices(n) \in SUBSET Devices
    BY DEF KeptDevices
  <2> QED
    BY <2>1, CountType, DevicesAssumption
<1>4. lims[n][m] \in ModelConstraints
  BY DEF TypeOK
<1> QED
  BY <1>1, <1>2, <1>3, <1>4
  DEF GetConfiguredDeviceCount, getNextSize, Larger, ModelConstraints

-----------------------------------------------------------------------------

\* The environment keeps the types of the cluster's objects.
LEMMA EnvironmentType ==
  ASSUME ClusterTypeOK, RequestsRemain, Environment
  PROVE  ClusterTypeOK' /\ RequestsRemain'
<1>1. ASSUME NEW c \in Claims, NEW n \in Nodes, NEW pool \in SUBSET Items,
             NEW red \in SUBSET Devices, Allocate(c, n, pool, red)
      PROVE  ClusterTypeOK'
  <2>1. claims[c] \in ClaimState
    BY DEF ClusterTypeOK
  <2>2. [claims[c] EXCEPT !.reserved = TRUE, !.node = n,
                          !.pool = pool, !.red = red] \in ClaimState
    BY <2>1 DEF ClaimState
  <2> QED
    BY <1>1, <2>2 DEF Allocate, ClusterTypeOK
<1>2. ASSUME NEW c \in Claims,
             \/ GiveUpAllocation(c) \/ BindingTimeout(c)
             \/ Unreserve(c) \/ DeleteClaim(c)
      PROVE  ClusterTypeOK'
  <2>1. claims[c] \in ClaimState
    BY DEF ClusterTypeOK
  <2>2. NoClaimAllocation \in ClaimState /\ DeletedClaim \in ClaimState
    BY DEF ClaimState, NoClaimAllocation, DeletedClaim
  <2>3. [claims[c] EXCEPT !.reserved = FALSE] \in ClaimState
    BY <2>1 DEF ClaimState
  <2> QED
    BY <1>2, <2>2, <2>3
    DEF GiveUpAllocation, BindingTimeout, Unreserve, DeleteClaim,
        ClusterTypeOK
<1>3. ASSUME NEW q \in RequestIds, NEW d \in Devices, CreateResource(q, d)
      PROVE  ClusterTypeOK'
  <2>1. requests[q] \in RequestState
    BY <1>3 DEF CreateResource, ClusterTypeOK
  <2>2. [NoResource EXCEPT !.state = "None", !.node = requests[q].node,
                           !.owner = q] \in ResourceState
    <3>1. NoResource \in ResourceState
      BY MaxAgeType DEF ResourceState, ResourceStates, NoResource
    <3>2. requests[q].node \in Nodes
      BY <2>1 DEF RequestState
    <3> QED
      BY <3>1, <3>2 DEF ResourceState, ResourceStates
  <2> QED
    BY <1>3, <2>2 DEF CreateResource, ClusterTypeOK
<1>4. ASSUME NEW q \in RequestIds, NEW d \in Devices, DeleteResource(q, d)
      PROVE  ClusterTypeOK'
  BY <1>4 DEF DeleteResource, ClusterTypeOK, ResourceState
<1>5. ASSUME NEW d \in Devices, Attach(d) \/ Detach(d)
      PROVE  ClusterTypeOK'
  <2>1. resources[d] \in ResourceState
    BY DEF ClusterTypeOK
  <2>2. NoResource \in ResourceState
    BY MaxAgeType DEF NoResource, ResourceState, ResourceStates
  <2>3. \A s \in ResourceStates :
          [resources[d] EXCEPT !.state = s] \in ResourceState
    BY <2>1 DEF ResourceState
  <2>4. resources \in [Devices -> ResourceState]
    BY DEF ClusterTypeOK
  <2>5. resources' \in [Devices -> ResourceState]
    <3>1. CASE Attach(d)
      BY <2>3, <2>4, <3>1 DEF Attach, ResourceStates
    <3>2. CASE Detach(d)
      BY <2>2, <2>3, <2>4, <3>2 DEF Detach, ResourceStates
    <3> QED
      BY <1>5, <3>1, <3>2
  <2> QED
    BY <1>5, <2>5 DEF Attach, Detach, ClusterTypeOK
<1>6. ASSUME NEW d \in Devices, Publish(d)
      PROVE  ClusterTypeOK'
  <2>1. resources[d].node \in Nodes \cup {NoNode}
    BY DEF ClusterTypeOK, ResourceState
  <2> QED
    BY <1>6, <2>1 DEF Publish, ClusterTypeOK
<1>7. ASSUME Tick
      PROVE  ClusterTypeOK'
  <2>1. \A res \in [Devices -> ResourceState] :
          Older(res) \in [Devices -> ResourceState]
    <3>1. ASSUME NEW r \in ResourceState, r.age # MaxAge
          PROVE  [r EXCEPT !.age = @ + 1] \in ResourceState
      <4>1. r.age + 1 \in 0..MaxAge
        BY <3>1, MaxAgeType DEF ResourceState
      <4> QED
        BY <4>1 DEF ResourceState
    <3> QED
      BY <3>1 DEF Older
  <2> QED
    BY <1>7, <2>1 DEF Tick, ClusterTypeOK
<1>8. ASSUME NEW n \in Nodes, NEW m \in Models, NEW l \in LimitChoices,
             SetLimit(n, m, l)
      PROVE  ClusterTypeOK'
  BY <1>8, DevicesAssumption DEF SetLimit, ClusterTypeOK
<1>9. ASSUME NEW k \in Kinds, Sync(k)
      PROVE  ClusterTypeOK'
  BY <1>9 DEF Sync, Kinds, Snapshot, ClusterTypeOK
<1>10. ClusterTypeOK'
  BY <1>1, <1>2, <1>3, <1>4, <1>5, <1>6, <1>7, <1>8, <1>9
  DEF Environment, Operator
<1>11. requests' = requests
  BY DEF Environment, Operator, Allocate, GiveUpAllocation, BindingTimeout,
         Unreserve, DeleteClaim, CreateResource, DeleteResource, Attach,
         Detach, Publish, Tick, SetLimit, Sync
<1>12. cache'.requests \in {cache.requests, requests}
  <2>1. CASE \E k \in Kinds : Sync(k)
    <3>1. PICK k \in Kinds :
            cache' = [cache EXCEPT ![k] = Snapshot[k]]
      BY <2>1 DEF Sync
    <3>2. CASE k = "requests"
      BY <3>1, <3>2 DEF Snapshot, ClusterTypeOK
    <3>3. CASE k # "requests"
      BY <3>1, <3>3 DEF Kinds, ClusterTypeOK
    <3> QED
      BY <3>2, <3>3
  <2>2. CASE Tick
    BY <2>2 DEF Tick, ClusterTypeOK
  <2>3. CASE cache' = cache
    BY <2>3
  <2> QED
    BY <2>1, <2>2, <2>3
    DEF Environment, Operator, Allocate, GiveUpAllocation, BindingTimeout,
        Unreserve, DeleteClaim, CreateResource, DeleteResource, Attach,
        Detach, Publish, SetLimit
<1> QED
  BY <1>10, <1>11, <1>12 DEF RequestsRemain

-----------------------------------------------------------------------------

\* The values between two passes, and those of a pass that just started.
LEMMA IdleType ==
  /\ NoInfo \in ClaimInfo /\ NoInfos \in [Claims -> ClaimInfo]
  /\ NoReds \in [Devices -> Nodes \cup {NoNode}]
  /\ NoLims \in [Nodes -> [Models -> ModelConstraints]]
  /\ NoPatch \in [claim : Claims \cup {NoClaim}, peer : Claims \cup {NoClaim},
                  type : Verdicts \cup {"None"}, next : PhaseNames]
BY DEF NoInfo, NoInfos, ClaimInfo, NoReds, NoLims, Unlimited, ModelConstraints,
       NoPatch, PhaseNames

\* Between two passes, with an untouched cluster, everything is well typed.
LEMMA InitType == Init => TypeInv
<1> SUFFICES ASSUME Init PROVE TypeInv
  OBVIOUS
<1>1. NoClaimAllocation \in ClaimState /\ NoResource \in ResourceState
  BY MaxAgeType DEF NoClaimAllocation, ClaimState, NoResource, ResourceState,
                    ResourceStates
<1>2. limits \in [Nodes -> [Models -> ModelConstraints]]
  BY DevicesAssumption DEF Init, ClusterInit
<1>3. ClusterTypeOK /\ RequestsRemain
  BY <1>1, <1>2
  DEF Init, ClusterInit, ClusterTypeOK, Snapshot, RequestsRemain
<1> QED
  BY <1>3, IdleType, MonitorAssumption
  DEF Init, TypeInv, TypeOK, PassOK, PhaseNames, NodePhases

\* A pass that ends leaves nothing behind.
LEMMA ReturnType ==
  ASSUME TypeInv, Return, UNCHANGED clusterVars, faults' \in 0..MaxFaults
  PROVE  TypeInv'
<1>1. ClusterTypeOK' /\ RequestsRemain'
  BY ClusterUnchanged DEF TypeInv, TypeOK
<1> QED
  BY <1>1, IdleType
  DEF Return, TypeInv, TypeOK, PassOK, PhaseNames, NodePhases

\* collectInfo produces one well-formed entry per claim.
LEMMA CollectType ==
  ASSUME TypeInv, collectInfo
  PROVE  TypeInv'
<1>1. ClusterTypeOK /\ ClusterTypeOK' /\ RequestsRemain'
  BY ClusterUnchanged DEF collectInfo, TypeInv, TypeOK
<1>2. \A claim \in ClaimState : GetResourceClaimInfo(claim) \in ClaimInfo
  BY IdleType DEF ClaimState, ClaimInfo, GetResourceClaimInfo, DeviceStates
<1>3. infos' \in [Claims -> ClaimInfo]
  BY <1>1, <1>2, ViewType DEF collectInfo
<1>4. reds' \in [Devices -> Nodes \cup {NoNode}]
  BY <1>1, ViewType DEF collectInfo, GetResourceSliceInfo
<1>5. lims' \in [Nodes -> [Models -> ModelConstraints]]
  BY DEF collectInfo, TypeInv, TypeOK, ClusterTypeOK
<1> QED
  BY <1>1, <1>3, <1>4, <1>5
  DEF collectInfo, Goto, loopVars, TypeInv, TypeOK, PassOK, PhaseNames,
      NodePhases

\* Writing a last-used-time.
LEMMA AnnotationType ==
  ASSUME TypeInv, NEW d \in Devices, PatchComposableResourceAnnotation(d)
  PROVE  TypeInv'
<1>1. resources[d] \in ResourceState
  BY DEF TypeInv, TypeOK, ClusterTypeOK
<1>2. [resources[d] EXCEPT !.stamped = TRUE, !.age = 0] \in ResourceState
  <2>1. 0 \in 0..MaxAge
    BY MaxAgeType
  <2> QED
    BY <1>1, <2>1 DEF ResourceState
<1>3. resources' \in [Devices -> ResourceState]
  BY <1>2 DEF PatchComposableResourceAnnotation, TypeInv, TypeOK, ClusterTypeOK
<1>4. ClusterTypeOK'
  BY <1>3
  DEF PatchComposableResourceAnnotation, TypeInv, TypeOK, ClusterTypeOK
<1>5. RequestsRemain'
  BY DEF PatchComposableResourceAnnotation, TypeInv, RequestsRemain
<1> QED
  BY <1>4, <1>5
  DEF PatchComposableResourceAnnotation, Goto, TypeInv, TypeOK, PassOK,
      NodePhases

\* Writing a condition, on the claim the patch names and then on its peer.
LEMMA SetDevicesStateType ==
  ASSUME TypeInv, setDevicesState
  PROVE  TypeInv'
<1>1. /\ pc = "patching"
      /\ patch.claim \in Claims /\ patch.type \in Verdicts
      /\ patch.next \in {"failing", "limits", "annotating"}
      /\ cur \in Nodes
  BY DEF setDevicesState, TypeInv, PassOK, NodePhases, PhaseNames
<1>2. /\ claims[patch.claim] \in ClaimState
      /\ ClaimView[patch.claim] \in ClaimState
  BY <1>1, ViewType DEF TypeInv, TypeOK, ClusterTypeOK
<1>3. PatchedConditions(patch.claim, patch.type) \in SUBSET Verdicts
  BY <1>1, <1>2 DEF PatchedConditions, ClaimState
<1>4. [claims[patch.claim] EXCEPT !.cond =
         PatchedConditions(patch.claim, patch.type)] \in ClaimState
  BY <1>2, <1>3 DEF ClaimState
<1>5. claims' \in [Claims -> ClaimState]
  BY <1>1, <1>4 DEF setDevicesState, TypeInv, TypeOK, ClusterTypeOK
<1>6. ClusterTypeOK'
  BY <1>5 DEF setDevicesState, TypeInv, TypeOK, ClusterTypeOK
<1>7. infos' \in [Claims -> ClaimInfo]
  <2>1. infos[patch.claim] \in ClaimInfo
    BY <1>1 DEF TypeInv, TypeOK
  <2>2. [infos[patch.claim] EXCEPT !.state = TargetState(patch.type)]
          \in ClaimInfo
    BY <2>1 DEF ClaimInfo, TargetState, DeviceStates
  <2> QED
    BY <1>1, <2>2 DEF setDevicesState, TypeInv, TypeOK
<1>8. patch' \in [claim : Claims \cup {NoClaim}, peer : Claims \cup {NoClaim},
                  type : Verdicts \cup {"None"}, next : PhaseNames]
  BY IdleType DEF setDevicesState, TypeInv, TypeOK
<1>9. TypeOK'
  BY <1>1, <1>6, <1>7, <1>8
  DEF setDevicesState, Goto, TypeInv, TypeOK, PhaseNames
<1>10. PassOK'
  <2>1. patch.peer \in Claims \cup {NoClaim}
    BY DEF TypeInv, TypeOK
  <2>2. CASE patch.peer = NoClaim
    BY <1>1, <2>2 DEF setDevicesState, Goto, PassOK, TypeInv
  <2>3. CASE patch.peer # NoClaim
    BY <1>1, <2>1, <2>3 DEF setDevicesState, Goto, PassOK, TypeInv, TypeOK
  <2> QED
    BY <2>2, <2>3
<1>11. RequestsRemain'
  BY DEF setDevicesState, TypeInv, RequestsRemain
<1> QED
  BY <1>9, <1>10, <1>11 DEF TypeInv

\* Preparing a patch keeps the types and names a claim to write to.
LEMMA FailClaimType ==
  ASSUME NEW c \in Claims, NEW peer \in Claims \cup {NoClaim},
         NEW next \in {"failing", "limits"}, FailClaim(c, peer, next)
  PROVE  /\ patch' \in [claim : Claims \cup {NoClaim},
                        peer : Claims \cup {NoClaim},
                        type : Verdicts \cup {"None"}, next : PhaseNames]
         /\ pc' = "patching" /\ UNCHANGED faults
         /\ patch'.claim = c /\ patch'.type = "FabricDeviceFailed"
         /\ patch'.next = next /\ patch'.peer = peer
BY DEF FailClaim, Goto, Verdicts, PhaseNames

\* A round of the RescheduleFailedNotification loop names existing claims.
LEMMA CheckClaimType ==
  ASSUME TypeInv, NEW c \in Claims, CheckClaim(c)
  PROVE  TypeInv'
<1>1. ClusterTypeOK' /\ RequestsRemain'
  BY ClusterUnchanged DEF CheckClaim, TypeInv, TypeOK
<1>2. pc = "failing" /\ cur \in Nodes
  BY DEF CheckClaim, TypeInv, PassOK, NodePhases, PhaseNames
<1>3. CASE infos[c].state # "Preparing"
  BY <1>1, <1>2, <1>3
  DEF CheckClaim, Goto, TypeInv, TypeOK, PassOK, NodePhases, PhaseNames
<1>4. CASE ConflictingItems(c) = {} /\ infos[c].state = "Preparing"
  <2>1. infos[c].items \in SUBSET Items
    BY DEF TypeInv, TypeOK, ClaimInfo
  <2>2. {ItemModel[i] : i \in infos[c].items} \in SUBSET Models
    BY <2>1, ClaimsAssumption
  <2>3. FirstConflict(c) = {}
    BY <1>4 DEF FirstConflict
  <2> QED
    BY <1>1, <1>2, <1>4, <2>2, <2>3
    DEF CheckClaim, Goto, TypeInv, TypeOK, PassOK, NodePhases, PhaseNames
<1>5. CASE ConflictingItems(c) # {} /\ infos[c].state = "Preparing"
  <2>1. PICK peer \in Claims \cup {NoClaim} : FailClaim(c, peer, "failing")
    <3>1. \A i : Newest(ConflictingPeers(c, i)) \subseteq Claims
      BY DEF Newest, ConflictingPeers, NodeClaims
    <3> QED
      BY <1>5, <3>1 DEF CheckClaim
  <2> QED
    BY <1>1, <1>2, <1>5, <2>1, FailClaimType
    DEF CheckClaim, TypeInv, TypeOK, PassOK, NodePhases, PhaseNames, Verdicts
<1> QED
  BY <1>3, <1>4, <1>5

\* A limit check names the claim at hand, or goes on to the next model.
LEMMA CheckLimitType ==
  ASSUME TypeInv, NEW m \in Models, CheckLimit(m)
  PROVE  TypeInv'
<1>1. ClusterTypeOK' /\ RequestsRemain'
  BY ClusterUnchanged DEF CheckLimit, TypeInv, TypeOK
<1>2. pc = "limits" /\ cur \in Nodes /\ cl \in Claims
  BY DEF CheckLimit, TypeInv, PassOK, NodePhases, PhaseNames
<1>3. CASE FailClaim(cl, NoClaim, "limits")
  BY <1>1, <1>2, <1>3, FailClaimType
  DEF CheckLimit, TypeInv, TypeOK, PassOK, NodePhases, PhaseNames, Verdicts
<1>4. CASE Goto(pc) /\ UNCHANGED patch
  BY <1>1, <1>2, <1>4
  DEF CheckLimit, Goto, TypeInv, TypeOK, PassOK, NodePhases, PhaseNames
<1> QED
  BY <1>3, <1>4 DEF CheckLimit

\* A match names the claim and devices that were listed.
LEMMA MatchClaimType ==
  ASSUME TypeInv, NEW c \in Claims, MatchClaim(c)
  PROVE  TypeInv'
<1>1. ClusterTypeOK' /\ RequestsRemain'
  BY ClusterUnchanged DEF MatchClaim, TypeInv, TypeOK
<1>2. pc = "matching" /\ cur \in Nodes
  BY DEF MatchClaim, TypeInv, PassOK, NodePhases, PhaseNames
<1>3. marks' \in SUBSET Devices
  BY DEF MatchClaim, TypeInv, TypeOK
<1> QED
  BY <1>1, <1>2, <1>3
  DEF MatchClaim, Goto, TypeInv, TypeOK, PassOK, NodePhases, PhaseNames,
      Verdicts

\* Every size handleDevices writes is an integer, every node a node.
LEMMA SizeModelType ==
  ASSUME TypeInv, NEW m \in Models, SizeModel(m)
  PROVE  TypeInv'
<1>1. pc = "sizing" /\ cur \in Nodes /\ TypeOK
  BY DEF SizeModel, TypeInv, PassOK, NodePhases, PhaseNames
<1>2. /\ WantedSize(m) \in Int
      /\ \A count \in Int : getNextSize(count, cur) \in Int
  BY <1>1, SizeType DEF WantedSize, GetModelLimit, Larger
<1>3. requests \in [RequestIds -> RequestState \cup {NoRequest}]
  BY <1>1 DEF TypeOK, ClusterTypeOK
<1>4. \A q \in RequestIds :
        /\ requests'[q] \in RequestState \cup {NoRequest}
        /\ requests[q] # NoRequest => requests'[q] # NoRequest
  <2>1. CASE UNCHANGED requests
    BY <1>3, <2>1
  <2>2. CASE createNewComposabilityRequestCR(m, WantedSize(m))
    <3>1. [model |-> m, node |-> cur, size |-> WantedSize(m)] \in RequestState
      BY <1>1, <1>2 DEF RequestState
    <3> QED
      BY <1>3, <2>2, <3>1, DevicesAssumption
      DEF createNewComposabilityRequestCR
  <2>3. ASSUME NEW r \in RequestsFor(m, cur), NEW count \in Int,
               PatchComposabilityRequestSize(r, count)
        PROVE  <1>4
    <3>1. r \in RequestIds /\ requests[r] \in RequestState
      BY <1>3, <2>3
      DEF RequestsFor, RequestView, TypeInv, RequestsRemain
    <3>2. [requests[r] EXCEPT !.size = count] \in RequestState
      BY <3>1 DEF RequestState
    <3> QED
      BY <1>3, <2>3, <3>1, <3>2, DevicesAssumption
      DEF PatchComposabilityRequestSize
  <2> QED
    <3>1. CASE \E q \in RequestsFor(m, cur) : AdjustRequest(m, q)
      BY <1>2, <2>1, <2>3, <3>1 DEF AdjustRequest, DynamicDetach
    <3>2. CASE RequestsFor(m, cur) = {}
      BY <2>1, <2>2, <3>2 DEF SizeModel
    <3> QED
      BY <3>1, <3>2 DEF SizeModel
<1>5. requests' \in [RequestIds -> RequestState \cup {NoRequest}]
  BY <1>3, <1>4
  DEF SizeModel, AdjustRequest, DynamicDetach, PatchComposabilityRequestSize,
      createNewComposabilityRequestCR
<1>6. ClusterTypeOK'
  BY <1>1, <1>5 DEF SizeModel, TypeOK, ClusterTypeOK
<1>7. RequestsRemain'
  BY <1>4 DEF SizeModel, TypeInv, RequestsRemain
<1> QED
  BY <1>1, <1>6, <1>7
  DEF SizeModel, Goto, TypeInv, TypeOK, PassOK, NodePhases, PhaseNames

\* The steps that only move the pass from one loop to the next.
LEMMA ControlType ==
  ASSUME TypeInv,
         \/ updateComposableResourceLastUsedTime \/ AnnotationsDone
         \/ RescheduleFailedNotification \/ LimitsDone \/ FailingDone
         \/ RescheduleNotification \/ MatchingDone
         \/ handleDevices \/ SizingDone
  PROVE  TypeInv'
<1>1. ClusterTypeOK' /\ RequestsRemain'
  BY ClusterUnchanged
  DEF updateComposableResourceLastUsedTime, AnnotationsDone,
      RescheduleFailedNotification, LimitsDone, FailingDone,
      RescheduleNotification, MatchingDone, handleDevices, SizingDone,
      TypeInv, TypeOK
<1>2. NodeClaims \in SUBSET Claims /\ IdleDevices \in SUBSET Devices
  BY DEF NodeClaims, IdleDevices
<1>3. CASE updateComposableResourceLastUsedTime \/ AnnotationsDone
  BY <1>1, <1>3
  DEF updateComposableResourceLastUsedTime, AnnotationsDone, Goto, passVars,
      loopVars, TypeInv, TypeOK, PassOK, NodePhases, PhaseNames
<1>4. CASE RescheduleFailedNotification \/ LimitsDone \/ FailingDone
  BY <1>1, <1>2, <1>4
  DEF RescheduleFailedNotification, LimitsDone, FailingDone, Goto, passVars,
      loopVars, TypeInv, TypeOK, PassOK, NodePhases, PhaseNames
<1>5. CASE RescheduleNotification \/ MatchingDone
  BY <1>1, <1>2, <1>5
  DEF RescheduleNotification, MatchingDone, Goto, TypeInv, TypeOK, PassOK,
      NodePhases, PhaseNames
<1>6. CASE handleDevices \/ SizingDone
  BY <1>1, <1>6
  DEF handleDevices, SizingDone, Goto, passVars, loopVars, TypeInv, TypeOK,
      PassOK, NodePhases, PhaseNames
<1> QED
  BY <1>3, <1>4, <1>5, <1>6

\* handleNodes takes a node of the list, or the pass is over.
LEMMA HandleNodesType ==
  ASSUME TypeInv, handleNodes
  PROVE  TypeInv'
<1>1. CASE Return /\ UNCHANGED faults
  BY <1>1, ReturnType DEF handleNodes, TypeInv, TypeOK
<1>2. CASE \E n \in First(nodesLeft, NodeRank) :
             /\ cur' = n /\ nodesLeft' = nodesLeft \ {n} /\ Goto("failed")
             /\ UNCHANGED <<infos, reds, lims, loopVars>>
  <2>1. ClusterTypeOK' /\ RequestsRemain'
    BY ClusterUnchanged DEF handleNodes, TypeInv, TypeOK
  <2>2. First(nodesLeft, NodeRank) \in SUBSET Nodes
    BY DEF First, TypeInv, TypeOK
  <2> QED
    BY <1>2, <2>1, <2>2
    DEF Goto, loopVars, TypeInv, TypeOK, PassOK, NodePhases, PhaseNames
<1> QED
  BY <1>1, <1>2 DEF handleNodes

\* The label patch only names configured models.
LEMMA UpdateNodeLabelType ==
  ASSUME TypeInv, UpdateNodeLabel
  PROVE  TypeInv'
<1>1. labels' \in [Nodes -> SUBSET Models]
  BY DEF UpdateNodeLabel, patchNodeLabel, TypeInv, TypeOK, ClusterTypeOK
<1>2. ClusterTypeOK' /\ RequestsRemain'
  BY <1>1 DEF UpdateNodeLabel, TypeInv, TypeOK, ClusterTypeOK, RequestsRemain
<1> QED
  BY <1>2
  DEF UpdateNodeLabel, Goto, passVars, loopVars, TypeInv, TypeOK, PassOK,
      NodePhases, PhaseNames

\* Every step keeps the types.
LEMMA NextType ==
  ASSUME TypeInv, [Next]_vars
  PROVE  TypeInv'
<1>1. CASE Reconcile
  <2>1. ASSUME NEW d \in Devices, AnnotationRejected(d)
        PROVE  TypeInv'
    BY <2>1, ReturnType DEF AnnotationRejected, TypeInv, TypeOK
  <2>2. CASE PatchRejected
    BY <2>2, ReturnType DEF PatchRejected, TypeInv, TypeOK
  <2>3. ASSUME NEW m \in Models, SizeRefused(m)
        PROVE  TypeInv'
    BY <2>3, ReturnType DEF SizeRefused, TypeInv, TypeOK
  <2> QED
    BY <1>1, <2>1, <2>2, <2>3, CollectType, AnnotationType, SetDevicesStateType,
       CheckClaimType, CheckLimitType, MatchClaimType, SizeModelType,
       ControlType, HandleNodesType, UpdateNodeLabelType
    DEF Reconcile
<1>2. CASE PassCutShort
  BY <1>2, ReturnType, MonitorAssumption DEF PassCutShort, TypeInv, TypeOK
<1>3. CASE Outside(Environment)
  <2>1. ClusterTypeOK' /\ RequestsRemain'
    BY <1>3, EnvironmentType DEF Outside, TypeInv, TypeOK
  <2> QED
    BY <1>3, <2>1
    DEF Outside, monitorVars, passVars, loopVars, TypeInv, TypeOK, PassOK
<1>4. CASE UNCHANGED vars
  <2>1. ClusterTypeOK' /\ RequestsRemain'
    BY <1>4, ClusterUnchanged DEF vars, TypeInv, TypeOK
  <2> QED
    BY <1>4, <2>1
    DEF vars, monitorVars, passVars, loopVars, TypeInv, TypeOK, PassOK
<1> QED
  BY <1>1, <1>2, <1>3, <1>4 DEF Next

(***************************************************************************)
(* Every reachable state of the reconciler and of the objects it works on  *)
(* is well typed, whatever the cluster does and wherever a pass stops.     *)
(***************************************************************************)
THEOREM TypeCorrect == Spec => []TypeOK
<1>1. Init => TypeInv
  BY InitType
<1>2. TypeInv /\ [Next]_vars => TypeInv'
  BY NextType
<1>3. TypeInv => TypeOK
  BY DEF TypeInv
<1> QED
  BY <1>1, <1>2, <1>3, PTL DEF Spec

-----------------------------------------------------------------------------
(***************************************************************************)
(* Requests.  Only SizeModel writes them; when the cache of requests is    *)
(* up to date it either changes the size of one request for the model and  *)
(* node at hand, or creates the only one there is.                         *)
(***************************************************************************)
LEMMA OnlySizeModelWrites ==
  ASSUME [Next]_vars, requests' # requests
  PROVE  \E m \in Models : SizeModel(m)
<1>1. ~Outside(Environment)
  BY DEF Outside, Environment, Operator, Allocate, GiveUpAllocation,
         BindingTimeout, Unreserve, DeleteClaim, CreateResource,
         DeleteResource, Attach, Detach, Publish, Tick, SetLimit, Sync
<1>2. ~(UNCHANGED clusterVars)
  BY DEF clusterVars
<1>3. Reconcile
  BY <1>1, <1>2 DEF Next, PassCutShort, vars
<1> QED
  BY <1>2, <1>3
  DEF Reconcile, collectInfo, updateComposableResourceLastUsedTime,
      PatchComposableResourceAnnotation, AnnotationRejected, AnnotationsDone,
      handleNodes, setDevicesState, PatchRejected,
      RescheduleFailedNotification, CheckClaim, CheckLimit, LimitsDone,
      FailingDone, RescheduleNotification, MatchClaim, MatchingDone,
      handleDevices, SizeRefused, SizingDone, UpdateNodeLabel

\* A request that is seen has its size changed, and nothing else.
LEMMA Resized ==
  ASSUME TypeInv, "requests" \notin Lagging,
         NEW m, NEW q \in RequestsFor(m, cur), NEW count,
         PatchComposabilityRequestSize(q, count)
  PROVE  /\ q \in RequestIds /\ requests[q] \in RequestState
         /\ requests[q].model = m /\ requests[q].node = cur
         /\ requests' = [requests EXCEPT ![q] = [@ EXCEPT !.size = count]]
         /\ requests'[q].model = m /\ requests'[q].node = cur
         /\ requests'[q].size = count
         /\ \A r \in RequestIds \ {q} : requests'[r] = requests[r]
<1>1. requests \in [RequestIds -> RequestState \cup {NoRequest}]
  BY DEF TypeInv, TypeOK, ClusterTypeOK
<1>2. /\ q \in RequestIds /\ requests[q] \in RequestState
      /\ requests[q].model = m /\ requests[q].node = cur
  BY <1>1 DEF RequestsFor, RequestView
<1>3. requests' = [requests EXCEPT ![q] = [@ EXCEPT !.size = count]]
  BY DEF PatchComposabilityRequestSize
<1> QED
  BY <1>1, <1>2, <1>3 DEF RequestState

\* No step adds a second request for a model and node: SizeModel creates one
\* only when the up-to-date list holds none.
LEMMA OneRequestStep ==
  ASSUME TypeInv, "requests" \notin Lagging, OneRequestPerModel,
         NEW m \in Models, SizeModel(m)
  PROVE  OneRequestPerModel'
<1>1. requests \in [RequestIds -> RequestState \cup {NoRequest}]
  BY DEF TypeInv, TypeOK, ClusterTypeOK
<1>2. CASE UNCHANGED requests
  BY <1>2 DEF OneRequestPerModel
<1>3. ASSUME NEW q \in RequestsFor(m, cur), NEW count,
             PatchComposabilityRequestSize(q, count)
      PROVE  OneRequestPerModel'
  <2>1. q \in RequestIds /\ requests[q] # NoRequest
    BY DEF RequestsFor, RequestView
  <2> QED
    BY <1>3, <2>1, Resized DEF OneRequestPerModel
<1>4. CASE /\ RequestsFor(m, cur) = {}
           /\ createNewComposabilityRequestCR(m, WantedSize(m))
  <2>1. PICK q \in RequestIds :
          /\ requests[q] = NoRequest
          /\ requests' = [requests EXCEPT ![q] =
                [model |-> m, node |-> cur, size |-> WantedSize(m)]]
    BY <1>4 DEF createNewComposabilityRequestCR
  <2>2. \A r \in RequestIds : requests[r] # NoRequest =>
          ~(requests[r].model = m /\ requests[r].node = cur)
    BY <1>4 DEF RequestsFor, RequestView
  <2>3. requests'[q].model = m /\ requests'[q].node = cur
    BY <1>1, <2>1
  <2>4. \A r \in RequestIds \ {q} : requests'[r] = requests[r]
    BY <1>1, <2>1
  <2> QED
    BY <2>2, <2>3, <2>4 DEF OneRequestPerModel
<1> QED
  BY <1>2, <1>3, <1>4 DEF SizeModel, AdjustRequest, DynamicDetach

(***************************************************************************)
(* As long as the cache of ComposabilityRequests is up to date when        *)
(* handleDevices lists them, there is never a second request for a model   *)
(* and node, however stale everything else is and wherever passes stop.    *)
(***************************************************************************)
THEOREM RequestsUnique ==
  ASSUME "requests" \notin Lagging
  PROVE  Spec => []OneRequestPerModel
<1>1. Init => TypeInv /\ OneRequestPerModel
  BY InitType DEF Init, ClusterInit, OneRequestPerModel
<1>2. TypeInv /\ OneRequestPerModel /\ [Next]_vars
        => TypeInv' /\ OneRequestPerModel'
  <2> SUFFICES ASSUME TypeInv, OneRequestPerModel, [Next]_vars
               PROVE  OneRequestPerModel'
    BY NextType
  <2>1. CASE requests' = requests
    BY <2>1 DEF OneRequestPerModel
  <2>2. CASE requests' # requests
    BY <2>2, OnlySizeModelWrites, OneRequestStep
  <2> QED
    BY <2>1, <2>2
<1> QED
  BY <1>1, <1>2, PTL DEF Spec

-----------------------------------------------------------------------------

\* Only DynamicDetach lowers a size, and it lowers it to what getNextSize says.
LEMMA LoweredSize ==
  ASSUME TypeInv, "requests" \notin Lagging,
         NEW m \in Models, SizeModel(m), NEW q \in RequestIds,
         requests[q] # NoRequest, requests'[q].size < requests[q].size
  PROVE  /\ pc = "sizing" /\ cur \in Nodes /\ WantedSize(m) \in Int
         /\ requests[q].model = m /\ requests[q].node = cur
         /\ requests'[q].size = getNextSize(WantedSize(m), cur)
         /\ Cardinality(KeptDevices(cur)) \in Nat
<1>1. /\ requests \in [RequestIds -> RequestState \cup {NoRequest}]
      /\ requests[q].size \in Int
  BY DEF TypeInv, TypeOK, ClusterTypeOK, RequestState
<1>2. pc = "sizing" /\ cur \in Nodes
  BY DEF SizeModel, TypeInv, PassOK, NodePhases, PhaseNames
<1>3. WantedSize(m) \in Int
  BY <1>2, SizeType DEF WantedSize, GetModelLimit, Larger, TypeInv
<1>4. requests' # requests
  BY <1>1
<1>5. ~createNewComposabilityRequestCR(m, WantedSize(m))
  BY <1>1 DEF createNewComposabilityRequestCR
<1>6. PICK r \in RequestsFor(m, cur) : AdjustRequest(m, r)
  BY <1>4, <1>5 DEF SizeModel
<1>7. r \in RequestIds /\ requests[r] # NoRequest /\ requests[r].size \in Int
  BY <1>1, <1>6 DEF RequestsFor, RequestView, RequestState
<1>8. r = q
  BY <1>1, <1>6
  DEF AdjustRequest, DynamicDetach, PatchComposabilityRequestSize
<1>9. ~(WantedSize(m) > RequestView[r].size
          /\ PatchComposabilityRequestSize(r, WantedSize(m)))
  <2>1. PatchComposabilityRequestSize(r, WantedSize(m))
          => requests'[r].size = WantedSize(m)
    BY Resized
  <2> QED
    BY <1>3, <1>7, <1>8, <2>1 DEF RequestView
<1>10. PatchComposabilityRequestSize(r, getNextSize(WantedSize(m), cur))
  BY <1>4, <1>6, <1>9 DEF AdjustRequest, DynamicDetach
<1>11. Cardinality(KeptDevices(cur)) \in Nat
  BY CountType, DevicesAssumption DEF KeptDevices
<1> QED
  BY <1>2, <1>3, <1>6, <1>8, <1>10, <1>11, Resized

\* getNextSize counts at least the recent devices of the model, since it
\* counts those of all models.
LEMMA ScaleDownStep ==
  ASSUME TypeInv, "requests" \notin Lagging, "resources" \notin Lagging,
         NEW m \in Models, SizeModel(m), NEW q \in RequestIds,
         requests[q] # NoRequest, requests'[q].size < requests[q].size
  PROVE  requests'[q].size >=
           Cardinality(RecentDevices(requests[q].node, requests[q].model))
<1>1. /\ KeptDevices(cur) \in SUBSET Devices
      /\ IsFiniteSet(KeptDevices(cur))
  BY CountType, DevicesAssumption DEF KeptDevices
<1>2. RecentDevices(cur, m) \subseteq KeptDevices(cur)
  <2>1. \A d \in Devices : resources[d].age \in Int
    BY DEF TypeInv, TypeOK, ClusterTypeOK, ResourceState
  <2> QED
    BY <2>1, DurationsAssumption
    DEF RecentDevices, KeptDevices, isLastUsedOverThreshold, ResourceView
<1>3. /\ Cardinality(RecentDevices(cur, m)) \in Nat
      /\ Cardinality(RecentDevices(cur, m)) <= Cardinality(KeptDevices(cur))
  BY <1>1, <1>2, FS_Subset, FS_CardinalityType
<1> QED
  BY <1>3, LoweredSize DEF getNextSize, Larger

(***************************************************************************)
(* A request is never scaled down below the devices of its model that were *)
(* used, handed out or created within DEVICE_NO_REMOVAL_DURATION.          *)
(***************************************************************************)
THEOREM RecentDevicesKept ==
  ASSUME "requests" \notin Lagging, "resources" \notin Lagging
  PROVE  Spec => ScaleDownKeepsRecent
<1>1. Init => TypeInv
  BY InitType
<1>2. TypeInv /\ [Next]_vars => TypeInv'
  BY NextType
<1>3. TypeInv /\ [Next]_vars =>
        [\A q \in RequestIds :
           requests[q] # NoRequest /\ requests'[q].size < requests[q].size
             => requests'[q].size >=
                  Cardinality(RecentDevices(requests[q].node,
                                            requests[q].model))]_vars
  <2> SUFFICES ASSUME TypeInv, [Next]_vars, NEW q \in RequestIds,
                      requests[q] # NoRequest,
                      requests'[q].size < requests[q].size
               PROVE  requests'[q].size >=
                        Cardinality(RecentDevices(requests[q].node,
                                                  requests[q].model))
    OBVIOUS
  <2>1. requests' # requests
    BY DEF TypeInv, TypeOK, ClusterTypeOK, RequestState
  <2> QED
    BY <2>1, OnlySizeModelWrites, ScaleDownStep
<1> QED
  BY <1>1, <1>2, <1>3, PTL DEF Spec, ScaleDownKeepsRecent

\* handleDevices is done with a model when SizeModel has visited it.
LEMMA OnlySizeModelVisits ==
  ASSUME [Next]_vars, NEW m \in modelsLeft \ modelsLeft',
         pc = "sizing", pc' = "sizing"
  PROVE  SizeModel(m)
<1>1. modelsLeft' # modelsLeft
  OBVIOUS
<1>2. Reconcile
  BY <1>1 DEF Next, PassCutShort, Return, Outside, monitorVars, passVars,
              loopVars, vars
<1>3. PICK k \in Models : SizeModel(k)
  BY <1>1, <1>2
  DEF Reconcile, collectInfo, updateComposableResourceLastUsedTime,
      PatchComposableResourceAnnotation, AnnotationRejected, AnnotationsDone,
      handleNodes, setDevicesState, PatchRejected,
      RescheduleFailedNotification, CheckClaim, CheckLimit, LimitsDone,
      FailingDone, RescheduleNotification, MatchClaim, MatchingDone,
      handleDevices, SizeRefused, SizingDone, UpdateNodeLabel, Return, Goto,
      passVars, loopVars
<1>4. k = m
  BY <1>3 DEF SizeModel
<1> QED
  BY <1>3, <1>4

\* The devices to be kept on a node are the recent ones of all models.
LEMMA KeptAreRecent ==
  ASSUME TypeInv, "resources" \notin Lagging, NEW n \in Nodes
  PROVE  KeptDevices(n) = UNION {RecentDevices(n, k) : k \in Models}
<1>1. \A d \in Devices : resources[d].age \in Int
  BY DEF TypeInv, TypeOK, ClusterTypeOK, ResourceState
<1>2. \A d \in Devices : DeviceModel[d] \in Models
  BY DevicesAssumption
<1>3. \A d \in Devices : d \in KeptDevices(n) <=>
                           d \in RecentDevices(n, DeviceModel[d])
  BY <1>1, DurationsAssumption
  DEF RecentDevices, KeptDevices, isLastUsedOverThreshold, ResourceView
<1>4. \A k \in Models : \A d \in RecentDevices(n, k) :
        d \in Devices /\ k = DeviceModel[d]
  BY DEF RecentDevices
<1>5. KeptDevices(n) \subseteq Devices
  BY DEF KeptDevices
<1> QED
  BY <1>2, <1>3, <1>4, <1>5

\* The sizes handleDevices may give to a request.
LEMMA NextSizeType ==
  ASSUME TypeInv, NEW m \in Models, SizeModel(m)
  PROVE  /\ cur \in Nodes
         /\ WantedSize(m) \in Int /\ getNextSize(WantedSize(m), cur) \in Int
         /\ WantedSize(m) <= getNextSize(WantedSize(m), cur)
<1>1. cur \in Nodes
  BY DEF SizeModel, TypeInv, PassOK, NodePhases, PhaseNames
<1>2. WantedSize(m) \in Int
  BY <1>1, SizeType DEF WantedSize, GetModelLimit, Larger, TypeInv
<1>3. Cardinality(KeptDevices(cur)) \in Nat
  BY CountType, DevicesAssumption DEF KeptDevices
<1> QED
  BY <1>1, <1>2, <1>3 DEF getNextSize, Larger

\* The request that a visited model has afterwards, found or made, has the
\* size that is wanted, or at most the one getNextSize gives.
LEMMA DemandStep ==
  ASSUME TypeInv, "requests" \notin Lagging, OneRequestPerModel,
         NEW m \in Models, SizeModel(m), NEW q \in RequestIds,
         requests'[q] # NoRequest, requests'[q].model = m,
         requests'[q].node = cur
  PROVE  /\ requests'[q].size >= WantedSize(m)
         /\ requests'[q].size <= getNextSize(WantedSize(m), cur)
<1> DEFINE W == WantedSize(m)
           N == getNextSize(W, cur)
<1>1. requests \in [RequestIds -> RequestState \cup {NoRequest}]
  BY DEF TypeInv, TypeOK, ClusterTypeOK
<1>2. W \in Int /\ N \in Int /\ W <= N
  BY NextSizeType
<1> HIDE DEF W, N
<1>3. OneRequestPerModel'
  BY OneRequestStep
<1>4. ASSUME NEW r \in RequestsFor(m, cur), AdjustRequest(m, r)
      PROVE  requests'[q].size >= W /\ requests'[q].size <= N
  <2>1. /\ r \in RequestIds /\ requests[r] \in RequestState
        /\ requests[r].model = m /\ requests[r].node = cur
        /\ RequestView[r] = requests[r] /\ requests[r].size \in Int
    BY <1>1, <1>4 DEF RequestsFor, RequestView, RequestState
  <2>2. requests[r] # NoRequest
    BY <2>1, DevicesAssumption
  <2>3. ASSUME NEW count \in Int, PatchComposabilityRequestSize(r, count)
        PROVE  q = r /\ requests'[q].size = count
    <3>1. requests'[r].model = m /\ requests'[r].node = cur
          /\ requests'[r].size = count
      BY <1>4, <2>3, Resized
    <3>2. requests'[r] # NoRequest
      BY <1>1, <2>1, <2>2, <2>3, DevicesAssumption
      DEF PatchComposabilityRequestSize, RequestState
    <3> QED
      BY <1>3, <2>1, <3>1, <3>2 DEF OneRequestPerModel
  <2>4. ASSUME UNCHANGED requests
        PROVE  q = r
    BY <1>3, <2>1, <2>2, <2>4 DEF OneRequestPerModel
  <2>5. CASE W > requests[r].size /\ PatchComposabilityRequestSize(r, W)
    BY <1>2, <2>3, <2>5
  <2>6. CASE W < requests[r].size /\ N < requests[r].size
               /\ PatchComposabilityRequestSize(r, N)
    BY <1>2, <2>3, <2>6
  <2>7. CASE W < requests[r].size /\ ~(N < requests[r].size)
               /\ UNCHANGED requests
    BY <1>2, <2>1, <2>4, <2>7
  <2>8. CASE W = requests[r].size /\ UNCHANGED requests
    BY <1>2, <2>1, <2>4, <2>8
  <2> QED
    BY <1>4, <2>1, <2>5, <2>6, <2>7, <2>8 DEF AdjustRequest, DynamicDetach, W, N
<1>5. CASE RequestsFor(m, cur) = {}
  <2>1. \A r \in RequestIds : requests[r] # NoRequest =>
          ~(requests[r].model = m /\ requests[r].node = cur)
    BY <1>5 DEF RequestsFor, RequestView
  <2>2. requests'[q] # requests[q]
    BY <2>1
  <2>3. createNewComposabilityRequestCR(m, W)
    BY <1>5, <2>2 DEF SizeModel, W
  <2>4. PICK r \in RequestIds :
          requests' = [requests EXCEPT ![r] =
                         [model |-> m, node |-> cur, size |-> W]]
    BY <2>3 DEF createNewComposabilityRequestCR
  <2>5. requests'[q].size = W
    BY <1>1, <2>2, <2>4
  <2> QED
    BY <1>2, <2>5 DEF W, N
<1> QED
  BY <1>4, <1>5 DEF SizeModel, W, N

\* A request of the visited model is still one afterwards.
LEMMA RequestsStay ==
  ASSUME TypeInv, "requests" \notin Lagging, NEW m \in Models, SizeModel(m),
         NEW q \in RequestsFor(m, cur)
  PROVE  /\ q \in RequestIds /\ requests'[q] # NoRequest
         /\ requests'[q].model = m /\ requests'[q].node = cur
<1>1. requests \in [RequestIds -> RequestState \cup {NoRequest}]
  BY DEF TypeInv, TypeOK, ClusterTypeOK
<1>2. /\ q \in RequestIds /\ requests[q] # NoRequest
      /\ requests[q].model = m /\ requests[q].node = cur
  BY DEF RequestsFor, RequestView
<1>3. PICK r \in RequestsFor(m, cur) : AdjustRequest(m, r)
  BY DEF SizeModel
<1>4. CASE UNCHANGED requests
  BY <1>2, <1>4
<1>5. ASSUME NEW count \in Int, PatchComposabilityRequestSize(r, count)
      PROVE  /\ requests'[q] # NoRequest
             /\ requests'[q].model = m /\ requests'[q].node = cur
  <2>1. CASE q # r
    BY <1>1, <1>2, <1>5, <2>1 DEF PatchComposabilityRequestSize
  <2>2. CASE q = r
    <3>1. requests'[q].model = m /\ requests'[q].node = cur
      BY <1>5, <2>2, Resized
    <3>2. requests'[q] # NoRequest
      <4>1. requests[q] \in RequestState /\ NoRequest \notin RequestState
        BY <1>1, <1>2, DevicesAssumption
      <4>2. requests'[q] = [requests[q] EXCEPT !.size = count]
        BY <1>1, <1>2, <1>5, <2>2 DEF PatchComposabilityRequestSize
      <4> QED
        BY <1>5, <4>1, <4>2 DEF RequestState
    <3> QED
      BY <3>1, <3>2
  <2> QED
    BY <2>1, <2>2
<1> QED
  BY <1>2, <1>3, <1>4, <1>5, NextSizeType DEF AdjustRequest, DynamicDetach

(***************************************************************************)
(* With one model in device-info, a model of which no device is wanted and *)
(* none was used or created within DEVICE_NO_REMOVAL_DURATION is left with *)
(* no device requested: several models are what run mixed_models needs.    *)
(***************************************************************************)
THEOREM UnusedIsScaledDown ==
  ASSUME "requests" \notin Lagging, "resources" \notin Lagging,
         \A m1, m2 \in Models : m1 = m2
  PROVE  Spec => UnusedScaledDown
<1> DEFINE Step ==
      \A m \in modelsLeft \ modelsLeft' :
        pc = "sizing" /\ pc' = "sizing"
          /\ WantedSize(m) <= 0 /\ RecentDevices(cur, m) = {}
          => \A q \in RequestsFor(m, cur) : requests'[q].size <= 0
<1>1. Init => TypeInv
  BY InitType
<1>2. TypeInv /\ [Next]_vars => TypeInv'
  BY NextType
<1>3. Spec => []OneRequestPerModel
  BY RequestsUnique
<1>4. ASSUME TypeInv, OneRequestPerModel, [Next]_vars
      PROVE  [Step]_vars
  <2> SUFFICES ASSUME NEW m \in modelsLeft \ modelsLeft',
                      pc = "sizing", pc' = "sizing",
                      WantedSize(m) <= 0, RecentDevices(cur, m) = {},
                      NEW q \in RequestsFor(m, cur)
               PROVE  requests'[q].size <= 0
    OBVIOUS
  <2>1. m \in Models /\ cur \in Nodes
    BY <1>4 DEF TypeInv, TypeOK, PassOK, NodePhases, PhaseNames
  <2>2. SizeModel(m)
    BY <1>4, OnlySizeModelVisits
  <2>3. requests'[q].size <= getNextSize(WantedSize(m), cur)
    BY <1>4, <2>1, <2>2, RequestsStay, DemandStep
  <2>4. KeptDevices(cur) = {}
    BY <1>4, <2>1, KeptAreRecent
  <2>5. getNextSize(WantedSize(m), cur) = 0
    <3>1. Cardinality(KeptDevices(cur)) = 0
      BY <2>4, FS_EmptySet
    <3>2. WantedSize(m) \in Int
      BY <1>4, <2>1, <2>2, NextSizeType
    <3> QED
      BY <3>1, <3>2 DEF getNextSize, Larger
  <2> QED
    BY <2>3, <2>5
<1> QED
  BY <1>1, <1>2, <1>3, <1>4, PTL DEF Spec, UnusedScaledDown

-----------------------------------------------------------------------------
(***************************************************************************)
(* Devices in use: a pass counts the devices that pods hold by the slices  *)
(* it collected when it began and the claims of the moment.                *)
(***************************************************************************)

\* The devices pods hold and the pass has seen are among those
\* GetConfiguredDeviceCount counts.
LEMMA SeenCounted ==
  ASSUME TypeInv, "resources" \notin Lagging, "claims" \notin Lagging,
         NEW m \in Models, cur \in Nodes
  PROVE  /\ Cardinality(SeenOn(cur, m)) \in Nat
         /\ getPodAllocatedDevicesCount(m, cur) \in Nat
         /\ Cardinality(SeenOn(cur, m)) <= getPodAllocatedDevicesCount(m, cur)
<1> DEFINE used == {d \in Devices : /\ ResourceView[d].node = cur
                                    /\ DeviceModel[d] = m /\ UsedOnline(d)}
<1>1. ASSUME NEW d \in SeenOn(cur, m)
      PROVE  d \in used
  <2>1. PICK c \in Claims : d \in claims[c].red /\ claims[c].node = cur
    BY <1>1 DEF SeenOn, HeldOn, HeldDevices
  <2>2. d \in Devices
    BY <2>1 DEF TypeInv, TypeOK, ClusterTypeOK, ClaimState
  <2> QED
    BY <1>1, <2>1, <2>2, NodesAssumption
    DEF SeenOn, HeldOn, UsedOnline, IsDeviceUsedByPod, IsDeviceResourceSliceRed,
        ClaimView, ResourceView
<1>2. IsFiniteSet(used)
  BY CountType, DevicesAssumption
<1>3. Cardinality(used) = getPodAllocatedDevicesCount(m, cur)
  BY DEF getPodAllocatedDevicesCount
<1> HIDE DEF used
<1> QED
  BY <1>1, <1>2, <1>3, FS_Subset, FS_CardinalityType

\* A size that is wanted is not below any part of what is counted.
LEMMA WantedIsCounted ==
  ASSUME TypeInv, NEW m \in Models, SizeModel(m)
  PROVE  WantedSize(m) >= getPreparingRescheduleDevicesCount(m, cur)
                            + getPodAllocatedDevicesCount(m, cur)
<1>1. cur \in Nodes
  BY NextSizeType
<1>2. /\ GetConfiguredDeviceCount(m, cur) \in Nat
      /\ GetModelLimit(lims[cur][m]).min \in Int
  BY <1>1, SizeType DEF TypeInv, GetModelLimit
<1>3. WantedSize(m) >= GetConfiguredDeviceCount(m, cur)
  BY <1>2 DEF WantedSize, Larger
<1> QED
  BY <1>3 DEF GetConfiguredDeviceCount

\* The items of the claims in the memory of the pass are counted by number.
LEMMA ItemsCountType ==
  ASSUME NEW m \in Models
  PROVE  /\ IsFiniteSet(ItemsInState({"Preparing", "Reschedule"}, m, cur))
         /\ getPreparingRescheduleDevicesCount(m, cur) \in Nat
BY CountType, ClaimsAssumption
DEF getPreparingRescheduleDevicesCount, ItemsInState

\* A request that is lowered still has the seen devices.
LEMMA HeldStep ==
  ASSUME TypeInv, "requests" \notin Lagging,
         "resources" \notin Lagging, "claims" \notin Lagging,
         NEW m \in Models, SizeModel(m), NEW q \in RequestIds,
         requests[q] # NoRequest, requests'[q].size < requests[q].size
  PROVE  requests'[q].size >=
           Cardinality(SeenOn(requests[q].node, requests[q].model))
<1>1. /\ cur \in Nodes /\ WantedSize(m) \in Int
      /\ requests[q].model = m /\ requests[q].node = cur
      /\ requests'[q].size = getNextSize(WantedSize(m), cur)
      /\ Cardinality(KeptDevices(cur)) \in Nat
  BY LoweredSize
<1>2. Cardinality(SeenOn(cur, m)) \in Nat
      /\ WantedSize(m) >= Cardinality(SeenOn(cur, m))
  BY <1>1, SeenCounted, ItemsCountType, WantedIsCounted
<1> QED
  BY <1>1, <1>2 DEF getNextSize, Larger

(***************************************************************************)
(* However the cluster moves between the phases of a pass, a request is    *)
(* never lowered below the number of its devices that pods hold, as far as *)
(* they were published when the pass began.                                *)
(***************************************************************************)
THEOREM SeenDevicesStay ==
  ASSUME "requests" \notin Lagging, "resources" \notin Lagging,
         "claims" \notin Lagging
  PROVE  Spec => SeenDevicesKept
<1>1. Init => TypeInv
  BY InitType
<1>2. TypeInv /\ [Next]_vars => TypeInv'
  BY NextType
<1>3. TypeInv /\ [Next]_vars =>
        [\A q \in RequestIds :
           requests[q] # NoRequest /\ requests'[q].size < requests[q].size
             => requests'[q].size >=
                  Cardinality(SeenOn(requests[q].node, requests[q].model))
        ]_vars
  <2> SUFFICES ASSUME TypeInv, [Next]_vars, NEW q \in RequestIds,
                      requests[q] # NoRequest,
                      requests'[q].size < requests[q].size
               PROVE  requests'[q].size >=
                        Cardinality(SeenOn(requests[q].node,
                                           requests[q].model))
    OBVIOUS
  <2>1. requests' # requests
    BY DEF TypeInv, TypeOK, ClusterTypeOK, RequestState
  <2> QED
    BY <2>1, OnlySizeModelWrites, HeldStep
<1> QED
  BY <1>1, <1>2, <1>3, PTL DEF Spec, SeenDevicesKept

(***************************************************************************)
(* What a node needs is requested.  An item of a claim that still is what  *)
(* the pass has in memory, and has not failed, is Preparing or Reschedule  *)
(* there; the devices are those of the lemmas above.                       *)
(***************************************************************************)

\* What is needed is within the size that is wanted.
LEMMA DemandCounted ==
  ASSUME TypeInv, "resources" \notin Lagging, "claims" \notin Lagging,
         NEW m \in Models, SizeModel(m)
  PROVE  Demand(cur, m) \in Nat /\ Demand(cur, m) <= WantedSize(m)
<1> DEFINE counted == ItemsInState({"Preparing", "Reschedule"}, m, cur)
<1>1. cur \in Nodes /\ WantedSize(m) \in Int
  BY NextSizeType
<1>2. ASSUME NEW i \in PendingItems(cur, m)
      PROVE  i \in counted
  <2>1. PICK c \in Claims :
          /\ claims[c].reserved /\ claims[c].node = cur /\ i \in claims[c].pool
          /\ "FabricDeviceFailed" \notin claims[c].cond
          /\ infos[c] = GetResourceClaimInfo(claims[c])
    BY <1>2 DEF PendingItems
  <2>2. /\ infos[c].state \in {"Preparing", "Reschedule"}
        /\ infos[c].node = cur /\ i \in infos[c].items
    BY <2>1 DEF GetResourceClaimInfo
  <2> QED
    BY <1>2, <2>2 DEF ItemsInState, PendingItems
<1>3. IsFiniteSet(counted)
  BY ItemsCountType
<1>4. Cardinality(counted) = getPreparingRescheduleDevicesCount(m, cur)
  BY DEF getPreparingRescheduleDevicesCount
<1> HIDE DEF counted
<1>5. /\ Cardinality(PendingItems(cur, m)) \in Nat
      /\ Cardinality(counted) \in Nat
      /\ Cardinality(PendingItems(cur, m)) <= Cardinality(counted)
  BY <1>2, <1>3, FS_Subset, FS_CardinalityType
<1> QED
  BY <1>1, <1>4, <1>5, SeenCounted, WantedIsCounted DEF Demand

\* The visit of a model leaves what is needed of every model as it was.
LEMMA DemandUnchanged ==
  ASSUME UNCHANGED <<claims, resources, slices, infos, reds, cur>>, NEW m
  PROVE  Demand(cur, m)' = Demand(cur, m)
BY DEF Demand, PendingItems, SeenOn, HeldOn, HeldDevices

\* A visit leaves the requests of other models alone.
LEMMA OthersStay ==
  ASSUME TypeInv, "requests" \notin Lagging, NEW m \in Models, SizeModel(m),
         NEW q \in RequestIds, requests[q] # NoRequest, requests[q].model # m
  PROVE  requests'[q] = requests[q]
<1>1. requests \in [RequestIds -> RequestState \cup {NoRequest}]
  BY DEF TypeInv, TypeOK, ClusterTypeOK
<1>2. ASSUME NEW r \in RequestsFor(m, cur), AdjustRequest(m, r)
      PROVE  requests'[q] = requests[q]
  BY <1>1, <1>2
  DEF RequestsFor, RequestView, AdjustRequest, DynamicDetach,
      PatchComposabilityRequestSize
<1>3. CASE createNewComposabilityRequestCR(m, WantedSize(m))
  BY <1>1, <1>3 DEF createNewComposabilityRequestCR
<1> QED
  BY <1>2, <1>3 DEF SizeModel

\* The model that is visited gets a request for what is needed of it.
LEMMA VisitRequests ==
  ASSUME TypeInv, "requests" \notin Lagging, "resources" \notin Lagging,
         "claims" \notin Lagging, OneRequestPerModel, NEW m \in Models,
         SizeModel(m), Demand(cur, m) > 0
  PROVE  \E q \in RequestIds :
           /\ requests'[q] # NoRequest
           /\ requests'[q].node = cur /\ requests'[q].model = m
           /\ requests'[q].size >= Demand(cur, m)
<1>1. /\ Demand(cur, m) \in Nat /\ WantedSize(m) \in Int
      /\ Demand(cur, m) <= WantedSize(m)
      /\ getNextSize(WantedSize(m), cur) \in Int
  BY DemandCounted, NextSizeType
<1>2. ASSUME NEW q \in RequestIds, requests'[q] # NoRequest,
             requests'[q].model = m, requests'[q].node = cur
      PROVE  requests'[q].size >= Demand(cur, m)
  <2>1. requests'[q].size >= WantedSize(m)
    BY <1>2, DemandStep
  <2>2. requests'[q].size \in Int
    BY <1>2, SizeModelType DEF TypeInv, TypeOK, ClusterTypeOK, RequestState
  <2> QED
    BY <1>1, <2>1, <2>2
<1>3. \E q \in RequestIds : /\ requests'[q] # NoRequest
                            /\ requests'[q].model = m /\ requests'[q].node = cur
  <2>1. ASSUME NEW q \in RequestsFor(m, cur)
        PROVE  /\ q \in RequestIds /\ requests'[q] # NoRequest
               /\ requests'[q].model = m /\ requests'[q].node = cur
    BY <2>1, RequestsStay
  <2>2. CASE RequestsFor(m, cur) = {}
    <3>1. createNewComposabilityRequestCR(m, WantedSize(m))
      BY <1>1, <2>2 DEF SizeModel
    <3>2. PICK q \in RequestIds :
            requests' = [requests EXCEPT ![q] =
                           [model |-> m, node |-> cur, size |-> WantedSize(m)]]
      BY <3>1 DEF createNewComposabilityRequestCR
    <3>3. requests'[q] = [model |-> m, node |-> cur, size |-> WantedSize(m)]
      BY <3>2 DEF TypeInv, TypeOK, ClusterTypeOK
    <3>4. requests'[q] \in RequestState
      BY <1>1, <3>3, NextSizeType DEF RequestState
    <3> QED
      BY <3>3, <3>4, DevicesAssumption
  <2> QED
    BY <2>1, <2>2
<1> QED
  BY <1>2, <1>3

\* Every step keeps the demand of the models visited requested.
LEMMA DemandRequestedStep ==
  ASSUME TypeInv, "requests" \notin Lagging, "resources" \notin Lagging,
         "claims" \notin Lagging, OneRequestPerModel, DemandRequested,
         [Next]_vars
  PROVE  DemandRequested'
<1> SUFFICES ASSUME pc' = "sizing", NEW m \in Models \ modelsLeft',
                    Demand(cur, m)' > 0
             PROVE  \E q \in RequestIds :
                      /\ requests'[q] # NoRequest
                      /\ requests'[q].node = cur' /\ requests'[q].model = m
                      /\ requests'[q].size >= Demand(cur, m)'
  BY DEF DemandRequested
<1>1. CASE UNCHANGED vars
  <2>1. Demand(cur, m)' = Demand(cur, m)
    BY <1>1, DemandUnchanged DEF vars, clusterVars, monitorVars, passVars
  <2> QED
    BY <1>1, <2>1
    DEF vars, clusterVars, monitorVars, passVars, loopVars, DemandRequested
<1>2. ASSUME NEW k \in Models, SizeModel(k)
      PROVE  \E q \in RequestIds :
               /\ requests'[q] # NoRequest
               /\ requests'[q].node = cur' /\ requests'[q].model = m
               /\ requests'[q].size >= Demand(cur, m)'
  <2>1. /\ UNCHANGED <<claims, resources, slices, infos, reds, cur>>
        /\ pc = "sizing" /\ modelsLeft' = modelsLeft \ {k}
    BY <1>2 DEF SizeModel
  <2>2. Demand(cur, m)' = Demand(cur, m)
    BY <2>1, DemandUnchanged
  <2>3. CASE m = k
    BY <1>2, <2>1, <2>2, <2>3, VisitRequests
  <2>4. CASE m # k
    <3>1. PICK q \in RequestIds :
            /\ requests[q] # NoRequest
            /\ requests[q].node = cur /\ requests[q].model = m
            /\ requests[q].size >= Demand(cur, m)
      BY <2>1, <2>2, <2>4 DEF DemandRequested
    <3>2. requests'[q] = requests[q]
      BY <1>2, <2>4, <3>1, OthersStay
    <3> QED
      BY <2>1, <2>2, <3>1, <3>2
  <2> QED
    BY <2>3, <2>4
<1>3. CASE handleDevices
  BY <1>3 DEF handleDevices
<1>4. ~Outside(Environment)
  BY MonitorAssumption DEF Outside, monitorVars, Boundaries
<1>5. CASE Reconcile
  BY <1>2, <1>3, <1>5
  DEF Reconcile, collectInfo, updateComposableResourceLastUsedTime,
      PatchComposableResourceAnnotation, AnnotationRejected, AnnotationsDone,
      handleNodes, setDevicesState, PatchRejected,
      RescheduleFailedNotification, CheckClaim, CheckLimit, LimitsDone,
      FailingDone, RescheduleNotification, MatchClaim, MatchingDone,
      SizeRefused, SizingDone, UpdateNodeLabel, FailClaim, Return, Goto,
      TypeInv, PassOK
<1> QED
  BY <1>1, <1>4, <1>5 DEF Next, PassCutShort, Return

(***************************************************************************)
(* Once handleDevices has visited a model, the node has a request for all  *)
(* devices of it that claims and pods need at that moment, however the     *)
(* cluster has moved since the pass began: while requests, resources and   *)
(* claims are seen as they are.                                            *)
(***************************************************************************)
THEOREM DemandIsRequested ==
  ASSUME "requests" \notin Lagging, "resources" \notin Lagging,
         "claims" \notin Lagging
  PROVE  Spec => []DemandRequested
<1>1. Init => TypeInv /\ DemandRequested
  BY InitType DEF Init, DemandRequested
<1>2. TypeInv /\ OneRequestPerModel /\ DemandRequested /\ [Next]_vars
        => TypeInv' /\ DemandRequested'
  BY NextType, DemandRequestedStep
<1>3. Spec => []OneRequestPerModel
  BY RequestsUnique
<1> QED
  BY <1>1, <1>2, <1>3, PTL DEF Spec

-----------------------------------------------------------------------------
(***************************************************************************)
(* Verdicts.  A pass acts on the claims it collected as Preparing, which   *)
(* carry no condition, and the conditions of a claim can only be cleared   *)
(* behind its back.  Within the pass a claim is patched a second time only *)
(* by the limits of its other models, and then with the same type.         *)
(***************************************************************************)
VerdictInv ==
  /\ \A c \in Claims : infos[c].state = "Preparing" => claims[c].cond = {}
  /\ pc = "limits" => claims[cl].cond \subseteq {"FabricDeviceFailed"}
  /\ pc = "patching" =>
       /\ claims[patch.claim].cond \subseteq {patch.type}
       /\ patch.peer # NoClaim =>
            claims[patch.peer].cond \subseteq {patch.type}
       /\ patch.next = "limits" =>
            /\ patch.claim = cl /\ patch.peer = NoClaim
            /\ patch.type = "FabricDeviceFailed"

\* Around the scaler, a verdict only disappears together with the allocation.
LEMMA EnvironmentVerdicts ==
  ASSUME ClusterTypeOK, Environment, NEW c \in Claims
  PROVE  \/ claims'[c].cond = claims[c].cond
         \/ claims'[c].cond = {} /\ ~Allocated(claims'[c])
<1>1. claims \in [Claims -> ClaimState]
  BY DEF ClusterTypeOK
<1>2. ASSUME NEW c2 \in Claims, NEW n \in Nodes, NEW pool \in SUBSET Items,
             NEW red \in SUBSET Devices, Allocate(c2, n, pool, red)
      PROVE  claims'[c].cond = claims[c].cond
  BY <1>1, <1>2 DEF Allocate, ClaimState
<1>3. ASSUME NEW c2 \in Claims, Unreserve(c2)
      PROVE  claims'[c].cond = claims[c].cond
  BY <1>1, <1>3 DEF Unreserve, ClaimState
<1>4. ASSUME NEW c2 \in Claims,
             GiveUpAllocation(c2) \/ BindingTimeout(c2) \/ DeleteClaim(c2)
      PROVE  \/ claims'[c].cond = claims[c].cond
             \/ claims'[c].cond = {} /\ ~Allocated(claims'[c])
  BY <1>1, <1>4
  DEF GiveUpAllocation, BindingTimeout, DeleteClaim, NoClaimAllocation,
      DeletedClaim, Allocated
<1> QED
  BY <1>2, <1>3, <1>4
  DEF Environment, Operator, CreateResource, DeleteResource, Attach, Detach,
      Publish, Tick, SetLimit, Sync

\* What a patch does to the conditions of the claims.
LEMMA PatchVerdicts ==
  ASSUME TypeInv, VerdictInv, "claims" \notin Lagging, setDevicesState,
         NEW c \in Claims
  PROVE  /\ c # patch.claim =>
              claims'[c].cond = claims[c].cond /\ infos'[c] = infos[c]
         /\ c = patch.claim =>
              /\ infos'[c].state # "Preparing"
              /\ claims'[c].cond \subseteq {patch.type}
              /\ claims[c].cond # {} => claims'[c].cond = claims[c].cond
<1>1. /\ claims \in [Claims -> ClaimState] /\ infos \in [Claims -> ClaimInfo]
      /\ pc = "patching" /\ patch.claim \in Claims
      /\ claims[patch.claim].cond \subseteq {patch.type}
  BY DEF setDevicesState, TypeInv, TypeOK, ClusterTypeOK, PassOK, VerdictInv
<1>2. CASE c # patch.claim
  BY <1>1, <1>2 DEF setDevicesState
<1>3. CASE c = patch.claim
  <2>1. infos'[c].state = TargetState(patch.type)
    BY <1>1, <1>3 DEF setDevicesState, ClaimInfo
  <2>2. claims'[c].cond = PatchedConditions(c, patch.type)
    BY <1>1, <1>3 DEF setDevicesState, ClaimState
  <2>3. \/ claims'[c].cond = claims[c].cond \cup {patch.type}
        \/ claims'[c].cond = claims[c].cond
    BY <2>2 DEF PatchedConditions, ClaimView
  <2> QED
    BY <1>1, <1>3, <2>1, <2>3 DEF TargetState
<1> QED
  BY <1>2, <1>3

\* One step: a patch goes to a claim that had no verdict, or repeats the one
\* it had, because memory and status agree since collectInfo.
LEMMA VerdictStep ==
  ASSUME TypeInv, VerdictInv, "claims" \notin Lagging, [Next]_vars
  PROVE  VerdictInv'
<1>1. CASE Outside(Environment)
  <2>1. \A c \in Claims : claims'[c].cond \in {claims[c].cond, {}}
    BY <1>1, EnvironmentVerdicts DEF Outside, TypeInv, TypeOK
  <2>2. UNCHANGED <<pc, infos, cl, patch>>
    BY <1>1 DEF Outside, monitorVars, passVars, loopVars
  <2>3. patch.peer \in Claims \cup {NoClaim}
    BY DEF TypeInv, TypeOK
  <2> QED
    BY <2>1, <2>2, <2>3 DEF VerdictInv, TypeInv, PassOK
<1>2. CASE Return /\ UNCHANGED clusterVars
  BY <1>2 DEF Return, NoInfos, NoInfo, VerdictInv
<1>3. CASE collectInfo
  <2>1. \A c \in Claims : claims[c].cond \in SUBSET Verdicts
    BY DEF TypeInv, TypeOK, ClusterTypeOK, ClaimState
  <2>2. \A c \in Claims :
          infos'[c].state = "Preparing" => claims[c].cond = {}
    BY <1>3, <2>1
    DEF collectInfo, ClaimView, GetResourceClaimInfo, NoInfo, Verdicts
  <2> QED
    BY <1>3, <2>2 DEF collectInfo, Goto, clusterVars, VerdictInv
<1>4. CASE setDevicesState
  <2>1. /\ pc = "patching" /\ patch.claim \in Claims
        /\ patch.peer \in Claims \cup {NoClaim}
        /\ patch.next \in {"failing", "limits", "annotating"}
    BY <1>4 DEF setDevicesState, TypeInv, TypeOK, PassOK
  <2>2. \A c \in Claims : infos'[c].state = "Preparing" => claims'[c].cond = {}
    BY <1>4, PatchVerdicts DEF VerdictInv
  <2>3. CASE patch.peer = NoClaim
    BY <1>4, <2>1, <2>2, <2>3, PatchVerdicts
    DEF setDevicesState, Goto, VerdictInv
  <2>4. CASE patch.peer # NoClaim
    <3>1. /\ pc' = "patching" /\ patch' = [patch EXCEPT !.claim = patch.peer,
                                                       !.peer = NoClaim]
      BY <1>4, <2>1, <2>4 DEF setDevicesState, Goto
    <3>2. /\ patch'.claim = patch.peer /\ patch'.peer = NoClaim
          /\ patch'.type = patch.type /\ patch'.next = patch.next
      BY <3>1 DEF TypeInv, TypeOK
    <3>3. claims'[patch.peer].cond \subseteq {patch.type}
      BY <1>4, <2>1, <2>4, PatchVerdicts DEF VerdictInv
    <3> QED
      BY <2>1, <2>2, <2>4, <3>1, <3>2, <3>3 DEF VerdictInv
  <2> QED
    BY <2>3, <2>4
<1>5. ASSUME NEW c \in Claims, CheckClaim(c)
      PROVE  VerdictInv'
  <2>1. UNCHANGED <<claims, infos>>
    BY <1>5 DEF CheckClaim, clusterVars
  <2>2. CASE infos[c].state # "Preparing"
    BY <1>5, <2>1, <2>2 DEF CheckClaim, Goto, VerdictInv
  <2>3. ASSUME NEW peer \in Claims \cup {NoClaim}, infos[c].state = "Preparing",
               peer # NoClaim => infos[peer].state = "Preparing",
               FailClaim(c, peer, "failing")
        PROVE  VerdictInv'
    BY <2>1, <2>3, FailClaimType DEF VerdictInv
  <2>4. CASE infos[c].state = "Preparing" /\ Goto("limits") /\ cl' = c
    BY <2>1, <2>4 DEF Goto, VerdictInv
  <2>5. \A i : Newest(ConflictingPeers(c, i))
                \subseteq {c2 \in Claims : infos[c2].state = "Preparing"}
    BY DEF Newest, ConflictingPeers, NodeClaims
  <2> QED
    BY <1>5, <2>2, <2>3, <2>4, <2>5 DEF CheckClaim
<1>6. ASSUME NEW m \in Models, CheckLimit(m)
      PROVE  VerdictInv'
  <2>1. UNCHANGED <<claims, infos, cl>> /\ pc = "limits" /\ cl \in Claims
    BY <1>6 DEF CheckLimit, clusterVars, TypeInv, PassOK
  <2>2. CASE FailClaim(cl, NoClaim, "limits")
    BY <2>1, <2>2, FailClaimType DEF VerdictInv
  <2>3. CASE Goto(pc) /\ UNCHANGED patch
    BY <2>1, <2>3 DEF Goto, VerdictInv
  <2> QED
    BY <1>6, <2>2, <2>3 DEF CheckLimit
<1>7. ASSUME NEW c \in Claims, MatchClaim(c)
      PROVE  VerdictInv'
  BY <1>7 DEF MatchClaim, Goto, clusterVars, VerdictInv
<1>8. CASE /\ UNCHANGED <<claims, infos>>
           /\ pc' \notin {"limits", "patching"}
  BY <1>8 DEF VerdictInv
<1>9. CASE UNCHANGED vars
  BY <1>9
  DEF vars, clusterVars, monitorVars, passVars, loopVars, VerdictInv
<1>10. CASE Reconcile
  BY <1>2, <1>3, <1>4, <1>5, <1>6, <1>7, <1>8, <1>10
  DEF Reconcile, updateComposableResourceLastUsedTime,
      PatchComposableResourceAnnotation, AnnotationRejected, AnnotationsDone,
      handleNodes, PatchRejected, RescheduleFailedNotification, LimitsDone,
      FailingDone, RescheduleNotification, MatchingDone, handleDevices,
      SizeModel, SizeRefused, SizingDone, UpdateNodeLabel, Goto, clusterVars,
      passVars
<1> QED
  BY <1>1, <1>2, <1>9, <1>10 DEF Next, PassCutShort

(***************************************************************************)
(* While the cache of claims is up to date, a verdict is final: no phase   *)
(* of any later pass adds the other condition or takes the one given back. *)
(***************************************************************************)
THEOREM VerdictsAreFinal ==
  ASSUME "claims" \notin Lagging
  PROVE  Spec => VerdictFinal
<1>1. Init => TypeInv /\ VerdictInv
  BY InitType DEF Init, NoInfos, NoInfo, VerdictInv
<1>2. TypeInv /\ VerdictInv /\ [Next]_vars => TypeInv' /\ VerdictInv'
  BY NextType, VerdictStep
<1>3. TypeInv /\ VerdictInv /\ [Next]_vars =>
        [\A c \in Claims :
           claims[c].cond # {} => \/ claims'[c].cond = claims[c].cond
                                 \/ ~Allocated(claims'[c])]_vars
  <2> SUFFICES ASSUME TypeInv, VerdictInv, [Next]_vars, NEW c \in Claims,
                      claims[c].cond # {}
               PROVE  \/ claims'[c].cond = claims[c].cond
                      \/ ~Allocated(claims'[c])
    OBVIOUS
  <2>1. CASE Outside(Environment)
    BY <2>1, EnvironmentVerdicts DEF Outside, TypeInv, TypeOK
  <2>2. CASE setDevicesState
    BY <2>2, PatchVerdicts
  <2>3. CASE claims' = claims
    BY <2>3
  <2>4. CASE Reconcile
    BY <2>2, <2>3, <2>4
    DEF Reconcile, collectInfo, updateComposableResourceLastUsedTime,
        PatchComposableResourceAnnotation, AnnotationRejected,
        AnnotationsDone, handleNodes, PatchRejected,
        RescheduleFailedNotification, CheckClaim, CheckLimit, LimitsDone,
        FailingDone, RescheduleNotification, MatchClaim, MatchingDone,
        handleDevices, SizeModel, SizeRefused, SizingDone, UpdateNodeLabel,
        clusterVars
  <2> QED
    BY <2>1, <2>3, <2>4 DEF Next, PassCutShort, vars, clusterVars
<1> QED
  BY <1>1, <1>2, <1>3, PTL DEF Spec, VerdictFinal

-----------------------------------------------------------------------------
(***************************************************************************)
(* Sizes.  A pass works with limits some labels had when it began, and a   *)
(* size comes from them or from a size that was seen before, which may be  *)
(* an outdated one: what the cache holds has to be within limits as well.  *)
(***************************************************************************)
LimitsSeen ==
  /\ limits \in [Nodes -> [Models -> LimitChoices]]
  /\ pc # "idle" => lims \in [Nodes -> [Models -> LimitChoices]]

Allowed(size) ==
  \E l \in LimitChoices :
    size <= Larger(GetModelLimit(l).max, GetModelLimit(l).min)

SizesInv ==
  /\ LimitsSeen
  /\ \A q \in RequestIds : requests[q] # NoRequest => Allowed(requests[q].size)
  /\ \A q \in RequestIds :
       cache.requests[q] # NoRequest => Allowed(cache.requests[q].size)

\* The limits of the pass are the labels of the moment it collected them.
LEMMA LimitsSeenStep ==
  ASSUME TypeInv, LimitsSeen, [Next]_vars
  PROVE  LimitsSeen'
<1>1. CASE Outside(Environment)
  <2>1. UNCHANGED <<pc, lims>>
    BY <1>1 DEF Outside, monitorVars, passVars
  <2>2. ASSUME NEW n \in Nodes, NEW m \in Models, NEW l \in LimitChoices,
               SetLimit(n, m, l)
        PROVE  limits' \in [Nodes -> [Models -> LimitChoices]]
    BY <2>2 DEF SetLimit, LimitsSeen
  <2>3. \/ limits' = limits
        \/ \E n \in Nodes, m \in Models, l \in LimitChoices : SetLimit(n, m, l)
    BY <1>1
    DEF Outside, Environment, Operator, Allocate, GiveUpAllocation,
        BindingTimeout, Unreserve, DeleteClaim, CreateResource,
        DeleteResource, Attach, Detach, Publish, Tick, Sync
  <2> QED
    BY <2>1, <2>2, <2>3 DEF LimitsSeen
<1>2. CASE Return /\ limits' = limits
  BY <1>2 DEF Return, LimitsSeen
<1>3. CASE /\ limits' = limits
           /\ lims' = limits \/ (lims' = lims /\ pc # "idle")
  BY <1>3 DEF LimitsSeen
<1>4. CASE UNCHANGED vars
  BY <1>4 DEF vars, clusterVars, monitorVars, passVars, LimitsSeen
<1>5. CASE Reconcile
  BY <1>2, <1>3, <1>5
  DEF Reconcile, collectInfo, updateComposableResourceLastUsedTime,
      PatchComposableResourceAnnotation, AnnotationRejected, AnnotationsDone,
      handleNodes, setDevicesState, PatchRejected,
      RescheduleFailedNotification, CheckClaim, CheckLimit, LimitsDone,
      FailingDone, RescheduleNotification, MatchClaim, MatchingDone,
      handleDevices, SizeModel, SizeRefused, SizingDone, UpdateNodeLabel,
      clusterVars, passVars
<1> QED
  BY <1>1, <1>2, <1>4, <1>5 DEF Next, PassCutShort, clusterVars

\* The cache of requests changes by becoming what the requests are.
LEMMA CacheStep ==
  ASSUME TypeInv, [Next]_vars
  PROVE  cache'.requests \in {cache.requests, requests}
<1>1. CASE cache' = cache
  BY <1>1
<1>2. ASSUME NEW kind \in Kinds, Sync(kind)
      PROVE  cache'.requests \in {cache.requests, requests}
  BY <1>2 DEF Sync, Snapshot, Kinds, TypeInv, TypeOK, ClusterTypeOK
<1>3. CASE Outside(Environment)
  <2>1. CASE Operator
    BY <1>1, <2>1
    DEF Operator, CreateResource, DeleteResource, Attach, Detach, NoResource
  <2>2. CASE \E c \in Claims : \/ GiveUpAllocation(c) \/ BindingTimeout(c)
                               \/ Unreserve(c) \/ DeleteClaim(c)
    BY <1>1, <2>2
    DEF GiveUpAllocation, BindingTimeout, Unreserve, DeleteClaim
  <2>3. CASE \E n \in Nodes, m \in Models, l \in LimitChoices :
               SetLimit(n, m, l)
    BY <1>1, <2>3 DEF SetLimit
  <2>4. CASE \E d \in Devices : Publish(d)
    BY <1>1, <2>4 DEF Publish
  <2>5. CASE \E c \in Claims, n \in Nodes, pool \in SUBSET Items,
                red \in SUBSET Devices : Allocate(c, n, pool, red)
    BY <1>1, <2>5 DEF Allocate
  <2>6. CASE Tick
    BY <2>6 DEF Tick, TypeInv, TypeOK, ClusterTypeOK
  <2> QED
    BY <1>2, <1>3, <2>1, <2>2, <2>3, <2>4, <2>5, <2>6
    DEF Outside, Environment
<1>4. CASE Reconcile
  BY <1>1, <1>4
  DEF Reconcile, collectInfo, updateComposableResourceLastUsedTime,
      PatchComposableResourceAnnotation, AnnotationRejected, AnnotationsDone,
      handleNodes, setDevicesState, PatchRejected,
      RescheduleFailedNotification, CheckClaim, CheckLimit, LimitsDone,
      FailingDone, RescheduleNotification, MatchClaim, MatchingDone,
      handleDevices, SizeModel, SizeRefused, SizingDone, UpdateNodeLabel,
      clusterVars
<1> QED
  BY <1>1, <1>3, <1>4 DEF Next, PassCutShort, vars, clusterVars

\* What SizeModel writes is within the limits it looked up, or less than the
\* size it saw.
LEMMA SizeModelAllowed ==
  ASSUME TypeInv, SizesInv, NEW m \in Models, SizeModel(m),
         NEW q \in RequestIds, requests'[q] # NoRequest
  PROVE  Allowed(requests'[q].size)
<1>1. requests \in [RequestIds -> RequestState \cup {NoRequest}]
  BY DEF TypeInv, TypeOK, ClusterTypeOK
<1>2. pc = "sizing" /\ cur \in Nodes
  BY DEF SizeModel, TypeInv, PassOK, NodePhases, PhaseNames
<1>3. lims[cur][m] \in LimitChoices
  BY <1>2 DEF SizesInv, LimitsSeen
<1>4. /\ WantedSize(m) \in Int
      /\ getNextSize(WantedSize(m), cur) \in Int
  BY <1>2, SizeType DEF WantedSize, GetModelLimit, Larger, TypeInv
<1>5. Allowed(WantedSize(m))
  <2>1. WantedSize(m) <= Larger(GetModelLimit(lims[cur][m]).max,
                                GetModelLimit(lims[cur][m]).min)
    <3>1. /\ GetConfiguredDeviceCount(m, cur) \in Nat
          /\ GetModelLimit(lims[cur][m]).max \in Int
          /\ GetModelLimit(lims[cur][m]).min \in Int
      BY <1>2, SizeType DEF TypeInv, GetModelLimit, defaultMaxDevice
    <3>2. ~(GetConfiguredDeviceCount(m, cur)
              > GetModelLimit(lims[cur][m]).max)
      BY DEF SizeModel, OverLimit
    <3> QED
      BY <3>1, <3>2 DEF WantedSize, Larger
  <2> QED
    BY <1>3, <2>1 DEF Allowed
<1>6. CASE UNCHANGED requests
  BY <1>6 DEF SizesInv
<1>7. ASSUME NEW r \in RequestsFor(m, cur), NEW count, Allowed(count),
             PatchComposabilityRequestSize(r, count)
      PROVE  Allowed(requests'[q].size)
  <2>1. r \in RequestIds /\ requests[r] \in RequestState
    BY <1>1 DEF RequestsFor, RequestView, TypeInv, RequestsRemain
  <2>2. /\ requests'[r].size = count
        /\ q # r => requests'[q] = requests[q]
    BY <1>1, <1>7, <2>1 DEF PatchComposabilityRequestSize, RequestState
  <2> QED
    BY <1>7, <2>2 DEF SizesInv
<1>8. CASE createNewComposabilityRequestCR(m, WantedSize(m))
  <2>1. PICK r \in RequestIds :
          requests' = [requests EXCEPT ![r] =
                         [model |-> m, node |-> cur, size |-> WantedSize(m)]]
    BY <1>8 DEF createNewComposabilityRequestCR
  <2>2. \/ requests'[q].size = WantedSize(m)
        \/ requests'[q] = requests[q]
    BY <1>1, <2>1
  <2> QED
    BY <1>5, <2>2 DEF SizesInv
<1>9. ASSUME NEW r \in RequestsFor(m, cur), AdjustRequest(m, r)
      PROVE  Allowed(requests'[q].size)
  <2>1. /\ RequestView[r].size \in Int
        /\ Allowed(RequestView[r].size)
    BY ViewType
    DEF TypeInv, TypeOK, RequestsFor, RequestState, RequestView, SizesInv
  <2>2. \A l \in LimitChoices :
          Larger(GetModelLimit(l).max, GetModelLimit(l).min) \in Int
    BY DevicesAssumption
    DEF Larger, GetModelLimit, ModelConstraints, defaultMaxDevice
  <2>3. getNextSize(WantedSize(m), cur) < RequestView[r].size
          => Allowed(getNextSize(WantedSize(m), cur))
    BY <1>4, <2>1, <2>2 DEF Allowed
  <2> QED
    BY <1>5, <1>6, <1>7, <1>9, <2>3 DEF AdjustRequest, DynamicDetach
<1> QED
  BY <1>6, <1>8, <1>9 DEF SizeModel

\* The first labels are within the choices, and nothing is requested yet.
LEMMA InitSizes == Init => SizesInv
<1>1. ASSUME Init
      PROVE  LimitsSeen
  BY <1>1 DEF Init, ClusterInit, LimitsSeen
<1>2. ASSUME Init, NEW q \in RequestIds
      PROVE  requests[q] = NoRequest /\ cache.requests[q] = NoRequest
  BY <1>2 DEF Init, ClusterInit, Snapshot
<1> QED
  BY <1>1, <1>2 DEF SizesInv

\* Every step keeps the sizes, those in the cache too, within the limits.
LEMMA SizesStep ==
  ASSUME TypeInv, SizesInv, [Next]_vars
  PROVE  SizesInv'
<1>1. LimitsSeen'
  BY LimitsSeenStep DEF SizesInv
<1>2. \A q \in RequestIds :
        requests'[q] # NoRequest => Allowed(requests'[q].size)
  <2>1. CASE requests' = requests
    BY <2>1 DEF SizesInv
  <2>2. CASE requests' # requests
    BY <2>2, OnlySizeModelWrites, SizeModelAllowed
  <2> QED
    BY <2>1, <2>2
<1>3. \A q \in RequestIds :
        cache'.requests[q] # NoRequest => Allowed(cache'.requests[q].size)
  BY CacheStep DEF SizesInv
<1> QED
  BY <1>1, <1>2, <1>3 DEF SizesInv, Allowed

(***************************************************************************)
(* No request ever asks for more than the larger of a maximum and a        *)
(* minimum that some label allowed, with caches that lag as they like, and *)
(* although devices are taken between the check of a limit and the count   *)
(* that is written.                                                        *)
(***************************************************************************)
THEOREM SizesLimited == Spec => []SizesWithinLimits
<1>1. Init => TypeInv /\ SizesInv
  BY InitType, InitSizes
<1>2. TypeInv /\ SizesInv /\ [Next]_vars => TypeInv' /\ SizesInv'
  BY NextType, SizesStep
<1>3. SizesInv => SizesWithinLimits
  BY DEF SizesInv, Allowed, SizesWithinLimits
<1> QED
  BY <1>1, <1>2, <1>3, PTL DEF Spec

=============================================================================
