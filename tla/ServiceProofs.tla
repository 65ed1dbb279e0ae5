--------------------------- MODULE ServiceProofs ----------------------------
(***************************************************************************)
(* ResourceMonitor implements ScalerService, for every value of the        *)
(* constants: while the caches of claims and requests are up to date,      *)
(* every step of a pass and every move of the cluster is a step of the     *)
(* service or none at all.                                                 *)
(***************************************************************************)
EXTENDS ResourceMonitorProofs

LifeOf == [c \in Claims |-> Life(claims[c])]

(***************************************************************************)
(* Claims never carry both verdicts, and a claim without an allocation,    *)
(* deleted ones among them, carries none: the conditions a scheduler finds *)
(* on a new allocation are not left over from the one before.              *)
(***************************************************************************)
ClaimsInv ==
  \A c \in Claims :
    /\ claims[c].cond # Verdicts
    /\ ~Allocated(claims[c]) => claims[c].cond = {}
    /\ ~claims[c].exists => ~Allocated(claims[c])

\* No request asks for fewer than no devices.
SizesNat ==
  \A q \in RequestIds : requests[q] # NoRequest => requests[q].size >= 0

ServiceInv ==
  TypeInv /\ VerdictInv /\ SizesInv /\ ClaimsInv /\ SizesNat

-----------------------------------------------------------------------------

\* What the life of a claim in the abstract view says about the claim.
LEMMA LifeCases ==
  ASSUME NEW claim \in ClaimState
  PROVE  /\ ~claim.exists /\ ~Allocated(claim) => Life(claim) = "gone"
         /\ claim.exists /\ ~Allocated(claim) => Life(claim) = "free"
         /\ claim.exists /\ claim.pool = {} /\ claim.red # {}
              => Life(claim) = "bound"
         /\ claim.exists /\ claim.pool # {} /\ claim.cond = {}
              => Life(claim) = "waiting"
         /\ claim.exists /\ claim.pool # {}
              /\ claim.cond = {"FabricDeviceFailed"} => Life(claim) = "failed"
         /\ claim.exists /\ claim.pool # {}
              /\ claim.cond = {"FabricDeviceReschedule"}
              => Life(claim) = "reschedule"
BY DEF Life, Allocated, ClaimState

\* The step of one claim, in the abstract view.
LEMMA LifeBecomes ==
  ASSUME NEW c \in Claims,
         \A c2 \in Claims \ {c} : Life(claims'[c2]) = Life(claims[c2])
  PROVE  LifeOf' = [LifeOf EXCEPT ![c] = Life(claims'[c])]
BY DEF LifeOf

(***************************************************************************)
(* The claims.  A patch only adds to the conditions of an allocated claim, *)
(* and the type it adds is the one the claim has, if it has any.           *)
(***************************************************************************)
LEMMA PatchedClaim ==
  ASSUME TypeInv, VerdictInv, ClaimsInv, "claims" \notin Lagging,
         setDevicesState, NEW c, c = patch.claim
  PROVE  /\ c \in Claims /\ claims[c] \in ClaimState /\ claims[c].exists
         /\ claims'[c] \in ClaimState
         /\ claims'[c].exists
         /\ claims'[c].pool = claims[c].pool /\ claims'[c].red = claims[c].red
         /\ ~Allocated(claims[c]) => claims'[c].cond = claims[c].cond
         /\ Allocated(claims[c]) => \E t \in Verdicts : claims'[c].cond = {t}
         /\ claims[c].cond # {} => claims'[c].cond = claims[c].cond
         /\ \A c2 \in Claims \ {c} : claims'[c2] = claims[c2]
<1>1. /\ claims \in [Claims -> ClaimState]
      /\ c \in Claims /\ patch.type \in Verdicts
      /\ claims[c].cond \subseteq {patch.type}
  BY DEF setDevicesState, TypeInv, TypeOK, ClusterTypeOK, PassOK, VerdictInv
<1>2. claims[c] \in ClaimState
  BY <1>1
<1>3. claims[c].exists
  BY DEF setDevicesState, PatchAccepted, ClaimView
<1>4. claims' = [claims EXCEPT ![c] =
                   [@ EXCEPT !.cond = PatchedConditions(c, patch.type)]]
  BY DEF setDevicesState
<1>5. PatchedConditions(c, patch.type) =
        IF Allocated(claims[c]) THEN claims[c].cond \cup {patch.type}
        ELSE claims[c].cond
  BY DEF PatchedConditions, ClaimView
<1>6. PatchedConditions(c, patch.type) \in SUBSET Verdicts
  BY <1>1, <1>2, <1>5 DEF ClaimState
<1>7. /\ claims'[c] \in ClaimState
      /\ claims'[c].exists = claims[c].exists
      /\ claims'[c].pool = claims[c].pool /\ claims'[c].red = claims[c].red
      /\ claims'[c].cond = PatchedConditions(c, patch.type)
      /\ \A c2 \in Claims \ {c} : claims'[c2] = claims[c2]
  BY <1>1, <1>2, <1>4, <1>6 DEF ClaimState
<1>8. Allocated(claims[c]) => claims'[c].cond = {patch.type}
  BY <1>1, <1>5, <1>7
<1>9. ~Allocated(claims[c]) => claims'[c].cond = claims[c].cond
  BY <1>5, <1>7
<1>10. claims[c].cond # {} => claims'[c].cond = claims[c].cond
  BY <1>1, <1>8, <1>9
<1> QED
  BY <1>1, <1>2, <1>3, <1>7, <1>8, <1>9, <1>10

\* One move of a claim that the scheduler or its pod makes.
ClaimMove(c) ==
  \/ \E n \in Nodes, pool \in SUBSET Items, red \in SUBSET Devices :
       Allocate(c, n, pool, red)
  \/ GiveUpAllocation(c) \/ BindingTimeout(c)
  \/ Unreserve(c) \/ DeleteClaim(c)

\* Claims change by such a move or by a patch, and by nothing else.
LEMMA ClaimWriters ==
  ASSUME [Next]_vars, claims' # claims
  PROVE  setDevicesState \/ \E c \in Claims : ClaimMove(c)
<1>1. CASE Outside(Environment)
  BY <1>1
  DEF Outside, Environment, Operator, CreateResource, DeleteResource, Attach,
      Detach, Publish, Tick, SetLimit, Sync, ClaimMove
<1>2. ~(UNCHANGED clusterVars)
  BY DEF clusterVars
<1>3. CASE Reconcile
  BY <1>2, <1>3
  DEF Reconcile, collectInfo, updateComposableResourceLastUsedTime,
      PatchComposableResourceAnnotation, AnnotationRejected, AnnotationsDone,
      handleNodes, PatchRejected, RescheduleFailedNotification, CheckClaim,
      CheckLimit, LimitsDone, FailingDone, RescheduleNotification, MatchClaim,
      MatchingDone, handleDevices, SizeModel, SizeRefused, SizingDone,
      UpdateNodeLabel
<1> QED
  BY <1>1, <1>2, <1>3 DEF Next, PassCutShort, vars

\* What such a move does to the claim, and that it leaves the others alone.
LEMMA MovedClaim ==
  ASSUME TypeInv, NEW c \in Claims, ClaimMove(c)
  PROVE  /\ claims[c] \in ClaimState /\ claims'[c] \in ClaimState
         /\ \A c2 \in Claims \ {c} : claims'[c2] = claims[c2]
         /\ \/ /\ claims[c].exists /\ ~Allocated(claims[c])
               /\ claims'[c].exists /\ claims'[c].cond = claims[c].cond
            \/ claims[c].pool # {} /\ claims'[c] = NoClaimAllocation
            \/ /\ claims'[c].exists = claims[c].exists
               /\ claims'[c].pool = claims[c].pool
               /\ claims'[c].red = claims[c].red
               /\ claims'[c].cond = claims[c].cond
            \/ claims[c].exists /\ claims'[c] = DeletedClaim
<1>1. claims \in [Claims -> ClaimState] /\ claims[c] \in ClaimState
  BY DEF TypeInv, TypeOK, ClusterTypeOK
<1>2. NoClaimAllocation \in ClaimState /\ DeletedClaim \in ClaimState
  BY DEF ClaimState, NoClaimAllocation, DeletedClaim
<1>3. ASSUME NEW n \in Nodes, NEW pool \in SUBSET Items,
             NEW red \in SUBSET Devices, Allocate(c, n, pool, red)
      PROVE  /\ claims'[c] \in ClaimState
             /\ \A c2 \in Claims \ {c} : claims'[c2] = claims[c2]
             /\ claims[c].exists /\ ~Allocated(claims[c])
             /\ claims'[c].exists /\ claims'[c].cond = claims[c].cond
  <2>1. claims'[c] = [claims[c] EXCEPT !.reserved = TRUE, !.node = n,
                                       !.pool = pool, !.red = red]
    BY <1>1, <1>3 DEF Allocate
  <2> QED
    BY <1>1, <1>3, <2>1 DEF Allocate, ClaimState
<1>4. CASE Unreserve(c)
  <2>1. claims'[c] = [claims[c] EXCEPT !.reserved = FALSE]
    BY <1>1, <1>4 DEF Unreserve
  <2> QED
    BY <1>1, <1>4, <2>1 DEF Unreserve, ClaimState
<1>5. CASE GiveUpAllocation(c) \/ BindingTimeout(c)
  BY <1>1, <1>2, <1>5 DEF GiveUpAllocation, BindingTimeout
<1>6. CASE DeleteClaim(c)
  BY <1>1, <1>2, <1>6 DEF DeleteClaim
<1> QED
  BY <1>1, <1>3, <1>4, <1>5, <1>6 DEF ClaimMove

\* Verdicts go with the allocation they were given for.
LEMMA ClaimsStep ==
  ASSUME TypeInv, VerdictInv, ClaimsInv, "claims" \notin Lagging, [Next]_vars
  PROVE  ClaimsInv'
<1>1. CASE claims' = claims
  BY <1>1 DEF ClaimsInv, Allocated
<1>2. CASE setDevicesState
  <2>1. PICK c : c = patch.claim
    OBVIOUS
  <2>2. ASSUME NEW t \in Verdicts
        PROVE  {t} # Verdicts
    BY DEF Verdicts
  <2> QED
    BY <1>2, <2>1, <2>2, PatchedClaim DEF ClaimsInv, Allocated
<1>3. ASSUME NEW c \in Claims, ClaimMove(c)
      PROVE  ClaimsInv'
  <2>1. /\ NoClaimAllocation.cond = {} /\ NoClaimAllocation.exists
        /\ ~Allocated(NoClaimAllocation)
        /\ DeletedClaim.cond = {} /\ ~Allocated(DeletedClaim)
    BY DEF NoClaimAllocation, DeletedClaim, Allocated
  <2>2. {} # Verdicts
    BY DEF Verdicts
  <2> QED
    BY <1>3, <2>1, <2>2, MovedClaim DEF ClaimsInv, Allocated
<1> QED
  BY <1>1, <1>2, <1>3, ClaimWriters

\* In the abstract view the claims stand still, or one of them takes a step
\* of its life.
LEMMA LifeStep ==
  ASSUME TypeInv, VerdictInv, ClaimsInv, "claims" \notin Lagging, [Next]_vars
  PROVE  \/ LifeOf' = LifeOf
         \/ \E c \in Claims, l \in {"gone", "free", "bound", "waiting",
                                    "failed", "reschedule"} :
              /\ LifeOf' = [LifeOf EXCEPT ![c] = l]
              /\ \/ LifeOf[c] = "free" /\ l \in {"bound", "waiting"}
                 \/ /\ LifeOf[c] \in {"bound", "waiting", "failed",
                                      "reschedule"}
                    /\ l = "free"
                 \/ LifeOf[c] # "gone" /\ l = "gone"
                 \/ LifeOf[c] = "waiting" /\ l \in {"failed", "reschedule"}
<1>0. claims \in [Claims -> ClaimState]
  BY DEF TypeInv, TypeOK, ClusterTypeOK
<1>1. \A c \in Claims : LifeOf[c] = Life(claims[c])
  BY DEF LifeOf
<1>2. CASE claims' = claims
  BY <1>2 DEF LifeOf, Life, Allocated
<1>3. CASE setDevicesState
  <2>1. PICK c : c = patch.claim
    OBVIOUS
  <2>2. LifeOf' = [LifeOf EXCEPT ![c] = Life(claims'[c])] /\ c \in Claims
    BY <1>3, <2>1, PatchedClaim, LifeBecomes
  <2>3. CASE Allocated(claims[c]) /\ claims[c].cond = {} /\ claims[c].pool # {}
    <3>1. Life(claims[c]) = "waiting"
      BY <1>3, <2>1, <2>3, PatchedClaim, LifeCases
    <3>2. Life(claims'[c]) \in {"failed", "reschedule"}
      BY <1>3, <2>1, <2>3, PatchedClaim, LifeCases DEF Verdicts
    <3> QED
      BY <1>1, <2>2, <3>1, <3>2
  <2>4. CASE claims[c].pool = {} \/ claims[c].cond # {} \/ ~Allocated(claims[c])
    <3>1. Life(claims'[c]) = Life(claims[c])
      <4>1. CASE claims'[c].cond = claims[c].cond
        BY <1>3, <2>1, <4>1, PatchedClaim DEF Life, Allocated
      <4>2. CASE Allocated(claims[c]) /\ claims[c].pool = {}
        BY <1>3, <2>1, <4>2, PatchedClaim, LifeCases DEF Allocated
      <4> QED
        BY <1>3, <2>1, <2>4, <4>1, <4>2, PatchedClaim
    <3>2. LifeOf' = LifeOf
      BY <2>2, <3>1 DEF LifeOf
    <3> QED
      BY <3>2
  <2> QED
    BY <2>3, <2>4
<1>4. ASSUME NEW c \in Claims, ClaimMove(c)
      PROVE  \/ LifeOf' = LifeOf
             \/ \E l \in {"gone", "free", "bound", "waiting"} :
                  /\ LifeOf' = [LifeOf EXCEPT ![c] = l]
                  /\ \/ LifeOf[c] = "free" /\ l \in {"bound", "waiting"}
                     \/ /\ LifeOf[c] \in {"bound", "waiting", "failed",
                                          "reschedule"}
                        /\ l = "free"
                     \/ LifeOf[c] # "gone" /\ l = "gone"
  <2>1. LifeOf' = [LifeOf EXCEPT ![c] = Life(claims'[c])]
    BY <1>4, MovedClaim, LifeBecomes
  <2>2. claims[c] \in ClaimState /\ claims'[c] \in ClaimState
    BY <1>4, MovedClaim
  <2>3. CASE /\ claims[c].exists /\ ~Allocated(claims[c])
             /\ claims'[c].exists /\ claims'[c].cond = claims[c].cond
    <3>1. LifeOf[c] = "free" /\ claims'[c].cond = {}
      BY <1>1, <2>2, <2>3, LifeCases DEF ClaimsInv
    <3>2. Life(claims'[c]) \in {"free", "bound", "waiting"}
      BY <2>2, <2>3, <3>1, LifeCases DEF Allocated
    <3>3. Life(claims'[c]) = "free" => LifeOf' = LifeOf
      BY <2>1, <3>1 DEF LifeOf
    <3> QED
      BY <2>1, <3>1, <3>2, <3>3
  <2>4. CASE claims[c].pool # {} /\ claims'[c] = NoClaimAllocation
    <3>1. Life(claims'[c]) = "free"
      BY <2>2, <2>4, LifeCases DEF NoClaimAllocation, Allocated
    <3>2. claims[c].exists /\ claims[c].cond # Verdicts
      BY <2>4 DEF ClaimsInv, Allocated
    <3>3. \/ claims[c].cond = {}
          \/ claims[c].cond = {"FabricDeviceFailed"}
          \/ claims[c].cond = {"FabricDeviceReschedule"}
      BY <2>2, <3>2 DEF ClaimState, Verdicts
    <3>4. LifeOf[c] \in {"waiting", "failed", "reschedule"}
      BY <1>1, <2>2, <2>4, <3>2, <3>3, LifeCases
    <3> QED
      BY <2>1, <3>1, <3>4
  <2>5. CASE /\ claims'[c].exists = claims[c].exists
             /\ claims'[c].pool = claims[c].pool
             /\ claims'[c].red = claims[c].red
             /\ claims'[c].cond = claims[c].cond
    <3>1. Life(claims'[c]) = Life(claims[c])
      BY <2>5 DEF Life, Allocated
    <3> QED
      BY <2>1, <3>1 DEF LifeOf
  <2>6. CASE claims[c].exists /\ claims'[c] = DeletedClaim
    <3>1. Life(claims'[c]) = "gone"
      BY <2>2, <2>6, LifeCases DEF DeletedClaim, NoClaimAllocation, Allocated
    <3>2. Life(claims[c]) # "gone"
      BY <2>2, <2>6 DEF Life, ClaimState
    <3> QED
      BY <1>1, <2>1, <3>1, <3>2
  <2> QED
    BY <1>4, <2>3, <2>4, <2>5, <2>6, MovedClaim
<1> QED
  BY <1>2, <1>3, <1>4, ClaimWriters

-----------------------------------------------------------------------------
(***************************************************************************)
(* The requests.                                                           *)
(***************************************************************************)

\* A size that is within the limits and not negative is one of the sizes.
LEMMA SizeAllowed ==
  ASSUME NEW size \in Int, size >= 0, Allowed(size)
  PROVE  size \in AllowedSizes
<1>1. PICK l \in LimitChoices :
        size <= Larger(GetModelLimit(l).max, GetModelLimit(l).min)
  BY DEF Allowed
<1>2. Larger(GetModelLimit(l).max, GetModelLimit(l).min) \in Int
  BY DevicesAssumption
  DEF Larger, GetModelLimit, ModelConstraints, defaultMaxDevice
<1>3. size \in 0..Larger(GetModelLimit(l).max, GetModelLimit(l).min)
  BY <1>1, <1>2
<1> QED
  BY <1>3 DEF AllowedSizes

\* A pass changes the size of one request, to one the limits allow, or asks
\* for a model on a node for which nothing was asked so far.
LEMMA RequestStep ==
  ASSUME TypeInv, SizesInv, SizesNat, "requests" \notin Lagging,
         NEW m \in Models, SizeModel(m)
  PROVE  /\ SizesNat'
         /\ \/ requests' = requests
            \/ \E q \in RequestIds, s \in AllowedSizes :
                 /\ requests[q] # NoRequest
                 /\ requests' = [requests EXCEPT ![q].size = s]
            \/ \E q \in RequestIds, s \in AllowedSizes :
                 /\ requests[q] = NoRequest
                 /\ \A r \in RequestIds : requests[r] # NoRequest =>
                      requests[r].model # m \/ requests[r].node # cur
                 /\ requests' = [requests EXCEPT ![q] =
                       [model |-> m, node |-> cur, size |-> s]]
<1>1. requests \in [RequestIds -> RequestState \cup {NoRequest}]
  BY DEF TypeInv, TypeOK, ClusterTypeOK
<1>2. pc = "sizing" /\ cur \in Nodes
  BY DEF SizeModel, TypeInv, PassOK, NodePhases, PhaseNames
<1>3. WantedSize(m) \in Nat
  BY <1>2, SizeType DEF WantedSize, GetModelLimit, Larger, TypeInv
<1>4. getNextSize(WantedSize(m), cur) \in Nat
  <2>1. getNextSize(WantedSize(m), cur) \in Int
    BY <1>2, <1>3, SizeType DEF TypeInv
  <2>2. Cardinality(KeptDevices(cur)) \in Nat
    BY CountType, DevicesAssumption DEF KeptDevices
  <2> QED
    BY <1>3, <2>1, <2>2 DEF getNextSize, Larger
<1>5. CASE UNCHANGED requests
  BY <1>5 DEF SizesNat
<1>6. ASSUME NEW q \in RequestsFor(m, cur), NEW count \in Nat,
             PatchComposabilityRequestSize(q, count)
      PROVE  /\ SizesNat'
             /\ \E r \in RequestIds, s \in AllowedSizes :
                  /\ requests[r] # NoRequest
                  /\ requests' = [requests EXCEPT ![r].size = s]
  <2>1. /\ q \in RequestIds /\ requests[q] # NoRequest
        /\ requests'[q].size = count
        /\ \A r \in RequestIds \ {q} : requests'[r] = requests[r]
    BY <1>6, Resized DEF RequestsFor, RequestView
  <2>2. requests'[q] # NoRequest
    BY <1>1, <1>6, Resized, DevicesAssumption DEF RequestState
  <2>3. Allowed(count)
    BY <2>1, <2>2, SizeModelAllowed
  <2>4. count \in AllowedSizes
    BY <2>3, SizeAllowed
  <2>5. SizesNat'
    BY <2>1 DEF SizesNat
  <2> QED
    BY <1>6, <2>1, <2>4, <2>5 DEF PatchComposabilityRequestSize
<1>7. CASE /\ RequestsFor(m, cur) = {}
           /\ createNewComposabilityRequestCR(m, WantedSize(m))
  <2>1. PICK q \in RequestIds :
          /\ requests[q] = NoRequest
          /\ requests' = [requests EXCEPT ![q] =
                [model |-> m, node |-> cur, size |-> WantedSize(m)]]
    BY <1>7 DEF createNewComposabilityRequestCR
  <2>2. \A r \in RequestIds : requests[r] # NoRequest =>
          requests[r].model # m \/ requests[r].node # cur
    BY <1>7 DEF RequestsFor, RequestView
  <2>3. /\ requests'[q] = [model |-> m, node |-> cur, size |-> WantedSize(m)]
        /\ \A r \in RequestIds \ {q} : requests'[r] = requests[r]
    BY <1>1, <2>1
  <2>4. requests'[q] \in RequestState
    BY <1>2, <1>3, <2>3 DEF RequestState
  <2>5. Allowed(WantedSize(m))
    BY <2>3, <2>4, SizeModelAllowed, DevicesAssumption
  <2>6. WantedSize(m) \in AllowedSizes
    BY <1>3, <2>5, SizeAllowed
  <2>7. SizesNat'
    BY <1>3, <2>3 DEF SizesNat
  <2> QED
    BY <2>1, <2>2, <2>6, <2>7
<1> QED
  BY <1>3, <1>4, <1>5, <1>6, <1>7 DEF SizeModel, AdjustRequest, DynamicDetach

-----------------------------------------------------------------------------

\* The invariant the refinement rests on holds at first ...
LEMMA InitService == Init => ServiceInv
<1>1. NoClaimAllocation.cond = {} /\ NoClaimAllocation.exists /\ {} # Verdicts
  BY DEF NoClaimAllocation, Verdicts
<1> QED
  BY <1>1, InitType, InitSizes
  DEF Init, ClusterInit, NoInfos, NoInfo, VerdictInv, ClaimsInv, SizesNat,
      ServiceInv

\* ... and every step keeps it.
LEMMA ServiceInvStep ==
  ASSUME ServiceInv, "claims" \notin Lagging, "requests" \notin Lagging,
         [Next]_vars
  PROVE  ServiceInv'
<1>1. SizesNat'
  <2>1. CASE requests' = requests
    BY <2>1 DEF ServiceInv, SizesNat
  <2> QED
    BY <2>1, OnlySizeModelWrites, RequestStep DEF ServiceInv
<1> QED
  BY <1>1, NextType, VerdictStep, SizesStep, ClaimsStep DEF ServiceInv

\* A pass writes a status or a request, never both in one step.
LEMMA OneAtATime ==
  ASSUME [Next]_vars
  PROVE  requests' = requests \/ claims' = claims
BY OnlySizeModelWrites DEF SizeModel

\* Every step is a step of the service or leaves what it promises alone.
LEMMA ServiceStep ==
  ASSUME ServiceInv, "claims" \notin Lagging, "requests" \notin Lagging,
         [Next]_vars
  PROVE  [Service!Next]_(Service!serviceVars)
<1>1. CASE requests' = requests
  <2>1. CASE LifeOf' = LifeOf
    BY <1>1, <2>1 DEF LifeOf, Service!serviceVars
  <2>2. CASE LifeOf' # LifeOf
    <3>1. PICK c \in Claims, l \in {"gone", "free", "bound", "waiting",
                                    "failed", "reschedule"} :
            /\ LifeOf' = [LifeOf EXCEPT ![c] = l]
            /\ \/ LifeOf[c] = "free" /\ l \in {"bound", "waiting"}
               \/ /\ LifeOf[c] \in {"bound", "waiting", "failed",
                                    "reschedule"}
                  /\ l = "free"
               \/ LifeOf[c] # "gone" /\ l = "gone"
               \/ LifeOf[c] = "waiting" /\ l \in {"failed", "reschedule"}
      BY <2>2, LifeStep DEF ServiceInv
    <3>2. Service!Become(c, l)
      BY <1>1, <3>1 DEF LifeOf, Service!Become
    <3>3. \/ Service!Allocate(c) \/ Service!Deallocate(c)
          \/ Service!Delete(c) \/ Service!Answer(c)
      BY <3>1, <3>2
      DEF LifeOf, Service!Allocate, Service!Deallocate, Service!Delete,
          Service!Answer, Service!Lives, Service!Answers
    <3> QED
      BY <3>3 DEF Service!Next
  <2> QED
    BY <2>1, <2>2
<1>2. CASE requests' # requests
  <2>1. PICK m \in Models : SizeModel(m)
    BY <1>2, OnlySizeModelWrites
  <2>2. LifeOf' = LifeOf
    BY <1>2, OneAtATime DEF LifeOf
  <2>3. cur \in Nodes
    BY <2>1
    DEF SizeModel, ServiceInv, TypeInv, PassOK, NodePhases, PhaseNames
  <2>4. \/ \E q \in RequestIds : Service!Resize(q)
        \/ \E q \in RequestIds : Service!Ask(q, m, cur)
    BY <1>2, <2>1, <2>2, RequestStep
    DEF ServiceInv, LifeOf, Service!Resize, Service!Ask
  <2> QED
    BY <2>3, <2>4 DEF Service!Next
<1> QED
  BY <1>1, <1>2

(***************************************************************************)
(* The scaler implements its service, wherever passes stop and however the *)
(* cluster moves between their phases, as long as claims and requests are  *)
(* seen as they are: a claim is answered only while it waits and once, and *)
(* requests are created one per model and node and resized within limits.  *)
(***************************************************************************)
THEOREM ServiceImplemented ==
  ASSUME "claims" \notin Lagging, "requests" \notin Lagging
  PROVE  Spec => ServiceProvided
<1>1. Init => Service!Init
  <2> SUFFICES ASSUME Init PROVE Service!Init
    OBVIOUS
  <2>1. NoClaimAllocation \in ClaimState /\ NoClaimAllocation.exists
          /\ ~Allocated(NoClaimAllocation)
    BY DEF NoClaimAllocation, ClaimState, Allocated
  <2>2. Life(NoClaimAllocation) = "free"
    BY <2>1, LifeCases
  <2> QED
    BY <2>2 DEF Init, ClusterInit, Service!Init
<1>2. Init => ServiceInv
  BY InitService
<1>3. ServiceInv /\ [Next]_vars => ServiceInv'
  BY ServiceInvStep
<1>4. ServiceInv /\ [Next]_vars => [Service!Next]_(Service!serviceVars)
  BY ServiceStep
<1> QED
  BY <1>1, <1>2, <1>3, <1>4, PTL DEF Spec, ServiceProvided, Service!Spec

(***************************************************************************)
(* The outdated cache is the only reason why a claim that failed may be    *)
(* told to reschedule: a scaler that sees its claims as they are leaves a  *)
(* failed claim alone for as long as the allocation lasts, through every   *)
(* later phase and pass.                                                   *)
(***************************************************************************)
THEOREM FailedStayFailed ==
  ASSUME "claims" \notin Lagging
  PROVE  Spec => FailedNotRescheduled
<1>1. Init => TypeInv /\ VerdictInv /\ ClaimsInv
  BY InitService DEF ServiceInv
<1>2. TypeInv /\ VerdictInv /\ ClaimsInv /\ [Next]_vars
        => (TypeInv /\ VerdictInv /\ ClaimsInv)'
  BY NextType, VerdictStep, ClaimsStep
<1>3. /\ TypeInv /\ ClaimsInv
      /\ [\A c \in Claims :
             claims[c].cond # {} => \/ claims'[c].cond = claims[c].cond
                                   \/ ~Allocated(claims'[c])]_vars
      => [\A c \in Claims :
            "FabricDeviceFailed" \in claims[c].cond /\ Allocated(claims'[c])
              => "FabricDeviceReschedule" \notin claims'[c].cond]_vars
  <2>1. \A c \in Claims : TypeInv => claims[c].cond \in SUBSET Verdicts
    BY DEF TypeInv, TypeOK, ClusterTypeOK, ClaimState
  <2> QED
    BY <2>1 DEF ClaimsInv, Verdicts
<1>4. Spec => VerdictFinal
  BY VerdictsAreFinal
<1> QED
  BY <1>1, <1>2, <1>3, <1>4, PTL
  DEF Spec, VerdictFinal, FailedNotRescheduled

=============================================================================
