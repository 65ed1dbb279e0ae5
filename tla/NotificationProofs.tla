------------------------- MODULE NotificationProofs -------------------------
(***************************************************************************)
(* What RescheduleFailedNotification achieves, for every value of the      *)
(* constants: the claims it leaves Preparing fit on the node, the newest   *)
(* claims are the first to fail, and what it decided is still true when    *)
(* handleDevices sizes the requests.                                       *)
(***************************************************************************)
EXTENDS ResourceMonitorProofs

\* A claim or its peer is being failed for a conflict.
Failing == pc = "patching" /\ patch.next = "failing"

\* The models of the claim cl are checked, or it is failed for one of them.
Limiting == pc = "limits" \/ (pc = "patching" /\ patch.next = "limits")

\* The claim about which the round of the loop has yet to decide.
AtHand == IF Limiting THEN cl ELSE IF Failing THEN patch.claim ELSE NoClaim

(***************************************************************************)
(* The loop invariant of RescheduleFailedNotification.  SurvivorsFit says  *)
(* nothing while a claim is being checked or patched: the claims visited   *)
(* before fit all the time, except the one at hand, of which the models    *)
(* that have been looked at are within their limits.                       *)
(***************************************************************************)
VisitedFit ==
  \A c \in NodeClaims \ claimsLeft :
    c # AtHand /\ infos[c].state = "Preparing" => Fits(c)

CheckedSoFar ==
  pc = "limits" /\ infos[cl].state = "Preparing" =>
    /\ ConflictingItems(cl) = {}
    /\ \A i \in infos[cl].items :
         ItemModel[i] \notin modelsLeft => ~OverLimit(ItemModel[i])

NewestVisited ==
  Limiting => \A c \in claimsLeft : Created[c] <= Created[cl]

FailedPatch ==
  pc = "patching" =>
    /\ patch.type = "FabricDeviceFailed" /\ patch.claim \in NodeClaims
    /\ patch.peer # NoClaim => patch.peer \in NodeClaims
    /\ patch.next = "limits" => patch.claim = cl /\ patch.peer = NoClaim

ClaimsOfNode ==
  claimsLeft \subseteq NodeClaims /\ (Limiting => cl \in NodeClaims)

FitInv ==
  pc = "failing" \/ Failing \/ Limiting =>
    /\ VisitedFit /\ CheckedSoFar /\ NewestVisited
    /\ FailedPatch /\ ClaimsOfNode

-----------------------------------------------------------------------------

\* A patch of FabricDeviceFailed takes one claim out of the demand and changes
\* nothing else that the checks look at.
LEMMA FailedStep ==
  ASSUME TypeInv, setDevicesState, patch.type = "FabricDeviceFailed",
         patch.claim \in NodeClaims
  PROVE  /\ \A c \in Claims :
              /\ infos'[c].node = infos[c].node
              /\ infos'[c].items = infos[c].items
              /\ c # patch.claim => infos'[c] = infos[c]
         /\ infos'[patch.claim].state = "Failed"
         /\ NodeClaims' = NodeClaims
         /\ UNCHANGED <<ResourceView, RequestView, cur, lims, reds,
                        claimsLeft, modelsLeft, cl>>
         /\ \A d \in Devices : UsedOnline(d)' = UsedOnline(d)
<1>1. /\ patch.claim \in Claims
      /\ infos \in [Claims -> ClaimInfo] /\ claims \in [Claims -> ClaimState]
  BY DEF NodeClaims, TypeInv, TypeOK, ClusterTypeOK
<1>2. /\ \A c \in Claims :
              /\ infos'[c].node = infos[c].node
              /\ infos'[c].items = infos[c].items
              /\ c # patch.claim => infos'[c] = infos[c]
      /\ infos'[patch.claim].state = "Failed"
  BY <1>1 DEF setDevicesState, ClaimInfo, TargetState
<1>3. UNCHANGED <<ResourceView, RequestView, cur, lims, reds,
                  claimsLeft, modelsLeft, cl>>
  BY DEF setDevicesState, ResourceView, RequestView
<1>4. NodeClaims' = NodeClaims
  BY <1>1, <1>2, <1>3 DEF NodeClaims
<1>5. \A c \in Claims : /\ ClaimView'[c].red = ClaimView[c].red
                        /\ ClaimView'[c].node = ClaimView[c].node
  BY <1>1 DEF setDevicesState, ClaimView, ClaimState
<1>6. \A d \in Devices : UsedOnline(d)' = UsedOnline(d)
  BY <1>3, <1>5
  DEF UsedOnline, IsDeviceUsedByPod, IsDeviceResourceSliceRed
<1> QED
  BY <1>2, <1>3, <1>4, <1>6

\* With one claim less, no model needs more devices than before.
LEMMA CountShrinks ==
  ASSUME TypeInv, setDevicesState, patch.type = "FabricDeviceFailed",
         patch.claim \in NodeClaims, NEW m \in Models, ~OverLimit(m),
         cur \in Nodes
  PROVE  ~OverLimit(m)'
<1> DEFINE Old == ItemsInState({"Preparing", "Reschedule"}, m, cur)
           New == ItemsInState({"Preparing", "Reschedule"}, m, cur)'
<1>1. New \subseteq Old /\ Old \subseteq Items
  <2>1. \A c \in Claims : infos'[c].state \in {"Preparing", "Reschedule"}
          => infos[c].state \in {"Preparing", "Reschedule"}
    BY FailedStep
  <2> QED
    BY <2>1, FailedStep DEF ItemsInState
<1>2. /\ Cardinality(New) \in Nat /\ Cardinality(Old) \in Nat
      /\ Cardinality(New) <= Cardinality(Old)
  BY <1>1, ClaimsAssumption, CountType, FS_Subset
<1>3. getPodAllocatedDevicesCount(m, cur)'
        = getPodAllocatedDevicesCount(m, cur)
  BY FailedStep DEF getPodAllocatedDevicesCount
<1>4. getPodAllocatedDevicesCount(m, cur) \in Nat
  BY CountType, DevicesAssumption DEF getPodAllocatedDevicesCount
<1>5. GetModelLimit(lims[cur][m]).max \in Int
  BY SizeType DEF TypeInv, GetModelLimit, defaultMaxDevice
<1>6. GetModelLimit(lims[cur][m])' = GetModelLimit(lims[cur][m])
  BY FailedStep
<1>7. GetConfiguredDeviceCount(m, cur)
        = Cardinality(Old) + getPodAllocatedDevicesCount(m, cur)
  BY DEF GetConfiguredDeviceCount, getPreparingRescheduleDevicesCount
<1>8. GetConfiguredDeviceCount(m, cur)'
        = Cardinality(New) + getPodAllocatedDevicesCount(m, cur)
  BY <1>3 DEF GetConfiguredDeviceCount, getPreparingRescheduleDevicesCount
<1> HIDE DEF Old, New
<1> QED
  BY <1>2, <1>4, <1>5, <1>6, <1>7, <1>8 DEF OverLimit

\* A claim that fits goes on to do so when another one is failed.
LEMMA FitsKept ==
  ASSUME TypeInv, setDevicesState, patch.type = "FabricDeviceFailed",
         patch.claim \in NodeClaims, cur \in Nodes,
         NEW c \in Claims, infos'[c].state = "Preparing", Fits(c)
  PROVE  Fits(c)'
<1>1. infos'[c] = infos[c] /\ infos[c].items \in SUBSET Items
  BY FailedStep DEF TypeInv, TypeOK, ClaimInfo
<1>2. \A i \in infos[c].items :
        /\ OwnConflict(c, i)' = OwnConflict(c, i)
        /\ RequestConflict(c, i)' = RequestConflict(c, i)
        /\ ResourceConflict(c, i)' = ResourceConflict(c, i)
  BY <1>1, FailedStep DEF OwnConflict, RequestConflict, ResourceConflict
<1>3. \A i \in infos[c].items :
        ConflictingPeers(c, i)' \subseteq ConflictingPeers(c, i)
  <2>1. \A c2 \in Claims : infos'[c2].state = "Preparing"
          => infos[c2].state = "Preparing" /\ infos'[c2].items = infos[c2].items
    BY FailedStep
  <2>2. NodeClaims' = NodeClaims /\ NodeClaims \subseteq Claims
    BY FailedStep DEF NodeClaims
  <2> QED
    BY <2>1, <2>2 DEF ConflictingPeers
<1>4. ConflictingItems(c)' = {}
  BY <1>1, <1>2, <1>3 DEF ConflictingItems, SelfConflict, Fits
<1>5. \A i \in infos[c].items : ~OverLimit(ItemModel[i])'
  <2>1. \A i \in infos[c].items : ItemModel[i] \in Models
    BY <1>1, ClaimsAssumption
  <2> QED
    BY <2>1, CountShrinks DEF Fits
<1> QED
  BY <1>1, <1>4, <1>5 DEF Fits

\* The status of the claim at hand is written, or of its peer.
LEMMA FitPatch ==
  ASSUME TypeInv, FitInv, setDevicesState
  PROVE  FitInv'
<1>1. /\ pc = "patching" /\ cur \in Nodes
      /\ patch.next \in {"failing", "limits", "annotating"}
      /\ patch.peer \in Claims \cup {NoClaim}
      /\ NodeClaims \subseteq Claims
  BY DEF setDevicesState, TypeInv, TypeOK, PassOK, NodePhases, PhaseNames,
         NodeClaims
<1>2. CASE patch.next = "annotating"
  <2>1. ~(pc = "failing" \/ Failing \/ Limiting)'
    BY <1>1, <1>2
    DEF setDevicesState, Goto, Failing, Limiting, TypeInv, TypeOK
  <2> QED
    BY <2>1 DEF FitInv
<1>3. CASE patch.next \in {"failing", "limits"}
  <2>1. VisitedFit /\ NewestVisited /\ FailedPatch /\ ClaimsOfNode
    BY <1>1, <1>3 DEF FitInv, Failing, Limiting
  <2>2. /\ patch.type = "FabricDeviceFailed" /\ patch.claim \in NodeClaims
        /\ patch.next = "limits" => patch.claim = cl /\ patch.peer = NoClaim
    BY <1>1, <2>1 DEF FailedPatch
  <2>3. AtHand = patch.claim
    BY <1>1, <1>3, <2>2 DEF AtHand, Limiting, Failing
  <2>4. VisitedFit'
    <3> SUFFICES ASSUME NEW c \in (NodeClaims \ claimsLeft)',
                        infos'[c].state = "Preparing"
                 PROVE  Fits(c)'
      BY DEF VisitedFit
    <3>1. c \in NodeClaims \ claimsLeft /\ c # patch.claim
      BY <2>2, FailedStep
    <3>2. infos[c].state = "Preparing"
      BY <1>1, <2>2, <3>1, FailedStep
    <3>3. Fits(c)
      BY <2>1, <2>3, <3>1, <3>2 DEF VisitedFit
    <3> QED
      BY <1>1, <2>2, <3>1, <3>3, FitsKept
  <2>5. CheckedSoFar'
    <3>1. pc' = "limits" => infos'[cl'].state # "Preparing"
      BY <1>1, <1>3, <2>2, FailedStep DEF setDevicesState, Goto
    <3> QED
      BY <3>1 DEF CheckedSoFar
  <2>6. NewestVisited' /\ ClaimsOfNode'
    <3>1. Limiting' => Limiting
      BY <1>1, <1>3
      DEF setDevicesState, Goto, Limiting, TypeInv, TypeOK
    <3> QED
      BY <2>1, <2>2, <3>1, FailedStep DEF NewestVisited, ClaimsOfNode
  <2>7. FailedPatch'
    <3>1. CASE patch.peer = NoClaim
      BY <1>1, <1>3, <3>1 DEF setDevicesState, Goto, FailedPatch
    <3>2. CASE patch.peer # NoClaim
      <4>1. /\ patch'.claim = patch.peer /\ patch'.peer = NoClaim
            /\ patch'.type = patch.type /\ patch'.next = patch.next
        BY <1>1, <3>2 DEF setDevicesState, TypeInv, TypeOK
      <4>2. patch.peer \in NodeClaims /\ patch.next = "failing"
        BY <1>1, <1>3, <2>1, <3>2 DEF FailedPatch
      <4> QED
        BY <2>2, <4>1, <4>2, FailedStep DEF FailedPatch
    <3> QED
      BY <3>1, <3>2
  <2> QED
    BY <2>4, <2>5, <2>6, <2>7 DEF FitInv
<1> QED
  BY <1>1, <1>2, <1>3

\* What the checks look at does not change while they only decide.
LEMMA FitsUnchanged ==
  ASSUME UNCHANGED <<clusterVars, infos, reds, lims, cur>>
  PROVE  /\ NodeClaims' = NodeClaims
         /\ \A c : /\ Fits(c)' = Fits(c)
                   /\ ConflictingItems(c)' = ConflictingItems(c)
         /\ \A m : OverLimit(m)' = OverLimit(m)
<1>1. UNCHANGED <<ClaimView, ResourceView, RequestView>>
  BY DEF clusterVars, ClaimView, ResourceView, RequestView
<1>2. NodeClaims' = NodeClaims
  BY DEF NodeClaims
<1>3. \A d : UsedOnline(d)' = UsedOnline(d)
  BY <1>1 DEF UsedOnline, IsDeviceUsedByPod, IsDeviceResourceSliceRed
<1>4. \A m : OverLimit(m)' = OverLimit(m)
  BY <1>1, <1>3
  DEF OverLimit, GetConfiguredDeviceCount, getPreparingRescheduleDevicesCount,
      getPodAllocatedDevicesCount, ItemsInState
<1>5. \A c : ConflictingItems(c)' = ConflictingItems(c)
  BY <1>1, <1>2
  DEF ConflictingItems, SelfConflict, OwnConflict, RequestConflict,
      ResourceConflict, ConflictingPeers
<1> QED
  BY <1>2, <1>4, <1>5 DEF Fits

\* A claim is visited: it is left alone, failed, or checked against limits.
LEMMA FitCheckClaim ==
  ASSUME TypeInv, FitInv, NEW c \in Claims, CheckClaim(c)
  PROVE  FitInv'
<1>1. /\ pc = "failing" /\ VisitedFit /\ c \in claimsLeft
      /\ \A c2 \in claimsLeft : Created[c2] <= Created[c]
      /\ claimsLeft' = claimsLeft \ {c}
      /\ UNCHANGED <<clusterVars, infos, reds, lims, cur>>
      /\ claimsLeft \subseteq NodeClaims
  BY DEF CheckClaim, FitInv, Newest, ClaimsOfNode
<1>2. AtHand = NoClaim /\ NoClaim \notin Claims /\ NodeClaims \subseteq Claims
  BY <1>1, MonitorAssumption DEF AtHand, Limiting, Failing, NodeClaims
<1>3. ASSUME AtHand' = c \/ infos[c].state # "Preparing"
      PROVE  VisitedFit'
  BY <1>1, <1>2, <1>3, FitsUnchanged DEF VisitedFit
<1>4. CASE infos[c].state # "Preparing" /\ Goto(pc)
  BY <1>1, <1>3, <1>4, FitsUnchanged
  DEF Goto, FitInv, CheckedSoFar, NewestVisited, FailedPatch, Limiting,
      ClaimsOfNode
<1>5. ASSUME NEW peer \in NodeClaims \cup {NoClaim},
             FailClaim(c, peer, "failing")
      PROVE  FitInv'
  <2>1. /\ pc' = "patching" /\ patch'.claim = c /\ patch'.next = "failing"
        /\ patch'.type = "FabricDeviceFailed" /\ patch'.peer = peer
    BY <1>2, <1>5, FailClaimType
  <2>2. AtHand' = c
    BY <2>1 DEF AtHand, Limiting, Failing
  <2> QED
    BY <1>1, <1>3, <2>1, <2>2, FitsUnchanged
    DEF FitInv, CheckedSoFar, NewestVisited, FailedPatch, Limiting,
        ClaimsOfNode
<1>6. CASE /\ ConflictingItems(c) = {} /\ Goto("limits") /\ cl' = c
           /\ modelsLeft' = {ItemModel[i] : i \in infos[c].items}
  <2>1. AtHand' = c /\ pc' = "limits"
    BY <1>6 DEF Goto, AtHand, Limiting
  <2>2. CheckedSoFar'
    BY <1>1, <1>6, FitsUnchanged DEF CheckedSoFar
  <2>3. NewestVisited'
    BY <1>1, <1>6 DEF NewestVisited
  <2> QED
    BY <1>1, <1>3, <1>6, <2>1, <2>2, <2>3, FitsUnchanged
    DEF FitInv, FailedPatch, ClaimsOfNode
<1>7. \A i : Newest(ConflictingPeers(c, i)) \subseteq NodeClaims
  BY DEF Newest, ConflictingPeers
<1> QED
  BY <1>4, <1>5, <1>6, <1>7 DEF CheckClaim

\* One model of the claim at hand is checked.
LEMMA FitCheckLimit ==
  ASSUME TypeInv, FitInv, NEW m \in Models, CheckLimit(m)
  PROVE  FitInv'
<1>1. /\ pc = "limits" /\ VisitedFit /\ CheckedSoFar /\ NewestVisited
      /\ modelsLeft' = modelsLeft \ {m} /\ cl \in Claims /\ cl \in NodeClaims
      /\ claimsLeft \subseteq NodeClaims
      /\ UNCHANGED <<clusterVars, infos, reds, lims, cur, claimsLeft, cl>>
  BY DEF CheckLimit, FitInv, Limiting, NodeClaims, ClaimsOfNode
<1>2. AtHand = cl
  BY <1>1 DEF AtHand, Limiting
<1>3. ASSUME Limiting'
      PROVE  VisitedFit' /\ NewestVisited' /\ ClaimsOfNode'
  BY <1>1, <1>2, <1>3, FitsUnchanged
  DEF VisitedFit, NewestVisited, ClaimsOfNode, Limiting, AtHand
<1>4. CASE FailClaim(cl, NoClaim, "limits")
  <2>1. /\ pc' = "patching" /\ patch'.claim = cl /\ patch'.next = "limits"
        /\ patch'.type = "FabricDeviceFailed" /\ patch'.peer = NoClaim
    BY <1>1, <1>4, FailClaimType
  <2> QED
    BY <1>1, <1>3, <2>1, FitsUnchanged
    DEF FitInv, CheckedSoFar, FailedPatch, Limiting
<1>5. CASE Goto(pc) /\ ~OverLimit(m)
  <2>1. CheckedSoFar'
    BY <1>1, <1>5, FitsUnchanged DEF CheckedSoFar
  <2> QED
    BY <1>1, <1>3, <1>5, <2>1 DEF Goto, FitInv, FailedPatch, Limiting
<1> QED
  BY <1>4, <1>5 DEF CheckLimit, OverLimit

\* All models of the claim at hand have been checked.
LEMMA FitLimitsDone ==
  ASSUME TypeInv, FitInv, LimitsDone
  PROVE  FitInv'
<1>1. /\ pc = "limits" /\ pc' = "failing" /\ VisitedFit /\ CheckedSoFar
      /\ modelsLeft = {}
      /\ UNCHANGED <<clusterVars, infos, reds, lims, cur, claimsLeft>>
      /\ claimsLeft \subseteq NodeClaims
  BY DEF LimitsDone, Goto, FitInv, Limiting, ClaimsOfNode
<1>2. AtHand = cl
  BY <1>1 DEF AtHand, Limiting
<1>3. infos[cl].state = "Preparing" => Fits(cl)
  BY <1>1 DEF CheckedSoFar, Fits
<1>4. VisitedFit'
  BY <1>1, <1>2, <1>3, FitsUnchanged DEF VisitedFit
<1> QED
  BY <1>1, <1>4, FitsUnchanged
  DEF FitInv, CheckedSoFar, NewestVisited, FailedPatch, ClaimsOfNode, Limiting

\* Every step keeps the loop invariant.
LEMMA FitStep ==
  ASSUME TypeInv, FitInv, [Next]_vars
  PROVE  FitInv'
<1>1. CASE pc' \notin {"failing", "limits", "patching"}
  BY <1>1 DEF FitInv, Failing, Limiting
<1>2. CASE Outside(Environment)
  <2>1. pc' \in Boundaries
    BY <1>2, MonitorAssumption
    DEF Outside, monitorVars
  <2> QED
    BY <1>1, <2>1 DEF Boundaries
<1>3. CASE Return
  BY <1>1, <1>3 DEF Return
<1>4. CASE RescheduleFailedNotification
  <2>1. pc' = "failing" /\ claimsLeft' = NodeClaims'
    BY <1>4 DEF RescheduleFailedNotification, Goto, NodeClaims
  <2> QED
    BY <2>1
    DEF FitInv, VisitedFit, CheckedSoFar, NewestVisited, FailedPatch,
        ClaimsOfNode, Failing, Limiting
<1>5. ASSUME NEW c \in Claims, MatchClaim(c)
      PROVE  FitInv'
  BY <1>5 DEF MatchClaim, Goto, FitInv, Failing, Limiting
<1>6. CASE UNCHANGED vars
  <2>1. UNCHANGED <<clusterVars, infos, reds, lims, cur, pc, patch, cl,
                    claimsLeft, modelsLeft>>
    BY <1>6 DEF vars, monitorVars, passVars, loopVars
  <2> QED
    BY <2>1, FitsUnchanged
    DEF FitInv, VisitedFit, CheckedSoFar, NewestVisited, FailedPatch,
        ClaimsOfNode, Failing, Limiting, AtHand
<1>7. CASE Reconcile
  BY <1>1, <1>3, <1>4, <1>5, <1>7, FitPatch, FitCheckClaim, FitCheckLimit,
     FitLimitsDone
  DEF Reconcile, collectInfo, updateComposableResourceLastUsedTime,
      PatchComposableResourceAnnotation, AnnotationRejected, AnnotationsDone,
      handleNodes, PatchRejected, FailingDone, RescheduleNotification,
      MatchingDone, handleDevices, SizeModel, SizeRefused, SizingDone,
      UpdateNodeLabel, Goto
<1> QED
  BY <1>2, <1>3, <1>6, <1>7 DEF Next, PassCutShort

\* The loop invariant holds throughout.
LEMMA FitInvariant == Spec => [](TypeInv /\ FitInv)
<1>1. Init => TypeInv /\ FitInv
  BY InitType DEF Init, FitInv, Failing, Limiting
<1>2. TypeInv /\ FitInv /\ [Next]_vars => (TypeInv /\ FitInv)'
  BY NextType, FitStep
<1> QED
  BY <1>1, <1>2, PTL DEF Spec

(***************************************************************************)
(* A claim that RescheduleFailedNotification has visited and left          *)
(* Preparing fits on the node, whatever the caches show, however many      *)
(* other claims it fails afterwards, and although a claim may be failed as *)
(* the peer of another one before or after its own turn.                   *)
(***************************************************************************)
THEOREM SurvivorsDoFit == Spec => []SurvivorsFit
<1>1. TypeInv /\ FitInv => SurvivorsFit
  <2> SUFFICES ASSUME FitInv, pc = "failing"
               PROVE  SurvivorsFit
    BY DEF SurvivorsFit
  <2>1. AtHand = NoClaim /\ VisitedFit
    BY DEF AtHand, Limiting, Failing, FitInv
  <2> QED
    BY <2>1, MonitorAssumption DEF VisitedFit, SurvivorsFit, NodeClaims
<1> QED
  BY <1>1, FitInvariant, PTL

(***************************************************************************)
(* Limits are enforced against the newest claims: when CheckLimit fails a  *)
(* claim, all newer claims of the node that still wait are within theirs.  *)
(***************************************************************************)
THEOREM NewestDoFailFirst == Spec => NewestFailFirst
<1>1. TypeInv /\ FitInv /\ [Next]_vars =>
        [pc = "limits" /\ pc' = "patching" =>
           \A c \in NodeClaims :
             infos[c].state = "Preparing" /\ Created[c] > Created[cl]
               => \A i \in infos[c].items : ~OverLimit(ItemModel[i])]_vars
  <2> SUFFICES ASSUME TypeInv, FitInv, pc = "limits", NEW c \in NodeClaims,
                      infos[c].state = "Preparing", Created[c] > Created[cl],
                      NEW i \in infos[c].items
               PROVE  ~OverLimit(ItemModel[i])
    OBVIOUS
  <2>1. /\ AtHand = cl /\ VisitedFit /\ NewestVisited /\ Limiting
        /\ cl \in Claims
    BY DEF AtHand, Limiting, FitInv, TypeInv, PassOK
  <2>2. c \in Claims /\ Created[c] \in Nat /\ Created[cl] \in Nat
    BY <2>1, ClaimsAssumption DEF NodeClaims
  <2>3. c \notin claimsLeft /\ c # cl
    BY <2>1, <2>2 DEF NewestVisited
  <2> QED
    BY <2>1, <2>3 DEF VisitedFit, Fits
<1> QED
  BY <1>1, FitInvariant, PTL DEF Spec, NewestFailFirst

-----------------------------------------------------------------------------
(***************************************************************************)
(* What the failed notifications decided stays true while the claims are   *)
(* matched with idle devices: claims only leave Preparing, and requests    *)
(* are written in the next phase.                                          *)
(***************************************************************************)
AfterFailing ==
  \/ pc \in {"resched", "matching", "annotating", "devices"}
  \/ pc = "patching" /\ patch.next = "annotating"

WaitingCoexist ==
  \A c \in NodeClaims : infos[c].state = "Preparing" =>
    \A i \in infos[c].items :
      /\ ~RequestConflict(c, i)
      /\ \A c2 \in NodeClaims : infos[c2].state = "Preparing" =>
           \A j \in infos[c2].items :
             isDeviceCoexistence(ItemModel[i], ItemModel[j])

CoexistInv == AfterFailing => WaitingCoexist

\* Coexistence only depends on the claims that still wait, and on requests.
LEMMA CoexistKept ==
  ASSUME WaitingCoexist, "requests" \notin Lagging, UNCHANGED <<requests, cur>>,
         \A c \in Claims : infos'[c].state = "Preparing" => infos'[c] = infos[c]
  PROVE  WaitingCoexist'
<1>1. \A c \in NodeClaims' : infos'[c].state = "Preparing" =>
        c \in NodeClaims /\ infos'[c] = infos[c]
  BY DEF NodeClaims
<1>2. RequestView' = RequestView
  BY DEF RequestView
<1>3. ASSUME NEW c \in NodeClaims', infos'[c].state = "Preparing",
             NEW i \in infos'[c].items
      PROVE  /\ ~RequestConflict(c, i)'
             /\ \A c2 \in NodeClaims' : infos'[c2].state = "Preparing" =>
                  \A j \in infos'[c2].items :
                    isDeviceCoexistence(ItemModel[i], ItemModel[j])
  BY <1>1, <1>2, <1>3 DEF WaitingCoexist, RequestConflict
<1> QED
  BY <1>3 DEF WaitingCoexist

\* When the loop is done, the claims that still wait fit next to each other:
\* two of them were compared when the one listing the other was visited.
LEMMA CoexistBegins ==
  ASSUME TypeInv, FitInv, FailingDone,
         \A c, c2 \in Claims : ClaimName[c] = ClaimName[c2] => c = c2
  PROVE  WaitingCoexist
<1> SUFFICES ASSUME NEW c \in NodeClaims, infos[c].state = "Preparing",
                    NEW i \in infos[c].items
             PROVE  /\ ~RequestConflict(c, i)
                    /\ \A c2 \in NodeClaims : infos[c2].state = "Preparing" =>
                         \A j \in infos[c2].items :
                           isDeviceCoexistence(ItemModel[i], ItemModel[j])
  BY DEF WaitingCoexist
<1>1. pc = "failing" /\ claimsLeft = {} /\ VisitedFit /\ AtHand = NoClaim
  BY DEF FailingDone, FitInv, AtHand, Limiting, Failing
<1>2. Fits(c)
  BY <1>1, MonitorAssumption DEF VisitedFit, NodeClaims
<1>3. ~SelfConflict(c, i) /\ ConflictingPeers(c, i) = {}
  BY <1>2 DEF Fits, ConflictingItems
<1>4. ASSUME NEW c2 \in NodeClaims, infos[c2].state = "Preparing",
             NEW j \in infos[c2].items
      PROVE  isDeviceCoexistence(ItemModel[i], ItemModel[j])
  <2>1. CASE c2 = c
    BY <1>3, <2>1 DEF SelfConflict, OwnConflict
  <2>2. CASE c2 # c
    <3>1. ClaimName[c2] # ClaimName[c]
      BY <2>2 DEF NodeClaims
    <3> QED
      BY <1>3, <1>4, <3>1 DEF ConflictingPeers
  <2> QED
    BY <2>1, <2>2
<1> QED
  BY <1>3, <1>4 DEF SelfConflict

\* Every step after the loop keeps it so, until the sizes are written.
LEMMA CoexistStep ==
  ASSUME TypeInv, FitInv, CoexistInv, [Next]_vars, "requests" \notin Lagging,
         \A c, c2 \in Claims : ClaimName[c] = ClaimName[c2] => c = c2
  PROVE  CoexistInv'
<1>1. CASE ~AfterFailing'
  BY <1>1 DEF CoexistInv
<1>2. CASE AfterFailing /\ UNCHANGED <<requests, cur, infos>>
  BY <1>2, CoexistKept DEF CoexistInv
<1>3. CASE FailingDone
  <2>1. UNCHANGED <<requests, cur, infos>>
    BY <1>3 DEF FailingDone, clusterVars, passVars
  <2> QED
    BY <1>3, <2>1, CoexistBegins, CoexistKept DEF CoexistInv
<1>4. CASE Outside(Environment)
  <2>1. UNCHANGED <<pc, patch, cur, infos>>
    BY <1>4 DEF Outside, monitorVars, passVars, loopVars
  <2>2. requests' = requests
    BY <1>4 DEF Outside, Environment, Operator, Allocate, GiveUpAllocation,
         BindingTimeout, Unreserve, DeleteClaim, CreateResource,
         DeleteResource, Attach, Detach, Publish, Tick, SetLimit, Sync
  <2> QED
    BY <1>1, <1>2, <2>1, <2>2 DEF AfterFailing
<1>5. CASE setDevicesState
  <2>1. /\ pc = "patching" /\ patch.claim \in Claims
        /\ patch.next \in {"failing", "limits", "annotating"}
        /\ infos \in [Claims -> ClaimInfo]
    BY <1>5 DEF setDevicesState, TypeInv, TypeOK, PassOK
  <2>2. \A c \in Claims : infos'[c].state = "Preparing" => infos'[c] = infos[c]
    BY <1>5, <2>1 DEF setDevicesState, TargetState, ClaimInfo
  <2>3. UNCHANGED <<requests, cur>>
    BY <1>5 DEF setDevicesState
  <2>4. AfterFailing' => AfterFailing
    BY <1>5, <2>1
    DEF setDevicesState, Goto, AfterFailing, TypeInv, TypeOK
  <2> QED
    BY <2>2, <2>3, <2>4, CoexistKept DEF CoexistInv
<1>6. CASE UNCHANGED vars
  <2>1. UNCHANGED <<pc, patch, requests, cur, infos>>
    BY <1>6 DEF vars, clusterVars, monitorVars, passVars, loopVars
  <2> QED
    BY <1>1, <1>2, <2>1 DEF AfterFailing
<1>7. ASSUME NEW c \in Claims, MatchClaim(c) \/ CheckClaim(c)
      PROVE  CoexistInv'
  <2>1. CASE MatchClaim(c)
    BY <1>2, <2>1 DEF MatchClaim, clusterVars, AfterFailing
  <2>2. CASE CheckClaim(c)
    BY <1>1, <2>2 DEF CheckClaim, FailClaim, Goto, AfterFailing
  <2> QED
    BY <1>7, <2>1, <2>2
<1>8. CASE Return
  BY <1>1, <1>8 DEF Return, AfterFailing
<1>9. ASSUME NEW m \in Models, CheckLimit(m)
      PROVE  CoexistInv'
  BY <1>1, <1>9 DEF CheckLimit, FailClaim, Goto, AfterFailing
<1>10. ASSUME \/ collectInfo \/ updateComposableResourceLastUsedTime
              \/ handleNodes \/ RescheduleFailedNotification \/ LimitsDone
              \/ \E m \in Models : SizeModel(m)
              \/ handleDevices \/ SizingDone \/ UpdateNodeLabel
       PROVE  CoexistInv'
  BY <1>1, <1>8, <1>10
  DEF collectInfo, updateComposableResourceLastUsedTime, handleNodes,
      RescheduleFailedNotification, LimitsDone, SizeModel, handleDevices,
      SizingDone, UpdateNodeLabel, Goto, AfterFailing
<1>11. ASSUME NEW d \in Devices, PatchComposableResourceAnnotation(d)
       PROVE  CoexistInv'
  BY <1>1, <1>2, <1>11
  DEF PatchComposableResourceAnnotation, Goto, AfterFailing
<1>12. CASE AnnotationsDone \/ RescheduleNotification \/ MatchingDone
  BY <1>1, <1>2, <1>12
  DEF AnnotationsDone, RescheduleNotification, MatchingDone, Goto,
      AfterFailing, clusterVars, passVars
<1>13. CASE Reconcile
  BY <1>3, <1>5, <1>7, <1>8, <1>9, <1>10, <1>11, <1>12, <1>13
  DEF Reconcile, AnnotationRejected, PatchRejected, SizeRefused
<1> QED
  BY <1>4, <1>6, <1>8, <1>13 DEF Next, PassCutShort

(***************************************************************************)
(* No two claims that reach handleDevices exclude each other, and none     *)
(* excludes devices that are requested for its node: as long as requests   *)
(* are seen as they are and no two claims share a name, which is all that  *)
(* RescheduleFailedNotification tells claims apart by.  What the other     *)
(* caches show and what moves between the phases plays no part.            *)
(***************************************************************************)
THEOREM WaitingDoCoexist ==
  ASSUME "requests" \notin Lagging,
         \A c, c2 \in Claims : ClaimName[c] = ClaimName[c2] => c = c2
  PROVE  Spec => []WaitingClaimsCoexist
<1>1. Init => CoexistInv
  BY DEF Init, CoexistInv, AfterFailing
<1>2. TypeInv /\ FitInv /\ CoexistInv /\ [Next]_vars => CoexistInv'
  BY CoexistStep
<1>3. CoexistInv => WaitingClaimsCoexist
  BY DEF CoexistInv, AfterFailing, WaitingCoexist, WaitingClaimsCoexist
<1> QED
  BY <1>1, <1>2, <1>3, FitInvariant, PTL DEF Spec

-----------------------------------------------------------------------------
(***************************************************************************)
(* RescheduleNotification.  The devices on offer were Online on the node   *)
(* when they were listed and still are when the last claim is matched,     *)
(* since nothing but last-used times is written in between; the devices    *)
(* found for the claim being patched are among them, one for each item.    *)
(***************************************************************************)
Matching == pc \in {"matching", "annotating"}
              \/ (pc = "patching" /\ patch.next = "annotating")

OfferAttached ==
  \A d \in avail : resources[d].state = "Online" /\ resources[d].node = cur

FoundForAll ==
  pc = "patching" =>
    /\ marks \subseteq avail /\ Matches(patch.claim, marks)
    /\ infos[patch.claim].node = cur /\ patch.peer = NoClaim

AttachedInv ==
  Matching => OfferAttached /\ claimsLeft \subseteq NodeClaims /\ FoundForAll

\* Telling the claim to reschedule changes nothing that was found.
LEMMA AttachedPatch ==
  ASSUME TypeInv, AttachedInv, setDevicesState
  PROVE  AttachedInv'
<1>1. CASE patch.next # "annotating"
  <2>1. ~Matching'
    BY <1>1
    DEF setDevicesState, Goto, Matching, TypeInv, TypeOK, PassOK
  <2> QED
    BY <2>1 DEF AttachedInv
<1>2. CASE patch.next = "annotating"
  <2>1. /\ Matching /\ OfferAttached /\ claimsLeft \subseteq NodeClaims
        /\ patch.peer = NoClaim /\ patch.claim \in Claims
        /\ patch.type \in Verdicts
    BY <1>2
    DEF setDevicesState, Matching, AttachedInv, FoundForAll, TypeInv, PassOK
  <2>2. pc' = "annotating" /\ UNCHANGED <<resources, avail, cur, claimsLeft>>
    BY <1>2, <2>1 DEF setDevicesState, Goto
  <2>3. \A c \in Claims : /\ infos'[c].node = infos[c].node
                          /\ infos[c].state # "None" => infos'[c].state # "None"
    BY <2>1 DEF setDevicesState, TargetState, ClaimInfo, TypeInv, TypeOK
  <2>4. NodeClaims \subseteq NodeClaims'
    BY <2>2, <2>3 DEF NodeClaims
  <2> QED
    BY <2>1, <2>2, <2>4 DEF AttachedInv, OfferAttached, FoundForAll
<1> QED
  BY <1>1, <1>2

\* Every step keeps the offer attached.
LEMMA AttachedStep ==
  ASSUME TypeInv, AttachedInv, "resources" \notin Lagging, [Next]_vars
  PROVE  AttachedInv'
<1>1. CASE ~Matching'
  BY <1>1 DEF AttachedInv
<1>2. CASE Outside(Environment)
  <2>1. pc' \in Boundaries
    BY <1>2, MonitorAssumption DEF Outside, monitorVars
  <2> QED
    BY <1>1, <2>1 DEF Boundaries, Matching
<1>3. CASE Return
  BY <1>1, <1>3 DEF Return, Matching
<1>4. CASE UNCHANGED vars
  BY <1>4
  DEF vars, clusterVars, monitorVars, passVars, loopVars, AttachedInv,
      Matching, OfferAttached, NodeClaims, FoundForAll, Matches
<1>5. CASE RescheduleNotification
  <2>1. pc' = "matching" /\ avail' = IdleDevices /\ claimsLeft' = NodeClaims
        /\ UNCHANGED <<resources, cur, infos>>
    BY <1>5 DEF RescheduleNotification, Goto, clusterVars
  <2>2. OfferAttached'
    BY <2>1 DEF OfferAttached, IdleDevices, ResourceView
  <2>3. NodeClaims' = NodeClaims
    BY <2>1 DEF NodeClaims
  <2> QED
    BY <2>1, <2>2, <2>3 DEF AttachedInv, FoundForAll
<1>6. ASSUME NEW c \in Claims, MatchClaim(c)
      PROVE  AttachedInv'
  <2>1. /\ OfferAttached /\ claimsLeft \subseteq NodeClaims
        /\ c \in claimsLeft /\ claimsLeft' \subseteq claimsLeft
        /\ UNCHANGED <<resources, avail, cur, infos>>
    BY <1>6 DEF MatchClaim, Oldest, AttachedInv, Matching, clusterVars
  <2>2. OfferAttached' /\ claimsLeft' \subseteq NodeClaims'
    BY <2>1 DEF OfferAttached, NodeClaims
  <2>3. CASE pc' = "matching"
    BY <2>2, <2>3 DEF AttachedInv, FoundForAll
  <2>4. CASE /\ pc' = "patching"
             /\ \E found \in SUBSET avail : Matches(c, found) /\ marks' = found
             /\ patch' = [claim |-> c, peer |-> NoClaim,
                          type |-> "FabricDeviceReschedule",
                          next |-> "annotating"]
    <3>1. patch'.claim = c /\ patch'.peer = NoClaim
      BY <2>4
    <3>2. marks' \subseteq avail' /\ Matches(c, marks)'
      BY <2>1, <2>4 DEF Matches
    <3>3. infos'[c].node = cur'
      BY <2>1 DEF NodeClaims
    <3> QED
      BY <2>2, <3>1, <3>2, <3>3 DEF AttachedInv, FoundForAll, Matches
  <2> QED
    BY <1>6, <2>3, <2>4 DEF MatchClaim, Goto
<1>7. ASSUME NEW d \in Devices, PatchComposableResourceAnnotation(d)
      PROVE  AttachedInv'
  <2>1. CASE pc = "touching"
    BY <1>1, <1>7, <2>1 DEF PatchComposableResourceAnnotation, Goto, Matching
  <2>2. CASE pc = "annotating"
    <3>1. /\ OfferAttached /\ claimsLeft \subseteq NodeClaims
          /\ pc' = "annotating" /\ UNCHANGED <<avail, cur, infos, claimsLeft>>
      BY <1>7, <2>2
      DEF PatchComposableResourceAnnotation, Goto, AttachedInv, Matching
    <3>2. avail \subseteq Devices /\ resources \in [Devices -> ResourceState]
      BY DEF TypeInv, TypeOK, ClusterTypeOK
    <3>3. \A e \in Devices : /\ resources'[e].state = resources[e].state
                             /\ resources'[e].node = resources[e].node
      BY <1>7, <3>2 DEF PatchComposableResourceAnnotation, ResourceState
    <3> QED
      BY <3>1, <3>2, <3>3
      DEF AttachedInv, OfferAttached, NodeClaims, FoundForAll
  <2> QED
    BY <1>7, <2>1, <2>2 DEF PatchComposableResourceAnnotation
<1>8. CASE AnnotationsDone
  BY <1>8
  DEF AnnotationsDone, Goto, clusterVars, passVars, loopVars, AttachedInv,
      Matching, OfferAttached, NodeClaims, FoundForAll
<1>9. ASSUME NEW c, NEW peer, NEW next, next # "annotating",
             FailClaim(c, peer, next)
      PROVE  AttachedInv'
  BY <1>1, <1>9 DEF FailClaim, Goto, Matching
<1>10. ASSUME NEW c \in Claims, CheckClaim(c)
       PROVE  AttachedInv'
  BY <1>1, <1>9, <1>10 DEF CheckClaim, Goto, Matching
<1>11. ASSUME NEW m \in Models, CheckLimit(m)
       PROVE  AttachedInv'
  BY <1>1, <1>9, <1>11 DEF CheckLimit, Goto, Matching
<1>12. CASE pc' \notin {"matching", "annotating", "patching"}
  BY <1>1, <1>12 DEF Matching
<1>13. CASE Reconcile
  BY <1>3, <1>5, <1>6, <1>7, <1>8, <1>10, <1>11, <1>12, <1>13, AttachedPatch
  DEF Reconcile, collectInfo, updateComposableResourceLastUsedTime,
      AnnotationRejected, handleNodes, PatchRejected,
      RescheduleFailedNotification, LimitsDone, FailingDone, MatchingDone,
      handleDevices, SizeModel, SizeRefused, SizingDone, UpdateNodeLabel, Goto
<1> QED
  BY <1>2, <1>3, <1>4, <1>13 DEF Next, PassCutShort

\* Only the patch of a matched claim gives it FabricDeviceReschedule.
LEMMA RescheduledByPatch ==
  ASSUME TypeInv, FitInv, "claims" \notin Lagging, [Next]_vars,
         NEW c \in Claims,
         "FabricDeviceReschedule" \in claims'[c].cond \ claims[c].cond
  PROVE  /\ setDevicesState /\ c = patch.claim
         /\ pc = "patching" /\ patch.next = "annotating"
<1>1. claims' # claims
  OBVIOUS
<1>2. ~Outside(Environment)
  BY EnvironmentVerdicts DEF Outside, TypeInv, TypeOK
<1>3. Reconcile
  BY <1>1, <1>2 DEF Next, PassCutShort, clusterVars, vars
<1>4. setDevicesState
  BY <1>1, <1>3
  DEF Reconcile, collectInfo, updateComposableResourceLastUsedTime,
      PatchComposableResourceAnnotation, AnnotationRejected, AnnotationsDone,
      handleNodes, PatchRejected, RescheduleFailedNotification, CheckClaim,
      CheckLimit, LimitsDone, FailingDone, RescheduleNotification, MatchClaim,
      MatchingDone, handleDevices, SizeModel, SizeRefused, SizingDone,
      UpdateNodeLabel, clusterVars
<1>5. /\ claims \in [Claims -> ClaimState] /\ pc = "patching"
      /\ patch.claim \in Claims
      /\ patch.next \in {"failing", "limits", "annotating"}
  BY <1>4 DEF setDevicesState, TypeInv, TypeOK, ClusterTypeOK, PassOK
<1>6. c = patch.claim
  BY <1>4, <1>5 DEF setDevicesState
<1>7. claims'[c].cond \in {claims[c].cond, claims[c].cond \cup {patch.type}}
  BY <1>4, <1>5, <1>6
  DEF setDevicesState, PatchedConditions, ClaimView, ClaimState
<1>8. patch.type = "FabricDeviceReschedule"
  BY <1>7
<1>9. patch.next = "annotating"
  BY <1>5, <1>8 DEF FitInv, Failing, Limiting, FailedPatch
<1> QED
  BY <1>4, <1>5, <1>6, <1>9

(***************************************************************************)
(* While claims and resources are read up to date, a claim that is told to *)
(* reschedule and is still the one the pass has read has an attached       *)
(* device on its node for each of its items.  Run double_booking is thus   *)
(* about claims together, which may count on the same device, and never    *)
(* about one of them alone.                                                *)
(***************************************************************************)
THEOREM RescheduledAreAttached ==
  ASSUME "claims" \notin Lagging, "resources" \notin Lagging
  PROVE  Spec => RescheduledIsAttached
<1> DEFINE Step ==
      \A c \in Claims, m \in Models :
        (/\ "FabricDeviceReschedule" \in claims'[c].cond \ claims[c].cond
         /\ infos[c].node = claims[c].node /\ infos[c].items = claims[c].pool)
        => Cardinality({i \in claims[c].pool : ItemModel[i] = m})
             <= Cardinality(AttachedDevices(claims[c].node, m))
<1>1. Init => AttachedInv
  BY DEF Init, AttachedInv, Matching
<1>2. TypeInv /\ FitInv /\ AttachedInv /\ [Next]_vars => AttachedInv'
  BY AttachedStep
<1>3. ASSUME TypeInv, FitInv, AttachedInv, [Next]_vars
      PROVE  [Step]_vars
  <2> SUFFICES ASSUME NEW c \in Claims, NEW m \in Models,
                 "FabricDeviceReschedule" \in claims'[c].cond \ claims[c].cond,
                 infos[c].node = claims[c].node,
                 infos[c].items = claims[c].pool
               PROVE  Cardinality({i \in claims[c].pool : ItemModel[i] = m})
                        <= Cardinality(AttachedDevices(claims[c].node, m))
    OBVIOUS
  <2> DEFINE found == {d \in marks : DeviceModel[d] = m}
  <2>1. c = patch.claim /\ pc = "patching" /\ patch.next = "annotating"
    BY <1>3, RescheduledByPatch
  <2>2. /\ OfferAttached /\ marks \subseteq avail /\ Matches(c, marks)
        /\ infos[c].node = cur
    BY <1>3, <2>1 DEF AttachedInv, Matching, FoundForAll
  <2>3. Cardinality({i \in claims[c].pool : ItemModel[i] = m})
          = Cardinality(found)
    BY <2>2 DEF Matches
  <2>4. found \subseteq AttachedDevices(claims[c].node, m)
    BY <1>3, <2>2 DEF OfferAttached, AttachedDevices, TypeInv, TypeOK
  <2>5. IsFiniteSet(AttachedDevices(claims[c].node, m))
    BY CountType, DevicesAssumption DEF AttachedDevices
  <2>6. Cardinality(found) <= Cardinality(AttachedDevices(claims[c].node, m))
    BY <2>4, <2>5, FS_Subset
  <2> QED
    BY <2>3, <2>6
<1> QED
  BY <1>1, <1>2, <1>3, FitInvariant, PTL DEF Spec, RescheduledIsAttached

=============================================================================
