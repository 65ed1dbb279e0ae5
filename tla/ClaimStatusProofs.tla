------------------------- MODULE ClaimStatusProofs --------------------------
(***************************************************************************)
(* Theorems about ClaimStatus, for every number of allocation results and  *)
(* every set of other writers, with a cache that may be behind.            *)
(***************************************************************************)
EXTENDS ClaimStatus, Extrema

\* The conditions of an entry: a function from some of the types.
LEMMA ConditionsType ==
  /\ \A f \in Conditions : DOMAIN f \subseteq Types /\ f \in [DOMAIN f -> BOOLEAN]
  /\ \A S \in SUBSET Types : [S -> BOOLEAN] \subseteq Conditions
  /\ NoConditions \in Conditions
<1>1. ASSUME NEW f \in Conditions
      PROVE  DOMAIN f \subseteq Types /\ f \in [DOMAIN f -> BOOLEAN]
  <2>1. PICK S \in SUBSET Types : f \in [S -> BOOLEAN]
    BY <1>1 DEF Conditions
  <2> QED
    BY <2>1
<1>2. ASSUME NEW S \in SUBSET Types, NEW f \in [S -> BOOLEAN]
      PROVE  f \in Conditions
  BY <1>2 DEF Conditions
<1>3. NoConditions \in [{} -> BOOLEAN]
  BY DEF NoConditions
<1> QED
  BY <1>1, <1>2, <1>3

\* What whoever else writes the status may write.
LEMMA WriterType ==
  ASSUME NEW w \in Writers
  PROVE  /\ \A R \in w.covers : R \subseteq Results
         /\ w.reports \subseteq Conditions
BY StatusAssumption

\* A report keeps entries well formed.
LEMMA ReportType ==
  ASSUME IsEntries(status), NEW R \in SUBSET Results, NEW report \in Conditions,
         Report(R, report)
  PROVE  /\ IsEntries(status')
         /\ DOMAIN status' = DOMAIN status \cup R
<1> DEFINE old(r) == IF r \in DOMAIN status THEN status[r] ELSE NoConditions
<1>1. /\ DOMAIN status' = DOMAIN status \cup R
      /\ \A r \in DOMAIN status \cup R :
           status'[r] =
             IF r \notin R THEN old(r)
             ELSE [t \in DOMAIN old(r) \cup DOMAIN report |->
                     IF t \in DOMAIN report THEN report[t] ELSE old(r)[t]]
  BY DEF Report
<1>2. \A r \in DOMAIN status \cup R : old(r) \in Conditions
  BY ConditionsType DEF IsEntries
<1>3. ASSUME NEW f \in Conditions
      PROVE  [t \in DOMAIN f \cup DOMAIN report |->
                IF t \in DOMAIN report THEN report[t] ELSE f[t]] \in Conditions
  <2>1. [t \in DOMAIN f \cup DOMAIN report |->
           IF t \in DOMAIN report THEN report[t] ELSE f[t]]
          \in [DOMAIN f \cup DOMAIN report -> BOOLEAN]
    BY <1>3, ConditionsType
  <2> QED
    BY <1>3, <2>1, ConditionsType
<1> HIDE DEF old
<1>4. \A r \in DOMAIN status' : status'[r] \in Conditions
  BY <1>1, <1>2, <1>3
<1> QED
  BY <1>1, <1>4 DEF IsEntries

\* The list the patch starts from has well-formed entries ...
LEMMA ExistingType ==
  ASSUME IsEntries(cache.status)
  PROVE  IsEntries(Existing)
BY ConditionsType DEF Existing, FreshEntries, IsEntries

\* ... and so has the one it sends.
LEMMA DraftType ==
  ASSUME NEW entries, IsEntries(entries), NEW t \in Verdicts
  PROVE  /\ IsEntries(WithCondition(entries, t))
         /\ DOMAIN WithCondition(entries, t) = DOMAIN entries
         /\ \A r \in DOMAIN entries :
              /\ DOMAIN WithCondition(entries, t)[r]
                   = DOMAIN entries[r] \cup {t}
              /\ WithCondition(entries, t)[r][t]
              /\ \A u \in DOMAIN entries[r] \ {t} :
                   WithCondition(entries, t)[r][u] = entries[r][u]
<1>1. ASSUME NEW f \in Conditions
      PROVE  [u \in DOMAIN f \cup {t} |-> IF u = t THEN TRUE ELSE f[u]]
               \in Conditions
  <2>1. [u \in DOMAIN f \cup {t} |-> IF u = t THEN TRUE ELSE f[u]]
          \in [DOMAIN f \cup {t} -> BOOLEAN]
    BY <1>1, ConditionsType
  <2> QED
    BY <1>1, <2>1, ConditionsType DEF Types
<1> QED
  BY <1>1 DEF WithCondition, IsEntries

-----------------------------------------------------------------------------
(***************************************************************************)
(* Type correctness.  While a patch is under way its type is a verdict,    *)
(* and another attempt is made only when there is one left.                *)
(***************************************************************************)
StatusType ==
  /\ TypeOK
  /\ pc \in {"get", "patch"} => type \in Verdicts
  /\ pc = "get" => tries < maxRetries

\* The state of a device is one of those a pass knows.
LEMMA DeviceStateType ==
  ASSUME NEW entries, NEW r
  PROVE  DeviceState(entries, r) \in {"Unset", "Preparing", "Failed", "Reschedule"}
BY DEF DeviceState, EntryState

\* Nothing is written, and no attempt made, between two passes.
LEMMA StatusReturn ==
  ASSUME StatusType, Return, UNCHANGED claimVars
  PROVE  StatusType'
<1>1. NoInfos \in [Pool -> {"None", "Unset", "Preparing", "Failed", "Reschedule"}]
  BY DEF NoInfos
<1>2. IsEntries(NoEntries)
  BY DEF IsEntries, NoEntries
<1>3. IsEntries(status)' /\ IsEntries(cache.status)' /\ IsEntries(draft)'
  BY <1>2 DEF Return, StatusType, TypeOK, claimVars, IsEntries
<1>4. tries' \in 0..maxRetries
  BY DEF Return, maxRetries
<1> QED
  BY <1>1, <1>3, <1>4 DEF Return, StatusType, TypeOK, claimVars, Allocated

\* Every step keeps the types.
LEMMA StatusTypeStep ==
  ASSUME StatusType, [Next]_vars
  PROVE  StatusType'
<1> USE DEF StatusType, TypeOK, maxRetries
<1>1. IsEntries(NoEntries)
  BY DEF IsEntries, NoEntries
<1>2. CASE Allocate \/ Deallocate \/ Delete \/ Create
             \/ \E l \in {"reserved", "unreserved"} : Reserve(l)
  BY <1>1, <1>2
  DEF Allocate, Deallocate, Delete, Create, Reserve, Allocated,
      AllocatedLives, scalerVars, IsEntries
<1>3. ASSUME NEW R \in other.covers, NEW report \in other.reports,
             Report(R, report)
      PROVE  StatusType'
  <2>1. IsEntries(status)'
    BY <1>3, WriterType, ReportType DEF IsEntries
  <2> QED
    BY <1>3, <2>1 DEF Report, Allocated, scalerVars, IsEntries
<1>4. CASE GetResourceClaimInfo
  <2>1. infos' \in [Pool -> {"Unset", "Preparing", "Failed", "Reschedule"}]
    BY <1>4, DeviceStateType DEF GetResourceClaimInfo
  <2> QED
    BY <1>4, <2>1 DEF GetResourceClaimInfo, claimVars, Allocated, IsEntries
<1>5. CASE Fail \/ Reschedule
  <2>1. UNCHANGED <<claimVars, draft>> /\ pc' = "get" /\ tries' = 0
    BY <1>5 DEF Fail, Reschedule, setDevicesState
  <2>2. infos' \in [Pool -> {"Failed", "Reschedule"}] /\ type' \in Verdicts
    BY <1>5 DEF Fail, Reschedule, setDevicesState, Verdicts
  <2>3. IsEntries(status)' /\ IsEntries(cache.status)' /\ IsEntries(draft)'
    BY <2>1 DEF claimVars, IsEntries
  <2> QED
    BY <2>1, <2>2, <2>3 DEF claimVars, Allocated
<1>6. CASE PassDone \/ PatchRejected
  BY <1>6, StatusReturn DEF PassDone, PatchRejected
<1>7. CASE Get
  <2>1. IsEntries(WithCondition(Existing, type))
    BY <1>7, ExistingType, DraftType DEF Get
  <2>2. CASE UNCHANGED <<draft, tries>> /\ pc' = "pass" /\ type' = "None"
    BY <1>7, <2>2 DEF Get, claimVars, Allocated, IsEntries
  <2>3. CASE /\ pc' = "patch" /\ draft' = WithCondition(Existing, type)
             /\ tries' = tries + 1 /\ UNCHANGED type
    <3>1. IsEntries(draft)'
      BY <2>1, <2>3 DEF IsEntries
    <3>2. tries' \in 0..maxRetries /\ type \in Verdicts
      <4>1. tries \in 0..2 /\ tries < 2 /\ type \in Verdicts
        BY <1>7 DEF Get
      <4> QED
        BY <2>3, <4>1
    <3>3. UNCHANGED <<claimVars, infos>> /\ pc' = "patch" /\ type' = type
      BY <1>7, <2>3 DEF Get
    <3> QED
      BY <3>1, <3>2, <3>3 DEF claimVars, Allocated, IsEntries
  <2> QED
    BY <1>7, <2>2, <2>3 DEF Get
<1>8. CASE Patch
  <2>1. IsEntries(status)' /\ IsEntries(draft)'
    BY <1>1, <1>8 DEF Patch, IsEntries
  <2>2. CASE cache' = cache
    BY <1>8, <2>1, <2>2 DEF Patch, Allocated, IsEntries
  <2>3. CASE cache' = [life |-> life, status |-> draft]
    <3>1. cache'.life = life /\ cache'.status = draft
      BY <2>3
    <3> QED
      BY <1>8, <2>1, <3>1 DEF Patch, Allocated, IsEntries
  <2> QED
    BY <1>8, <2>2, <2>3 DEF Patch
<1>9. CASE Conflict
  <2>1. CASE Return
    BY <1>9, <2>1, StatusReturn DEF Conflict
  <2> QED
    BY <1>1, <1>9, <2>1 DEF Conflict, claimVars, Allocated, IsEntries
<1>10. CASE Sync
  <2>1. cache'.life = life /\ cache'.status = status
    BY <1>10 DEF Sync
  <2> QED
    BY <1>10, <2>1 DEF Sync, scalerVars, Allocated, IsEntries
<1>11. CASE UNCHANGED vars
  BY <1>11 DEF vars, claimVars, scalerVars, Allocated, IsEntries
<1> QED
  BY <1>2, <1>3, <1>4, <1>5, <1>6, <1>7, <1>8, <1>9, <1>10, <1>11 DEF Next

\* At first the claim has no allocation and no pass is under way.
LEMMA StatusTypeInit == Init => StatusType
BY DEF Init, StatusType, TypeOK, NoEntries, IsEntries, NoInfos, Allocated,
       AllocatedLives, maxRetries

(***************************************************************************)
(* The status never has an entry outside the allocation, what is sent is a *)
(* list of well-formed entries, and a patch is tried at most maxRetries    *)
(* times, whoever else writes the status and however old the cache is.     *)
(***************************************************************************)
THEOREM StatusTypeCorrect == Spec => []TypeOK
<1>1. StatusType /\ [Next]_vars => StatusType'
  BY StatusTypeStep
<1>2. StatusType => TypeOK
  BY DEF StatusType
<1> QED
  BY <1>1, <1>2, StatusTypeInit, PTL DEF Spec

-----------------------------------------------------------------------------
(***************************************************************************)
(* No pool device is rescheduled once it failed.  Entries are found by     *)
(* device name, so a pool device must not share its name with another      *)
(* result, and the two verdicts must be the scaler's own.  The invariant   *)
(* follows what the pass remembers to what it writes: a device it takes    *)
(* for Preparing has not failed, so neither has one it is about to         *)
(* reschedule; and a list drafted to fail the devices carries no verdict   *)
(* that a failed device does not have already.                             *)
(*                                                                         *)
(* All reads are answered by the cache.  What makes them good enough is    *)
(* SeenInv: if the cache has the scaler's own patches, then an answered    *)
(* claim has no verdicts but the ones the cache shows, however old the     *)
(* rest of it is.  A cache that still shows those of an allocation that    *)
(* has ended does no harm.                                                 *)
(***************************************************************************)
OwnNames ==
  \A r \in Pool, e \in Results : DeviceName[e] = DeviceName[r] => e = r

OwnVerdicts ==
  \A w \in Writers : \A report \in w.reports : DOMAIN report \cap Verdicts = {}

SeenInv ==
  ClaimConditions # {} =>
    \A r \in Results, t \in Verdicts : Says(cache.status, r, t) <=> Told(r, t)

FailedInv ==
  \A r \in Pool :
    /\ infos[r] = "Preparing" => ~Told(r, "FabricDeviceFailed")
    /\ pc \in {"get", "patch"} => infos[r] \in {"Failed", "Reschedule"}
    /\ pc \in {"get", "patch"} /\ type = "FabricDeviceReschedule"
         => ~Told(r, "FabricDeviceFailed")
    /\ (/\ pc = "patch" /\ type = "FabricDeviceFailed"
        /\ Told(r, "FabricDeviceFailed")
        /\ Says(draft, r, "FabricDeviceReschedule"))
         => Told(r, "FabricDeviceReschedule")

\* A device that is read as Preparing has not failed.
LEMMA PreparingIsNotFailed ==
  ASSUME NEW entries, IsEntries(entries), OwnNames, NEW r \in Pool,
         DeviceState(entries, r) = "Preparing"
  PROVE  ~Says(entries, r, "FabricDeviceFailed")
<1>1. CASE DOMAIN entries = {}
  BY <1>1 DEF Says
<1>2. CASE Telling(entries, r) # {}
  <2>1. Telling(entries, r) = {r}
    BY <1>2, StatusAssumption DEF Telling, OwnNames, IsEntries
  <2>2. r \in Nat
    BY StatusAssumption
  <2>3. Max({r}) = r
    BY <2>2 DEF Max
  <2>4. DOMAIN entries # {}
    BY <1>2 DEF Telling
  <2>5. EntryState(entries[r]) = "Preparing"
    BY <2>1, <2>3, <2>4 DEF DeviceState
  <2> QED
    BY <2>5 DEF EntryState, Says
<1> QED
  BY <1>1, <1>2 DEF DeviceState

\* Whoever else writes the status says nothing new about a verdict.
LEMMA ReportSaysNothing ==
  ASSUME StatusType, NEW R \in other.covers, NEW report \in other.reports,
         DOMAIN report \cap Verdicts = {}, Report(R, report),
         NEW r, NEW t \in Verdicts
  PROVE  Told(r, t)' <=> Told(r, t)
<1> DEFINE old == IF r \in DOMAIN status THEN status[r] ELSE NoConditions
<1>1. t \notin DOMAIN report
  OBVIOUS
<1>2. /\ DOMAIN status' = DOMAIN status \cup R
      /\ r \in DOMAIN status' =>
           status'[r] =
             IF r \notin R THEN old
             ELSE [u \in DOMAIN old \cup DOMAIN report |->
                     IF u \in DOMAIN report THEN report[u] ELSE old[u]]
  BY DEF Report
<1>3. CASE r \notin DOMAIN status'
  BY <1>2, <1>3 DEF Told, Says
<1>4. CASE r \in DOMAIN status'
  <2>1. hasConditionWithStatus(status'[r], t) <=> hasConditionWithStatus(old, t)
    BY <1>1, <1>2, <1>4 DEF hasConditionWithStatus
  <2>2. Told(r, t) <=> hasConditionWithStatus(old, t)
    BY DEF Told, Says, hasConditionWithStatus, NoConditions
  <2> QED
    BY <1>4, <2>1, <2>2 DEF Told, Says
<1> QED
  BY <1>3, <1>4

\* Others leave the conditions of the claim as they are.
LEMMA ReportKeepsConditions ==
  ASSUME StatusType, LeavesVerdicts, NEW R \in other.covers,
         NEW report \in other.reports, Report(R, report)
  PROVE  ClaimConditions' = ClaimConditions
<1>1. DOMAIN report \cap Verdicts = {}
  BY DEF LeavesVerdicts
<1>2. \A r \in Results, t \in Verdicts : Told(r, t)' <=> Told(r, t)
  BY <1>1, ReportSaysNothing
<1> QED
  BY <1>2 DEF ClaimConditions, SaidBy, Told

\* The other writer stays the same.
LEMMA SameWriter ==
  ASSUME [Next]_vars
  PROVE  UNCHANGED other
BY DEF Next, Allocate, Deallocate, Delete, Create, Reserve, Report, Sync,
       GetResourceClaimInfo, Fail, Reschedule, setDevicesState, PassDone,
       Get, Patch, PatchRejected, Conflict, claimVars, vars

\* Every step leaves the verdicts of an answered claim in the cache.
LEMMA SeenStep ==
  ASSUME StatusType, SeenInv, LeavesVerdicts, OwnWritesSeen, [Next]_vars
  PROVE  SeenInv'
<1>1. CASE cache'.status = status'
  BY <1>1 DEF SeenInv, Told, Says
<1>2. CASE Sync \/ Patch
  <2>1. cache'.status = status'
    BY <1>2 DEF Sync, Patch
  <2> QED
    BY <1>1, <2>1
<1>3. CASE Deallocate
  BY <1>3 DEF Deallocate, SeenInv, ClaimConditions, SaidBy, Says, NoEntries
<1>4. ASSUME NEW R \in other.covers, NEW report \in other.reports,
             Report(R, report)
      PROVE  SeenInv'
  <2>1. DOMAIN report \cap Verdicts = {}
    BY DEF LeavesVerdicts
  <2>2. \A r \in Results, t \in Verdicts : Told(r, t)' <=> Told(r, t)
    BY <1>4, <2>1, ReportSaysNothing
  <2>3. ClaimConditions' = ClaimConditions /\ UNCHANGED cache
    BY <1>4, ReportKeepsConditions DEF Report
  <2>4. \A r \in Results, t \in Verdicts :
          Says(cache.status, r, t)' <=> Says(cache.status, r, t)
    BY <2>3 DEF Says
  <2> QED
    BY <2>2, <2>3, <2>4 DEF SeenInv
<1>5. CASE UNCHANGED <<status, cache>>
  BY <1>5 DEF SeenInv, ClaimConditions, SaidBy, Told, Says
<1> QED
  BY <1>2, <1>3, <1>4, <1>5
  DEF Next, Allocate, Delete, Create, Reserve, GetResourceClaimInfo, Fail,
      Reschedule, setDevicesState, PassDone, Get, PatchRejected, Conflict,
      claimVars, vars

\* The list to be sent says the verdict, and else what the cache says.
LEMMA DraftSays ==
  ASSUME StatusType, Get, pc' = "patch", NEW r, NEW t \in Verdicts
  PROVE  Says(draft, r, t)' => t = type \/ Says(cache.status, r, t)
<1>1. draft' = WithCondition(Existing, type) /\ IsEntries(Existing)
      /\ type \in Verdicts
  BY ExistingType DEF Get, StatusType, TypeOK
<1>2. ASSUME Says(draft, r, t)', t # type
      PROVE  Says(cache.status, r, t)
  <2>1. r \in DOMAIN Existing /\ hasConditionWithStatus(Existing[r], t)
    BY <1>1, <1>2, DraftType DEF Says, hasConditionWithStatus
  <2> QED
    BY <2>1 DEF Existing, FreshEntries, NoConditions, hasConditionWithStatus,
                Says
<1> QED
  BY <1>2

\* No step reschedules a pool device that failed.
LEMMA FailedStep ==
  ASSUME StatusType, FailedInv, OwnVerdicts, [Next]_vars, NEW r \in Pool,
         Told(r, "FabricDeviceFailed"), Told(r, "FabricDeviceReschedule")'
  PROVE  Told(r, "FabricDeviceReschedule")
<1>1. ASSUME NEW R \in other.covers, NEW report \in other.reports,
             Report(R, report)
      PROVE  Told(r, "FabricDeviceReschedule")
  BY <1>1, ReportSaysNothing DEF Verdicts, OwnVerdicts, StatusType, TypeOK
<1>2. CASE Patch
  <2>1. type \in Verdicts /\ pc = "patch"
    BY <1>2 DEF Patch, StatusType
  <2>2. Says(draft, r, "FabricDeviceReschedule")
    BY <1>2 DEF Patch, Says, Told, Says
  <2> QED
    BY <2>1, <2>2 DEF FailedInv, Verdicts
<1>3. CASE UNCHANGED status
  BY <1>3 DEF Told, Says
<1>4. CASE Deallocate
  BY <1>4 DEF Deallocate, Told, Says, NoEntries
<1> QED
  BY <1>1, <1>2, <1>3, <1>4
  DEF Next, Allocate, Delete, Create, Reserve, Sync, GetResourceClaimInfo, Fail,
      Reschedule, setDevicesState, PassDone, Get, PatchRejected, Conflict,
      claimVars, vars

\* The invariant is kept where a pass changes nothing but its own state ...
LEMMA FailedReturn ==
  ASSUME Return
  PROVE  FailedInv'
BY DEF Return, FailedInv, NoInfos

\* ... and by every other step.
LEMMA FailedInvStep ==
  ASSUME StatusType, FailedInv, SeenInv, OwnNames, OwnVerdicts, [Next]_vars
  PROVE  FailedInv'
<1>1. CASE /\ UNCHANGED scalerVars
           /\ \A r \in Pool, t \in Verdicts : Told(r, t)' <=> Told(r, t)
  BY <1>1 DEF FailedInv, scalerVars, Says, Verdicts
<1>2. CASE UNCHANGED scalerVars /\ UNCHANGED status
  BY <1>1, <1>2 DEF Told, Says
<1>3. CASE Deallocate
  BY <1>3 DEF Deallocate, FailedInv, scalerVars, Told, Says, NoEntries
<1>4. ASSUME NEW R \in other.covers, NEW report \in other.reports,
             Report(R, report)
      PROVE  FailedInv'
  <2>1. DOMAIN report \cap Verdicts = {}
    BY DEF OwnVerdicts, StatusType, TypeOK
  <2> QED
    BY <1>1, <1>4, <2>1, ReportSaysNothing DEF Report
<1>5. CASE GetResourceClaimInfo
  <2>1. ASSUME NEW r \in Pool, infos'[r] = "Preparing"
        PROVE  ~Told(r, "FabricDeviceFailed")
    <3>1. ~Says(cache.status, r, "FabricDeviceFailed")
      BY <1>5, <2>1, PreparingIsNotFailed
      DEF GetResourceClaimInfo, StatusType, TypeOK
    <3>2. r \in Results /\ "FabricDeviceFailed" \in Verdicts
      BY StatusAssumption DEF Verdicts
    <3> QED
      BY <3>1, <3>2 DEF SeenInv, ClaimConditions, SaidBy, Told
  <2>2. \A r \in Pool, t \in Verdicts : Told(r, t)' <=> Told(r, t)
    BY <1>5 DEF GetResourceClaimInfo, claimVars, Told, Says
  <2> QED
    BY <1>5, <2>1, <2>2 DEF GetResourceClaimInfo, FailedInv, Verdicts
<1>6. CASE Fail
  BY <1>6 DEF Fail, setDevicesState, FailedInv
<1>7. CASE Reschedule
  BY <1>7 DEF Reschedule, setDevicesState, FailedInv, claimVars, Told, Says
<1>8. CASE Return
  BY <1>8, FailedReturn
<1>9. CASE Get
  <2>1. \A r \in Pool, t \in Verdicts : Told(r, t)' <=> Told(r, t)
    BY <1>9 DEF Get, claimVars, Told, Says
  <2>2. CASE pc' = "pass"
    BY <1>9, <2>1, <2>2 DEF Get, FailedInv, Verdicts
  <2>3. CASE pc' = "patch"
    <3>1. ASSUME NEW r \in Pool, type = "FabricDeviceFailed",
                 Told(r, "FabricDeviceFailed"),
                 Says(draft, r, "FabricDeviceReschedule")'
          PROVE  Told(r, "FabricDeviceReschedule")
      <4>1. r \in Results
        BY StatusAssumption
      <4>2. Says(cache.status, r, "FabricDeviceReschedule")
        BY <1>9, <2>3, <3>1, DraftSays DEF Verdicts
      <4> QED
        BY <3>1, <4>1, <4>2 DEF SeenInv, ClaimConditions, SaidBy, Told, Verdicts
    <3> QED
      BY <1>9, <2>1, <2>3, <3>1 DEF Get, FailedInv, Verdicts
  <2> QED
    BY <1>9, <2>2, <2>3 DEF Get
<1>10. CASE Patch
  BY <1>10 DEF Patch, FailedInv
<1>11. CASE Conflict
  <2>1. CASE ~Return
    BY <1>11, <2>1 DEF Conflict, FailedInv, claimVars, Told, Says
  <2> QED
    BY <1>8, <2>1
<1> QED
  BY <1>2, <1>3, <1>4, <1>5, <1>6, <1>7, <1>8, <1>9, <1>10, <1>11
  DEF Next, Allocate, Delete, Create, Reserve, Sync, PassDone, PatchRejected,
      vars, claimVars

(***************************************************************************)
(* A pool device that failed is never told to be rescheduled afterwards,   *)
(* however often others write the status between the Get and the patch,    *)
(* the allocation ends and begins again, and both reads get an old claim:  *)
(* provided its name is its own in the claim, nobody else writes the two   *)
(* verdicts, and the cache has the scaler's own patches.                   *)
(***************************************************************************)
THEOREM FailedDevicesStay ==
  ASSUME OwnNames, OwnVerdicts, OwnWritesSeen
  PROVE  Spec => FailedNotRescheduled
<1> DEFINE Inv == StatusType /\ FailedInv /\ SeenInv
<1>1. Init => Inv
  BY StatusTypeInit DEF Init, FailedInv, NoInfos, SeenInv, ClaimConditions,
                        SaidBy, Says, NoEntries
<1>2. ASSUME Inv, [Next]_vars
      PROVE  Inv'
  <2>1. LeavesVerdicts
    BY <1>2 DEF LeavesVerdicts, OwnVerdicts, StatusType, TypeOK
  <2> QED
    BY <1>2, <2>1, StatusTypeStep, FailedInvStep, SeenStep
<1>3. Inv /\ FailedInv /\ [Next]_vars
        => [\A r \in Pool :
              Told(r, "FabricDeviceFailed") /\ Told(r, "FabricDeviceReschedule")'
                => Told(r, "FabricDeviceReschedule")]_vars
  BY FailedStep
<1> QED
  BY <1>1, <1>2, <1>3, PTL DEF Spec, FailedNotRescheduled

-----------------------------------------------------------------------------
(***************************************************************************)
(* One set of conditions for the claim.  If whoever else writes the status *)
(* covers all devices, all entries are alike and say something, and so     *)
(* do those in the cache and in the list the scaler is about to send,      *)
(* either of which may be older than the status.                           *)
(***************************************************************************)
Uniform(entries) ==
  /\ DOMAIN entries \in {{}, Results}
  /\ \A r1, r2 \in DOMAIN entries : entries[r1] = entries[r2]
  /\ \A r \in DOMAIN entries :
       DOMAIN entries[r] # {} /\ ~hasConditionWithStatus(entries[r], "Ready")

UniformInv ==
  Thorough => Uniform(status) /\ Uniform(cache.status) /\ Uniform(draft)

\* Entries that are alike and say something have the state of the claim.
LEMMA UniformAgree ==
  ASSUME NEW entries, IsEntries(entries), Uniform(entries), NEW r \in Pool
  PROVE  DeviceState(entries, r) =
           CASE SaidBy(entries) = {} -> "Preparing"
             [] SaidBy(entries) = {"FabricDeviceFailed"} -> "Failed"
             [] OTHER -> "Reschedule"
<1>1. CASE DOMAIN entries = {}
  <2>1. SaidBy(entries) = {}
    BY <1>1 DEF SaidBy, Says
  <2> QED
    BY <1>1, <2>1 DEF DeviceState
<1>2. CASE DOMAIN entries = Results
  <2> DEFINE conds == entries[r]
             Failed == hasConditionWithStatus(conds, "FabricDeviceFailed")
             Resch == hasConditionWithStatus(conds, "FabricDeviceReschedule")
  <2>1. r \in Results /\ Results \subseteq Nat /\ IsFiniteSet(Results)
    BY StatusAssumption
  <2>2. \A e \in Results : entries[e] = conds
    BY <1>2, <2>1 DEF Uniform
  <2>3. DOMAIN conds # {} /\ ~hasConditionWithStatus(conds, "Ready")
    BY <1>2, <2>1 DEF Uniform
  <2>4. EntryState(conds) =
          IF Resch THEN "Reschedule" ELSE IF Failed THEN "Failed"
          ELSE "Preparing"
    BY <2>3
    DEF EntryState, hasMatchingBindingCondition, BindingConditions,
        BindingFailureConditions, Verdicts
  <2>5. DeviceState(entries, r) = EntryState(conds)
    <3>1. Telling(entries, r) \in SUBSET Results /\ r \in Telling(entries, r)
      BY <1>2, <2>1, <2>4 DEF Telling
    <3>2. IsFiniteSet(Telling(entries, r))
      BY <2>1, <3>1, FS_Subset
    <3>3. Max(Telling(entries, r)) \in Results
      BY <2>1, <3>1, <3>2, MaxExists
    <3> QED
      BY <1>2, <2>1, <2>2, <3>1, <3>3 DEF DeviceState
  <2>6. SaidBy(entries) = {t \in Verdicts : hasConditionWithStatus(conds, t)}
    BY <1>2, <2>1, <2>2 DEF SaidBy, Says
  <2> HIDE DEF conds
  <2>7. CASE Resch
    <3>1. "FabricDeviceReschedule" \in SaidBy(entries)
      BY <2>6, <2>7 DEF Verdicts
    <3>2. SaidBy(entries) # {} /\ SaidBy(entries) # {"FabricDeviceFailed"}
      BY <3>1
    <3> QED
      BY <2>4, <2>5, <2>7, <3>2
  <2>8. CASE ~Resch /\ Failed
    <3>1. SaidBy(entries) = {"FabricDeviceFailed"}
      BY <2>6, <2>8 DEF Verdicts
    <3> QED
      BY <2>4, <2>5, <2>8, <3>1
  <2>9. CASE ~Resch /\ ~Failed
    <3>1. SaidBy(entries) = {}
      BY <2>6, <2>9 DEF Verdicts
    <3> QED
      BY <2>4, <2>5, <2>9, <3>1
  <2> QED
    BY <2>7, <2>8, <2>9
<1> QED
  BY <1>1, <1>2 DEF Uniform

\* A thorough report leaves all entries alike.
LEMMA UniformReport ==
  ASSUME StatusType, Thorough, Uniform(status), NEW R \in other.covers,
         NEW report \in other.reports, Report(R, report)
  PROVE  Uniform(status)'
<1> DEFINE old(r) == IF r \in DOMAIN status THEN status[r] ELSE NoConditions
           new(r) == [t \in DOMAIN old(r) \cup DOMAIN report |->
                        IF t \in DOMAIN report THEN report[t] ELSE old(r)[t]]
<1>1. /\ R = Results /\ DOMAIN report # {}
      /\ ~hasConditionWithStatus(report, "Ready")
  BY DEF Thorough, hasMatchingBindingCondition, BindingConditions
<1>2. DOMAIN status' = Results /\ \A r \in Results : status'[r] = new(r)
  BY <1>1 DEF Report, Uniform
<1>3. \A r1, r2 \in Results : old(r1) = old(r2)
  BY DEF Uniform
<1>4. \A r \in Results : ~hasConditionWithStatus(old(r), "Ready")
  BY DEF Uniform, NoConditions, hasConditionWithStatus
<1> HIDE DEF old
<1>5. \A r1, r2 \in Results : new(r1) = new(r2)
  BY <1>3
<1>6. \A r \in Results :
        DOMAIN new(r) # {} /\ ~hasConditionWithStatus(new(r), "Ready")
  BY <1>1, <1>4 DEF hasConditionWithStatus
<1> HIDE DEF new
<1> QED
  BY <1>2, <1>5, <1>6 DEF Uniform

\* The list drafted from entries that are alike has entries that are alike.
LEMMA UniformDraft ==
  ASSUME StatusType, Uniform(cache.status), Get, pc' = "patch"
  PROVE  Uniform(draft)'
<1> DEFINE new(f) == [u \in DOMAIN f \cup {type} |->
                        IF u = type THEN TRUE ELSE f[u]]
<1>1. /\ type \in Verdicts
      /\ draft' = [r \in DOMAIN Existing |-> new(Existing[r])]
  BY DEF Get, StatusType, WithCondition
<1>2. /\ DOMAIN Existing \in {{}, Results}
      /\ \A r1, r2 \in DOMAIN Existing : Existing[r1] = Existing[r2]
      /\ \A r \in DOMAIN Existing :
           ~hasConditionWithStatus(Existing[r], "Ready")
  BY DEF Existing, FreshEntries, NoConditions, hasConditionWithStatus, Uniform
<1>3. "Ready" # type
  BY <1>1 DEF Verdicts
<1>4. ASSUME NEW f, ~hasConditionWithStatus(f, "Ready")
      PROVE  DOMAIN new(f) # {} /\ ~hasConditionWithStatus(new(f), "Ready")
  BY <1>3, <1>4 DEF hasConditionWithStatus
<1> HIDE DEF new
<1> QED
  BY <1>1, <1>2, <1>4 DEF Uniform

\* Every step keeps the entries alike.
LEMMA UniformStep ==
  ASSUME StatusType, UniformInv, [Next]_vars
  PROVE  UniformInv'
<1> SUFFICES ASSUME Thorough'
             PROVE  /\ Uniform(status)' /\ Uniform(cache.status)'
                    /\ Uniform(draft)'
  BY DEF UniformInv
<1>1. UNCHANGED other
  BY SameWriter
<1>2. Thorough /\ Uniform(status) /\ Uniform(cache.status) /\ Uniform(draft)
  BY <1>1 DEF Thorough, UniformInv
<1>3. Uniform(NoEntries)
  BY DEF Uniform, NoEntries
<1>4. ASSUME NEW R \in other.covers, NEW report \in other.reports,
             Report(R, report)
      PROVE  Uniform(status)' /\ Uniform(cache.status)' /\ Uniform(draft)'
  <2>1. Uniform(status)'
    BY <1>2, <1>4, UniformReport
  <2>2. UNCHANGED <<cache, draft>>
    BY <1>4 DEF Report, scalerVars
  <2> QED
    BY <1>2, <2>1, <2>2 DEF Uniform
<1>5. CASE Get
  BY <1>2, <1>5, UniformDraft DEF Get, claimVars, Uniform
<1>6. CASE Patch
  <2>1. /\ status' = draft /\ draft' = NoEntries
        /\ cache'.status \in {cache.status, draft}
    BY <1>6 DEF Patch
  <2> QED
    BY <1>2, <1>3, <2>1 DEF Uniform
<1>7. CASE /\ status' \in {status, NoEntries}
           /\ cache'.status \in {cache.status, status}
           /\ draft' \in {draft, NoEntries}
  BY <1>2, <1>3, <1>7 DEF Uniform
<1>8. CASE Sync
  <2>1. cache'.status = status /\ UNCHANGED <<status, draft>>
    BY <1>8 DEF Sync, scalerVars
  <2> QED
    BY <1>7, <2>1
<1> QED
  BY <1>4, <1>5, <1>6, <1>7, <1>8
  DEF Next, Allocate, Deallocate, Delete, Create, Reserve, Return,
      GetResourceClaimInfo, Fail, Reschedule, setDevicesState, PassDone,
      PatchRejected, Conflict, claimVars, scalerVars, vars

(***************************************************************************)
(* As long as whoever else writes status.devices covers all devices and    *)
(* sets no binding condition, a pass reads every pool device in the state  *)
(* that the conditions of the claim as a whole stand for, also where pools *)
(* repeat a device name and the cache has an old claim: what               *)
(* ResourceMonitor takes for granted of a claim.                           *)
(***************************************************************************)
THEOREM DevicesDoAgree == Spec => []DevicesAgree
<1>1. Init => UniformInv
  BY DEF Init, UniformInv, Uniform, NoEntries
<1>2. StatusType /\ UniformInv /\ [Next]_vars => StatusType' /\ UniformInv'
  BY StatusTypeStep, UniformStep
<1>3. StatusType /\ UniformInv => DevicesAgree
  BY UniformAgree DEF StatusType, TypeOK, UniformInv, DevicesAgree
<1> QED
  BY <1>1, <1>2, <1>3, StatusTypeInit, PTL DEF Spec

-----------------------------------------------------------------------------
(***************************************************************************)
(* The claim as ScalerService has it.  A pass that takes a device for      *)
(* Preparing, or has an answer under way, works on a claim that has none,  *)
(* neither in the API server nor in the cache, and the list it is about to *)
(* send says that answer and no other.  The allocation may have ended and  *)
(* begun again since: the answer is then that of an earlier allocation,    *)
(* but it is still the first.                                              *)
(***************************************************************************)
Helpful == Thorough /\ LeavesVerdicts

Unanswered == ClaimConditions = {} /\ SaidBy(cache.status) = {}

AnswerInv ==
  /\ ClaimConditions # Verdicts
  /\ (\E r \in Pool : infos[r] = "Preparing") => Unanswered
  /\ pc \in {"get", "patch"} =>
       /\ Unanswered
       /\ \A r \in Pool : infos[r] \in {"Failed", "Reschedule"}
  /\ pc = "patch" => SaidBy(draft) = {type}

\* A list with a condition added to all entries says that condition.
LEMMA DraftAnswers ==
  ASSUME StatusType, Get, pc' = "patch", SaidBy(cache.status) = {}
  PROVE  SaidBy(draft)' = {type}
<1>1. /\ draft' = WithCondition(Existing, type) /\ DOMAIN Existing # {}
      /\ IsEntries(Existing) /\ type \in Verdicts
  BY ExistingType DEF Get, StatusType, TypeOK
<1>2. PICK r \in DOMAIN Existing : r \in Results
  BY <1>1 DEF IsEntries
<1>3. Says(draft', r, type)
  BY <1>1, <1>2, DraftType DEF Says, hasConditionWithStatus
<1>4. ASSUME NEW e \in Results, NEW t \in Verdicts, Says(draft', e, t)
      PROVE  t = type
  <2>1. ~Says(cache.status, e, t)
    BY DEF SaidBy
  <2>2. Says(draft, e, t)' => t = type \/ Says(cache.status, e, t)
    BY DraftSays
  <2> QED
    BY <1>4, <2>1, <2>2 DEF Says
<1>5. SaidBy(draft') = {type}
  BY <1>1, <1>2, <1>3, <1>4 DEF SaidBy
<1> QED
  BY <1>5 DEF SaidBy, Says

\* The steps that change the verdicts of the claim: the end of an allocation,
\* and the patch.
LEMMA ConditionsStep ==
  ASSUME StatusType, Helpful, AnswerInv, [Next]_vars
  PROVE  \/ ClaimConditions' = ClaimConditions
         \/ Deallocate /\ ClaimConditions' = {}
         \/ Patch /\ ClaimConditions = {} /\ ClaimConditions' = {type}
            /\ type \in Verdicts
<1>1. ASSUME NEW R \in other.covers, NEW report \in other.reports,
             Report(R, report)
      PROVE  ClaimConditions' = ClaimConditions
  BY <1>1, ReportKeepsConditions DEF Helpful
<1>2. CASE Deallocate
  BY <1>2 DEF Deallocate, ClaimConditions, SaidBy, Says, NoEntries
<1>3. CASE Patch
  <2>1. ClaimConditions = {} /\ SaidBy(draft) = {type} /\ type \in Verdicts
    BY <1>3 DEF Patch, AnswerInv, Unanswered, StatusType
  <2>2. ClaimConditions' = SaidBy(draft)
    BY <1>3 DEF Patch, ClaimConditions, SaidBy, Says
  <2> QED
    BY <1>3, <2>1, <2>2
<1>4. CASE UNCHANGED status
  BY <1>4 DEF ClaimConditions, SaidBy, Says
<1> QED
  BY <1>1, <1>2, <1>3, <1>4
  DEF Next, Allocate, Delete, Create, Reserve, Sync, GetResourceClaimInfo, Fail,
      Reschedule, setDevicesState, PassDone, Get, PatchRejected, Conflict,
      claimVars, vars

\* A claim without an answer stays so in the cache, up to the patch.
LEMMA UnansweredStep ==
  ASSUME StatusType, Helpful, AnswerInv, Unanswered, [Next]_vars, ~Patch
  PROVE  Unanswered'
<1>1. ClaimConditions' = {}
  BY ConditionsStep DEF Unanswered
<1>2. CASE Sync
  <2>1. cache'.status = status /\ UNCHANGED status
    BY <1>2 DEF Sync
  <2>2. SaidBy(cache.status)' = ClaimConditions'
    BY <2>1 DEF SaidBy, ClaimConditions, Says
  <2> QED
    BY <1>1, <2>2 DEF Unanswered
<1>3. CASE UNCHANGED cache
  <2>1. SaidBy(cache.status)' = SaidBy(cache.status)
    BY <1>3 DEF SaidBy, Says
  <2> QED
    BY <1>1, <2>1 DEF Unanswered
<1> QED
  BY <1>2, <1>3
  DEF Next, Allocate, Deallocate, Delete, Create, Reserve, Report,
      GetResourceClaimInfo, Fail, Reschedule, setDevicesState, PassDone, Get,
      PatchRejected, Conflict, claimVars, vars

\* Every step keeps the answer the first one.
LEMMA AnswerStep ==
  ASSUME StatusType, UniformInv, SeenInv, Helpful, AnswerInv, [Next]_vars
  PROVE  AnswerInv'
<1>1. \/ ClaimConditions' = ClaimConditions
      \/ Deallocate /\ ClaimConditions' = {}
      \/ Patch /\ ClaimConditions = {} /\ ClaimConditions' = {type}
         /\ type \in Verdicts
  BY ConditionsStep
<1>2. ClaimConditions' # Verdicts
  BY <1>1 DEF AnswerInv, Verdicts
<1>3. Unanswered /\ ~Patch => Unanswered'
  BY UnansweredStep
<1>4. CASE UNCHANGED scalerVars
  <2>1. ~Patch
    BY <1>4 DEF Patch, scalerVars
  <2>2. SaidBy(draft)' = SaidBy(draft)
    BY <1>4 DEF scalerVars, SaidBy, Says
  <2> QED
    BY <1>2, <1>3, <1>4, <2>1, <2>2 DEF AnswerInv, scalerVars
<1>5. CASE GetResourceClaimInfo
  <2>1. ASSUME NEW r \in Pool, infos'[r] = "Preparing"
        PROVE  Unanswered
    <3>1. DeviceState(cache.status, r) = "Preparing"
      BY <1>5, <2>1 DEF GetResourceClaimInfo
    <3>2. IsEntries(cache.status) /\ Uniform(cache.status)
      BY DEF StatusType, TypeOK, UniformInv, Helpful
    <3>3. SaidBy(cache.status) = {}
      BY <3>1, <3>2, UniformAgree
    <3>4. ClaimConditions = {}
      BY <3>3 DEF SeenInv, ClaimConditions, SaidBy, Told
    <3> QED
      BY <3>3, <3>4 DEF Unanswered
  <2>2. pc' = "pass" /\ ~Patch
    BY <1>5 DEF GetResourceClaimInfo, Patch
  <2> QED
    BY <1>2, <1>3, <2>1, <2>2 DEF AnswerInv
<1>6. CASE Fail \/ Reschedule
  <2>1. PICK r \in Pool : infos[r] = "Preparing"
    BY <1>6, StatusAssumption DEF Fail, Reschedule
  <2>2. Unanswered /\ ~Patch
    BY <1>6, <2>1 DEF AnswerInv, Fail, Reschedule, Patch
  <2>3. /\ pc' = "get"
        /\ \A e \in Pool : infos'[e] \in {"Failed", "Reschedule"}
    BY <1>6 DEF Fail, Reschedule, setDevicesState
  <2> QED
    BY <1>2, <1>3, <2>2, <2>3 DEF AnswerInv
<1>7. CASE Return
  BY <1>2, <1>7 DEF Return, NoInfos, AnswerInv
<1>8. CASE Get
  <2>1. Unanswered /\ Unanswered' /\ UNCHANGED infos
        /\ \A r \in Pool : infos[r] \in {"Failed", "Reschedule"}
    BY <1>3, <1>8 DEF Get, Patch, AnswerInv
  <2>2. CASE pc' = "pass"
    BY <1>2, <2>1, <2>2 DEF AnswerInv
  <2>3. CASE pc' = "patch"
    <3>1. SaidBy(draft)' = {type} /\ UNCHANGED type
      BY <1>8, <2>1, <2>3, DraftAnswers DEF Get, Unanswered
    <3> QED
      BY <1>2, <2>1, <2>3, <3>1 DEF AnswerInv
  <2> QED
    BY <1>8, <2>2, <2>3 DEF Get
<1>9. CASE Patch
  BY <1>2, <1>9 DEF Patch, AnswerInv
<1>10. CASE Conflict /\ ~Return
  <2>1. ~Patch
    BY <1>10 DEF Conflict, Patch
  <2> QED
    BY <1>2, <1>3, <1>10, <2>1 DEF Conflict, AnswerInv
<1> QED
  BY <1>4, <1>5, <1>6, <1>7, <1>8, <1>9, <1>10
  DEF Next, Allocate, Deallocate, Delete, Create, Reserve, Report, Sync,
      PassDone, PatchRejected, vars

\* Every step is one of the service, or none.
LEMMA ServedStep ==
  ASSUME StatusType, Helpful, AnswerInv, [Next]_vars
  PROVE  [Service!Next]_(Service!serviceVars)
<1> DEFINE now == [c \in {"claim"} |-> ClaimLife]
           next == [c \in {"claim"} |-> ClaimLife']
<1>1. \/ ClaimConditions' = ClaimConditions
      \/ Deallocate /\ ClaimConditions' = {}
      \/ Patch /\ ClaimConditions = {} /\ ClaimConditions' = {type}
         /\ type \in Verdicts
  BY ConditionsStep
<1>2. CASE ClaimLife' = ClaimLife
  BY <1>2 DEF Service!serviceVars
<1>3. ClaimConditions \subseteq Verdicts /\ ClaimConditions # Verdicts
  BY DEF AnswerInv, ClaimConditions, SaidBy
<1>4. ClaimLife \in {"free", "waiting", "failed", "reschedule"}
      /\ (Allocated <=> ClaimLife # "free")
  BY <1>3 DEF ClaimLife, Verdicts
<1>5. CASE Allocate
  <2>1. ~Allocated /\ ClaimConditions = {} /\ Allocated'
        /\ ClaimConditions' = {}
    BY <1>5 DEF Allocate, Allocated, AllocatedLives, ClaimConditions, SaidBy,
                Says, StatusType, TypeOK, NoEntries
  <2>2. ClaimLife = "free" /\ ClaimLife' = "waiting"
    BY <2>1 DEF ClaimLife
  <2>3. next = [now EXCEPT !["claim"] = "waiting"]
    BY <2>2
  <2>4. Service!Allocate("claim")
    BY <2>2, <2>3 DEF Service!Allocate, Service!Become
  <2> QED
    BY <2>4 DEF Service!Next
<1>6. CASE Deallocate
  <2>1. Allocated /\ ~Allocated'
    BY <1>6 DEF Deallocate, Allocated, AllocatedLives
  <2>2. ClaimLife \in {"waiting", "failed", "reschedule"}
        /\ ClaimLife' = "free"
    BY <1>4, <2>1 DEF ClaimLife
  <2>3. next = [now EXCEPT !["claim"] = "free"]
    BY <2>2
  <2>4. Service!Deallocate("claim")
    BY <2>2, <2>3
    DEF Service!Deallocate, Service!Become, Service!Lives, Service!Answers
  <2> QED
    BY <2>4 DEF Service!Next
<1>7. CASE Patch /\ ClaimConditions = {} /\ ClaimConditions' = {type}
           /\ type \in Verdicts
  <2>1. Allocated /\ Allocated'
    BY <1>7 DEF Patch, Allocated
  <2>2. ClaimLife = "waiting" /\ ClaimLife' \in {"failed", "reschedule"}
    BY <1>7, <2>1 DEF ClaimLife, Verdicts
  <2>3. next = [now EXCEPT !["claim"] = ClaimLife']
    BY <2>2
  <2>4. Service!Answer("claim")
    BY <2>2, <2>3 DEF Service!Answer, Service!Become, Service!Answers
  <2> QED
    BY <2>4 DEF Service!Next
<1>8. CASE ClaimConditions' = ClaimConditions /\ ~Allocate /\ ~Deallocate
  <2>1. \/ UNCHANGED life \/ Delete \/ Create
        \/ \E l \in {"reserved", "unreserved"} : Reserve(l)
    BY <1>8
    DEF Next, Report, Sync, GetResourceClaimInfo, Fail, Reschedule,
        setDevicesState, PassDone, Get, Patch, PatchRejected, Conflict, claimVars, vars
  <2>2. Allocated' <=> Allocated
    BY <2>1 DEF Delete, Create, Reserve, Allocated, AllocatedLives
  <2>3. ClaimLife' = ClaimLife
    BY <1>8, <2>2 DEF ClaimLife
  <2> QED
    BY <1>2, <2>3
<1> QED
  BY <1>1, <1>5, <1>6, <1>7, <1>8

(***************************************************************************)
(* Provided whoever else writes status.devices covers all devices, sets no *)
(* binding condition and leaves the verdicts to the scaler, and the cache  *)
(* has the scaler's own patches, the claim goes through what ScalerService *)
(* allows: it is answered at most once in an allocation, and only while it *)
(* waits, also by a pass that read it in an earlier allocation or got an   *)
(* old claim.                                                              *)
(***************************************************************************)
THEOREM ClaimIsServed ==
  ASSUME OwnWritesSeen
  PROVE  Spec => ClaimServed
<1> DEFINE Inv == /\ StatusType /\ UniformInv
                  /\ Helpful => SeenInv /\ AnswerInv
           Step == Thorough /\ LeavesVerdicts
                     => [Service!Next]_(Service!serviceVars)
<1>1. ASSUME Init
      PROVE  Inv /\ Service!Init
  <2>1. StatusType
    BY <1>1, StatusTypeInit
  <2>2. ClaimConditions = {} /\ ~Allocated
    BY <1>1 DEF Init, ClaimConditions, SaidBy, Says, NoEntries, Allocated,
                AllocatedLives
  <2>3. AnswerInv /\ SeenInv
    BY <1>1, <2>2 DEF Init, AnswerInv, SeenInv, NoInfos, Verdicts
  <2>4. Service!Init
    BY <2>2 DEF Service!Init, ClaimLife
  <2> QED
    BY <1>1, <2>1, <2>3, <2>4 DEF Init, UniformInv, Uniform, NoEntries
<1>2. ASSUME Inv, [Next]_vars
      PROVE  Inv'
  <2>1. Helpful' => Helpful
    BY <1>2, SameWriter DEF Helpful, Thorough, LeavesVerdicts
  <2> QED
    BY <1>2, <2>1, StatusTypeStep, UniformStep, AnswerStep, SeenStep DEF Helpful
<1>3. ASSUME Inv, [Next]_vars
      PROVE  [Step]_vars
  BY <1>3, ServedStep DEF Helpful
<1> QED
  BY <1>1, <1>2, <1>3, PTL DEF Spec, ClaimServed

=============================================================================
