---------------------------- MODULE ClaimStatus -----------------------------
(***************************************************************************)
(* One ResourceClaim in detail: the entries of its status.devices, which   *)
(* the scaler shares with whoever else reports on the devices, and how the *)
(* scaler reads them (GetResourceClaimInfo) and writes them                *)
(* (PatchResourceClaimDeviceConditions: a Get, then a merge patch that     *)
(* replaces the whole list).  Both reads are answered by the informer's    *)
(* cache, which may be behind the API server that takes the patch.         *)
(* ResourceMonitor has one set of conditions per claim instead; this       *)
(* module shows when that is enough.                                       *)
(*                                                                         *)
(* Why a claim fails or gets its devices is left to ResourceMonitor: here  *)
(* a pass may decide either way whenever the states allow it.              *)
(***************************************************************************)
EXTENDS Integers, FiniteSets, FiniteSetsExt

CONSTANTS
  Results,     \* allocation results of the claim, numbered in order
  Pool,        \* the results that have BindingConditions
  DeviceName,  \* result -> device name; pools may repeat a name
  Writers,     \* who else writes the status may be: the sets of results it
               \* covers in one write, and what it writes
  OwnWritesSeen \* the cache has a patch of the scaler when the pass goes on;
                \* of anybody else's writes it may be behind in any case

Verdicts == {"FabricDeviceFailed", "FabricDeviceReschedule"}

\* A binding condition of the pool devices, and a condition that is none.
BindingConditions == {"Ready"}
BindingFailureConditions == Verdicts
Types == Verdicts \cup BindingConditions \cup {"Other"}

\* Conditions of one entry; no condition at all is the nil slice.
Conditions == UNION {[S -> BOOLEAN] : S \in SUBSET Types}
NoConditions == [t \in {} |-> TRUE]

ASSUME StatusAssumption ==
  /\ Results \subseteq Nat /\ IsFiniteSet(Results) /\ Results # {}
  /\ Pool \subseteq Results /\ Pool # {}
  /\ DOMAIN DeviceName = Results
  /\ Writers \subseteq [covers : SUBSET SUBSET Results,
                       reports : SUBSET Conditions]
  /\ OwnWritesSeen \in BOOLEAN

maxRetries == 2

VARIABLES
  other,      \* who else writes the status
  life,       \* the claim: unallocated, then reserved for a pod or not
  status,     \* status.devices: result -> Conditions, for those with an entry
  cache,      \* the claim, life and status, as the informer last saw it
  pc,         \* what the pass does with the claim
  infos,      \* result of the pool -> state in the pass's memory
  type,       \* the condition being written
  draft,      \* the status.devices about to be sent
  tries       \* attempts at the patch so far

claimVars == <<other, life, status, cache>>
scalerVars == <<pc, infos, type, draft, tries>>
vars == <<claimVars, scalerVars>>

NoEntries == [r \in {} |-> NoConditions]
NoInfos == [r \in Pool |-> "None"]

\* Some of the results have an entry.
IsEntries(f) ==
  DOMAIN f \subseteq Results /\ \A r \in DOMAIN f : f[r] \in Conditions

-----------------------------------------------------------------------------
(***************************************************************************)
(* GetResourceClaimInfo, device by device.                                 *)
(***************************************************************************)

hasConditionWithStatus(conds, t) == t \in DOMAIN conds /\ conds[t]

hasMatchingBindingCondition(conds) ==
  \E t \in BindingConditions \cup BindingFailureConditions :
    hasConditionWithStatus(conds, t)

\* Mutant: a device that failed is not told from one that waits.
EntryState_NoFailed(conds) ==
  CASE DOMAIN conds = {} -> "Unset"
    [] hasConditionWithStatus(conds, "FabricDeviceReschedule") -> "Reschedule"
    [] OTHER -> "Preparing"

\* The state one entry stands for.  "Unset" leaves it as it was; a state that
\* is never set is the empty string.
EntryState(conds) ==
  IF DOMAIN conds = {} THEN "Unset"
  ELSE IF hasConditionWithStatus(conds, "FabricDeviceReschedule")
    THEN "Reschedule"
  ELSE IF hasConditionWithStatus(conds, "FabricDeviceFailed") THEN "Failed"
  ELSE IF ~hasMatchingBindingCondition(conds) THEN "Preparing"
  ELSE "Unset"

\* Entries are found by device name alone; the last one that counts wins.
Telling(entries, r) ==
  {e \in DOMAIN entries :
     DeviceName[e] = DeviceName[r] /\ EntryState(entries[e]) # "Unset"}

DeviceState(entries, r) ==
  IF DOMAIN entries = {} THEN "Preparing"
  ELSE IF Telling(entries, r) = {} THEN "Unset"
  ELSE EntryState(entries[Max(Telling(entries, r))])

-----------------------------------------------------------------------------
(***************************************************************************)
(* The scheduler, the other writers of the status and the informer.        *)
(***************************************************************************)

AllocatedLives == {"reserved", "unreserved"}
Allocated == life \in AllocatedLives

Allocate ==
  /\ life = "unallocated"
  /\ life' = "reserved"
  /\ UNCHANGED <<other, status, cache, scalerVars>>

\* The pod ends, or another one takes the claim over.
Reserve(l) ==
  /\ Allocated /\ l # life
  /\ life' = l
  /\ UNCHANGED <<other, status, cache, scalerVars>>

\* The allocation ends, for whatever reason, and its status with it.
Deallocate ==
  /\ Allocated
  /\ life' = "unallocated" /\ status' = NoEntries
  /\ UNCHANGED <<other, cache, scalerVars>>

\* The claim is deleted, and one of its name made again.
Delete ==
  /\ life = "unallocated"
  /\ life' = "deleted"
  /\ UNCHANGED <<other, status, cache, scalerVars>>

Create ==
  /\ life = "deleted"
  /\ life' = "unallocated"
  /\ UNCHANGED <<other, status, cache, scalerVars>>

\* Somebody applies the same conditions to the entries of some devices.
Report(R, report) ==
  /\ Allocated
  /\ status' =
       [r \in DOMAIN status \cup R |->
          LET old == IF r \in DOMAIN status THEN status[r] ELSE NoConditions
          IN IF r \notin R THEN old
             ELSE [t \in DOMAIN old \cup DOMAIN report |->
                     IF t \in DOMAIN report THEN report[t] ELSE old[t]]]
  /\ UNCHANGED <<other, life, cache, scalerVars>>

\* A watch event brings the cache up to date.
Sync ==
  /\ cache' = [life |-> life, status |-> status]
  /\ UNCHANGED <<other, life, status, scalerVars>>

-----------------------------------------------------------------------------
(***************************************************************************)
(* One pass over the claim.                                                *)
(***************************************************************************)

Return ==
  /\ pc' = "idle" /\ infos' = NoInfos /\ type' = "None"
  /\ draft' = NoEntries /\ tries' = 0

GetResourceClaimInfo ==
  /\ pc = "idle" /\ cache.life = "reserved"
  /\ pc' = "pass"
  /\ infos' = [r \in Pool |-> DeviceState(cache.status, r)]
  /\ UNCHANGED <<claimVars, type, draft, tries>>

\* setDevicesState changes all devices in memory and starts the patch.
setDevicesState(state, conditionType) ==
  /\ pc' = "get" /\ tries' = 0
  /\ infos' = [r \in Pool |-> state]
  /\ type' = conditionType
  /\ UNCHANGED <<claimVars, draft>>

\* Mutant: whatever the state of the devices.
Fail_AnyState ==
  pc = "pass" /\ setDevicesState("Failed", "FabricDeviceFailed")

\* A claim fails by its first device, or with another claim by any.
Fail ==
  /\ pc = "pass" /\ \E r \in Pool : infos[r] = "Preparing"
  /\ setDevicesState("Failed", "FabricDeviceFailed")

\* All devices of the claim have to be Preparing, and are found attached.
Reschedule ==
  /\ pc = "pass" /\ \A r \in Pool : infos[r] = "Preparing"
  /\ setDevicesState("Reschedule", "FabricDeviceReschedule")

PassDone ==
  /\ pc = "pass"
  /\ Return
  /\ UNCHANGED claimVars

\* Mutant: an entry for the first result only.
FreshEntries_FirstOnly == [r \in {Min(Results)} |-> NoConditions]

\* Without any entry, one is made for every result of the allocation.
FreshEntries == [r \in Results |-> NoConditions]

\* Mutant: the entries are left to others.
Existing_StatusOnly == cache.status

Existing ==
  IF DOMAIN cache.status = {} /\ cache.life \in AllocatedLives
    THEN FreshEntries ELSE cache.status

WithCondition(entries, t) ==
  [r \in DOMAIN entries |->
     [u \in DOMAIN entries[r] \cup {t} |-> IF u = t THEN TRUE
                                           ELSE entries[r][u]]]

\* The Get of PatchResourceClaimDeviceConditions; nothing to patch is no error.
Get ==
  /\ pc = "get" /\ cache.life # "deleted"
  /\ IF DOMAIN Existing = {}
       THEN pc' = "pass" /\ type' = "None" /\ UNCHANGED <<draft, tries>>
       ELSE /\ pc' = "patch" /\ draft' = WithCondition(Existing, type)
            /\ tries' = tries + 1 /\ UNCHANGED type
  /\ UNCHANGED <<claimVars, infos>>

\* The API server takes the list as it is, if its devices are allocated:
\* nothing in the patch says which status it was made from.
Patch ==
  /\ pc = "patch" /\ Allocated
  /\ status' = draft
  /\ cache' = IF OwnWritesSeen THEN [life |-> life, status |-> draft] ELSE cache
  /\ pc' = "pass" /\ type' = "None" /\ draft' = NoEntries /\ tries' = 0
  /\ UNCHANGED <<other, life, infos>>

\* The claim is gone, or its devices are not allocated: the pass ends.
PatchRejected ==
  /\ \/ pc = "get" /\ cache.life = "deleted"
     \/ pc = "patch" /\ ~Allocated
  /\ Return
  /\ UNCHANGED claimVars

\* Mutant: off by one.
Conflict_OnceMore ==
  /\ pc = "patch"
  /\ IF tries <= maxRetries
       THEN pc' = "get" /\ draft' = NoEntries
            /\ UNCHANGED <<infos, type, tries>>
       ELSE Return
  /\ UNCHANGED claimVars

\* A conflict is tried again, from the Get, maxRetries times in all.
Conflict ==
  /\ pc = "patch"
  /\ IF tries < maxRetries
       THEN pc' = "get" /\ draft' = NoEntries
            /\ UNCHANGED <<infos, type, tries>>
       ELSE Return
  /\ UNCHANGED claimVars

-----------------------------------------------------------------------------

Init ==
  /\ other \in Writers
  /\ life = "unallocated" /\ status = NoEntries
  /\ cache = [life |-> life, status |-> status]
  /\ pc = "idle" /\ infos = NoInfos /\ type = "None"
  /\ draft = NoEntries /\ tries = 0

Next ==
  \/ Allocate \/ Deallocate \/ Delete \/ Create
  \/ \E l \in {"reserved", "unreserved"} : Reserve(l)
  \/ \E R \in other.covers, report \in other.reports : Report(R, report)
  \/ Sync
  \/ GetResourceClaimInfo \/ Fail \/ Reschedule \/ PassDone
  \/ Get \/ Patch \/ PatchRejected \/ Conflict

Spec == Init /\ [][Next]_vars

(***************************************************************************)
(* Passes keep coming and come to an end, the cache does not stay behind,  *)
(* a patch is not in conflict for ever, and the devices a claim waits for  *)
(* are attached again and again.                                           *)
(***************************************************************************)
FairSpec ==
  /\ Spec
  /\ WF_vars(GetResourceClaimInfo) /\ WF_vars(PassDone) /\ WF_vars(Get)
  /\ SF_vars(Patch) /\ WF_vars(PatchRejected) /\ SF_vars(Reschedule)
  /\ WF_vars(Sync)

-----------------------------------------------------------------------------

\* No entry outside the allocation, and at most maxRetries attempts: what is
\* written is always a list the API server can accept.
TypeOK ==
  /\ other \in Writers
  /\ {life, cache.life} \subseteq AllocatedLives \cup {"unallocated", "deleted"}
  /\ IsEntries(status) /\ IsEntries(cache.status) /\ IsEntries(draft)
  /\ ~Allocated => status = NoEntries
  /\ pc \in {"idle", "pass", "get", "patch"}
  /\ infos \in [Pool -> {"None", "Unset", "Preparing", "Failed", "Reschedule"}]
  /\ type \in Verdicts \cup {"None"}
  /\ tries \in 0..maxRetries

(***************************************************************************)
(* A pool device that failed is not told to be rescheduled afterwards,     *)
(* whoever else writes entries, whatever a pass overwrites with what it    *)
(* has from the cache, and however often the allocation ends and begins    *)
(* again meanwhile.  The cache may be behind all of that, but has to have  *)
(* what the scaler wrote itself: without it the next pass takes a failed   *)
(* device for one that waits (run stale_claims of ResourceMonitor).        *)
(***************************************************************************)
Says(entries, r, t) ==
  r \in DOMAIN entries /\ hasConditionWithStatus(entries[r], t)

Told(r, t) == Says(status, r, t)

FailedNotRescheduled ==
  [][\A r \in Pool :
       Told(r, "FabricDeviceFailed") /\ Told(r, "FabricDeviceReschedule")'
         => Told(r, "FabricDeviceReschedule")]_vars

\* The other writer covers all devices and sets no binding condition.
Thorough ==
  /\ other.covers \subseteq {Results}
  /\ \A report \in other.reports :
       DOMAIN report # {} /\ ~hasMatchingBindingCondition(report)

(***************************************************************************)
(* Why one set of conditions per claim is enough for ResourceMonitor: as   *)
(* long as whoever else writes status.devices covers all devices, and no   *)
(* binding condition is set, a pass reads all pool devices in the state    *)
(* that the conditions of the claim as a whole stand for, however old the  *)
(* claim is that the cache holds.                                          *)
(***************************************************************************)
SaidBy(entries) == {t \in Verdicts : \E r \in Results : Says(entries, r, t)}

ClaimConditions == SaidBy(status)

DevicesAgree ==
  Thorough => \A r \in Pool :
    DeviceState(cache.status, r) =
      CASE SaidBy(cache.status) = {} -> "Preparing"
        [] SaidBy(cache.status) = {"FabricDeviceFailed"} -> "Failed"
        [] OTHER -> "Reschedule"

(***************************************************************************)
(* What the claim as a whole goes through, in the terms of ScalerService:  *)
(* it waits from its allocation until one of its devices has a verdict.  A *)
(* name that has no claim is as good as a claim without an allocation.     *)
(***************************************************************************)
ClaimLife ==
  CASE ~Allocated -> "free"
    [] Allocated /\ ClaimConditions = {} -> "waiting"
    [] Allocated /\ ClaimConditions = {"FabricDeviceFailed"} -> "failed"
    [] Allocated /\ ClaimConditions = {"FabricDeviceReschedule"} -> "reschedule"
    [] OTHER -> "both"

Service == INSTANCE ScalerService
             WITH Claims <- {"claim"}, Nodes <- {}, Models <- {},
                  RequestIds <- {}, NoRequest <- "None", Sizes <- {},
                  life <- [c \in {"claim"} |-> ClaimLife],
                  asked <- [q \in {} |-> "None"]

(***************************************************************************)
(* A claim is answered at most once in an allocation, on whichever of its  *)
(* devices, and only while it waits: whatever happens to it and its status *)
(* between the reading of the pass, the Get and the patch, however old the *)
(* claim is that the two reads get, and however often the patch is in      *)
(* conflict.  For a thorough writer that leaves the verdicts to the        *)
(* scaler, and a cache that has the scaler's own writes (OwnWritesSeen).   *)
(***************************************************************************)
LeavesVerdicts ==
  \A report \in other.reports : DOMAIN report \cap Verdicts = {}

ClaimServed ==
  /\ Service!Init
  /\ [][Thorough /\ LeavesVerdicts => [Service!Next]_(Service!serviceVars)]_vars

(***************************************************************************)
(* Step 7 of the README: a claim that waits for devices which are attached *)
(* is told so, on every pool device, unless it failed or ended before.  A  *)
(* writer that reports on some of the devices leaves the others without a  *)
(* state, and a claim that waits for ever.                                 *)
(***************************************************************************)
AnsweredOnAll ==
  \A r \in Pool :
    (Thorough /\ life = "reserved") ~>
      (life # "reserved" \/ \E t \in Verdicts : Told(r, t))

=============================================================================
