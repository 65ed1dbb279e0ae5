----------------------------- MODULE NodeLabels -----------------------------
(***************************************************************************)
(* From the ConfigMap and the labels of a node to the limits of its models *)
(* and back to its labels: GetConfigMapInfo, processNodeInfo with the      *)
(* labels in any order, GetModelLimit over the list that results, and      *)
(* UpdateNodeLabel over the indexes of device-info.                        *)
(*                                                                         *)
(* DeviceConfig takes a model, its index and its device name for one       *)
(* thing.  Nothing in the code makes them so: entries of device-info may   *)
(* share any of the three, and this module says what is true then.  One    *)
(* node stands for all: an error on any of them ends the pass for all.     *)
(***************************************************************************)
EXTENDS Integers, SequencesExt

CONSTANTS
  Configs,      \* contents the ConfigMap may have
  LabelDevices, \* device names that occur in "-size-max", "-size-min" labels
  LabelValues,  \* what the administrator sets them to: numbers or BadValue
  BadValue,     \* a value Atoi refuses, such as "true"
  NoLabel       \* the node has no such label

MaxIndex == 10000

\* One entry of device-info.  wellFormed: its names are valid and neither
\* they nor its cannot-coexist-with are too long.
IsDeviceInfo(info) ==
  /\ info.index \in Int /\ info.cannot \subseteq Int
  /\ info.wellFormed \in BOOLEAN
  /\ DOMAIN info = {"index", "model", "device", "cannot", "wellFormed"}

\* infos: the list of entries; prefixValid: isValidLabelNamePrefix;
\* rangeParsed: fabric-id-range is a list of at most 100 numbers.
ASSUME ConfigsAssumption ==
  \A cfg \in Configs :
    /\ DOMAIN cfg = {"infos", "prefixValid", "rangeParsed"}
    /\ cfg.prefixValid \in BOOLEAN /\ cfg.rangeParsed \in BOOLEAN
    /\ Len(cfg.infos) \in Nat /\ DOMAIN cfg.infos = 1..Len(cfg.infos)
    /\ \A i \in DOMAIN cfg.infos : IsDeviceInfo(cfg.infos[i])

ASSUME LabelsAssumption ==
  /\ LabelValues \ {BadValue} \subseteq Int
  /\ NoLabel \notin LabelValues \cup {BadValue}

Keys == LabelDevices \X {"max", "min"}

VARIABLES
  config,   \* the ConfigMap
  sizes,    \* the node's size labels: key -> value
  pc,       \* where the pass is
  left,     \* labels processNodeInfo has yet to look at
  models,   \* NodeInfo.Models
  devices,  \* installedDevices: the models found on the node
  invited   \* device names whose label the scaler has set to true

vars == <<config, sizes, pc, left, models, devices, invited>>

infos == config.infos
Entries == DOMAIN infos
AllModels == {infos[i].model : i \in Entries}

-----------------------------------------------------------------------------
(***************************************************************************)
(* Lookups.                                                                *)
(***************************************************************************)

Known(device) == \E i \in Entries : infos[i].device = device

\* The first entry of that device name.
getModelName(device) ==
  infos[SelectInSeq(infos, LAMBDA info : info.device = device)].model

\* The first entry of the list that is for this model decides.
GetModelLimit(list, model) ==
  LET i == SelectInSeq(list, LAMBDA mc : mc.model = model)
  IN IF i = 0 THEN [max |-> 50, min |-> 0]
     ELSE [max |-> IF list[i].maxSet THEN list[i].max ELSE 50,
           min |-> list[i].min]

\* indexToModel keeps the last entry of an index.
indexToModel(index) ==
  infos[SelectLastInSeq(infos, LAMBDA info : info.index = index)].model

isDeviceCoexistence(model1, model2) ==
  LET first == SelectInSeq(infos, LAMBDA info : info.model = model1)
  IN \/ model1 = model2
     \/ first = 0
     \/ \A index \in infos[first].cannot :
          (\E i \in Entries : infos[i].index = index)
            => indexToModel(index) # model2

-----------------------------------------------------------------------------
(***************************************************************************)
(* The pass.                                                               *)
(***************************************************************************)

validateDeviceInfo(list) ==
  \A i \in DOMAIN list : list[i].index \in 0..MaxIndex /\ list[i].wellFormed

GetConfigMapInfo ==
  /\ pc = "config"
  /\ IF validateDeviceInfo(infos) /\ config.prefixValid /\ config.rangeParsed
       THEN pc' = "nodes" ELSE pc' = "error"
  /\ UNCHANGED <<config, sizes, left, models, devices, invited>>

\* The list of nodes: what the labels are from here on is for the next pass.
GetNodeInfo ==
  /\ pc = "nodes"
  /\ pc' = "labels" /\ left' = {key \in Keys : sizes[key] # NoLabel}
  /\ UNCHANGED <<config, sizes, models, devices, invited>>

NoConstraint(device) ==
  [device |-> device, model |-> getModelName(device), maxSet |-> FALSE,
   max |-> 0, min |-> 0]

WithLabel(constraint, kind, value) ==
  IF kind = "max" THEN [constraint EXCEPT !.max = value, !.maxSet = TRUE]
  ELSE [constraint EXCEPT !.min = value]

\* Mutant: every label makes an entry of its own.
SetConstraint_Append(device, kind, value) ==
  models' = Append(models, WithLabel(NoConstraint(device), kind, value))

\* The entry of the device is completed, or one is appended.
SetConstraint(device, kind, value) ==
  LET i == SelectInSeq(models, LAMBDA mc : mc.device = device)
  IN models' =
       IF i = 0
       THEN Append(models, WithLabel(NoConstraint(device), kind, value))
       ELSE [models EXCEPT ![i] = WithLabel(@, kind, value)]

\* A label whose value is no number, or that names a device nobody knows.
BadLabel(key) == sizes[key] = BadValue \/ ~Known(key[1])

\* Mutant: a label of an unknown device is skipped.
processNodeInfo_Skip(key) ==
  /\ pc = "labels" /\ key \in left
  /\ left' = left \ {key}
  /\ IF BadLabel(key)
       THEN UNCHANGED <<pc, models>>
       ELSE SetConstraint(key[1], key[2], sizes[key]) /\ UNCHANGED pc
  /\ UNCHANGED <<config, sizes, devices, invited>>

\* The labels are a Go map: any of them may be next.
processNodeInfo(key) ==
  /\ pc = "labels" /\ key \in left
  /\ IF BadLabel(key)
       THEN pc' = "error" /\ left' = {} /\ UNCHANGED models
       ELSE /\ SetConstraint(key[1], key[2], sizes[key])
            /\ left' = left \ {key} /\ UNCHANGED pc
  /\ UNCHANGED <<config, sizes, devices, invited>>

\* The models UpdateNodeLabel finds in requests and in Online resources, which
\* are all that the phases before it leave behind here.
installedDevices(found) ==
  /\ pc = "labels" /\ left = {}
  /\ pc' = "update" /\ devices' = found
  /\ UNCHANGED <<config, sizes, left, models, invited>>

\* Mutant: a maximum of zero is not looked at.
notCoexistID_NoMax ==
  UNION {infos[i].cannot : i \in {j \in Entries : infos[j].model \in devices}}

notCoexistID ==
  (UNION {infos[i].cannot : i \in {j \in Entries : infos[j].model \in devices}})
  \cup {infos[i].index : i \in {j \in Entries :
          \E k \in DOMAIN models : /\ models[k].maxSet /\ models[k].max = 0
                                   /\ models[k].device = infos[j].device}}

\* A name in both lists is deleted: the patch holds one value per label.
UpdateNodeLabel ==
  LET add == {infos[i].device : i \in {j \in Entries :
                                  infos[j].index \notin notCoexistID}}
      delete == {infos[i].device : i \in {j \in Entries :
                                     infos[j].index \in notCoexistID}}
  IN /\ pc = "update"
     /\ pc' = "updated"
     /\ invited' = (invited \cup add) \ delete
     /\ UNCHANGED <<config, sizes, left, models, devices>>

\* The pass ends, and what it had in memory is gone.
Return ==
  /\ pc \in {"updated", "error"}
  /\ pc' = "config" /\ left' = {} /\ models' = <<>> /\ devices' = {}
  /\ UNCHANGED <<config, sizes, invited>>

\* The administrator changes a label.
SetLabel(key, value) ==
  /\ pc \in {"config", "nodes"}
  /\ sizes' = [sizes EXCEPT ![key] = value]
  /\ UNCHANGED <<config, pc, left, models, devices, invited>>

-----------------------------------------------------------------------------

Init ==
  /\ config \in Configs
  /\ sizes = [key \in Keys |-> NoLabel]
  /\ pc = "config" /\ left = {} /\ models = <<>> /\ devices = {}
  /\ invited = {}

Next ==
  \/ GetConfigMapInfo \/ GetNodeInfo
  \/ \E key \in Keys : processNodeInfo(key)
  \/ \E found \in SUBSET AllModels : installedDevices(found)
  \/ UpdateNodeLabel
  \/ Return
  \/ \E key \in Keys, value \in LabelValues \cup {NoLabel} :
       SetLabel(key, value)

Spec == Init /\ [][Next]_vars

-----------------------------------------------------------------------------

(***************************************************************************)
(* What the labels of one device name say, whatever their order.           *)
(***************************************************************************)
LabelOr(device, kind, default) ==
  IF sizes[<<device, kind>>] = NoLabel THEN default
  ELSE sizes[<<device, kind>>]

LabelLimit(device) ==
  [max |-> LabelOr(device, "max", 50), min |-> LabelOr(device, "min", 0)]

LabelledDevices(model) ==
  {d \in LabelDevices :
     /\ Known(d) /\ getModelName(d) = model
     /\ \E kind \in {"max", "min"} : sizes[<<d, kind>>] # NoLabel}

(***************************************************************************)
(* In whatever order the map of labels is visited, the limit of a model is *)
(* what the labels of one of its device names say, both of them together,  *)
(* and the default only if there is no label.  With one device name per    *)
(* model the order plays no part at all.                                   *)
(***************************************************************************)
LimitsMeetLabels ==
  pc = "update" =>
    \A m \in AllModels :
      IF LabelledDevices(m) = {} THEN GetModelLimit(models, m)
                                        = [max |-> 50, min |-> 0]
      ELSE \E d \in LabelledDevices(m) :
             GetModelLimit(models, m) = LabelLimit(d)

(***************************************************************************)
(* One label that names a device which is not in device-info, or has a     *)
(* value that is no number, always ends the pass, whichever labels the map *)
(* yields first, and nothing else does once the ConfigMap is valid.        *)
(***************************************************************************)
BadLabels == {key \in Keys : sizes[key] # NoLabel /\ BadLabel(key)}

ErrorIsDetermined ==
  /\ pc \in {"update", "updated"} => BadLabels = {}
  /\ pc = "error" =>
       \/ BadLabels # {}
       \/ ~config.prefixValid \/ ~config.rangeParsed
       \/ ~validateDeviceInfo(infos)

(***************************************************************************)
(* With a symmetric cannot-coexist-with, one entry per model and index,    *)
(* and no maximum below zero, a device name whose label the scaler leaves  *)
(* on a node is one that RescheduleFailedNotification accepts there: it    *)
(* coexists with what UpdateNodeLabel found installed, and the maximum     *)
(* allows a first device.  UpdateNodeLabel takes only a maximum of zero    *)
(* for a ban: with one below zero the label stays, and every claim fails.  *)
(***************************************************************************)
Proper ==
  \A i, j \in Entries :
    /\ infos[i].model = infos[j].model => i = j
    /\ infos[i].index = infos[j].index => i = j
    /\ infos[i].index \in infos[j].cannot
         => infos[j].index \in infos[i].cannot

NoNegativeMaximum ==
  \A d \in LabelDevices :
    sizes[<<d, "max">>] \in {NoLabel, BadValue} \/ sizes[<<d, "max">>] >= 0

InvitedIsAccepted ==
  pc = "updated" /\ Proper /\ NoNegativeMaximum =>
    \A i \in Entries : infos[i].device \in invited =>
      /\ \A m \in devices : isDeviceCoexistence(infos[i].model, m)
      /\ 1 <= GetModelLimit(models, infos[i].model).max

=============================================================================
