-------------------------- MODULE NodeLabelsProofs --------------------------
(***************************************************************************)
(* Theorems about NodeLabels, for every device-info and every set of       *)
(* labels.                                                                 *)
(***************************************************************************)
EXTENDS NodeLabels, Extrema, SequenceTheorems

Labelled == {key \in Keys : sizes[key] # NoLabel}

\* The labels processNodeInfo has looked at.
Seen == Labelled \ left

-----------------------------------------------------------------------------
(***************************************************************************)
(* Searching lists.                                                        *)
(***************************************************************************)

\* A set of positions of a list has a first and a last one.
LEMMA Positions ==
  ASSUME NEW n \in Nat, NEW I \in SUBSET (1..n), I # {}
  PROVE  Min(I) \in I /\ Max(I) \in I
<1>1. IsFiniteSet(1..n)
  BY FS_Interval
<1>2. IsFiniteSet(I)
  BY <1>1, FS_Subset
<1>3. I \in SUBSET Nat
  OBVIOUS
<1> QED
  BY <1>2, <1>3, MinExists, MaxExists

\* device-info is a list.
LEMMA InfosList ==
  ASSUME config \in Configs
  PROVE  Len(infos) \in Nat /\ Entries = 1..Len(infos)
BY ConfigsAssumption DEF infos, Entries

\* The model of a device name that device-info has is that of an entry.
LEMMA ModelName ==
  ASSUME config \in Configs, NEW device, Known(device)
  PROVE  \E i \in Entries : /\ infos[i].device = device
                            /\ getModelName(device) = infos[i].model
<1> DEFINE I == {i \in 1..Len(infos) : infos[i].device = device}
<1>1. I # {}
  BY InfosList DEF Known
<1>2. getModelName(device) = infos[Min(I)].model
  BY <1>1 DEF getModelName, SelectInSeq
<1>3. Min(I) \in I
  BY <1>1, InfosList, Positions
<1> QED
  BY <1>2, <1>3, InfosList

\* The limit of a model is that of an entry for it, or the default.
LEMMA ModelLimit ==
  ASSUME NEW list, Len(list) \in Nat, NEW model
  PROVE  \/ /\ \A i \in 1..Len(list) : list[i].model # model
            /\ GetModelLimit(list, model) = [max |-> 50, min |-> 0]
         \/ \E i \in 1..Len(list) :
              /\ list[i].model = model
              /\ GetModelLimit(list, model) =
                   [max |-> IF list[i].maxSet THEN list[i].max ELSE 50,
                    min |-> list[i].min]
<1> DEFINE I == {i \in 1..Len(list) : list[i].model = model}
           first == IF I # {} THEN Min(I) ELSE 0
<1>1. GetModelLimit(list, model) =
        IF first = 0 THEN [max |-> 50, min |-> 0]
        ELSE [max |-> IF list[first].maxSet THEN list[first].max ELSE 50,
              min |-> list[first].min]
  BY DEF GetModelLimit, SelectInSeq
<1>2. CASE I = {}
  BY <1>1, <1>2
<1>3. CASE I # {}
  <2>1. Min(I) \in I
    BY <1>3, Positions
  <2>2. first \in I /\ first # 0
    BY <1>3, <2>1
  <2> QED
    BY <1>1, <2>2
<1> QED
  BY <1>2, <1>3

-----------------------------------------------------------------------------
(***************************************************************************)
(* Which passes end in an error.  The bad labels the pass has not come     *)
(* across are among those it has yet to look at.                           *)
(***************************************************************************)
BadAhead ==
  /\ pc = "labels" => left \subseteq Labelled
  /\ pc = "labels" => BadLabels \subseteq left

\* Every step keeps it, and an error has a cause.
LEMMA ErrorStep ==
  ASSUME BadAhead, ErrorIsDetermined, [Next]_vars
  PROVE  BadAhead' /\ ErrorIsDetermined'
<1> USE DEF BadAhead, ErrorIsDetermined
<1>1. ASSUME NEW key, NEW value, SetLabel(key, value)
      PROVE  BadAhead' /\ ErrorIsDetermined'
  BY <1>1 DEF SetLabel
<1>2. CASE UNCHANGED <<config, sizes>>
  <2>1. BadLabels' = BadLabels
    BY <1>2 DEF BadLabels, BadLabel, Known, Entries, infos
  <2>2. validateDeviceInfo(infos)' = validateDeviceInfo(infos)
    BY <1>2 DEF validateDeviceInfo, infos
  <2>3. CASE GetConfigMapInfo
    BY <1>2, <2>3, <2>2 DEF GetConfigMapInfo
  <2>4. CASE GetNodeInfo
    BY <2>1, <2>4 DEF GetNodeInfo, BadLabels, Labelled
  <2>5. ASSUME NEW key \in Keys, processNodeInfo(key)
        PROVE  BadAhead' /\ ErrorIsDetermined'
    <3>1. CASE BadLabel(key)
      <4>1. pc' = "error" /\ pc = "labels" /\ key \in left
        BY <2>5, <3>1 DEF processNodeInfo
      <4>2. key \in BadLabels
        BY <3>1, <4>1 DEF BadLabels, Labelled
      <4> QED
        BY <2>1, <4>1, <4>2
    <3>2. CASE ~BadLabel(key)
      BY <2>1, <2>5, <3>2 DEF processNodeInfo, BadLabels, Labelled
    <3> QED
      BY <3>1, <3>2
  <2>6. ASSUME NEW found, installedDevices(found)
        PROVE  BadAhead' /\ ErrorIsDetermined'
    BY <2>1, <2>6 DEF installedDevices
  <2>7. CASE UpdateNodeLabel
    BY <2>1, <2>7 DEF UpdateNodeLabel
  <2>8. CASE Return
    BY <2>8 DEF Return
  <2>9. CASE UNCHANGED vars
    BY <1>2, <2>1, <2>2, <2>9 DEF vars, Labelled
  <2> QED
    BY <1>1, <2>3, <2>4, <2>5, <2>6, <2>7, <2>8, <2>9 DEF Next
<1> QED
  BY <1>1, <1>2
  DEF Next, GetConfigMapInfo, GetNodeInfo, processNodeInfo, installedDevices,
      UpdateNodeLabel, Return, vars

(***************************************************************************)
(* A label that names a device which is not in device-info, or has a value *)
(* that is no number, always ends the pass, whichever labels the map       *)
(* yields first; with a valid ConfigMap nothing else does.                 *)
(***************************************************************************)
THEOREM ErrorsAreDetermined == Spec => []ErrorIsDetermined
<1>1. Init => BadAhead /\ ErrorIsDetermined
  BY DEF Init, BadAhead, ErrorIsDetermined
<1>2. BadAhead /\ ErrorIsDetermined /\ [Next]_vars
        => BadAhead' /\ ErrorIsDetermined'
  BY ErrorStep
<1> QED
  BY <1>1, <1>2, PTL DEF Spec

-----------------------------------------------------------------------------
(***************************************************************************)
(* The limits of a node.  NodeInfo.Models has one entry per device name,   *)
(* which says what the labels visited so far say of it.                    *)
(***************************************************************************)
Constraints ==
  [device : LabelDevices, model : AllModels, maxSet : BOOLEAN,
   max : LabelValues \cup {0}, min : LabelValues \cup {0}]

\* Where every pass begins, and what it keeps of the labels.
LabelsType ==
  /\ config \in Configs
  /\ sizes \in [Keys -> LabelValues \cup {NoLabel}]
  /\ left \subseteq Labelled
  /\ models \in Seq(Constraints)
  /\ pc \in {"config", "nodes"} => models = <<>> /\ left = {}
  /\ pc \in {"update", "updated"} => left = {}

SaysSeen(mc) ==
  /\ Known(mc.device) /\ mc.model = getModelName(mc.device)
  /\ \E kind \in {"max", "min"} : <<mc.device, kind>> \in Seen
  /\ mc.maxSet <=> <<mc.device, "max">> \in Seen
  /\ mc.maxSet => mc.max = sizes[<<mc.device, "max">>]
  /\ mc.min = IF <<mc.device, "min">> \in Seen THEN sizes[<<mc.device, "min">>]
              ELSE 0

ConstraintsInv ==
  pc \in {"labels", "update", "updated"} =>
    /\ \A i \in 1..Len(models) : SaysSeen(models[i])
    /\ \A i, j \in 1..Len(models) : models[i].device = models[j].device => i = j
    /\ \A key \in Seen :
         \E i \in 1..Len(models) : models[i].device = key[1]

\* A label changes one limit of an entry and nothing else.
LEMMA LabelOfEntry ==
  ASSUME NEW mc \in Constraints, NEW kind \in {"max", "min"},
         NEW value \in LabelValues
  PROVE  /\ WithLabel(mc, kind, value) \in Constraints
         /\ WithLabel(mc, kind, value).device = mc.device
         /\ WithLabel(mc, kind, value).model = mc.model
         /\ kind = "max" => /\ WithLabel(mc, kind, value).maxSet
                            /\ WithLabel(mc, kind, value).max = value
                            /\ WithLabel(mc, kind, value).min = mc.min
         /\ kind = "min" => /\ WithLabel(mc, kind, value).maxSet = mc.maxSet
                            /\ WithLabel(mc, kind, value).max = mc.max
                            /\ WithLabel(mc, kind, value).min = value
BY DEF WithLabel, Constraints

\* The entry that is appended for a device name.
LEMMA FreshEntry ==
  ASSUME config \in Configs, NEW device \in LabelDevices, Known(device)
  PROVE  NoConstraint(device) \in Constraints
<1>1. getModelName(device) \in AllModels
  BY ModelName DEF AllModels
<1> QED
  BY <1>1 DEF NoConstraint, Constraints

\* The k-th entry is the only one that the label changes or makes.
SetAt(k, device, kind, value) ==
  /\ \A j \in 1..Len(models') :
       j # k => j \in 1..Len(models) /\ models'[j] = models[j]
  /\ \A j \in 1..Len(models) : j \in 1..Len(models')
  /\ \/ /\ k \in 1..Len(models) /\ models[k].device = device
        /\ models'[k] = WithLabel(models[k], kind, value)
     \/ /\ k \notin 1..Len(models)
        /\ \A j \in 1..Len(models) : models[j].device # device
        /\ models'[k] = WithLabel(NoConstraint(device), kind, value)

\* SetConstraint changes the entry of the device, or makes the only one.
LEMMA ConstraintSet ==
  ASSUME LabelsType, NEW device \in LabelDevices, Known(device),
         NEW kind \in {"max", "min"}, NEW value \in LabelValues,
         SetConstraint(device, kind, value)
  PROVE  /\ models' \in Seq(Constraints)
         /\ \E k \in 1..Len(models') : SetAt(k, device, kind, value)
<1> DEFINE I == {i \in 1..Len(models) : models[i].device = device}
           first == IF I # {} THEN Min(I) ELSE 0
           fresh == WithLabel(NoConstraint(device), kind, value)
<1>1. models \in Seq(Constraints) /\ Len(models) \in Nat
  BY DEF LabelsType
<1>2. models' = IF first = 0 THEN Append(models, fresh)
                ELSE [models EXCEPT ![first] = WithLabel(@, kind, value)]
  BY DEF SetConstraint, SelectInSeq
<1>3. CASE I = {}
  <2>1. models' = Append(models, fresh)
    BY <1>2, <1>3
  <2>2. fresh \in Constraints
    BY FreshEntry, LabelOfEntry DEF LabelsType
  <2> HIDE DEF fresh
  <2>3. /\ models' \in Seq(Constraints) /\ Len(models') = Len(models) + 1
        /\ models'[Len(models) + 1] = fresh
        /\ \A j \in 1..Len(models) : models'[j] = models[j]
    BY <1>1, <2>1, <2>2, AppendProperties
  <2>4. \A j \in 1..Len(models) : models[j].device # device
    BY <1>3
  <2> HIDE DEF first, I
  <2>5. /\ Len(models) + 1 \in 1..Len(models')
        /\ Len(models) + 1 \notin 1..Len(models)
        /\ \A j \in 1..Len(models') :
             j # Len(models) + 1 => j \in 1..Len(models)
        /\ \A j \in 1..Len(models) : j \in 1..Len(models')
    BY <1>1, <2>3
  <2> QED
    BY <2>3, <2>4, <2>5 DEF fresh, SetAt
<1>4. CASE I # {}
  <2>1. Min(I) \in I
    BY <1>1, <1>4, Positions
  <2>2. PICK k \in 1..Len(models) :
          /\ models[k].device = device
          /\ models' = [models EXCEPT ![k] = WithLabel(@, kind, value)]
    <3>1. Min(I) \in 1..Len(models) /\ models[Min(I)].device = device
      BY <2>1
    <3>2. first = Min(I) /\ first # 0
      BY <1>1, <1>4, <3>1
    <3> HIDE DEF first, I
    <3> QED
      BY <1>2, <3>1, <3>2
  <2> HIDE DEF first, I
  <2>3. models[k] \in Constraints
    BY <1>1, ElementOfSeq
  <2>4. WithLabel(models[k], kind, value) \in Constraints
    BY <2>3, LabelOfEntry
  <2>5. /\ models' \in Seq(Constraints) /\ Len(models') = Len(models)
        /\ models'[k] = WithLabel(models[k], kind, value)
        /\ \A j \in 1..Len(models) : j # k => models'[j] = models[j]
    BY <1>1, <2>2, <2>4, ExceptSeq
  <2> QED
    BY <2>2, <2>5 DEF SetAt
<1> QED
  BY <1>3, <1>4

\* The label that is next, of a device that device-info has.
LEMMA NextLabel ==
  ASSUME LabelsType, NEW key \in Keys, processNodeInfo(key), ~BadLabel(key)
  PROVE  /\ key = <<key[1], key[2]>> /\ key[1] \in LabelDevices
         /\ key[2] \in {"max", "min"} /\ sizes[key] \in LabelValues
         /\ Known(key[1]) /\ SetConstraint(key[1], key[2], sizes[key])
         /\ left' = left \ {key} /\ UNCHANGED <<config, sizes, pc>>
         /\ pc = "labels" /\ key \in left
<1>1. key = <<key[1], key[2]>> /\ key[1] \in LabelDevices
      /\ key[2] \in {"max", "min"}
  BY DEF Keys
<1>2. key \in left /\ SetConstraint(key[1], key[2], sizes[key])
  BY DEF processNodeInfo
<1>3. sizes[key] \in LabelValues
  BY <1>2 DEF LabelsType, Labelled
<1> QED
  BY <1>1, <1>2, <1>3 DEF processNodeInfo, BadLabel

\* Every step keeps the types.
LEMMA LabelsTypeStep ==
  ASSUME LabelsType, [Next]_vars
  PROVE  LabelsType'
<1>1. CASE UNCHANGED config
  <2>1. Constraints' = Constraints
    BY <1>1 DEF Constraints, AllModels, Entries, infos
  <2>2. CASE /\ UNCHANGED <<sizes, models>> /\ left' \in {{}, left, Labelled}
             /\ pc' \in {"config", "nodes"} =>
                  (models = <<>> \/ pc = pc') /\ left' = {}
             /\ pc' \in {"update", "updated"} => left' = {}
    <3>1. models' \in Seq(Constraints)' /\ left' \subseteq Labelled'
      BY <2>1, <2>2 DEF LabelsType, Labelled
    <3> QED
      BY <1>1, <2>2, <3>1 DEF LabelsType
  <2>3. CASE GetConfigMapInfo
    BY <2>2, <2>3 DEF GetConfigMapInfo, LabelsType
  <2>4. CASE GetNodeInfo
    BY <2>2, <2>4 DEF GetNodeInfo, Labelled
  <2>5. ASSUME NEW key \in Keys, processNodeInfo(key)
        PROVE  LabelsType'
    <3>1. CASE BadLabel(key)
      BY <2>2, <2>5, <3>1 DEF processNodeInfo
    <3>2. CASE ~BadLabel(key)
      <4>1. models' \in Seq(Constraints)
        BY <2>5, <3>2, NextLabel, ConstraintSet
      <4>2. /\ left' = left \ {key} /\ UNCHANGED <<sizes, pc>>
            /\ pc = "labels"
        BY <2>5, <3>2, NextLabel
      <4> QED
        BY <1>1, <2>1, <4>1, <4>2 DEF LabelsType, Labelled
    <3> QED
      BY <3>1, <3>2
  <2>6. ASSUME NEW found, installedDevices(found)
        PROVE  LabelsType'
    BY <2>2, <2>6 DEF installedDevices
  <2>7. CASE UpdateNodeLabel
    BY <2>2, <2>7 DEF UpdateNodeLabel, LabelsType
  <2>8. CASE Return
    <3>1. models' \in Seq(Constraints)'
      BY <2>8 DEF Return
    <3> QED
      BY <1>1, <2>8, <3>1 DEF Return, LabelsType, Labelled
  <2>9. ASSUME NEW key \in Keys, NEW value \in LabelValues \cup {NoLabel},
               SetLabel(key, value)
        PROVE  LabelsType'
    <3>1. models' = <<>> /\ left' = {} /\ UNCHANGED pc
      BY <2>9 DEF SetLabel, LabelsType
    <3>2. sizes' \in [Keys -> LabelValues \cup {NoLabel}]
      BY <2>9 DEF SetLabel, LabelsType
    <3> QED
      BY <1>1, <3>1, <3>2 DEF LabelsType
  <2>10. CASE UNCHANGED vars
    BY <2>2, <2>10 DEF vars, LabelsType
  <2> QED
    BY <2>3, <2>4, <2>5, <2>6, <2>7, <2>8, <2>9, <2>10 DEF Next
<1> QED
  BY <1>1
  DEF Next, GetConfigMapInfo, GetNodeInfo, processNodeInfo, installedDevices,
      UpdateNodeLabel, Return, SetLabel, vars

\* One more label leaves every entry with what was seen of it.
LEMMA EntrySeen ==
  ASSUME LabelsType, NEW key \in Keys, processNodeInfo(key), ~BadLabel(key),
         NEW mc \in Constraints, NEW value, value = sizes[key]
  PROVE  /\ Seen' = Seen \cup {key} /\ key \notin Seen
         /\ SaysSeen(mc) /\ mc.device # key[1] => SaysSeen(mc)'
         /\ SaysSeen(mc) /\ mc.device = key[1]
              => SaysSeen(WithLabel(mc, key[2], value))'
         /\ mc = NoConstraint(key[1])
            /\ (\A kind \in {"max", "min"} : <<key[1], kind>> \notin Seen)
              => SaysSeen(WithLabel(mc, key[2], value))'
<1> DEFINE new == WithLabel(mc, key[2], value)
<1>1. Seen' = Seen \cup {key} /\ key \notin Seen
  BY NextLabel DEF Seen, LabelsType, Labelled
<1>2. /\ key = <<key[1], key[2]>> /\ key[2] \in {"max", "min"}
      /\ sizes[key] \in LabelValues /\ Known(key[1])
      /\ UNCHANGED <<config, sizes>>
  BY NextLabel
<1>3. /\ new.device = mc.device /\ new.model = mc.model
      /\ key[2] = "max" => /\ new.maxSet /\ new.max = sizes[key]
                           /\ new.min = mc.min
      /\ key[2] = "min" => /\ new.maxSet = mc.maxSet /\ new.max = mc.max
                           /\ new.min = sizes[key]
  BY <1>2, LabelOfEntry
<1>4. \A device : /\ Known(device)' <=> Known(device)
                  /\ getModelName(device)' = getModelName(device)
  BY <1>2 DEF Known, getModelName, SelectInSeq, Entries, infos
<1>5. SaysSeen(mc) /\ mc.device # key[1] => SaysSeen(mc)'
  <2>1. ASSUME mc.device # key[1]
        PROVE  \A kind : <<mc.device, kind>> \in Seen'
                           <=> <<mc.device, kind>> \in Seen
    BY <1>1, <1>2, <2>1
  <2> QED
    BY <1>2, <1>4, <2>1 DEF SaysSeen
<1> HIDE DEF new
<1>6. ASSUME /\ mc.device = key[1] /\ mc.model = getModelName(mc.device)
             /\ mc.maxSet <=> <<mc.device, "max">> \in Seen
             /\ mc.maxSet => mc.max = sizes[<<mc.device, "max">>]
             /\ mc.min = IF <<mc.device, "min">> \in Seen
                           THEN sizes[<<mc.device, "min">>] ELSE 0
      PROVE  SaysSeen(new)'
  <2>1. Known(new.device)' /\ new.model = getModelName(new.device)'
    BY <1>2, <1>3, <1>4, <1>6
  <2>2. CASE key[2] = "max"
    <3>1. key = <<mc.device, "max">>
      BY <1>2, <1>6, <2>2
    <3>2. /\ <<mc.device, "max">> \in Seen'
          /\ <<mc.device, "min">> \in Seen' <=> <<mc.device, "min">> \in Seen
      BY <1>1, <3>1
    <3> QED
      BY <1>2, <1>3, <1>6, <2>1, <2>2, <3>1, <3>2 DEF SaysSeen
  <2>3. CASE key[2] = "min"
    <3>1. key = <<mc.device, "min">>
      BY <1>2, <1>6, <2>3
    <3>2. /\ <<mc.device, "min">> \in Seen'
          /\ <<mc.device, "max">> \in Seen' <=> <<mc.device, "max">> \in Seen
      BY <1>1, <3>1
    <3> QED
      BY <1>2, <1>3, <1>6, <2>1, <2>3, <3>1, <3>2 DEF SaysSeen
  <2> QED
    BY <1>2, <2>2, <2>3
<1>7. SaysSeen(mc) /\ mc.device = key[1] => SaysSeen(new)'
  BY <1>6 DEF SaysSeen
<1>8. mc = NoConstraint(key[1])
      /\ (\A kind \in {"max", "min"} : <<key[1], kind>> \notin Seen)
        => SaysSeen(new)'
  BY <1>6 DEF NoConstraint
<1> QED
  BY <1>1, <1>5, <1>7, <1>8 DEF new

\* So does it all entries together, and each device name has one.
LEMMA EntriesSeen ==
  ASSUME LabelsType, ConstraintsInv, NEW key \in Keys, processNodeInfo(key),
         ~BadLabel(key)
  PROVE  ConstraintsInv'
<1>1. PICK value : value = sizes[key]
  OBVIOUS
<1>2. /\ key[1] \in LabelDevices /\ key[2] \in {"max", "min"}
      /\ value \in LabelValues /\ Known(key[1]) /\ pc = "labels"
      /\ SetConstraint(key[1], key[2], value)
  BY <1>1, NextLabel
<1>3. PICK k \in 1..Len(models') : SetAt(k, key[1], key[2], value)
  BY <1>2, ConstraintSet
<1>4. /\ \A j \in 1..Len(models) :
           models[j] \in Constraints /\ SaysSeen(models[j])
      /\ \A i, j \in 1..Len(models) :
           models[i].device = models[j].device => i = j
      /\ \A seen \in Seen :
           \E i \in 1..Len(models) : models[i].device = seen[1]
  BY <1>2, ElementOfSeq DEF LabelsType, ConstraintsInv
<1>5. /\ NoConstraint(key[1]) \in Constraints
      /\ NoConstraint(key[1]).device = key[1]
  BY <1>2, FreshEntry DEF LabelsType, NoConstraint
<1>6. Seen' = Seen \cup {key}
  BY <1>1, <1>5, EntrySeen
<1>7. PICK old \in Constraints :
        /\ models'[k] = WithLabel(old, key[2], value) /\ old.device = key[1]
        /\ \/ SaysSeen(old)
           \/ /\ old = NoConstraint(key[1])
              /\ \A kind \in {"max", "min"} : <<key[1], kind>> \notin Seen
  <2>1. CASE \A j \in 1..Len(models) : models[j].device # key[1]
    <3>1. \A kind \in {"max", "min"} : <<key[1], kind>> \notin Seen
      BY <1>4, <2>1
    <3>2. models'[k] = WithLabel(NoConstraint(key[1]), key[2], value)
      BY <1>3, <2>1 DEF SetAt
    <3> QED
      BY <1>5, <3>1, <3>2
  <2>2. CASE /\ k \in 1..Len(models) /\ models[k].device = key[1]
             /\ models'[k] = WithLabel(models[k], key[2], value)
    BY <1>4, <2>2
  <2> QED
    BY <1>3, <2>1, <2>2 DEF SetAt
<1>8. models'[k].device = key[1]
  BY <1>2, <1>7, LabelOfEntry
<1>9. \A j \in 1..Len(models') : j # k => models'[j].device # key[1]
  BY <1>3, <1>4 DEF SetAt
<1>10. SaysSeen(models[k])'
  <2>1. SaysSeen(WithLabel(old, key[2], value))'
    BY <1>1, <1>7, EntrySeen
  <2> QED
    BY <1>7, <2>1 DEF SaysSeen
<1>11. ASSUME NEW j \in 1..Len(models'), j # k
       PROVE  SaysSeen(models[j])'
  <2>1. PICK mc \in Constraints :
          mc = models[j] /\ models'[j] = mc /\ SaysSeen(mc)
          /\ mc.device # key[1]
    BY <1>3, <1>4, <1>9, <1>11 DEF SetAt
  <2>2. SaysSeen(mc)'
    BY <1>1, <2>1, EntrySeen
  <2> QED
    BY <2>1, <2>2 DEF SaysSeen
<1>12. \A i, j \in 1..Len(models') :
         models'[i].device = models'[j].device => i = j
  BY <1>3, <1>4, <1>8, <1>9 DEF SetAt
<1>13. \A seen \in Seen' :
         \E i \in 1..Len(models') : models'[i].device = seen[1]
  <2>1. ASSUME NEW seen \in Seen
        PROVE  \E i \in 1..Len(models') : models'[i].device = seen[1]
    <3>1. PICK i \in 1..Len(models) : models[i].device = seen[1]
      BY <1>4
    <3> QED
      BY <1>3, <1>8, <3>1 DEF SetAt
  <2> QED
    BY <1>6, <1>8, <2>1
<1> QED
  BY <1>10, <1>11, <1>12, <1>13 DEF ConstraintsInv

\* Every step keeps the entries true to the labels.
LEMMA ConstraintsStep ==
  ASSUME LabelsType, ConstraintsInv, [Next]_vars
  PROVE  ConstraintsInv'
<1>1. CASE ~(pc' \in {"labels", "update", "updated"})
  BY <1>1 DEF ConstraintsInv
<1>2. CASE /\ UNCHANGED <<config, sizes, left, models>>
           /\ pc \in {"labels", "update", "updated"}
  <2>1. \A device : /\ Known(device)' <=> Known(device)
                    /\ getModelName(device)' = getModelName(device)
    BY <1>2 DEF Known, getModelName, SelectInSeq, Entries, infos
  <2>2. Seen' = Seen
    BY <1>2 DEF Seen, Labelled
  <2>3. \A i \in 1..Len(models) : SaysSeen(models[i]) => SaysSeen(models[i])'
    BY <1>2, <2>1, <2>2 DEF SaysSeen
  <2> QED
    BY <1>2, <2>2, <2>3 DEF ConstraintsInv
<1>3. CASE GetNodeInfo
  <2>1. models' = <<>> /\ Seen' = {}
    BY <1>3 DEF GetNodeInfo, LabelsType, Seen, Labelled
  <2> QED
    BY <2>1 DEF ConstraintsInv
<1>4. ASSUME NEW key \in Keys, processNodeInfo(key)
      PROVE  ConstraintsInv'
  BY <1>1, <1>4, EntriesSeen DEF processNodeInfo
<1>5. ASSUME NEW key, NEW value, SetLabel(key, value)
      PROVE  ConstraintsInv'
  BY <1>1, <1>5 DEF SetLabel
<1> QED
  BY <1>1, <1>2, <1>3, <1>4, <1>5
  DEF Next, GetConfigMapInfo, installedDevices, UpdateNodeLabel, Return, vars

LimitsInv == LabelsType /\ ConstraintsInv

\* At first nothing has been read.
LEMMA LimitsInit == Init => LimitsInv
<1>1. ASSUME Init
      PROVE  /\ <<>> \in Seq(Constraints)
             /\ sizes \in [Keys -> LabelValues \cup {NoLabel}]
  BY <1>1 DEF Init
<1> QED
  BY <1>1 DEF Init, LimitsInv, LabelsType, ConstraintsInv

\* The entries are there and true to the labels in every reachable state.
LEMMA LimitsInvariant == Spec => []LimitsInv
<1>1. LimitsInv /\ [Next]_vars => LimitsInv'
  BY LabelsTypeStep, ConstraintsStep DEF LimitsInv
<1> QED
  BY <1>1, LimitsInit, PTL DEF Spec

\* What an entry says once all labels were seen is what they say.
LEMMA SeenIsSaid ==
  ASSUME LimitsInv, pc = "update", NEW i \in 1..Len(models)
  PROVE  /\ models[i].device \in LabelledDevices(models[i].model)
         /\ [max |-> IF models[i].maxSet THEN models[i].max ELSE 50,
             min |-> models[i].min] = LabelLimit(models[i].device)
<1>1. models[i] \in Constraints /\ SaysSeen(models[i]) /\ Seen = Labelled
  BY ElementOfSeq DEF LimitsInv, LabelsType, ConstraintsInv, Seen
<1>2. PICK mc \in Constraints : mc = models[i] /\ SaysSeen(mc)
  BY <1>1
<1>3. mc.device \in LabelDevices
  BY DEF Constraints
<1>4. \A kind \in {"max", "min"} :
        <<mc.device, kind>> \in Seen <=> sizes[<<mc.device, kind>>] # NoLabel
  BY <1>1, <1>3 DEF Labelled, Keys
<1> QED
  BY <1>2, <1>3, <1>4
  DEF SaysSeen, LabelledDevices, LabelLimit, LabelOr

(***************************************************************************)
(* In whatever order the labels are visited, the limit of a model is what  *)
(* the labels of one of its device names say, both of them together, and   *)
(* the default only if there is no label for it.                           *)
(***************************************************************************)
THEOREM LimitsDoMeetLabels == Spec => []LimitsMeetLabels
<1>1. ASSUME LimitsInv, pc = "update", NEW m \in AllModels
      PROVE  IF LabelledDevices(m) = {}
               THEN GetModelLimit(models, m) = [max |-> 50, min |-> 0]
             ELSE \E d \in LabelledDevices(m) :
                    GetModelLimit(models, m) = LabelLimit(d)
  <2>1. Len(models) \in Nat
    BY <1>1 DEF LimitsInv, LabelsType
  <2>2. CASE /\ \A i \in 1..Len(models) : models[i].model # m
             /\ GetModelLimit(models, m) = [max |-> 50, min |-> 0]
    <3>1. ASSUME NEW d \in LabelledDevices(m)
          PROVE  FALSE
      <4>1. PICK kind \in {"max", "min"} : <<d, kind>> \in Seen
        BY <1>1
        DEF LabelledDevices, Seen, Labelled, Keys, LimitsInv, LabelsType
      <4>2. PICK i \in 1..Len(models) : models[i].device = d
        BY <1>1, <4>1 DEF LimitsInv, ConstraintsInv
      <4> QED
        BY <1>1, <2>2, <4>2
        DEF LimitsInv, ConstraintsInv, SaysSeen, LabelledDevices
    <3> QED
      BY <2>2, <3>1
  <2>3. CASE \E i \in 1..Len(models) :
               /\ models[i].model = m
               /\ GetModelLimit(models, m) =
                    [max |-> IF models[i].maxSet THEN models[i].max ELSE 50,
                     min |-> models[i].min]
    BY <1>1, <2>3, SeenIsSaid
  <2> QED
    BY <2>1, <2>2, <2>3, ModelLimit
<1>2. LimitsInv => LimitsMeetLabels
  BY <1>1 DEF LimitsMeetLabels
<1> QED
  BY <1>2, LimitsInvariant, PTL

-----------------------------------------------------------------------------
(***************************************************************************)
(* Labels and notifications agree.  A device name that is left on the node *)
(* has no entry whose index UpdateNodeLabel ruled out, so neither what is  *)
(* installed nor a maximum of zero stands against any of them.             *)
(***************************************************************************)
InvitedInv ==
  pc = "updated" =>
    \A i \in Entries :
      infos[i].device \in invited => infos[i].index \notin notCoexistID

\* Every step keeps it: the labels are written and the pass ends.
LEMMA InvitedStep ==
  ASSUME InvitedInv, [Next]_vars
  PROVE  InvitedInv'
<1>1. CASE pc' # "updated"
  BY <1>1 DEF InvitedInv
<1>2. CASE UNCHANGED <<config, models, devices>>
  <2>1. /\ infos' = infos /\ Entries' = Entries
        /\ notCoexistID' = notCoexistID
    BY <1>2 DEF notCoexistID, Entries, infos
  <2>2. CASE UpdateNodeLabel
    <3>1. \A i \in Entries :
            infos[i].index \in notCoexistID => infos[i].device \notin invited'
      BY <2>2 DEF UpdateNodeLabel
    <3> QED
      BY <2>1, <3>1 DEF InvitedInv
  <2>3. CASE UNCHANGED <<pc, invited>>
    BY <2>1, <2>3 DEF InvitedInv
  <2> QED
    BY <1>1, <2>2, <2>3
    DEF Next, GetConfigMapInfo, GetNodeInfo, processNodeInfo,
        installedDevices, Return, SetLabel, vars
<1> QED
  BY <1>1, <1>2
  DEF Next, GetConfigMapInfo, GetNodeInfo, processNodeInfo, installedDevices,
      UpdateNodeLabel, Return, SetLabel, vars

\* With one entry per index, indexToModel has the model of that entry.
LEMMA ModelOfIndex ==
  ASSUME config \in Configs, Proper, NEW j \in Entries
  PROVE  indexToModel(infos[j].index) = infos[j].model
<1> DEFINE I == {i \in 1..Len(infos) : infos[i].index = infos[j].index}
<1>1. I # {}
  BY InfosList
<1>2. indexToModel(infos[j].index) = infos[Max(I)].model
  BY <1>1 DEF indexToModel, SelectLastInSeq
<1>3. Max(I) \in I
  BY <1>1, InfosList, Positions
<1>4. Max(I) = j
  BY <1>3, InfosList DEF Proper
<1> QED
  BY <1>2, <1>4

\* With a symmetric cannot-coexist-with, a model whose index is not ruled out
\* coexists with all models that are installed.
LEMMA NotRuledOutCoexists ==
  ASSUME config \in Configs, Proper, NEW i \in Entries,
         infos[i].index \notin notCoexistID, NEW m \in devices
  PROVE  isDeviceCoexistence(infos[i].model, m)
<1> DEFINE I == {j \in 1..Len(infos) : infos[j].model = infos[i].model}
<1>1. I # {}
  BY InfosList
<1>2. Min(I) \in I
  BY <1>1, InfosList, Positions
<1>3. Min(I) = i
  BY <1>2, InfosList DEF Proper
<1>4. ASSUME NEW index \in infos[i].cannot, NEW j \in Entries,
             infos[j].index = index
      PROVE  indexToModel(index) # m
  <2>1. indexToModel(index) = infos[j].model
    BY <1>4, ModelOfIndex
  <2>2. infos[i].index \in infos[j].cannot
    BY <1>4 DEF Proper
  <2>3. infos[j].model \notin devices
    BY <2>2 DEF notCoexistID
  <2> QED
    BY <2>1, <2>3
<1>5. SelectInSeq(infos, LAMBDA info : info.model = infos[i].model) = i
  BY <1>1, <1>3 DEF SelectInSeq
<1> QED
  BY <1>4, <1>5 DEF isDeviceCoexistence

\* With one entry per model and no maximum below zero, a model whose index is
\* not ruled out may have a device.
LEMMA NotRuledOutLimit ==
  ASSUME LimitsInv, ErrorIsDetermined, Proper, NoNegativeMaximum,
         NEW i \in Entries, pc = "updated", infos[i].index \notin notCoexistID
  PROVE  1 <= GetModelLimit(models, infos[i].model).max
<1>1. Len(models) \in Nat /\ config \in Configs
  BY DEF LimitsInv, LabelsType
<1>2. ASSUME NEW k \in 1..Len(models), models[k].model = infos[i].model,
             models[k].maxSet
      PROVE  1 <= models[k].max
  <2>1. Known(models[k].device) /\ models[k].model = getModelName(models[k].device)
    BY DEF LimitsInv, ConstraintsInv, SaysSeen
  <2>2. PICK j \in Entries : /\ infos[j].device = models[k].device
                             /\ infos[j].model = models[k].model
    BY <1>1, <2>1, ModelName
  <2>3. j = i
    BY <1>2, <2>2 DEF Proper
  <2>4. k \in DOMAIN models
    BY <1>1 DEF LimitsInv, LabelsType
  <2>5. models[k].max # 0
    BY <1>2, <2>2, <2>3, <2>4 DEF notCoexistID
  <2>6. models[k].max \in Int /\ models[k].max >= 0
    <3>1. models[k] \in Constraints /\ SaysSeen(models[k])
      BY <1>1, ElementOfSeq DEF LimitsInv, LabelsType, ConstraintsInv
    <3>2. PICK mc \in Constraints : mc = models[k] /\ SaysSeen(mc) /\ mc.maxSet
      BY <1>2, <3>1
    <3>3. mc.device \in LabelDevices /\ mc.max \in LabelValues \cup {0}
      BY DEF Constraints
    <3>4. /\ mc.max = sizes[<<mc.device, "max">>]
          /\ sizes[<<mc.device, "max">>] # NoLabel
      BY <3>2, <3>3 DEF SaysSeen, Seen, Labelled
    <3>5. mc.max # BadValue
      BY <3>3, <3>4 DEF ErrorIsDetermined, BadLabels, BadLabel, Keys
    <3>6. mc.max \in Int
      BY <3>3, <3>5, LabelsAssumption
    <3>7. mc.max >= 0
      BY <3>3, <3>4, <3>5 DEF NoNegativeMaximum
    <3> QED
      BY <3>2, <3>6, <3>7
  <2> QED
    BY <2>5, <2>6
<1> QED
  BY <1>1, <1>2, ModelLimit

(***************************************************************************)
(* With a symmetric cannot-coexist-with, one entry per model and index and *)
(* no maximum below zero, a device name whose label the scaler leaves on a *)
(* node is one that RescheduleFailedNotification accepts there.            *)
(***************************************************************************)
THEOREM InvitedAreAccepted == Spec => []InvitedIsAccepted
<1>1. Init => InvitedInv
  BY DEF Init, InvitedInv
<1>2. InvitedInv /\ [Next]_vars => InvitedInv'
  BY InvitedStep
<1>3. LimitsInv /\ ErrorIsDetermined /\ InvitedInv => InvitedIsAccepted
  BY NotRuledOutCoexists, NotRuledOutLimit
  DEF InvitedIsAccepted, InvitedInv, LimitsInv, LabelsType
<1> QED
  BY <1>1, <1>2, <1>3, LimitsInvariant, ErrorsAreDetermined, PTL DEF Spec

=============================================================================
