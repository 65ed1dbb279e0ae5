---------------------------- MODULE DeviceConfig ----------------------------
(***************************************************************************)
(* What the scaler is configured with: the device models listed in the     *)
(* "device-info" entry of its ConfigMap, with the models each of them      *)
(* cannot coexist with, the per-node limits an administrator writes as     *)
(* node labels, and the two durations read from the environment.           *)
(*                                                                         *)
(* A model stands for one entry of device-info: its index, CDI model name  *)
(* and k8s device name are in one-to-one correspondence here.              *)
(***************************************************************************)
EXTENDS Integers, FiniteSets

CONSTANTS
  Nodes,              \* the worker nodes
  NoNode,             \* the empty node name
  Models,             \* CDI model names, one per device-info entry
  CannotCoexistWith,  \* model -> the models its cannot-coexist-with lists
  NodeRank,           \* position of a node in the node list
  ModelRank,          \* position of a model in device-info
  DeviceNoAllocation, \* DEVICE_NO_ALLOCATION_DURATION, in ticks
  DeviceNoRemoval     \* DEVICE_NO_REMOVAL_DURATION, in ticks

ASSUME NodesAssumption ==
  /\ IsFiniteSet(Nodes)
  /\ NoNode \notin Nodes
  /\ NodeRank \in [Nodes -> Nat]
  /\ \A n1, n2 \in Nodes : NodeRank[n1] = NodeRank[n2] => n1 = n2

ASSUME ModelsAssumption ==
  /\ IsFiniteSet(Models)
  /\ CannotCoexistWith \in [Models -> SUBSET Models]
  /\ ModelRank \in [Models -> Nat]
  /\ \A m1, m2 \in Models : ModelRank[m1] = ModelRank[m2] => m1 = m2

\* getEnvAsInt refuses a negative duration.
ASSUME DurationsAssumption ==
  DeviceNoAllocation \in Nat /\ DeviceNoRemoval \in Nat

(***************************************************************************)
(* One model's entry of NodeInfo.Models.  A node without a "-size-max"     *)
(* label for the model has maxSet = FALSE, one without "-size-min" has     *)
(* min = 0.  Atoi accepts negative numbers, so both are integers.          *)
(***************************************************************************)
ModelConstraints == [maxSet : BOOLEAN, max : Int, min : Int]

defaultMaxDevice == 50

\* The limits a node that carries no label has.
Unlimited == [maxSet |-> FALSE, max |-> 0, min |-> 0]

GetModelLimit(constraint) ==
  [max |-> IF constraint.maxSet THEN constraint.max ELSE defaultMaxDevice,
   min |-> constraint.min]

\* The check looks only at the list of its first argument.
isDeviceCoexistence(model1, model2) ==
  model1 = model2 \/ model2 \notin CannotCoexistWith[model1]

\* The elements of S that come first in the list that rank describes.
First(S, rank) == {x \in S : \A y \in S : rank[x] <= rank[y]}

Larger(a, b) == IF a > b THEN a ELSE b

=============================================================================
