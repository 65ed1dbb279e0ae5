------------------------- MODULE MCResourceMonitor --------------------------
(***************************************************************************)
(* Small instances of ResourceMonitor: values for its constants.           *)
(***************************************************************************)
EXTENDS ResourceMonitor, TLC

CONSTANTS n1, n2, A, B, c1, c2, d1, d2

\* Node and device-info lists, in order.
OneNodeRank == n1 :> 1
TwoNodeRank == n1 :> 1 @@ n2 :> 2
OneModelRank == A :> 1
TwoModelRank == A :> 1 @@ B :> 2

NoConflict == [m \in Models |-> {}]
Conflict == A :> {B} @@ B :> {A}

\* Claims with one item each.
OneItemEach == c1 :> {1} @@ c2 :> {2}
OneItem == c1 :> {1}
TwoItems == c1 :> {1, 2}
AllModelA == [i \in Items |-> A]
FirstA == [i \in Items |-> IF i = 1 THEN A ELSE B]
DistinctTimes == c1 :> 1 @@ c2 :> 2
SameTime == [c \in Claims |-> 1]
DistinctNames == [c \in Claims |-> c]

DevicesA == [d \in Devices |-> A]
DevicesAB == d1 :> A @@ d2 :> B

NoLimit == {Unlimited}
MaxOne == {[maxSet |-> TRUE, max |-> 1, min |-> 0]}
\* One device at most, or a minimum over the maximum.
MaxOneOrMinOne ==
  {[maxSet |-> TRUE, max |-> 1, min |-> 0],
   [maxSet |-> TRUE, max |-> 0, min |-> 1]}
MaxZeroOrNone == {[maxSet |-> TRUE, max |-> 0, min |-> 0]} \cup NoLimit
NegativeMaxOrNone == {[maxSet |-> TRUE, max |-> -1, min |-> 0]} \cup NoLimit

\* Devices of one model are interchangeable.
DeviceSymmetry == Permutations(Devices)

=============================================================================
