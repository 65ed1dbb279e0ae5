--------------------------- MODULE ScalerService ----------------------------
(***************************************************************************)
(* What the scaler promises to the scheduler and to the Composable         *)
(* Resource Operator, without passes, phases, snapshots or devices: a      *)
(* claim that waits for a fabric device is answered at most once, and only *)
(* a claim that waits is; the requests for devices are created one per     *)
(* model and node, stay where they are, change their size one at a time    *)
(* and never go beyond what the limits allow.                              *)
(***************************************************************************)
EXTENDS Integers

CONSTANTS
  Claims,      \* ResourceClaims
  Nodes,       \* worker nodes
  Models,      \* device models
  RequestIds,  \* names of ComposabilityRequests
  NoRequest,   \* no ComposabilityRequest of that name exists
  Sizes        \* the sizes the limits of the nodes allow

VARIABLES
  life,   \* claim -> where it is in its life
  asked   \* request name -> model, node and size

serviceVars == <<life, asked>>

\* "bound" claims hold attached devices and wait for nothing.
Answers == {"failed", "reschedule"}
Lives == {"gone", "free", "bound", "waiting"} \cup Answers

Init ==
  /\ life = [c \in Claims |-> "free"]
  /\ asked = [q \in RequestIds |-> NoRequest]

Become(c, l) == life' = [life EXCEPT ![c] = l] /\ UNCHANGED asked

\* The scheduler's and the pods' part.
Allocate(c) ==
  life[c] = "free" /\ \E l \in {"bound", "waiting"} : Become(c, l)

Deallocate(c) == life[c] \in Lives \ {"gone", "free"} /\ Become(c, "free")

Delete(c) == life[c] # "gone" /\ Become(c, "gone")

\* The scaler's part.
Answer(c) == life[c] = "waiting" /\ \E l \in Answers : Become(c, l)

Ask(q, m, n) ==
  /\ asked[q] = NoRequest
  /\ \A r \in RequestIds :
        asked[r] # NoRequest => asked[r].model # m \/ asked[r].node # n
  /\ \E s \in Sizes :
        asked' = [asked EXCEPT ![q] = [model |-> m, node |-> n, size |-> s]]
  /\ UNCHANGED life

Resize(q) ==
  /\ asked[q] # NoRequest
  /\ \E s \in Sizes : asked' = [asked EXCEPT ![q].size = s]
  /\ UNCHANGED life

Next ==
  \/ \E c \in Claims :
       Allocate(c) \/ Deallocate(c) \/ Delete(c) \/ Answer(c)
  \/ \E q \in RequestIds, m \in Models, n \in Nodes : Ask(q, m, n)
  \/ \E q \in RequestIds : Resize(q)

Spec == Init /\ [][Next]_serviceVars

=============================================================================
