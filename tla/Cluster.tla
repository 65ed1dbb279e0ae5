------------------------------ MODULE Cluster -------------------------------
(***************************************************************************)
(* The Kubernetes objects the scaler reads and writes, and the components  *)
(* around it that change them: the scheduler and the pods (ResourceClaim), *)
(* the Composable Resource Operator (ComposableResource), the vendor's DRA *)
(* plugin (ResourceSlice), the administrator (node labels), the clock and  *)
(* the informer caches.  None of these components is in this repository:   *)
(* their actions say what the scaler's code relies on, and no more.        *)
(***************************************************************************)
EXTENDS DeviceConfig

CONSTANTS
  Claims,        \* ResourceClaims
  Items,         \* the device requests inside the claims, numbered
  ItemsOf,       \* claim -> its items
  ItemModel,     \* item -> the model it asks for
  Created,       \* claim -> its creation timestamp (one-second granularity)
  ClaimName,     \* claim -> its name; namespaces may repeat a name
  Devices,       \* physical devices, each one ComposableResource at a time
  DeviceModel,   \* device -> its model
  RequestIds,    \* names of ComposabilityRequests, in the order they are given
  NoRequest,     \* no ComposabilityRequest of that name exists
  LimitChoices,  \* the limits the administrator may set
  Lagging        \* the kinds of object whose informer cache may lag behind

\* The part of a ComposabilityRequest's spec that the scaler works with.
RequestState == [model : Models, node : Nodes, size : Int]

ASSUME ClaimsAssumption ==
  /\ IsFiniteSet(Claims) /\ IsFiniteSet(Items) /\ Items \subseteq Nat
  /\ ItemsOf \in [Claims -> SUBSET Items]
  /\ \A c \in Claims : ItemsOf[c] # {}
  /\ \A c1, c2 \in Claims : c1 # c2 => ItemsOf[c1] \cap ItemsOf[c2] = {}
  /\ ItemModel \in [Items -> Models]
  /\ Created \in [Claims -> Nat]
  /\ DOMAIN ClaimName = Claims

ASSUME DevicesAssumption ==
  /\ IsFiniteSet(Devices)
  /\ DeviceModel \in [Devices -> Models]
  /\ RequestIds \subseteq Nat /\ NoRequest \notin RequestIds
  /\ NoRequest \notin RequestState
  /\ LimitChoices \subseteq ModelConstraints

VARIABLES
  claims,     \* claim -> allocation, reservation and device conditions
  resources,  \* device -> the ComposableResource that stands for it
  slices,     \* device -> the node whose ResourceSlice lists it, or NoNode
  requests,   \* request name -> the ComposabilityRequest
  limits,     \* node -> model -> ModelConstraints, from the node's labels
  labels,     \* node -> the models whose label the scaler has set to true
  cache       \* what the informers last saw of the first four

clusterVars == <<claims, resources, slices, requests, limits, labels, cache>>

-----------------------------------------------------------------------------

Verdicts == {"FabricDeviceFailed", "FabricDeviceReschedule"}

(***************************************************************************)
(* An allocated claim holds items from the fabric pool (results with       *)
(* BindingConditions) and devices already attached to its node ("red"      *)
(* devices, results without).  cond are the condition types with status    *)
(* True in status.devices: the scaler sets them on all devices at once.    *)
(***************************************************************************)
ClaimState ==
  [exists : BOOLEAN, reserved : BOOLEAN, node : Nodes \cup {NoNode},
   pool : SUBSET Items, red : SUBSET Devices, cond : SUBSET Verdicts]

(***************************************************************************)
(* age is the time since the last-used-time annotation was written, or     *)
(* since the creation of an object that has no annotation (stamped is      *)
(* FALSE).  It stops at MaxAge, which is over both thresholds.             *)
(***************************************************************************)
MaxAge == Larger(DeviceNoAllocation, DeviceNoRemoval) + 1

ResourceStates == {"Absent", "None", "Attaching", "Online", "Detaching"}

ResourceState ==
  [state : ResourceStates, node : Nodes \cup {NoNode},
   owner : RequestIds \cup {NoRequest}, deleting : BOOLEAN,
   stamped : BOOLEAN, age : 0..MaxAge]

NoClaimAllocation ==
  [exists |-> TRUE, reserved |-> FALSE, node |-> NoNode,
   pool |-> {}, red |-> {}, cond |-> {}]

DeletedClaim == [NoClaimAllocation EXCEPT !.exists = FALSE]

NoResource ==
  [state |-> "Absent", node |-> NoNode, owner |-> NoRequest,
   deleting |-> FALSE, stamped |-> FALSE, age |-> 0]

Allocated(claim) == claim.pool # {} \/ claim.red # {}

Snapshot ==
  [claims |-> claims, resources |-> resources,
   slices |-> slices, requests |-> requests]

ClusterTypeOK ==
  /\ claims \in [Claims -> ClaimState]
  /\ resources \in [Devices -> ResourceState]
  /\ slices \in [Devices -> Nodes \cup {NoNode}]
  /\ requests \in [RequestIds -> RequestState \cup {NoRequest}]
  /\ limits \in [Nodes -> [Models -> ModelConstraints]]
  /\ labels \in [Nodes -> SUBSET Models]
  /\ cache \in [claims : [Claims -> ClaimState],
                resources : [Devices -> ResourceState],
                slices : [Devices -> Nodes \cup {NoNode}],
                requests : [RequestIds -> RequestState \cup {NoRequest}]]

ClusterInit ==
  /\ claims = [c \in Claims |-> NoClaimAllocation]
  /\ resources = [d \in Devices |-> NoResource]
  /\ slices = [d \in Devices |-> NoNode]
  /\ requests = [q \in RequestIds |-> NoRequest]
  /\ limits \in [Nodes -> [Models -> LimitChoices]]
  /\ labels = [n \in Nodes |-> {}]
  /\ cache = Snapshot

-----------------------------------------------------------------------------
(***************************************************************************)
(* The manager's client answers Get and List from informer caches; only    *)
(* writes, nodes and the ConfigMap go to the API server directly.          *)
(***************************************************************************)
ClaimView    == IF "claims"    \in Lagging THEN cache.claims    ELSE claims
ResourceView == IF "resources" \in Lagging THEN cache.resources ELSE resources
SliceView    == IF "slices"    \in Lagging THEN cache.slices    ELSE slices
RequestView  == IF "requests"  \in Lagging THEN cache.requests  ELSE requests

\* A watch event brings the cache of one kind of object up to date.
Sync(kind) ==
  /\ kind \in Lagging
  /\ cache' = [cache EXCEPT ![kind] = Snapshot[kind]]
  /\ UNCHANGED <<claims, resources, slices, requests, limits, labels>>

-----------------------------------------------------------------------------
(***************************************************************************)
(* Scheduler and pods.                                                     *)
(***************************************************************************)

\* A node's pool is its own: a device that moves on is another one to a claim.
HeldDevices(n) ==
  UNION {claims[c].red : c \in {k \in Claims : claims[k].node = n}}

(***************************************************************************)
(* The scheduler allocates a claim on a node: some items from the fabric   *)
(* pool, the others from free devices published on that node.              *)
(***************************************************************************)
Allocate(c, n, pool, red) ==
  /\ claims[c].exists /\ ~Allocated(claims[c])
  /\ pool \subseteq ItemsOf[c]
  /\ red \subseteq {d \in Devices : slices[d] = n} \ HeldDevices(n)
  /\ \A m \in Models :
        Cardinality({i \in ItemsOf[c] \ pool : ItemModel[i] = m})
          = Cardinality({d \in red : DeviceModel[d] = m})
  /\ claims' = [claims EXCEPT ![c] = [@ EXCEPT !.reserved = TRUE, !.node = n,
                                               !.pool = pool, !.red = red]]
  /\ UNCHANGED <<resources, slices, requests, limits, labels, cache>>

(***************************************************************************)
(* A binding-failure condition on a pool device makes the scheduler give   *)
(* the allocation up, which clears status.devices, and try again.          *)
(***************************************************************************)
GiveUpAllocation(c) ==
  /\ claims[c].pool # {} /\ claims[c].cond # {}
  /\ claims' = [claims EXCEPT ![c] = NoClaimAllocation]
  /\ UNCHANGED <<resources, slices, requests, limits, labels, cache>>

\* The scheduler waits for the binding conditions only so long.
BindingTimeout(c) ==
  /\ claims[c].pool # {} /\ claims[c].cond = {}
  /\ claims' = [claims EXCEPT ![c] = NoClaimAllocation]
  /\ UNCHANGED <<resources, slices, requests, limits, labels, cache>>

\* The pod ends: it no longer reserves its claim ...
Unreserve(c) ==
  /\ claims[c].reserved
  /\ claims' = [claims EXCEPT ![c].reserved = FALSE]
  /\ UNCHANGED <<resources, slices, requests, limits, labels, cache>>

\* ... and a claim that nobody reserves is deallocated and deleted.
DeleteClaim(c) ==
  /\ claims[c].exists /\ ~claims[c].reserved
  /\ claims' = [claims EXCEPT ![c] = DeletedClaim]
  /\ UNCHANGED <<resources, slices, requests, limits, labels, cache>>

-----------------------------------------------------------------------------
(***************************************************************************)
(* Composable Resource Operator: it keeps as many ComposableResources per  *)
(* ComposabilityRequest as its size says.  Which device it takes or gives  *)
(* back is its own choice.                                                 *)
(***************************************************************************)
Owned(q) == {d \in Devices : resources[d].owner = q /\ ~resources[d].deleting}

\* A new ComposableResource gets a new name, so a cache never takes it for
\* the one the device had before.
CreateResource(q, d) ==
  /\ requests[q] # NoRequest /\ Cardinality(Owned(q)) < requests[q].size
  /\ resources[d].state = "Absent" /\ ResourceView[d].state = "Absent"
  /\ DeviceModel[d] = requests[q].model
  /\ resources' = [resources EXCEPT ![d] =
        [NoResource EXCEPT !.state = "None", !.node = requests[q].node,
                           !.owner = q]]
  /\ UNCHANGED <<claims, slices, requests, limits, labels, cache>>

DeleteResource(q, d) ==
  /\ requests[q] # NoRequest /\ Cardinality(Owned(q)) > requests[q].size
  /\ d \in Owned(q)
  /\ resources' = [resources EXCEPT ![d].deleting = TRUE]
  /\ UNCHANGED <<claims, slices, requests, limits, labels, cache>>

\* State changes of one ComposableResource.
Attach(d) ==
  /\ ~resources[d].deleting
  /\ \/ /\ resources[d].state = "None"
        /\ resources' = [resources EXCEPT ![d].state = "Attaching"]
     \/ /\ resources[d].state = "Attaching"
        /\ resources' = [resources EXCEPT ![d].state = "Online"]
  /\ UNCHANGED <<claims, slices, requests, limits, labels, cache>>

Detach(d) ==
  /\ resources[d].deleting
  /\ \/ /\ resources[d].state \in {"None", "Attaching", "Online"}
        /\ resources' = [resources EXCEPT ![d].state = "Detaching"]
     \/ /\ resources[d].state = "Detaching" /\ slices[d] = NoNode
        /\ resources' = [resources EXCEPT ![d] = NoResource]
  /\ UNCHANGED <<claims, slices, requests, limits, labels, cache>>

-----------------------------------------------------------------------------
(***************************************************************************)
(* The vendor's DRA plugin, the clock and the administrator.               *)
(***************************************************************************)

Publish(d) ==
  /\ \/ /\ resources[d].state = "Online"
        /\ slices' = [slices EXCEPT ![d] = resources[d].node]
     \/ /\ resources[d].state = "Detaching"
        /\ slices' = [slices EXCEPT ![d] = NoNode]
  /\ slices' # slices
  /\ UNCHANGED <<claims, resources, requests, limits, labels, cache>>

Older(res) ==
  [d \in Devices |->
     IF res[d].state = "Absent" \/ res[d].age = MaxAge THEN res[d]
     ELSE [res[d] EXCEPT !.age = @ + 1]]

Tick ==
  /\ resources' = Older(resources)
  /\ cache' = IF "resources" \in Lagging
              THEN [cache EXCEPT !.resources = Older(@)] ELSE cache
  /\ resources' # resources
  /\ UNCHANGED <<claims, slices, requests, limits, labels>>

SetLimit(n, m, limit) ==
  /\ limit # limits[n][m]
  /\ limits' = [limits EXCEPT ![n][m] = limit]
  /\ UNCHANGED <<claims, resources, slices, requests, labels, cache>>

-----------------------------------------------------------------------------

Kinds == {"claims", "resources", "slices", "requests"}

Operator ==
  \/ \E q \in RequestIds, d \in Devices : CreateResource(q, d)
  \/ \E q \in RequestIds, d \in Devices : DeleteResource(q, d)
  \/ \E d \in Devices : Attach(d)
  \/ \E d \in Devices : Detach(d)

Environment ==
  \/ \E c \in Claims, n \in Nodes, pool \in SUBSET Items,
        red \in SUBSET Devices : Allocate(c, n, pool, red)
  \/ \E c \in Claims : GiveUpAllocation(c)
  \/ \E c \in Claims : BindingTimeout(c)
  \/ \E c \in Claims : Unreserve(c)
  \/ \E c \in Claims : DeleteClaim(c)
  \/ Operator
  \/ \E d \in Devices : Publish(d)
  \/ Tick
  \/ \E n \in Nodes, m \in Models, l \in LimitChoices : SetLimit(n, m, l)
  \/ \E k \in Kinds : Sync(k)

=============================================================================
