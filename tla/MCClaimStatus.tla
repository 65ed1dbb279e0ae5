--------------------------- MODULE MCClaimStatus ----------------------------
(***************************************************************************)
(* A small instance of ClaimStatus: three results, one of them attached    *)
(* already, the other two from pools.                                      *)
(***************************************************************************)
EXTENDS ClaimStatus

DistinctNames == [r \in Results |-> r]

\* Conditions of their own, nothing yet, and a binding condition that is set.
OtherReport == {[t \in {"Other"} |-> TRUE], [t \in {"Ready"} |-> FALSE]}
BindingReport == {NoConditions} \cup [{"Ready"} -> BOOLEAN]

\* One that reports on the whole claim, and one that goes device by device.
WholeClaim == {[covers |-> {Results}, reports |-> OtherReport]}
EachDevice == {[covers |-> {{r} : r \in Pool}, reports |-> BindingReport]}
TwoWriters == WholeClaim \cup EachDevice

=============================================================================
