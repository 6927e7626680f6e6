--------------------------- MODULE MCLoadBalancer ---------------------------
(* Small instances of LoadBalancer for TLC.                                *)
EXTENDS LoadBalancer, TLC

CONSTANTS s1, s2, s3, s4, s5, q1, q2

ThreeServers == {s1, s2, s3}
FiveServers  == {s1, s2, s3, s4, s5}
OwnKeys      == [s \in Servers |-> s]
ZeroWeights  == [s \in Servers |-> 0]
UnitWeight   == [s \in Servers |-> IF s = s5 THEN 1 ELSE 0]
TwoReqs      == {q1, q2}
OneReq       == {q1}
SameHash     == [q \in Reqs |-> 1]
Hashes       == [q \in Reqs |-> IF q = q1 THEN 1 ELSE 2]

(* Servers differ in nothing but identity, and clients have the same hash. *)
Sym == Permutations(ThreeServers) \cup Permutations(TwoReqs)
=============================================================================
