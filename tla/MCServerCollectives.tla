------------------------ MODULE MCServerCollectives ------------------------
(* Instances of ServerCollectives for TLC.                                 *)
EXTENDS ServerCollectives, TLC

CONSTANTS a, b, p0, p1, p2, q0, c1, c2, c3, c4

\* Namespace a has two or three clients here and one remote rank, the last;
\* namespace b is one local client.
TwoPeers == {p0, p1}
TwoNames == p0 :> <<a, 0>> @@ p1 :> <<a, 1>>
TwoLocal == a :> {0, 1}
TwoSize == a :> 3
TwoCallers == c1 :> p0 @@ c2 :> p1 @@ c3 :> p0

ThreePeers == {p0, p1, p2}
ThreeNames == p0 :> <<a, 0>> @@ p1 :> <<a, 1>> @@ p2 :> <<a, 2>>
ThreeLocal == a :> {0, 1, 2}
ThreeSize == a :> 4
ThreeAll == a :> 3
ThreeCallers == c1 :> p0 @@ c2 :> p1 @@ c3 :> p2 @@ c4 :> p0
ThreeCallersOnce == c1 :> p0 @@ c2 :> p1 @@ c3 :> p2

HybridPeers == {p0, p1, q0}
HybridNames == p0 :> <<a, 0>> @@ p1 :> <<a, 1>> @@ q0 :> <<b, 0>>
HybridLocal == a :> {0, 1} @@ b :> {0}
HybridSize == a :> 3 @@ b :> 1
HybridCallers == c1 :> p0 @@ c2 :> p1 @@ c3 :> q0

\* The whole namespace, the local ranks by name, two namespaces together.
Whole == {{<<a, WILDCARD>>}}
ByRank == {{<<a, 0>>, <<a, 1>>}}
AllByRank == {{<<a, 0>>, <<a, 1>>, <<a, 2>>}}
WholeAndAll == Whole \cup AllByRank
WholeAndByRank == Whole \cup ByRank
Hybrid == {{<<a, WILDCARD>>, <<b, WILDCARD>>}, {<<b, WILDCARD>>}}

Nobody == {}
RankOne == {<<a, 1>>}
=============================================================================
