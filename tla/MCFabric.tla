------------------------------ MODULE MCFabric ------------------------------
(***************************************************************************)
(* Two fabrics whose pools overlap at one /31, over a hub and two branches *)
(* with an uplink each, and a site yet to come.                            *)
(***************************************************************************)
EXTENDS Fabric, TLC

OneEach == 1 :> "hq" @@ 2 :> "br1" @@ 3 :> "br2" @@ 4 :> "new"
HubAndSpokes == "hq" :> "hub" @@ "br1" :> "spoke" @@ "br2" :> "spoke"
OwnLoopback == "hq" :> 1 @@ "br1" :> None @@ "br2" :> None @@ "new" :> None
Low == {0, 1, 2}
High == {2, 3, 4}
Row(t, topology, pool) == [transport |-> t, topology |-> topology, pool |-> pool, enabled |-> TRUE]
MeshLow == Row("wireguard", "full_mesh", Low)
SpokesHigh == Row("ipsec_gre", "hub_spoke", High)
Choices == {MeshLow, Row("ipsec_gre", "hub_spoke", Low), Row("wireguard", "hub_spoke", High)}
BothPools == {Low, High}
\* A new hub with its uplink, brought into f1.
Export == [sites |-> "new" :> "hub", wans |-> 4 :> [ip |-> "a1", nat |-> FALSE, up |-> TRUE],
           fabrics |-> "f1" :> MeshLow, members |-> "f1" :> {"hq", "new"}]
\* Another install's f2, whose transport is another.
Foreign == [sites |-> << >>, wans |-> << >>, fabrics |-> "f2" :> Row("wireguard", "hub_spoke", High),
            members |-> "f2" :> {}]
Exports == {Export, Foreign}
Symmetric == Permutations(Sessions)
Two == "f1" :> MeshLow @@ "f2" :> SpokesHigh
Up(address) == [ip |-> address, nat |-> FALSE, up |-> TRUE]
AtStart == 1 :> Up("a1") @@ 2 :> Up("a2") @@ 3 :> Up("a3")
Rows == {Up("a1"), [Up(None) EXCEPT !.nat = TRUE], [Up("a1") EXCEPT !.up = FALSE]}
=============================================================================
