---------------------------- MODULE MCEnrollment ----------------------------
(***************************************************************************)
(* One fabric between two sites, with a pool that may be too small, and a  *)
(* router that enrolls into it.                                            *)
(***************************************************************************)
EXTENDS Enrollment, TLC

TwoEach == 1 :> "hq" @@ 2 :> "br" @@ 3 :> "new" @@ 4 :> "new" @@ 5 :> "hq" @@ 6 :> "br"
HubAndSpoke == "hq" :> "hub" @@ "br" :> "spoke"
NoLoopback == [x \in {"hq", "br", "new"} |-> None]
Row(pool) == [transport |-> "wireguard", topology |-> "hub_spoke", pool |-> pool, enabled |-> TRUE]
Choices == {Row({}), Row({0, 1, 2})}
TwoPools == {{}, {0, 1, 2}}
One == "f1" :> Row({0, 1, 2})
Up(address) == [ip |-> address, nat |-> FALSE, up |-> TRUE]
AtStart == 1 :> Up("a1") @@ 2 :> Up(None)
Rows == {Up("a1"), Up("a2")}

\* A router with a default route through interface 1, and through interface 2,
\* which is bridged with the network it serves.
Route(i, x) == [iface |-> i, distance |-> x, active |-> TRUE, bare |-> FALSE]
Router == [routes |-> {Route(1, 2), Route(2, 1)}, clients |-> {1}, members |-> 2 :> 9,
           bridges |-> {9}, serving |-> {9}, addresses |-> 1 :> "a2" @@ 2 :> Private]
Routers == {Router}
=============================================================================
