------------------------------- MODULE Uplinks -------------------------------
(***************************************************************************)
(* What a probe of a router takes for its uplinks (services/probe.py).     *)
(*                                                                         *)
(* A device is a record of the menus the probe reads: its default routes,  *)
(* its DHCP clients, bridge members, bridges, the interfaces it serves     *)
(* DHCP on, and an address per interface.  Interfaces are numbers, in the  *)
(* order of their names.                                                   *)
(***************************************************************************)
EXTENDS Integers, FiniteSets

Menus == {"routes", "clients", "members", "bridges", "serving", "addresses"}
Private == "private"
NoRoute == 1000000

\* A menu that cannot be read counts as an empty one (_safe_read).
SafeRead(device, unread) ==
    [m \in Menus |-> IF m \notin unread THEN device[m]
                     ELSE IF m \in {"members", "addresses"} THEN << >> ELSE {}]

\* An interface with an active default route or an enabled DHCP client.  A
\* gateway that is a bare address is looked up among the addresses.
Usable(d) == {r \in d.routes : r.active /\ (r.bare => r.iface \in DOMAIN d.addresses)}
Gateways(d) == {r.iface : r \in Usable(d)} \cup d.clients

\* Bridged, and something on the bridge hands out addresses.
LooksLikeLan(d, i) ==
    \/ i \in d.bridges /\ i \in d.serving
    \/ i \in DOMAIN d.members /\ {i, d.members[i]} \cap d.serving # {}

Candidates(d) == {i \in Gateways(d) : ~LooksLikeLan(d, i)}

\* The distance the device itself prefers it at.
Preference(d, i) ==
    LET at == {r.distance : r \in {q \in Usable(d) : q.iface = i}} IN
    IF at = {} THEN NoRoute ELSE CHOOSE x \in at : \A y \in at : x <= y

Preferred(d, i, j) ==
    \/ Preference(d, i) < Preference(d, j)
    \/ Preference(d, i) = Preference(d, j) /\ i < j

\* wan1, wan2, ... and its cost: the place among the candidates alone.
Place(d, i) == 1 + Cardinality({j \in Candidates(d) : Preferred(d, j, i)})

\* A private address means NAT, and no address to dial.
Behind(d, i) == i \in DOMAIN d.addresses /\ d.addresses[i] = Private
SuggestWans(d, none) ==
    [n \in {Place(d, i) : i \in Candidates(d)} |->
        LET i == CHOOSE j \in Candidates(d) : Place(d, j) = n IN
        [ip |-> IF i \notin DOMAIN d.addresses \/ Behind(d, i) THEN none ELSE d.addresses[i],
         nat |-> Behind(d, i), up |-> TRUE]]
=============================================================================
