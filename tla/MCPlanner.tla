----------------------------- MODULE MCPlanner -----------------------------
EXTENDS Planner

TwoLinks == <<"l1", "l2">>
OneLink  == <<"l1">>

Ask(transport, links, params) ==
    [transport |-> transport, links |-> links, params |-> params, site |-> "hq"]

\* A fabric that gains a link and other parameters, moves to another
\* transport, and ends.
Routed == {Ask("ipsec_gre", {"l1"}, 0), Ask("ipsec_gre", {"l1", "l2"}, 1),
           Ask("wireguard", {"l1"}, 0), Ask("gre", {}, 0)}
\* Layer 2 fabrics.
Stretched == {Ask(t, {"l1"}, 0) : t \in {"eoip", "vxlan"}}
=============================================================================
