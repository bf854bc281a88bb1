------------------------------ MODULE Sections ------------------------------
(***************************************************************************)
(* What the controller wants on one router: the sections rendered by the   *)
(* site baseline, the transports, the fabric and the firewall              *)
(* (backend/app/render, backend/app/transports), and how render_device     *)
(* combines them (services/fabric.py, reconcile/merge.py).                 *)
(*                                                                         *)
(* A row is [name, refs, val, tag]: its identity columns in the menu, the  *)
(* rows its properties name in other menus, the properties that follow     *)
(* the fabric's parameters, and the ownership comment by its segments.     *)
(***************************************************************************)
EXTENDS Integers, SequencesExt

CONSTANT Links   \* the slugs of the site's links, in the order they are read

ASSUME LinksAssumption == Links \in Seq(ToSet(Links))

\* The transports rendered here. (Of Transport, "ipip" is plain GRE in another
\* menu, and nothing renders "ipsec_policy".)
Transports == {"ipsec_gre", "gre", "wireguard", "vxlan", "eoip"}

\* The menus, in the alphabetical order of their paths.
Menus == <<"/interface/bridge", "/interface/bridge/port", "/interface/eoip",
           "/interface/gre", "/interface/vxlan", "/interface/vxlan/vteps",
           "/interface/wireguard", "/interface/wireguard/peers", "/ip/address",
           "/ip/firewall/address-list", "/ip/firewall/filter",
           "/ip/firewall/mangle", "/ip/firewall/nat", "/ip/ipsec/identity",
           "/ip/ipsec/peer", "/ip/ipsec/policy", "/ip/ipsec/profile",
           "/ip/ipsec/proposal", "/ip/route", "/routing/bgp/connection",
           "/routing/bgp/instance", "/routing/bgp/template">>
Paths == ToSet(Menus)

\* ORDER, for the kinds of section rendered here.
ORDER == [address_list |-> 10, bgp_instance |-> 14, bgp_template |-> 16,
          interface |-> 20, crypto_profile |-> 30, crypto_proposal |-> 31,
          crypto_peer |-> 32, crypto_identity |-> 33, crypto_policy |-> 34,
          tunnel |-> 40, address |-> 50, l2_port |-> 55, routing |-> 60,
          underlay_route |-> 60, firewall |-> 70]

\* The members of a sequence that are in S, in their order. (By a set and not by
\* a predicate, as in SelectSeq: the provers cannot take one for a parameter.)
Only(s, S) ==
    LET upto[n \in 0..Len(s)] ==
          IF n = 0 THEN <<>>
          ELSE IF s[n] \in S THEN Append(upto[n - 1], s[n]) ELSE upto[n - 1]
    IN upto[Len(s)]

Row(name, refs, val, tag) == [name |-> name, refs |-> refs, val |-> val, tag |-> tag]

section(path, kind, owner, items) ==
    [path |-> path, order |-> ORDER[kind], owner |-> owner, items |-> items,
     comment_capable |-> TRUE, before |-> FALSE]

-----------------------------------------------------------------------------
(* Transports: the sections of link l. An intent i is the fabric's         *)
(* transport, the links that are enabled on this site, the fabric's        *)
(* parameters and the name of the site.                                    *)

LinkTag(l, part) == <<"sdwan", "fabric", "core", l, part>>

\* The one-row section that a transport writes for a link.
One(l, part, path, kind, name, refs, val) ==
    section(path, kind, LinkTag(l, part), <<Row(name, refs, val, LinkTag(l, part))>>)

Iface(i, l) ==
    CASE i.transport \in {"ipsec_gre", "gre"} -> <<"/interface/gre", <<"gre", l>>>>
      [] i.transport = "wireguard" -> <<"/interface/wireguard", <<"wg", l>>>>
      [] i.transport = "vxlan"     -> <<"/interface/vxlan", <<"vxl", l>>>>
      [] i.transport = "eoip"      -> <<"/interface/eoip", <<"eoip", l>>>>

TunnelAddress(i, l) ==
    One(l, "address", "/ip/address", "address", <<"tunnel", l>>, {Iface(i, l)}, 0)

\* The interface carries the fabric's mtu, its own name is its tag's last part.
Tunnel(i, l, part) ==
    One(l, part, Iface(i, l)[1], "tunnel", Iface(i, l)[2], {}, i.params)

IpsecGre(i, l) ==
    LET profile  == <<"/ip/ipsec/profile", <<"prof", l>>>>
        proposal == <<"/ip/ipsec/proposal", <<"prop", l>>>>
        peer     == <<"/ip/ipsec/peer", <<"peer", l>>>>
    IN <<[One(l, "profile", profile[1], "crypto_profile", profile[2], {}, i.params)
            EXCEPT !.comment_capable = FALSE],
         One(l, "proposal", proposal[1], "crypto_proposal", proposal[2], {}, i.params),
         One(l, "peer", peer[1], "crypto_peer", peer[2], {profile}, 0),
         One(l, "identity", "/ip/ipsec/identity", "crypto_identity", peer[2], {peer}, 0),
         One(l, "policy", "/ip/ipsec/policy", "crypto_policy", <<"sa", l>>,
             {peer, proposal}, 0),
         Tunnel(i, l, "gre"), TunnelAddress(i, l)>>

Plain(i, l) == <<Tunnel(i, l, "gre"), TunnelAddress(i, l)>>

WireGuard(i, l) ==
    <<Tunnel(i, l, "wg"),
      One(l, "wg-peer", "/interface/wireguard/peers", "tunnel", <<"key", l>>,
          {Iface(i, l)}, 0),
      TunnelAddress(i, l)>>

\* One bridge for all the links of a fabric, under one tag.
L2Bridge(i) ==
    LET tag == <<"sdwan", "fabric", "core", i.site, "l2-bridge">>
    IN section("/interface/bridge", "interface", tag, <<Row(<<"sdwan-l2">>, {}, 0, tag)>>)

L2Port(i, l) ==
    One(l, "l2-port", "/interface/bridge/port", "l2_port", <<"port", l>>,
        {Iface(i, l), <<"/interface/bridge", <<"sdwan-l2">>>>}, 0)

Vxlan(i, l) ==
    <<Tunnel(i, l, "vxlan"),
      One(l, "vxlan-peer", "/interface/vxlan/vteps", "tunnel", <<"vtep", l>>,
          {Iface(i, l)}, 0),
      L2Bridge(i), L2Port(i, l)>>

Eoip(i, l) == <<Tunnel(i, l, "eoip"), L2Bridge(i), L2Port(i, l)>>

RenderLink(i, l) ==
    CASE i.transport = "ipsec_gre" -> IpsecGre(i, l)
      [] i.transport = "gre"       -> Plain(i, l)
      [] i.transport = "wireguard" -> WireGuard(i, l)
      [] i.transport = "vxlan"     -> Vxlan(i, l)
      [] i.transport = "eoip"      -> Eoip(i, l)

-----------------------------------------------------------------------------
(* Fabric, site and firewall. Every link has the same order everywhere.    *)

InOrder(ls) == Only(Links, ls)

\* One row for each link.
PerLink(i, MkRow(_)) == [n \in 1..Len(InOrder(i.links)) |-> MkRow(InOrder(i.links)[n])]

SiteTag(i, part) == <<"sdwan", "fabric", "core", i.site>> \o part

Bgp(i) ==
    LET instance   == <<"/routing/bgp/instance", <<"bgp">>>>
        template   == <<"/routing/bgp/template", <<"bgp">>>>
        connection(l) == Row(<<"bgp", l>>, {instance, template}, 0, SiteTag(i, <<"bgp", l>>))
        network    == SiteTag(i, <<"bgp-network">>)
    IN <<section(instance[1], "bgp_instance", SiteTag(i, <<"bgp-instance">>),
                 <<Row(instance[2], {}, 0, SiteTag(i, <<"bgp-instance">>))>>),
         section(template[1], "bgp_template", SiteTag(i, <<"bgp-template">>),
                 <<Row(template[2], {}, 0, SiteTag(i, <<"bgp-template">>))>>),
         section("/routing/bgp/connection", "routing", SiteTag(i, <<"bgp">>),
                 PerLink(i, connection)),
         section("/ip/firewall/address-list", "address_list", network,
                 <<Row(<<"adv">>, {}, 0, network)>>)>>

UnderlayRoutes(i) ==
    LET pin(l) == Row(<<"pin", l>>, {}, 0, SiteTag(i, <<"underlay", l>>))
    IN section("/ip/route", "underlay_route", SiteTag(i, <<"underlay">>), PerLink(i, pin))

\* Keyed by the comment.
MssClamp(i) ==
    LET clamp(l) == Row(SiteTag(i, <<"mss", l>>), {Iface(i, l)}, 0, SiteTag(i, <<"mss", l>>))
    IN section("/ip/firewall/mangle", "firewall", SiteTag(i, <<"mss">>), PerLink(i, clamp))

RenderFabric(i) ==
    FlattenSeq(PerLink(i, LAMBDA l : RenderLink(i, l)))
        \o Bgp(i) \o <<UnderlayRoutes(i), MssClamp(i)>>

RenderSite(i) ==
    LET scope     == <<"sdwan", "site">>
        tag(part) == scope \o <<i.site, part>>
    IN <<section("/interface/bridge", "interface", scope,
                 <<Row(<<"sdwan-lo">>, {}, 0, tag("loopback"))>>),
         section("/ip/address", "address", scope,
                 <<Row(<<"loopback">>, {<<"/interface/bridge", <<"sdwan-lo">>>>}, 0,
                       tag("loopback-address"))>>),
         section("/ip/firewall/address-list", "address_list", scope,
                 <<Row(<<"local", i.site>>, {}, 0, tag("local"))>>)>>

\* Both menus are matched by comment and rendered above the operator's rows.
RenderFirewall(i) ==
    LET tag(part) == <<"sdwan", "firewall", i.site>> \o part
        bypass(l) == Row(tag(<<"nat", "bypass", l>>), {}, 0, tag(<<"nat", "bypass", l>>))
        accept(l) == Row(tag(<<"input", i.transport, l>>), {}, 0,
                         tag(<<"input", i.transport, l>>))
        masq      == tag(<<"nat", "masq">>)
        Above(s)  == [s EXCEPT !.before = TRUE]
    IN <<Above(section("/ip/firewall/nat", "firewall", tag(<<"nat">>),
                       PerLink(i, bypass) \o <<Row(masq, {}, 0, masq)>>)),
         Above(section("/ip/firewall/filter", "firewall", tag(<<"input">>),
                       PerLink(i, accept)))>>

-----------------------------------------------------------------------------
(* render_device.                                                          *)

\* Every menu a transport or the fabric can write; the firewall's are not
\* among them.
Swept == Paths \ {"/ip/firewall/nat", "/ip/firewall/filter"}

CleanupSections ==
    LET swept == Only(Menus, Swept)
    IN [n \in 1..Len(swept) |-> section(swept[n], "tunnel", <<"sdwan", "fabric">>, <<>>)]

Rendered(i) ==
    RenderSite(i) \o CleanupSections
        \o (IF i.links = {} THEN <<>> ELSE RenderFabric(i)) \o RenderFirewall(i)

\* Mutant of MergeScope: a menu keeps the scope of its first section.
MergeScopeFirst(parts) == parts[1].owner

\* common_scope: the deepest ownership prefix that all of them share.
MergeScope(parts) == LongestCommonPrefix({parts[n].owner : n \in DOMAIN parts})

\* Mutant of MergeOrder: as late as its last section asks for.
MergeOrderLatest(parts) == Max({parts[n].order : n \in DOMAIN parts})

\* A menu is applied at the earliest point any of its sections asked for.
MergeOrder(parts) == Min({parts[n].order : n \in DOMAIN parts})

\* The section of one menu: the rows of all its sections, each once. Their
\* "before" is not carried over. A menu that takes no comment stores none.
Merged(parts) ==
    LET capable == \A n \in DOMAIN parts : parts[n].comment_capable
        all     == FlattenSeq([n \in DOMAIN parts |-> parts[n].items])
        rows    == [n \in DOMAIN all |-> IF capable THEN all[n]
                                                    ELSE [all[n] EXCEPT !.tag = <<>>]]
        first   == {n \in DOMAIN rows : \A m \in 1..(n - 1) : rows[m] # rows[n]}
        kept    == Only([n \in DOMAIN rows |-> n], first)
    IN [path |-> parts[1].path, order |-> MergeOrder(parts),
        owner |-> MergeScope(parts), comment_capable |-> capable,
        items |-> [n \in DOMAIN kept |-> rows[kept[n]]]]

PathIndex(p) == CHOOSE n \in DOMAIN Menus : Menus[n] = p

\* In their order, and menus of one order by their paths: the n-th has n - 1
\* before it.
merge_sections(sections) ==
    LET rendered  == {s.path : s \in ToSet(sections)}
        OfPath(p) == Only(sections, {s \in ToSet(sections) : s.path = p})
        merged    == [p \in rendered |-> Merged(OfPath(p))]
        Earlier(p, q) == \/ merged[p].order < merged[q].order
                         \/ merged[p].order = merged[q].order /\ PathIndex(p) < PathIndex(q)
        At(n) == CHOOSE p \in rendered : Cardinality({q \in rendered : Earlier(q, p)}) = n - 1
    IN [n \in 1..Cardinality(rendered) |-> merged[At(n)]]

render_device(i) == merge_sections(Rendered(i))
=============================================================================
