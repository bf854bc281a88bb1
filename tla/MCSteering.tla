----------------------------- MODULE MCSteering -----------------------------
(***************************************************************************)
(* Two uplinks and two policies over them, in opposite orders, with        *)
(* standards of their own or the same, sharing or not.  A third policy may *)
(* come to share a mark with one of them, a fourth a bucket's table.       *)
(***************************************************************************)
EXTENDS Steering, TLC

Names4 == <<"Voice", "bulk", "voice", "voice-0">>
Marks == "Voice" :> "voice" @@ "bulk" :> "bulk" @@ "voice" :> "voice" @@ "voice-0" :> "voice-0"
Suffixed == "voice" :> <<"voice-0", "voice-1">> @@ "bulk" :> <<"bulk-0", "bulk-1">>
         @@ "voice-0" :> <<"voice-0-0", "voice-0-1">>
Names == <<{"fibre", "wan1"}, {"fibre", "lte", "wan2"}>>
OwnNames == <<"wan1", "wan2">>
Costs == <<2, 1>>
Links == <<{{}, {"h1"}}, {{"h2"}}>>

Strict == [loss |-> 7, latency |-> 100, interval |-> 10, count |-> 10, recovery |-> 60]
Prompt == [Strict EXCEPT !.latency = 300, !.recovery = 0]
Good == [rtt |-> 20, lost |-> 0]
Slow == [rtt |-> 200, lost |-> 0]
Levels == {Good, Slow}

Uses(u, w) == [uplink |-> u, weight |-> w]
Watched == [members |-> <<Uses("wan1", 1), Uses("lte", 1)>>, strategy |-> "failover", sla |-> "s1"]
Reversed == [Watched EXCEPT !.members = <<Uses("lte", 1), Uses("wan1", 1)>>]
Tagged == [Watched EXCEPT !.members = <<Uses("fibre", 1)>>]
Spread == [members |-> <<Uses("wan1", 100), Uses("wan2", 1)>>, strategy |-> "load_balance", sla |-> None]
GroupRows == "g1" :> {Watched, Spread} @@ "g2" :> {Reversed, [Reversed EXCEPT !.sla = None]} @@ "g3" :> {Tagged}
ProfileRows == "s1" :> {Strict, Prompt} @@ "s2" :> {Strict}

Voice == [priority |-> 1, enabled |-> TRUE, group |-> "g1", sni |-> FALSE, fallback |-> "any"]
Bulk == [Voice EXCEPT !.priority = 2, !.group = "g2", !.fallback = "drop"]
PolicyRows == "voice" :> {Voice, [Voice EXCEPT !.sni = TRUE]}
           @@ "Voice" :> {[Bulk EXCEPT !.group = "g1"]} @@ "voice-0" :> {Bulk}
           @@ "bulk" :> {Bulk, [Bulk EXCEPT !.group = "g3"], [Bulk EXCEPT !.group = None]}

Others == "Voice" :> None @@ "voice-0" :> None
\* The two share a group's standard; the first is balanced; or matches SNI and is alone.
Shared == [policies |-> "voice" :> Voice @@ "bulk" :> Bulk @@ Others,
           groups |-> "g1" :> Watched @@ "g2" :> Reversed @@ "g3" :> Tagged,
           profiles |-> "s1" :> Strict @@ "s2" :> None, hops |-> <<{"h1"}, {"h2"}>>]
Balancing == [Shared EXCEPT !.policies["bulk"] = None,
                            !.groups["g1"] = [Spread EXCEPT !.members = <<Uses("wan1", 2), Uses("wan2", 1)>>]]
Alone == [policies |-> "voice" :> [Voice EXCEPT !.sni = TRUE] @@ "bulk" :> None @@ Others,
          groups |-> "g1" :> Watched @@ "g2" :> [Reversed EXCEPT !.sla = None] @@ "g3" :> None,
          profiles |-> "s1" :> Prompt @@ "s2" :> Strict, hops |-> <<{"h1"}, {"h2"}>>]
Begin == {Shared, Balancing, Alone}
=============================================================================
