-------------------------- MODULE MCLoginDecision --------------------------
(* LoginDecision on small instances. *)
EXTENDS LoginDecision, TLC

CONSTANTS s1, s2, c1, c2, e1, p1, p2

Item(pid, status) == [pid |-> pid, status |-> status]
\* Nothing, an active product, a legacy one without status next to a suspended one.
MCProductLists ==
    {{}, {Item(p1, "Active")}, {Item(p2, "missing"), Item(p1, "other")}}
MCTwoLists == {{}, {Item(p1, "missing"), Item(p2, "empty")}}

Config(server, oauth, creds, allowed, mapping, discord_) ==
    [server |-> server, oauth |-> oauth, creds |-> creds, allowed |-> allowed,
     mapping |-> mapping, discord |-> discord_]
MapTo(pid, r) == [product |-> pid, role |-> r]

Gated == Config(s1, TRUE, TRUE, {p1}, {MapTo(p1, "user"), MapTo(p2, "admin")}, FALSE)
GatedForOther == Config(s1, TRUE, TRUE, {p1, p2}, {MapTo(p1, "admin")}, FALSE)
Mapped == Config(s1, TRUE, TRUE, {}, {MapTo(p1, "admin"), MapTo(p2, "user")}, FALSE)
Plain == Config(s1, TRUE, FALSE, {}, {}, FALSE)
MappedDiscord == Config(s1, TRUE, TRUE, {}, {MapTo(p1, "admin")}, TRUE)
DiscordOnly == Config(s1, TRUE, TRUE, {}, {}, TRUE)
NoApi == Config(s1, TRUE, FALSE, {p1}, {}, FALSE)
Unset == Config(s1, FALSE, FALSE, {}, {}, FALSE)
\* The same gating after a move to another WHMCS.
Moved == [Gated EXCEPT !.server = s2]

MCConfigs == {Gated, GatedForOther, Mapped}
MCSomeConfigs == {MappedDiscord, Plain, DiscordOnly, NoApi, Unset}
MCTwoServers == {Gated, Moved}

RpcSymmetry == Permutations(Rpcs)
=============================================================================
