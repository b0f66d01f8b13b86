--------------------------- MODULE MCPluginConfig ---------------------------
(* PluginConfig on a small instance. *)
EXTENDS PluginConfig, TLC

CONSTANTS g1, raw, secret

\* `g1` stands for any list that is not nil; `raw` means g1, with ids that are
\* padded.
MCCanon == [g \in GateValues \cup {BadGate} |-> IF g = raw THEN g1 ELSE g]

\* A host with nothing but the secrets, and one with settings, too, from before
\* the plugin kept its own.
Host(g, s) == [gate |-> g, discord |-> Default.discord, secret |-> s]
MCHostConfigs == {Host(Unset, secret), Host(g1, secret)}

OpSymmetry ==
    Permutations(Configurers) \cup Permutations(Patchers) \cup Permutations(Pools)
=============================================================================
