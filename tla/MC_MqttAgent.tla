---------------------------- MODULE MC_MqttAgent ----------------------------
(* Two tasks that call the agent, a pool of two slots. *)
EXTENDS MqttAgent, TLC

CONSTANTS c1, c2, m1, m2, f1

MCClients  == {c1, c2}
MCMessages == {m1, m2}

Symmetric == Permutations(MCClients) \cup Permutations(MCMessages)
=============================================================================
