-------------------------- MODULE MCProxyWebhook --------------------------
(* Instances of ProxyWebhook for TLC.                                      *)
EXTENDS ProxyWebhook, TLC

CONSTANTS k1, k2, yellow, red, r1, r2

Symmetry == Permutations(Severity) \cup Permutations(Request)
=============================================================================
