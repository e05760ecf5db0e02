----------------------------- MODULE MCLineage -----------------------------
(* An instance of Lineage for TLC: a and b publish through the distributor   *)
(* hub, a to b and by merge to c, b to c; c is its own distributor and        *)
(* publishes to a, in a circle; a ships its log to c as well.                 *)
EXTENDS Lineage

CONSTANTS a, b, c, hub, ab, ac, bc, ca

Shipped      == [s \in Server |-> IF s = a THEN {c} ELSE {}]
Distributors == [s \in Server |-> IF s \in {a, b} THEN hub ELSE IF s = c THEN c ELSE None]
Publishers   == [x \in Sub |-> CASE x = bc -> b [] x = ca -> c [] OTHER -> a]
Subscribers  == [x \in Sub |-> CASE x = ab -> b [] x = ca -> a [] OTHER -> c]
=============================================================================
