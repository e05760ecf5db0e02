---------------------------- MODULE MCCdcGuard ----------------------------
(* Instances of CdcGuard for TLC.                                          *)
EXTENDS CdcGuard, TLC

CONSTANTS s1, p1, p2, d1

OnePg  == [c \in {p1} |-> d1]
TwoPg  == [c \in {p1, p2} |-> d1]
Slot1  == [d \in {d1} |-> p1]
NoHolder == [d \in {} |-> None]
NoPg   == [c \in {} |-> None]
=============================================================================
