--------------------------- MODULE MCArchiveMove ---------------------------
(* An instance of ArchiveMove for TLC: a row for each of the two first        *)
(* partitions.                                                               *)
EXTENDS ArchiveMove

CONSTANTS x, y

Belongs == [r \in Row |-> IF r = x THEN 1 ELSE 2]
=============================================================================
