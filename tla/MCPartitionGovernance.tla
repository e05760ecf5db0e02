----------------------- MODULE MCPartitionGovernance -----------------------
(* Instances of PartitionGovernance for TLC: a daily table, bounded by the    *)
(* number of partitions, and one whose ranges are two days, bounded by the    *)
(* year.                                                                      *)
EXTENDS PartitionGovernance, TLC

OneDay     == <<1>>
BothWidths == <<1, 2>>

\* The partitions each table begins with, for the runs on one and on two tables.
Daily     == <<{0, 1, 2, 3}>>
Beginning == <<{0, 1}, {0}>>

\* Archive what ended a day ago, or what ended before today.
Old1 == <<1>>
Old0 == <<0, 0>>
=============================================================================
