------------------------ MODULE MCTableMaintenance ------------------------
(* An instance of TableMaintenance for TLC: a Greenplum database of three     *)
(* tables, the first of them broken, and a PostgreSQL database of one.       *)
EXTENDS TableMaintenance

CONSTANTS g, p

Databases == <<g, g, g, p>>
Ratios    == <<3, 2, 3, 0>>
=============================================================================
