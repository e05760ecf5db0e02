--------------------------- MODULE PartitionTable ---------------------------
(***************************************************************************)
(* What the nightly partition job promises about a partitioned table: its  *)
(* partitions change in one step, at the ends only, and the ones in the    *)
(* cold tablespace are moved there from the oldest on.  Only rows that     *)
(* come while that step is in preparation can be lost with a partition.    *)
(*                                                                         *)
(* How the job decides what to drop and to create, and that it takes many  *)
(* statements, is hidden; when the step comes, or whether, is left open.   *)
(***************************************************************************)
EXTENDS Naturals

CONSTANTS Table,
          Starts  \* the starts of the ranges rows fall into

VARIABLES
  parts, rows, default, cold,  \* as in PartitionGovernance
  tx,    \* the table that is being worked on, as a set
  late   \* its ranges that rows were inserted into or deleted from too late

vars == <<parts, rows, default, cold, tx, late>>

Init ==
  /\ parts \in [Table -> SUBSET Nat]
  /\ rows \in [Table -> SUBSET Nat] /\ \A t \in Table : rows[t] \subseteq parts[t]
  /\ default = [t \in Table |-> {}] /\ cold = [t \in Table |-> {}]
  /\ tx = {} /\ late = {}

\* A change to the rows of a range may be too late to be seen.
Touch(t, p) == late' \in {late} \cup (IF t \in tx THEN {late \cup {p}} ELSE {})

\* Rows of a range without a partition go to the default partition.
Insert(t, p) ==
  /\ p \notin rows[t] \cup default[t]
  /\ IF p \in parts[t]
     THEN rows' = [rows EXCEPT ![t] = @ \cup {p}] /\ UNCHANGED default
     ELSE default' = [default EXCEPT ![t] = @ \cup {p}] /\ UNCHANGED rows
  /\ Touch(t, p)
  /\ UNCHANGED <<parts, cold, tx>>

Purge(t, p) ==
  /\ p \in rows[t]
  /\ rows' = [rows EXCEPT ![t] = @ \ {p}]
  /\ Touch(t, p)
  /\ UNCHANGED <<parts, default, cold, tx>>

\* The oldest partition that is not in the cold tablespace moves there.
Archive(t) ==
  /\ tx = {}
  /\ \E p \in parts[t] \ cold[t] :
       /\ \A q \in parts[t] : q < p => q \in cold[t]
       /\ cold' = [cold EXCEPT ![t] = @ \cup {p}]
  /\ UNCHANGED <<parts, rows, default, tx, late>>

Begin(t) ==
  /\ tx = {}
  /\ tx' = {t}
  /\ UNCHANGED <<parts, rows, default, cold, late>>

\* The partitions kept are a stretch of the old ones, and the new ones start
\* after all of these.
AtTheEnds(old, kept, new) ==
  /\ \A a, b \in kept, p \in old : a < p /\ p < b => p \in kept
  /\ \A q \in old, p \in new : q < p

\* A new partition takes its rows from the default partition.
Commit(t) ==
  /\ tx = {t} /\ tx' = {} /\ late' = {}
  /\ parts'[t] \in SUBSET Nat /\ parts' = [parts EXCEPT ![t] = parts'[t]]
  /\ LET kept == parts[t] \cap parts'[t]
         new  == parts'[t] \ parts[t]
     IN  /\ AtTheEnds(parts[t], kept, new)
         /\ rows[t] \subseteq kept \cup late
         /\ rows' = [rows EXCEPT ![t] = (@ \cap kept) \cup (default[t] \cap new)]
         /\ default' = [default EXCEPT ![t] = @ \ new]
         /\ cold' = [cold EXCEPT ![t] = @ \cap kept]

Rollback ==
  /\ tx # {} /\ tx' = {} /\ late' = {}
  /\ UNCHANGED <<parts, rows, default, cold>>

Next ==
  \/ \E t \in Table : Archive(t) \/ Begin(t) \/ Commit(t)
  \/ \E t \in Table, p \in Starts : Insert(t, p) \/ Purge(t, p)
  \/ Rollback

Spec == Init /\ [][Next]_vars
=============================================================================
