---------------------------- MODULE ArchiveMove ----------------------------
(***************************************************************************)
(* The scripts that archive the expired partitions of a PostgreSQL table   *)
(* (postgres/script/archive2gp.sh, archive2file.sh with setvars.sh): each  *)
(* partition is copied to Greenplum, or dumped to a file named after the   *)
(* day and the partition, and then dropped, by separate commands on        *)
(* separate servers.  Both scripts may work on one table, while rows still *)
(* arrive for old partitions.                                              *)
(*                                                                         *)
(* Partitions are numbered in the order of their ranges.  All runs are on  *)
(* one day: the dumps of different days do not meet.                       *)
(***************************************************************************)
EXTENDS Naturals, FiniteSets

CONSTANTS Row,
          PartOf,    \* the partition a row belongs to
          NumParts,  \* bound: partitions ever created
          Created,   \* partitions at first
          MaxEvents  \* bound: failures

Part   == 1 .. NumParts
Script == {"file", "gp"}

ASSUME ArchiveMoveAssumption ==
  /\ NumParts \in Nat /\ Created \in Part
  /\ PartOf \in [Row -> Part]
  /\ MaxEvents \in Nat

VARIABLES
  \* the source database and its applications
  parts,    \* partitions
  expired,  \* those that ended two months ago
  arrived,  \* rows inserted so far
  src,      \* rows in the partitions
  events,
  \* the destinations
  gp,       \* copies of a row in Greenplum
  dump,     \* the rows in the dump of a partition
  \* the scripts
  pc, todo,
  cur,      \* the partition in hand, 0 for none
  snap,     \* the rows of it that the COPY or the dump sees
  \* history
  exits     \* runs of archive2gp.sh that ended half-way

base == <<parts, expired, arrived, src>>
run  == <<pc, todo, cur, snap>>
vars == <<base, events, gp, dump, run, exits>>

RowsOf(p) == {r \in Row : PartOf[r] = p}

TypeOK ==
  /\ parts \subseteq Part /\ expired \subseteq Part
  /\ arrived \subseteq Row /\ src \subseteq arrived
  /\ \A r \in src : PartOf[r] \in parts
  /\ events \in 0 .. MaxEvents
  /\ gp \in [Row -> Nat] /\ dump \in [Part -> SUBSET Row]
  /\ \A p \in Part : dump[p] \subseteq RowsOf(p)
  /\ pc \in [Script -> {"idle", "next", "copying", "drop"}]
  /\ todo \in [Script -> SUBSET Part]
  /\ cur \in [Script -> Part \cup {0}]
  /\ snap \in [Script -> SUBSET Row]
  /\ \A k \in Script :
       IF pc[k] \in {"copying", "drop"}
       THEN cur[k] \in Part \ todo[k] /\ snap[k] \subseteq arrived \cap RowsOf(cur[k])
       ELSE cur[k] = 0 /\ snap[k] = {}
  /\ exits \in Nat

Init ==
  /\ parts = 1 .. Created /\ expired = {} /\ events = 0
  /\ \E R \in SUBSET {r \in Row : PartOf[r] \in 1 .. Created} : arrived = R /\ src = R
  /\ gp = [r \in Row |-> 0] /\ dump = [p \in Part |-> {}]
  /\ pc = [k \in Script |-> "idle"] /\ todo = [k \in Script |-> {}]
  /\ cur = [k \in Script |-> 0] /\ snap = [k \in Script |-> {}]
  /\ exits = 0

-----------------------------------------------------------------------------
(***************************************************************************)
(* The applications and the calendar.                                      *)
(***************************************************************************)
Insert(r) ==
  /\ r \notin arrived /\ PartOf[r] \in parts
  /\ arrived' = arrived \cup {r} /\ src' = src \cup {r}
  /\ UNCHANGED <<parts, expired, events, gp, dump, run, exits>>

Expire(p) ==
  /\ p \in parts \ expired /\ \A q \in parts : q < p => q \in expired
  /\ expired' = expired \cup {p}
  /\ UNCHANGED <<parts, arrived, src, events, gp, dump, run, exits>>

-----------------------------------------------------------------------------
(***************************************************************************)
(* The scripts.                                                            *)
(***************************************************************************)
Disturb == events < MaxEvents /\ events' = events + 1

\* set -e: the script ends at the first command that fails.
Exit(k) ==
  /\ pc' = [pc EXCEPT ![k] = "idle"] /\ todo' = [todo EXCEPT ![k] = {}]
  /\ cur' = [cur EXCEPT ![k] = 0] /\ snap' = [snap EXCEPT ![k] = {}]
  /\ exits' = IF k = "gp" THEN exits + 1 ELSE exits

\* Mutant: the last one of the expired partitions is not listed.
StartButLast(k) ==
  /\ pc[k] = "idle"
  /\ pc' = [pc EXCEPT ![k] = "next"]
  /\ todo' = [todo EXCEPT ![k] = {p \in parts \cap expired : \E q \in parts \cap expired : p < q}]
  /\ UNCHANGED <<base, events, gp, dump, cur, snap, exits>>

\* pg_get_expired_partitions
Start(k) ==
  /\ pc[k] = "idle"
  /\ pc' = [pc EXCEPT ![k] = "next"]
  /\ todo' = [todo EXCEPT ![k] = parts \cap expired]
  /\ UNCHANGED <<base, events, gp, dump, cur, snap, exits>>

\* The COPY or the dump begins, and fixes what it sees of the partition.  The
\* shell has emptied the file by then, and fails if the partition is gone.
Take(k, p) ==
  /\ pc[k] = "next" /\ p \in todo[k]
  /\ dump' = IF k = "file" THEN [dump EXCEPT ![p] = {}] ELSE dump
  /\ IF p \in parts
     THEN /\ pc' = [pc EXCEPT ![k] = "copying"]
          /\ todo' = [todo EXCEPT ![k] = @ \ {p}] /\ cur' = [cur EXCEPT ![k] = p]
          /\ snap' = [snap EXCEPT ![k] = src \cap RowsOf(p)]
          /\ UNCHANGED exits
     ELSE Exit(k)
  /\ UNCHANGED <<base, events, gp>>

\* R arrives at the destination.
Store(k, R) ==
  IF k = "gp" THEN gp' = [r \in Row |-> IF r \in R THEN gp[r] + 1 ELSE gp[r]] /\ UNCHANGED dump
  ELSE dump' = [dump EXCEPT ![cur[k]] = R] /\ UNCHANGED gp

CopyDone(k) ==
  /\ pc[k] = "copying"
  /\ Store(k, snap[k])
  /\ pc' = [pc EXCEPT ![k] = "drop"]
  /\ UNCHANGED <<base, events, todo, cur, snap, exits>>

\* Mutant: without pipefail only the last command of the pipe counts.
CopyFailsSilently(k) ==
  /\ pc[k] = "copying" /\ Disturb
  /\ \E R \in SUBSET snap[k] : Store(k, R)
  /\ pc' = [pc EXCEPT ![k] = "drop"]
  /\ UNCHANGED <<base, todo, cur, snap, exits>>

\* Mutant: a copy that fails is tried again at once.
CopyFailsRetried(k) ==
  /\ pc[k] = "copying" /\ Disturb
  /\ \E R \in SUBSET snap[k] : Store(k, R)
  /\ UNCHANGED <<base, run, exits>>

\* When the sending side fails, the receiving one takes the end of its input for
\* the end of the data and commits what it has; pipefail ends the script.  A dump
\* that fails cannot be restored.
CopyFails(k) ==
  /\ pc[k] = "copying" /\ Disturb
  /\ \E R \in SUBSET snap[k] : Store(k, IF k = "gp" THEN R ELSE {})
  /\ Exit(k)
  /\ UNCHANGED base

\* Mutant: the run goes on from the partition it has dropped.
DropKeepsCur(k) ==
  /\ pc[k] = "drop"
  /\ parts' = parts \ {cur[k]} /\ src' = src \ RowsOf(cur[k])
  /\ pc' = [pc EXCEPT ![k] = "next"]
  /\ UNCHANGED <<expired, arrived, events, gp, dump, todo, cur, snap, exits>>

\* DROP TABLE IF EXISTS waits for those who read the partition.
Drop(k) ==
  /\ pc[k] = "drop" /\ \A j \in Script : ~(pc[j] = "copying" /\ cur[j] = cur[k])
  /\ parts' = parts \ {cur[k]} /\ src' = src \ RowsOf(cur[k])
  /\ pc' = [pc EXCEPT ![k] = "next"]
  /\ cur' = [cur EXCEPT ![k] = 0] /\ snap' = [snap EXCEPT ![k] = {}]
  /\ UNCHANGED <<expired, arrived, events, gp, dump, todo, exits>>

\* A command fails or the script is killed, the destination being as it is.
Crash(k) ==
  /\ pc[k] # "idle" /\ Disturb
  /\ Exit(k)
  /\ UNCHANGED <<base, gp, dump>>

\* archive2file.sh creates the partition that follows the last one, one in each
\* run; without a partition pg_get_new_partitions is empty.
End(k) ==
  /\ pc[k] = "next" /\ todo[k] = {}
  /\ pc' = [pc EXCEPT ![k] = "idle"]
  /\ parts' = IF k = "file" THEN parts \cup {p \in Part : p - 1 \in parts /\ \A q \in parts : q < p}
              ELSE parts
  /\ UNCHANGED <<expired, arrived, src, events, gp, dump, todo, cur, snap, exits>>

Step(k) == Start(k) \/ (\E p \in Part : Take(k, p)) \/ CopyDone(k) \/ Drop(k) \/ End(k)

Next ==
  \/ \E r \in Row : Insert(r)
  \/ \E p \in Part : Expire(p)
  \/ \E k \in Script : Step(k) \/ CopyFails(k) \/ Crash(k)

Spec == Init /\ [][Next]_vars

\* Cron starts the scripts again and again, and a command ends.
FairSpec == Spec /\ \A k \in Script : WF_vars(Step(k))

-----------------------------------------------------------------------------
(***************************************************************************)
(* Properties.                                                             *)
(***************************************************************************)

\* Row r came too late for what script k has copied of its partition and is
\* about to drop.
TooLate(k, r) == cur[k] = PartOf[r] /\ r \notin snap[k]

\* The one copy of r is a dump that the run in progress is about to overwrite.
Overwritten(r) == gp[r] = 0 /\ r \in dump[PartOf[r]] /\ PartOf[r] \in todo["file"]

Fate(r) ==
  CASE r \notin arrived -> "absent"
    [] r \in src -> IF \E k \in Script : TooLate(k, r) THEN "exposed" ELSE "live"
    [] r \in arrived \ src ->
         IF Overwritten(r) THEN "exposed"
         ELSE IF gp[r] > 0 \/ r \in dump[PartOf[r]] THEN "archived" ELSE "lost"

\* The scripts implement the abstract move of rows (RowLifecycle): through
\* crashes, failing copies, reruns and the other script, the only rows that can
\* get lost are those that arrive between the copy and the drop, and what is
\* archived stays so.
Lifecycle == INSTANCE RowLifecycle WITH fate <- [r \in Row |-> Fate(r)]
Archived  == Lifecycle!Spec

\* A row is in Greenplum twice only as often as a run ended half-way.
CopiesBounded == \A r \in Row : gp[r] <= 1 + exits

\* An expired partition is archived in the end, although the two scripts take
\* partitions from under each other's hands.
Drained == \A p \in Part : p \in expired ~> p \notin parts
=============================================================================
