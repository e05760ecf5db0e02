------------------------ MODULE PartitionGovernance ------------------------
(***************************************************************************)
(* The nightly job on the range partitions of Greenplum tables             *)
(* (gpdb/cron/archive_partition.py): partition_migrate moves old partitions*)
(* to the cold tablespace, one commit each; partition_governance trims and *)
(* precreates future partitions and drops the leading empty ones, one      *)
(* transaction per table, while applications go on inserting.              *)
(*                                                                         *)
(* A partition is known by the start of its range; all ranges of table t   *)
(* are Width[t] long.  A table has a default partition for the rows of no  *)
(* range.  What matters of the rows of a range is whether there are any.   *)
(***************************************************************************)
EXTENDS Integers, FiniteSets, FiniteSetsExt

CONSTANTS NumTables,  \* whitelisted tables, in the order they are fetched
          Width,      \* length of the ranges of a table
          Limit,      \* 20 partitions
          Year,       \* 365 days
          Threshold,  \* age at which the partitions of a table are archived
          Created,    \* the partitions of a table at first
          MaxNow,     \* bound: the clock
          MaxRows,    \* bound: inserts into a range that has no rows
          MaxEvents   \* bound: purges and failures

Table == 1 .. NumTables

ASSUME PartitionGovernanceAssumption ==
  /\ NumTables \in Nat \ {0}
  /\ Width \in [Table -> Nat \ {0}]
  /\ Limit \in Nat \ {0} /\ Year \in Nat \ {0}
  /\ Threshold \in [Table -> Nat]
  /\ Created \in [Table -> SUBSET Nat] /\ \A t \in Table : IsFiniteSet(Created[t])
  /\ MaxNow \in Nat /\ MaxRows \in Nat /\ MaxEvents \in Nat

VARIABLES
  \* the database (external)
  now,
  parts,    \* committed partitions of a table
  rows,     \* those of them that have rows
  default,  \* ranges with rows in the default partition
  inserts, events,
  \* the job
  cold,     \* partitions in the cold tablespace
  pc,
  todo,     \* tables still to visit
  cur,      \* the table being visited, 0 for none
  list,     \* the partitions still to visit, of the list fetched last
  work,     \* partitions as the open transaction sees them
  latest,   \* the start of latest_subpartition
  \* history of the open transaction
  ticked,   \* the clock has moved since the list was fetched
  raced     \* partitions filled after they were found empty, or purged

db   == <<parts, rows, default>>
hist == <<ticked, raced>>
job  == <<pc, todo, cur, list, work, latest>>
vars == <<now, db, inserts, events, cold, job, hist>>

Stages == {"idle", "migrate", "archive", "govern", "tail", "dropTail", "create",
           "head", "dropHead", "commit"}

TypeOK ==
  /\ now \in 0 .. MaxNow
  /\ parts \in [Table -> SUBSET Nat]
  /\ rows \in [Table -> SUBSET Nat] /\ \A t \in Table : rows[t] \subseteq parts[t]
  /\ default \in [Table -> SUBSET Nat]
  /\ inserts \in 0 .. MaxRows /\ events \in 0 .. MaxEvents
  /\ cold \in [Table -> SUBSET Nat] /\ \A t \in Table : cold[t] \subseteq parts[t]
  /\ pc \in Stages
  /\ todo \subseteq Table
  /\ cur \in Table \cup {0} /\ (cur = 0 <=> pc \in {"idle", "migrate", "govern"})
  /\ cur = 0 => list = {} /\ work = {}
  /\ list \subseteq Nat /\ work \subseteq Nat
  /\ latest \in Nat
  /\ ticked \in BOOLEAN
  /\ raced \subseteq Nat

Init ==
  /\ now = 0
  /\ parts = Created
  /\ \E filled \in [Table -> SUBSET UNION {Created[t] : t \in Table}] :
       /\ \A t \in Table : filled[t] \subseteq Created[t]
       /\ rows = filled
  /\ default = [t \in Table |-> {}]
  /\ inserts = 0 /\ events = 0
  /\ cold = [t \in Table |-> {}]
  /\ pc = "idle" /\ todo = {} /\ cur = 0 /\ list = {} /\ work = {} /\ latest = 0
  /\ ticked = FALSE /\ raced = {}

-----------------------------------------------------------------------------
(***************************************************************************)
(* The database and its applications.                                      *)
(***************************************************************************)
Tick ==
  /\ now < MaxNow
  /\ now' = now + 1
  /\ ticked' = (ticked \/ cur # 0)
  /\ UNCHANGED <<db, inserts, events, cold, job, raced>>

\* A transaction that has altered a table keeps all others from it.
Locked(t) == cur = t /\ pc \notin {"migrate", "archive"} /\ work # parts[t]

\* A row arrives for the range that starts at p.
Insert(t, p) ==
  /\ inserts < MaxRows /\ ~Locked(t)
  /\ p \notin rows[t] \cup default[t]
  /\ inserts' = inserts + 1
  /\ IF p \in parts[t]
     THEN rows' = [rows EXCEPT ![t] = @ \cup {p}] /\ UNCHANGED default
     ELSE default' = [default EXCEPT ![t] = @ \cup {p}] /\ UNCHANGED rows
  /\ raced' = IF t = cur /\ pc \in {"dropTail", "dropHead"} THEN raced \cup {p} ELSE raced
  /\ UNCHANGED <<now, parts, events, cold, job, ticked>>

\* The rows of a range are deleted.
Purge(t, p) ==
  /\ events < MaxEvents /\ ~Locked(t)
  /\ p \in rows[t]
  /\ events' = events + 1
  /\ rows' = [rows EXCEPT ![t] = @ \ {p}]
  /\ raced' = IF t = cur THEN raced \cup {p} ELSE raced
  /\ UNCHANGED <<now, parts, default, inserts, cold, job, ticked>>

-----------------------------------------------------------------------------
(***************************************************************************)
(* partition_migrate.                                                      *)
(***************************************************************************)
\* Mutant: what belongs to a table outlives its iteration.
ReleaseNothing == cur' = 0 /\ UNCHANGED <<list, work, latest>> /\ ticked' = FALSE /\ raced' = {}

\* What the job holds between two tables.
Release == cur' = 0 /\ list' = {} /\ work' = {} /\ latest' = 0 /\ ticked' = FALSE /\ raced' = {}

StartJob ==
  /\ pc = "idle"
  /\ pc' = "migrate" /\ todo' = Table
  /\ UNCHANGED <<now, db, inserts, events, cold, cur, list, work, latest, hist>>

MigrateTable ==
  /\ pc = "migrate" /\ todo # {}
  /\ pc' = "archive"
  /\ cur' = Min(todo) /\ todo' = todo \ {Min(todo)}
  /\ list' = parts[Min(todo)]
  /\ UNCHANGED <<now, db, inserts, events, cold, work, latest, hist>>

\* check_subpartition_canarchive
CanArchive(t, p) == p + Width[t] < now - Threshold[t]

\* Mutant: partitions are visited in any order.
ArchiveAny ==
  /\ pc = "archive"
  /\ \E p \in list :
       /\ CanArchive(cur, p)
       /\ cold' = [cold EXCEPT ![cur] = @ \cup {p}]
       /\ list' = list \ {p}
  /\ UNCHANGED <<now, db, inserts, events, pc, todo, cur, work, latest, hist>>

\* migrate_subpartition_tablespace and its commit, oldest partition first.
Archive ==
  /\ pc = "archive" /\ list # {}
  /\ CanArchive(cur, Min(list))
  /\ cold' = [cold EXCEPT ![cur] = @ \cup {Min(list)}]
  /\ list' = list \ {Min(list)}
  /\ UNCHANGED <<now, db, inserts, events, pc, todo, cur, work, latest, hist>>

MigrateNext ==
  /\ pc = "archive"
  /\ list # {} => ~CanArchive(cur, Min(list))
  /\ pc' = "migrate" /\ Release
  /\ UNCHANGED <<now, db, inserts, events, cold, todo>>

\* partition_migrate catches what goes wrong in it.
MigrateEnd ==
  /\ \/ pc = "migrate" /\ todo = {} /\ UNCHANGED events
     \/ pc \in {"migrate", "archive"} /\ events < MaxEvents /\ events' = events + 1
  /\ pc' = "govern" /\ todo' = Table
  /\ Release
  /\ UNCHANGED <<now, db, inserts, cold>>

-----------------------------------------------------------------------------
(***************************************************************************)
(* partition_governance.                                                   *)
(***************************************************************************)

\* Mutant: the loop over the tables ends with the first one.
GovernFirst ==
  /\ pc = "govern" /\ todo # {}
  /\ pc' = "tail"
  /\ cur' = Min(todo) /\ todo' = {}
  /\ list' = parts[Min(todo)] /\ work' = parts[Min(todo)]
  /\ latest' = IF parts[Min(todo)] = {} THEN 0 ELSE Max(parts[Min(todo)])
  /\ UNCHANGED <<now, db, inserts, events, cold, hist>>

\* The list is fetched, and latest_subpartition will be its first element,
\* whatever is dropped before it is used.
GovernTable ==
  /\ pc = "govern" /\ todo # {}
  /\ pc' = "tail"
  /\ cur' = Min(todo) /\ todo' = todo \ {Min(todo)}
  /\ list' = parts[Min(todo)] /\ work' = parts[Min(todo)]
  /\ latest' = IF parts[Min(todo)] = {} THEN 0 ELSE Max(parts[Min(todo)])
  /\ UNCHANGED <<now, db, inserts, events, cold, hist>>

Ahead(t, p) == p + Width[t] - now

\* check_subpartition_needclean
NeedClean(t, p) == Ahead(t, p) > Limit * Width[t] \/ Ahead(t, p) > Year

\* Mutant: a partition that ends at the limit is followed by another one.
NeedPrecreateClosed(t, p) == Ahead(t, p) <= Limit * Width[t] /\ Ahead(t, p) <= Year

\* check_subpartition_needprecreate
NeedPrecreate(t, p) == Ahead(t, p) < Limit * Width[t] /\ Ahead(t, p) < Year

\* check_subpartition_isempty; a new partition holds what the default partition
\* held of its range.
Empty(t, p) == p \notin rows[t] /\ (p \in parts[t] \/ p \notin default[t])

\* Mutant: future partitions are dropped without a look at their rows.
FindTailUnchecked ==
  /\ pc = "tail" /\ list # {}
  /\ NeedClean(cur, Max(list))
  /\ pc' = "dropTail"
  /\ UNCHANGED <<now, db, inserts, events, cold, todo, cur, list, work, latest, hist>>

\* The newest partition of the list is too far ahead, and empty when it is
\* looked at.
FindTail ==
  /\ pc = "tail" /\ list # {}
  /\ NeedClean(cur, Max(list)) /\ Empty(cur, Max(list))
  /\ pc' = "dropTail"
  /\ UNCHANGED <<now, db, inserts, events, cold, todo, cur, list, work, latest, hist>>

\* Mutant: the rank is that of the first partition.
DropTailFirst ==
  /\ pc = "dropTail"
  /\ pc' = "tail"
  /\ work' = work \ {Min(work)} /\ list' = list \ {Min(list)}
  /\ UNCHANGED <<now, db, inserts, events, cold, todo, cur, latest, hist>>

\* drop_subpartition by a rank that counts down with the list: the last one.
DropTail ==
  /\ pc = "dropTail"
  /\ pc' = "tail"
  /\ work' = work \ {Max(work)} /\ list' = list \ {Max(list)}
  /\ UNCHANGED <<now, db, inserts, events, cold, todo, cur, latest, hist>>

TailDone ==
  /\ pc = "tail" /\ parts[cur] # {}
  /\ list # {} => ~NeedClean(cur, Max(list)) \/ ~Empty(cur, Max(list))
  /\ pc' = "create"
  /\ UNCHANGED <<now, db, inserts, events, cold, todo, cur, list, work, latest, hist>>

\* precreate_subpartition: the default partition is split behind the latest one.
Precreate ==
  /\ pc = "create"
  /\ NeedPrecreate(cur, latest)
  /\ latest' = latest + Width[cur]
  /\ work' = work \cup {latest + Width[cur]}
  /\ UNCHANGED <<now, db, inserts, events, cold, pc, todo, cur, list, hist>>

CreateDone ==
  /\ pc = "create"
  /\ ~NeedPrecreate(cur, latest)
  /\ pc' = "head" /\ list' = work
  /\ UNCHANGED <<now, db, inserts, events, cold, todo, cur, work, latest, hist>>

\* The oldest partition of the list is empty when it is looked at.
FindHead ==
  /\ pc = "head" /\ list # {}
  /\ Empty(cur, Min(list))
  /\ pc' = "dropHead"
  /\ UNCHANGED <<now, db, inserts, events, cold, todo, cur, list, work, latest, hist>>

\* Mutant: the rank is not that of the oldest partition.
DropHeadAny ==
  /\ pc = "dropHead"
  /\ pc' = "head"
  /\ \E p \in list : Empty(cur, p) /\ work' = work \ {p} /\ list' = list \ {p}
  /\ UNCHANGED <<now, db, inserts, events, cold, todo, cur, latest, hist>>

\* drop_subpartition of rank 1.
DropHead ==
  /\ pc = "dropHead"
  /\ pc' = "head"
  /\ work' = work \ {Min(work)} /\ list' = list \ {Min(list)}
  /\ UNCHANGED <<now, db, inserts, events, cold, todo, cur, latest, hist>>

HeadDone ==
  /\ pc = "head"
  /\ list # {} => ~Empty(cur, Min(list))
  /\ pc' = "commit"
  /\ UNCHANGED <<now, db, inserts, events, cold, todo, cur, list, work, latest, hist>>

\* commit_tx, once for all changes of the table.
Commit ==
  /\ pc = "commit"
  /\ pc' = "govern"
  /\ parts' = [parts EXCEPT ![cur] = work]
  /\ rows' = [rows EXCEPT ![cur] = (@ \cap work) \cup (default[cur] \cap (work \ parts[cur]))]
  /\ default' = [default EXCEPT ![cur] = @ \ (work \ parts[cur])]
  /\ cold' = [cold EXCEPT ![cur] = @ \cap work]
  /\ Release
  /\ UNCHANGED <<now, inserts, events, todo>>

EndJob ==
  /\ pc = "govern" /\ todo = {}
  /\ pc' = "idle"
  /\ UNCHANGED <<now, db, inserts, events, cold, todo, cur, list, work, latest, hist>>

\* subpartitions[0] of an empty list: the exception ends the job, and the
\* tables that were to follow are not visited.
NoPartition ==
  /\ pc = "tail" /\ parts[cur] = {}
  /\ pc' = "idle" /\ todo' = {} /\ Release
  /\ UNCHANGED <<now, db, inserts, events, cold>>

\* A statement fails or the job dies: the open transaction is rolled back.
Fail ==
  /\ pc # "idle" /\ events < MaxEvents
  /\ events' = events + 1
  /\ pc' = "idle" /\ todo' = {} /\ Release
  /\ UNCHANGED <<now, db, inserts, cold>>

Job ==
  \/ StartJob \/ MigrateTable \/ Archive \/ MigrateNext \/ MigrateEnd
  \/ GovernTable \/ FindTail \/ DropTail \/ TailDone \/ Precreate \/ CreateDone
  \/ FindHead \/ DropHead \/ HeadDone \/ Commit \/ EndJob \/ NoPartition

\* The starts of the ranges rows may fall into.
Slot(t) == {p \in 0 .. MaxNow + Year + Width[t] : p % Width[t] = 0}

Next ==
  \/ Tick
  \/ \E t \in Table : \E p \in Slot(t) : Insert(t, p) \/ Purge(t, p)
  \/ Job \/ Fail

Spec == Init /\ [][Next]_vars

\* The scheduler starts the job again and again, and it goes on.
FairSpec == Spec /\ WF_vars(Job)

-----------------------------------------------------------------------------
(***************************************************************************)
(* Properties.                                                             *)
(***************************************************************************)
Contiguous(t, P) == \A p \in P : p = Min(P) \/ p - Width[t] \in P

\* A transaction on a table is open.
Governing == pc \notin {"idle", "migrate", "archive", "govern"}

\* A drop takes rows with it only if they arrived between the look at the
\* partition and the drop, the one moment at which the job has looked and
\* holds no lock.
LossOnlyInWindow ==
  Governing =>
    (parts[cur] \ work) \cap rows[cur] \subseteq raced

\* The horizon of a table in days.
Horizon(t) == IF Limit * Width[t] < Year THEN Limit * Width[t] ELSE Year

\* When a table is done its last partition ends about one horizon ahead: less
\* than one range below it or above it, or the partition has rows (or had).  The list
\* that latest_subpartition comes from is stale by then.
HorizonKept ==
  pc = "head" /\ ~ticked /\ work # {} /\ Contiguous(cur, parts[cur]) =>
    LET last == Max(work) IN
    /\ Ahead(cur, last) > Horizon(cur) - Width[cur]
    /\ \/ Ahead(cur, last) < Horizon(cur) + Width[cur]
       \/ ~Empty(cur, last) \/ last \in raced

\* A job leaves no hole between the partitions of a table, whose rows would end
\* in the default partition, unless the clock crosses the horizon between the
\* check that drops the last partition and the one that precreates after it.
HoleOnlyIfTicked ==
  [][\A t \in Table :
       Contiguous(t, parts[t]) /\ ~(cur = t /\ ticked) => Contiguous(t, parts'[t])]_vars

\* The partitions of a table in the cold tablespace are its oldest ones, after
\* any number of jobs that fail half-way.
ColdOldest ==
  \A t \in Table : \A p \in cold[t] : \A q \in parts[t] : q < p => q \in cold[t]

\* A table whose partitions run out gets new ones, if every table of the list
\* holds rows.
Behind(t) == parts[t] # {} /\ Ahead(t, Max(parts[t])) <= Horizon(t) - Width[t]
Inhabited == \A t \in Table : rows[t] # {}
Replenished ==
  \A t \in Table : []Inhabited => (Behind(t) ~> ~Behind(t))

\* A table as its users know it: the job implements PartitionTable, whose one
\* step per table stands for all looks, drops and creations of a transaction.
Kept == INSTANCE PartitionTable WITH
          Starts <- UNION {Slot(t) : t \in Table},
          tx    <- IF Governing THEN {cur} ELSE {},
          late  <- IF Governing THEN raced ELSE {}
TablesKept == Kept!Spec

\* "Delete the precreated partitions of the past, no data will be inserted into
\* them anyway": a partition dropped from the head of the list lies in the past.
HeadIsHistory == [][DropHead => Ahead(cur, Min(work)) <= 0]_vars
=============================================================================
