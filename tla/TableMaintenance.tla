-------------------------- MODULE TableMaintenance --------------------------
(***************************************************************************)
(* Two jobs that keep tables small: the nightly vacuum of the most bloated *)
(* tables within a window (gpdb/cron/vacuum_analyse.py), and the purge of  *)
(* old rows with VACUUM and REINDEX after it                               *)
(* (postgres/script/delete_table.py).  They meet at the tables: what the   *)
(* purge deletes is bloat for the vacuum.  A statement that waits too long *)
(* for a lock of the other fails, as it may for other reasons.             *)
(*                                                                         *)
(* Tables are numbered in the order of the purge's configuration.  The     *)
(* ratio of dead tuples matters only as far as the code tells it apart     *)
(* (Dead), and rows are counted in units that Batch of them make a batch.  *)
(***************************************************************************)
EXTENDS Naturals, FiniteSets, FiniteSetsExt, Sequences

CONSTANTS NumTables, Db, DbOf,
          Greenplum, \* databases of type gpdb, the others are postgre
          Catalog,   \* tables of pg_catalog
          Purged,    \* the tables of the purge
          Bloat,     \* the ratios of dead tuples at first
          Broken,    \* tables on which VACUUM and REINDEX fail
          Limit,     \* tables listed at most: 30 or 10
          Batch,     \* rows deleted at most by one statement
          MaxOld,    \* bound: old rows of a table
          MaxGrow,   \* bound: additions of old rows or dead tuples
          MaxEvents  \* bound: failures, timeouts, windows that close too early

Table == 1 .. NumTables

\* The dead tuple ratio: none to speak of, listed, worth a VACUUM, worth a VACUUM FULL.
Dead == 0 .. 3

ASSUME TableMaintenanceAssumption ==
  /\ NumTables \in Nat
  /\ DbOf \in [Table -> Db] /\ Greenplum \subseteq Db
  /\ Catalog \subseteq Table /\ Purged \subseteq Table
  /\ Bloat \in [Table -> Dead] /\ Broken \subseteq Table
  /\ Limit \in Nat \ {0} /\ Batch \in Nat \ {0}
  /\ MaxOld \in Nat /\ MaxGrow \in Nat /\ MaxEvents \in Nat

\* VACUUM FULL, VACUUM, REINDEX TABLE, ANALYZE, as far as they differ in what they do.
Command == {"full", "vacuum", "reindex", "analyze"}

VARIABLES
  \* the databases (external)
  dead, old, open, \* the time is within the maintenance window
  grown, events,
  \* the vacuum job
  vpc, vdbs,
  bloat, \* what is left of the list: tables and their ratios when it was read
  vcur, cmds, \* the table in hand, 0 for none, and its commands left to run
  \* the purge
  ppc, pdbs, ptodo, pcur

world  == <<dead, old, open>>
vacuum == <<vpc, vdbs, bloat, vcur, cmds>>
purge  == <<ppc, pdbs, ptodo, pcur>>
vars   == <<world, grown, events, vacuum, purge>>

TypeOK ==
  /\ dead \in [Table -> Dead] /\ old \in [Table -> 0 .. MaxOld] /\ open \in BOOLEAN
  /\ grown \in 0 .. MaxGrow /\ events \in 0 .. MaxEvents
  /\ vpc \in {"idle", "dsn", "table", "execute"} /\ vdbs \subseteq Db
  /\ bloat \subseteq Table \X Dead /\ \A b, c \in bloat : b[1] = c[1] => b = c
  /\ IF vpc = "execute" THEN vcur \in Table /\ cmds # <<>> ELSE vcur = 0 /\ cmds = <<>>
  /\ cmds \in Seq(Command)
  /\ ppc \in {"idle", "db", "table", "delete", "vacuum", "reindex"} /\ pdbs \subseteq Db
  /\ ptodo \subseteq Purged
  /\ IF ppc \in {"delete", "vacuum", "reindex"} THEN pcur \in Purged \ ptodo ELSE pcur = 0

Init ==
  /\ dead = Bloat /\ open = FALSE
  /\ old = [t \in Table |-> IF t \in Purged THEN MaxOld ELSE 0]
  /\ grown = 0 /\ events = 0
  /\ vpc = "idle" /\ vdbs = {} /\ bloat = {} /\ vcur = 0 /\ cmds = <<>>
  /\ ppc = "idle" /\ pdbs = {} /\ ptodo = {} /\ pcur = 0

-----------------------------------------------------------------------------
(***************************************************************************)
(* The databases and the clock.                                            *)
(***************************************************************************)
Disturb == events < MaxEvents /\ events' = events + 1

\* Rows pass the age limit, or are updated.
Grow(t) ==
  /\ grown < MaxGrow /\ grown' = grown + 1
  /\ \/ t \in Purged /\ old[t] < MaxOld /\ old' = [old EXCEPT ![t] = @ + 1] /\ UNCHANGED dead
     \/ dead[t] < 3 /\ dead' = [dead EXCEPT ![t] = @ + 1] /\ UNCHANGED old
  /\ UNCHANGED <<open, events, vacuum, purge>>

Opens  == ~open /\ open' = TRUE /\ UNCHANGED <<dead, old, grown, events, vacuum, purge>>
Closes ==
  /\ open /\ open' = FALSE
  /\ IF vpc = "idle" THEN UNCHANGED events ELSE Disturb
  /\ UNCHANGED <<dead, old, grown, vacuum, purge>>

-----------------------------------------------------------------------------
(***************************************************************************)
(* vacuum_analyse.py.                                                      *)
(***************************************************************************)
VacuumStart ==
  /\ vpc = "idle"
  /\ vpc' = "dsn" /\ vdbs' = Db
  /\ UNCHANGED <<world, grown, events, bloat, vcur, cmds, purge>>

\* get_bloat_tables: the tables with the highest ratios.
Listed(S, d) ==
  LET candidates == {t \in Table : DbOf[t] = d /\ dead[t] > 0} IN
  /\ S \subseteq candidates
  /\ Cardinality(S) = Min({Limit, Cardinality(candidates)})
  /\ \A t \in S, u \in candidates \ S : dead[t] >= dead[u]

\* A database is skipped outside the window or if it cannot be asked.
NextDsn ==
  /\ vpc = "dsn"
  /\ \E d \in vdbs :
       /\ vdbs' = vdbs \ {d}
       /\ \/ /\ open
             /\ \E S \in SUBSET Table : Listed(S, d) /\ bloat' = {<<t, dead[t]>> : t \in S}
             /\ vpc' = "table" /\ UNCHANGED events
          \/ ~open /\ UNCHANGED <<bloat, vpc, events>>
          \/ open /\ Disturb /\ UNCHANGED <<bloat, vpc>>
  /\ UNCHANGED <<world, grown, vcur, cmds, purge>>

VacuumEnd ==
  /\ vpc = "dsn" /\ vdbs = {} /\ vpc' = "idle"
  /\ UNCHANGED <<world, grown, events, vdbs, bloat, vcur, cmds, purge>>

\* commands: what is run on a table that was listed with a ratio; nothing if it
\* has no strategy.
Commands(t, ratio) ==
  LET full == ratio = 3 IN
  IF ratio < 2 THEN <<>>
  ELSE IF DbOf[t] \notin Greenplum THEN IF full THEN <<"full">> ELSE <<>>
  ELSE IF t \in Catalog THEN <<"reindex", IF full THEN "full" ELSE "vacuum">>
  ELSE IF full THEN <<"full", "reindex", "analyze">> ELSE <<"vacuum">>

\* The next table of the list; outside the window it is passed over, as is one
\* without a strategy.
NextTable ==
  /\ vpc = "table"
  /\ \E b \in bloat :
       /\ \A c \in bloat : b[2] >= c[2]
       /\ bloat' = bloat \ {b}
       /\ IF open /\ Commands(b[1], b[2]) # <<>>
          THEN vpc' = "execute" /\ vcur' = b[1] /\ cmds' = Commands(b[1], b[2])
          ELSE UNCHANGED <<vpc, vcur, cmds>>
  /\ UNCHANGED <<world, grown, events, vdbs, purge>>

DsnDone ==
  /\ vpc = "table" /\ bloat = {} /\ vpc' = "dsn"
  /\ UNCHANGED <<world, grown, events, vdbs, bloat, vcur, cmds, purge>>

\* The ratios a command may leave: VACUUM FULL rewrites the table, VACUUM makes
\* room for new rows, more or less of it; the others leave the dead tuples alone.
After(cmd, ratio) ==
  CASE cmd = "full" -> {0} [] cmd = "vacuum" -> 0 .. ratio [] OTHER -> {ratio}

\* A command of the strategy succeeds, whatever has become of the table since it
\* was listed.
Execute ==
  /\ vpc = "execute" /\ vcur \notin Broken
  /\ \E left \in After(Head(cmds), dead[vcur]) : dead' = [dead EXCEPT ![vcur] = left]
  /\ cmds' = Tail(cmds)
  /\ IF cmds' = <<>> THEN vpc' = "table" /\ vcur' = 0 ELSE UNCHANGED <<vpc, vcur>>
  /\ UNCHANGED <<old, open, grown, events, vdbs, bloat, purge>>

\* Mutant: the exception ends the loop over the tables.
ExecuteRaises ==
  /\ vpc = "execute"
  /\ IF vcur \in Broken THEN UNCHANGED events ELSE Disturb
  /\ vpc' = "dsn" /\ bloat' = {} /\ vcur' = 0 /\ cmds' = <<>>
  /\ UNCHANGED <<world, grown, vdbs, purge>>

\* A command fails: the commands left for this table are not run.
ExecuteFails ==
  /\ vpc = "execute"
  /\ IF vcur \in Broken THEN UNCHANGED events ELSE Disturb
  /\ vpc' = "table" /\ vcur' = 0 /\ cmds' = <<>>
  /\ UNCHANGED <<world, grown, vdbs, bloat, purge>>

-----------------------------------------------------------------------------
(***************************************************************************)
(* delete_table.py.                                                        *)
(***************************************************************************)
PurgeStart ==
  /\ ppc = "idle"
  /\ ppc' = "db" /\ pdbs' = {DbOf[t] : t \in Purged}
  /\ UNCHANGED <<world, grown, events, vacuum, ptodo, pcur>>

\* A database that cannot be connected to is skipped.
NextDb ==
  /\ ppc = "db"
  /\ \E d \in pdbs :
       /\ pdbs' = pdbs \ {d}
       /\ \/ ptodo' = {t \in Purged : DbOf[t] = d} /\ ppc' = "table" /\ UNCHANGED events
          \/ Disturb /\ UNCHANGED <<ptodo, ppc>>
  /\ UNCHANGED <<world, grown, vacuum, pcur>>

PurgeEnd ==
  /\ ppc = "db" /\ pdbs = {} /\ ppc' = "idle"
  /\ UNCHANGED <<world, grown, events, vacuum, pdbs, ptodo, pcur>>

\* Mutant: the table in hand is not taken off the list.
NextPurgedKeeps ==
  /\ ppc = "table"
  /\ IF ptodo = {} THEN ppc' = "db" /\ UNCHANGED <<ptodo, pcur>>
     ELSE ppc' = "delete" /\ pcur' = Min(ptodo) /\ UNCHANGED ptodo
  /\ UNCHANGED <<world, grown, events, vacuum, pdbs>>

NextPurged ==
  /\ ppc = "table"
  /\ IF ptodo = {} THEN ppc' = "db" /\ UNCHANGED <<ptodo, pcur>>
     ELSE ppc' = "delete" /\ pcur' = Min(ptodo) /\ ptodo' = ptodo \ {Min(ptodo)}
  /\ UNCHANGED <<world, grown, events, vacuum, pdbs>>

\* Mutant: a full batch is taken for the last one.
LastBatchClosed(n) == n <= Batch

\* cur.rowcount < 100000
LastBatch(n) == n < Batch

\* One statement of delete_table, committed on its own.
Delete ==
  /\ ppc = "delete"
  /\ LET n == Min({Batch, old[pcur]}) IN
     /\ old' = [old EXCEPT ![pcur] = @ - n]
     /\ dead' = [dead EXCEPT ![pcur] = IF n > 0 /\ @ < 3 THEN @ + 1 ELSE @]
     /\ ppc' = IF LastBatch(n) THEN "vacuum" ELSE "delete"
  /\ UNCHANGED <<open, grown, events, vacuum, pdbs, ptodo, pcur>>

\* A timeout of the DELETE is only logged.
DeleteFails ==
  /\ ppc = "delete" /\ Disturb
  /\ ppc' = "vacuum"
  /\ UNCHANGED <<world, grown, vacuum, pdbs, ptodo, pcur>>

\* VACUUM ANALYSE, then REINDEX TABLE.
Rebuild ==
  /\ ppc \in {"vacuum", "reindex"} /\ pcur \notin Broken
  /\ \E left \in After(ppc, dead[pcur]) : dead' = [dead EXCEPT ![pcur] = left]
  /\ IF ppc = "vacuum" THEN ppc' = "reindex" /\ UNCHANGED pcur ELSE ppc' = "table" /\ pcur' = 0
  /\ UNCHANGED <<old, open, grown, events, vacuum, pdbs, ptodo>>

\* Mutant: the exception ends the whole run.
RebuildRaises ==
  /\ ppc \in {"vacuum", "reindex"}
  /\ IF pcur \in Broken THEN UNCHANGED events ELSE Disturb
  /\ ppc' = "idle" /\ ptodo' = {} /\ pdbs' = {} /\ pcur' = 0
  /\ UNCHANGED <<world, grown, vacuum>>

\* An exception ends the work on this database, and its connection.
RebuildFails ==
  /\ ppc \in {"vacuum", "reindex"}
  /\ IF pcur \in Broken THEN UNCHANGED events ELSE Disturb
  /\ ppc' = "db" /\ ptodo' = {} /\ pcur' = 0
  /\ UNCHANGED <<world, grown, vacuum, pdbs>>

-----------------------------------------------------------------------------
Vacuum == VacuumStart \/ NextDsn \/ VacuumEnd \/ NextTable \/ DsnDone \/ Execute \/ ExecuteFails
Purge  ==
  \/ PurgeStart \/ NextDb \/ PurgeEnd \/ NextPurged \/ Delete \/ DeleteFails
  \/ Rebuild \/ RebuildFails

Next == (\E t \in Table : Grow(t)) \/ Opens \/ Closes \/ Vacuum \/ Purge

Spec == Init /\ [][Next]_vars

\* The window opens every night, the vacuum job is started within it as well (SF:
\* it is open only part of the time), the purge again and again, and what is
\* running goes on.
FairSpec ==
  Spec /\ WF_vars(Opens) /\ SF_vars(VacuumStart /\ open) /\ WF_vars(Vacuum) /\ WF_vars(Purge)

-----------------------------------------------------------------------------
(***************************************************************************)
(* Properties.                                                             *)
(***************************************************************************)

\* When delete_table is done with a table and no statement has timed out, no old
\* row is left, however many batches the rows make.
BatchesExhaust ==
  [][ppc = "delete" /\ ppc' = "vacuum" /\ events' = events => old'[pcur] = 0]_vars

\* The old rows of a table go in the end, although a table that cannot be
\* vacuumed ends the work on its database: those configured after it in the same
\* database are the only ones to suffer.
OldRowsGo ==
  \A t \in Purged :
    (\A u \in Purged \cap Broken : u < t => DbOf[u] # DbOf[t]) => (old[t] > 0 ~> old[t] = 0)

\* A table worth a VACUUM FULL is relieved in the end, although others fail every
\* night, as long as these are too few to fill the list.
Relieved ==
  \A t \in Table \ Broken :
    Cardinality({u \in Broken : DbOf[u] = DbOf[t]}) < Limit =>
      (dead[t] = 3 ~> dead[t] < 3)
=============================================================================
