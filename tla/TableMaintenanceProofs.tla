----------------------- MODULE TableMaintenanceProofs -----------------------
(***************************************************************************)
(* Theorems about the vacuum and purge jobs, for any number of tables,     *)
(* databases, batches and failures.                                        *)
(***************************************************************************)
EXTENDS TableMaintenance, NumberSets, TLAPS

\* Tables are positive numbers: 0 stands for none.
LEMMA Tables ==
  /\ \A t \in Table : t \in Nat /\ t # 0
  /\ 0 \notin Purged /\ Purged \subseteq Table
BY TableMaintenanceAssumption DEF Table

\* A disturbance keeps the count within its bound.
LEMMA EventsType ==
  ASSUME TypeOK, Disturb
  PROVE  events' \in 0 .. MaxEvents
BY TableMaintenanceAssumption DEF Disturb, TypeOK

\* A batch is what is left, or Batch rows.
LEMMA BatchSize ==
  ASSUME TypeOK, ppc = "delete"
  PROVE  /\ pcur \in Purged /\ pcur \in Table /\ old[pcur] \in 0 .. MaxOld
         /\ LET n == Min({Batch, old[pcur]}) IN
            /\ n \in Nat /\ old[pcur] - n \in 0 .. MaxOld
            /\ n = IF Batch <= old[pcur] THEN Batch ELSE old[pcur]
<1>1. pcur \in Purged /\ pcur \in Table /\ old[pcur] \in 0 .. MaxOld
  BY Tables DEF TypeOK
<1>2. Batch \in Nat /\ MaxOld \in Nat /\ old[pcur] \in Nat
  BY <1>1, TableMaintenanceAssumption
<1>3. Min({Batch, old[pcur]}) = IF Batch <= old[pcur] THEN Batch ELSE old[pcur]
  BY <1>2, MinOfTwo
<1> QED
  BY <1>1, <1>2, <1>3

\* A strategy is a sequence of commands.
LEMMA CommandsType ==
  \A t \in Table, ratio \in Dead : Commands(t, ratio) \in Seq(Command)
<1>1. \A c, d, e \in Command : /\ <<>> \in Seq(Command) /\ <<c>> \in Seq(Command)
                              /\ <<c, d>> \in Seq(Command) /\ <<c, d, e>> \in Seq(Command)
  OBVIOUS
<1>2. "full" \in Command /\ "vacuum" \in Command /\ "reindex" \in Command /\ "analyze" \in Command
  BY DEF Command
<1> QED
  BY <1>1, <1>2 DEF Commands

\* No command adds dead tuples.
LEMMA AfterType ==
  \A cmd \in Command, ratio \in Dead : After(cmd, ratio) \subseteq Dead
<1> SUFFICES ASSUME NEW cmd \in Command, NEW ratio \in 0 .. 3
             PROVE  After(cmd, ratio) \subseteq 0 .. 3
  BY DEF Dead
<1>1. CASE cmd = "full"
  BY <1>1 DEF After
<1>2. CASE cmd = "vacuum"
  BY <1>2 DEF After
<1>3. CASE cmd \in {"reindex", "analyze"}
  BY <1>3 DEF After
<1> QED
  BY <1>1, <1>2, <1>3 DEF Command

\* The jobs begin well typed.
LEMMA InitType == Init => TypeOK
<1> SUFFICES ASSUME Init PROVE TypeOK
  OBVIOUS
<1>1. dead \in [Table -> Dead] /\ old \in [Table -> 0 .. MaxOld]
  BY TableMaintenanceAssumption DEF Init, Dead
<1>2. grown \in 0 .. MaxGrow /\ events \in 0 .. MaxEvents
  <2>1. MaxGrow \in Nat /\ MaxEvents \in Nat /\ grown = 0 /\ events = 0
    BY TableMaintenanceAssumption DEF Init
  <2> QED
    BY <2>1
<1>3. bloat \subseteq Table \X Dead /\ \A b, c \in bloat : b[1] = c[1] => b = c
  BY DEF Init
<1>4. vcur = 0 /\ cmds = <<>> /\ cmds \in Seq(Command) /\ vpc = "idle"
  BY DEF Init
<1> QED
  BY <1>1, <1>2, <1>3, <1>4 DEF Init, TypeOK

\* Every step keeps the types.
LEMMA TypeStep == TypeOK /\ [Next]_vars => TypeOK'
<1> SUFFICES ASSUME TypeOK, [Next]_vars PROVE TypeOK'
  OBVIOUS
<1>0. CASE UNCHANGED vars
  BY <1>0 DEF vars, world, vacuum, purge, TypeOK
<1>1. ASSUME NEW t \in Table, Grow(t) PROVE TypeOK'
  <2>1. grown' \in 0 .. MaxGrow
    BY <1>1, TableMaintenanceAssumption DEF Grow, TypeOK
  <2>2. dead' \in [Table -> Dead] /\ old' \in [Table -> 0 .. MaxOld]
    <3>1. MaxOld \in Nat /\ dead[t] \in Dead /\ old[t] \in 0 .. MaxOld
      BY TableMaintenanceAssumption DEF TypeOK
    <3>2. /\ dead[t] < 3 => dead[t] + 1 \in Dead
          /\ old[t] < MaxOld => old[t] + 1 \in 0 .. MaxOld
      BY <3>1 DEF Dead
    <3> QED
      BY <1>1, <3>2 DEF Grow, TypeOK
  <2> QED
    BY <1>1, <2>1, <2>2 DEF Grow, TypeOK, vacuum, purge
<1>2. CASE Opens
  BY <1>2 DEF Opens, TypeOK, vacuum, purge
<1>3. CASE Closes
  BY <1>3, EventsType DEF Closes, TypeOK, vacuum, purge
<1>4. CASE VacuumStart
  BY <1>4 DEF VacuumStart, TypeOK, world, purge
<1>5. CASE NextDsn
  <2>1. PICK d \in vdbs :
          /\ vdbs' = vdbs \ {d}
          /\ \/ /\ \E S \in SUBSET Table : bloat' = {<<t, dead[t]>> : t \in S}
                /\ vpc' = "table" /\ UNCHANGED events
             \/ UNCHANGED <<bloat, vpc>> /\ events' \in 0 .. MaxEvents
    BY <1>5, EventsType DEF NextDsn, TypeOK
  <2>2. bloat' \subseteq Table \X Dead /\ \A b, c \in bloat' : b[1] = c[1] => b = c
    <3>1. CASE UNCHANGED bloat
      BY <3>1 DEF TypeOK
    <3>2. CASE \E S \in SUBSET Table : bloat' = {<<t, dead[t]>> : t \in S}
      BY <3>2 DEF TypeOK
    <3> QED
      BY <2>1, <3>1, <3>2
  <2> QED
    BY <1>5, <2>1, <2>2 DEF NextDsn, TypeOK, world, purge
<1>6. CASE VacuumEnd
  BY <1>6 DEF VacuumEnd, TypeOK, world, purge
<1>7. CASE NextTable
  <2>1. PICK b \in bloat :
          /\ bloat' = bloat \ {b}
          /\ IF open /\ Commands(b[1], b[2]) # <<>>
             THEN vpc' = "execute" /\ vcur' = b[1] /\ cmds' = Commands(b[1], b[2])
             ELSE UNCHANGED <<vpc, vcur, cmds>>
    BY <1>7 DEF NextTable
  <2>2. b[1] \in Table /\ Commands(b[1], b[2]) \in Seq(Command)
    BY CommandsType DEF TypeOK
  <2> QED
    BY <1>7, <2>1, <2>2 DEF NextTable, TypeOK, world, purge
<1>8. CASE DsnDone
  BY <1>8 DEF DsnDone, TypeOK, world, purge
<1>9. CASE Execute
  <2>1. vcur \in Table /\ cmds # <<>> /\ cmds \in Seq(Command)
    BY <1>9 DEF Execute, TypeOK
  <2>2. /\ Head(cmds) \in Command
        /\ Tail(cmds) \in Seq(Command)
    BY <2>1
  <2>3. dead' \in [Table -> Dead]
    <3>1. After(Head(cmds), dead[vcur]) \subseteq Dead
      BY <2>1, <2>2, AfterType DEF TypeOK
    <3> QED
      BY <1>9, <2>1, <3>1 DEF Execute, TypeOK
  <2> QED
    BY <1>9, <2>1, <2>2, <2>3 DEF Execute, TypeOK, purge
<1>10. CASE ExecuteFails
  BY <1>10, EventsType DEF ExecuteFails, TypeOK, world, purge
<1>11. CASE PurgeStart
  <2>1. {DbOf[t] : t \in Purged} \subseteq Db
    BY TableMaintenanceAssumption
  <2> QED
    BY <1>11, <2>1 DEF PurgeStart, TypeOK, world, vacuum
<1>12. CASE NextDb
  BY <1>12, EventsType DEF NextDb, TypeOK, world, vacuum
<1>13. CASE PurgeEnd
  BY <1>13 DEF PurgeEnd, TypeOK, world, vacuum
<1>14. CASE NextPurged
  <2>1. ptodo # {} => Min(ptodo) \in ptodo
    <3>1. ptodo \in SUBSET Nat
      BY Tables DEF TypeOK
    <3> QED
      BY <3>1, Least
  <2> QED
    BY <1>14, <2>1 DEF NextPurged, TypeOK, world, vacuum
<1>15. CASE Delete
  <2>1. old' \in [Table -> 0 .. MaxOld]
    BY <1>15, BatchSize DEF Delete, TypeOK
  <2>2. dead' \in [Table -> Dead]
    BY <1>15, BatchSize DEF Delete, TypeOK, Dead
  <2>3. ppc' \in {"vacuum", "delete"} /\ UNCHANGED <<open, grown, events, vacuum, pdbs, ptodo, pcur>>
    BY <1>15 DEF Delete
  <2> QED
    BY <1>15, <2>1, <2>2, <2>3 DEF Delete, TypeOK, vacuum
<1>16. CASE DeleteFails
  BY <1>16, EventsType DEF DeleteFails, TypeOK, world, vacuum
<1>17. CASE Rebuild
  <2>1. dead' \in [Table -> Dead]
    <3>1. pcur \in Table /\ ppc \in Command
      BY <1>17, Tables DEF Rebuild, TypeOK, Command
    <3>2. After(ppc, dead[pcur]) \subseteq Dead
      BY <3>1, AfterType DEF TypeOK
    <3> QED
      BY <1>17, <3>1, <3>2 DEF Rebuild, TypeOK
  <2> QED
    BY <1>17, <2>1 DEF Rebuild, TypeOK, vacuum
<1>18. CASE RebuildFails
  BY <1>18, EventsType DEF RebuildFails, TypeOK, world, vacuum
<1> QED
  BY <1>0, <1>1, <1>2, <1>3, <1>4, <1>5, <1>6, <1>7, <1>8, <1>9, <1>10, <1>11, <1>12, <1>13,
     <1>14, <1>15, <1>16, <1>17, <1>18 DEF Next, Vacuum, Purge

\* The jobs and their lists are well typed.
THEOREM TypeCorrect == Spec => []TypeOK
BY InitType, TypeStep, PTL DEF Spec

\* However many batches the old rows of a table make, none is left when the purge
\* goes on to the VACUUM of the table, unless a statement failed.
THEOREM BatchesAreExhausted == Spec => BatchesExhaust
<1>1. ASSUME TypeOK, [Next]_vars, ppc = "delete", ppc' = "vacuum", events' = events
      PROVE  old'[pcur] = 0
  <2>1. CASE Delete
    <3>1. LastBatch(Min({Batch, old[pcur]}))
      BY <1>1, <2>1 DEF Delete
    <3>2. Min({Batch, old[pcur]}) < Batch
      BY <3>1 DEF LastBatch
    <3>3. Min({Batch, old[pcur]}) = old[pcur]
      BY <1>1, <3>2, BatchSize, TableMaintenanceAssumption
    <3>4. old' = [old EXCEPT ![pcur] = @ - old[pcur]]
      BY <2>1, <3>3 DEF Delete
    <3>5. pcur \in Table /\ old[pcur] \in 0 .. MaxOld
      BY <1>1, BatchSize
    <3>6. DOMAIN old = Table
      BY <1>1 DEF TypeOK
    <3>7. old'[pcur] = old[pcur] - old[pcur]
      BY <3>4, <3>5, <3>6
    <3> QED
      BY <3>5, <3>7
  <2>2. CASE DeleteFails
    BY <1>1, <2>2 DEF DeleteFails, Disturb, TypeOK
  <2>3. CASE UNCHANGED purge
    BY <1>1, <2>3 DEF purge
  <2>4. CASE PurgeStart \/ NextDb \/ PurgeEnd \/ NextPurged \/ Rebuild \/ RebuildFails
    BY <1>1, <2>4 DEF PurgeStart, NextDb, PurgeEnd, NextPurged, Rebuild, RebuildFails
  <2>5. (\E t \in Table : Grow(t)) \/ Opens \/ Closes \/ Vacuum \/ UNCHANGED vars => UNCHANGED purge
    BY DEF Grow, Opens, Closes, Vacuum, VacuumStart, NextDsn, VacuumEnd, NextTable, DsnDone,
       Execute, ExecuteFails, vars
  <2> QED
    BY <1>1, <2>1, <2>2, <2>3, <2>4, <2>5 DEF Next, Purge
<1>2. TypeOK /\ [Next]_vars
        => [ppc = "delete" /\ ppc' = "vacuum" /\ events' = events => old'[pcur] = 0]_vars
  BY <1>1
<1> QED
  BY <1>2, TypeCorrect, PTL DEF Spec, BatchesExhaust

-----------------------------------------------------------------------------
(***************************************************************************)
(* The steps of the argument for Relieved: tables that fail every night do *)
(* not fill a list, a list is worked through, and what is on it is treated.*)
(***************************************************************************)

\* The tables of a database on which VACUUM fails.
BrokenOf(d) == {u \in Broken : DbOf[u] = d}

\* A list either has a table of the highest ratio on which VACUUM works, or there
\* was none: the broken ones are too few to fill it.
LEMMA ListReaches ==
  ASSUME TypeOK, NEW d \in Db, NEW S \in SUBSET Table, Listed(S, d),
         NEW t \in Table \ Broken, DbOf[t] = d, dead[t] = 3,
         Cardinality(BrokenOf(d)) < Limit
  PROVE  \E u \in S \ Broken : dead[u] = 3 /\ DbOf[u] = d
<1> DEFINE C == {u \in Table : DbOf[u] = d /\ dead[u] > 0}
<1>1. /\ S \subseteq C /\ Cardinality(S) = Min({Limit, Cardinality(C)})
      /\ \A s \in S, u \in C \ S : dead[s] >= dead[u]
  BY DEF Listed
<1>2. t \in C /\ C \subseteq Table /\ \A s \in S : DbOf[s] = d
  BY <1>1
<1> HIDE DEF C
<1>3. IsFiniteSet(Table)
  BY TableMaintenanceAssumption, FS_Interval DEF Table
<1>4. IsFiniteSet(C) /\ IsFiniteSet(S) /\ IsFiniteSet(BrokenOf(d))
  <2>1. BrokenOf(d) \subseteq Table
    BY TableMaintenanceAssumption DEF BrokenOf
  <2> QED
    BY <1>2, <1>3, <2>1, FS_Subset
<1>5. CASE t \in S
  BY <1>5
<1>6. CASE t \notin S
  <2>1. \A s \in S : dead[s] = 3
    BY <1>1, <1>2, <1>6 DEF TypeOK, Dead
  <2>2. Cardinality(S) <= Cardinality(C) /\ Cardinality(S) # Cardinality(C)
    BY <1>1, <1>2, <1>4, <1>6, FS_Subset
  <2>3. Cardinality(C) \in Nat /\ Limit \in Nat
    BY <1>4, FS_CardinalityType, TableMaintenanceAssumption
  <2>4. Cardinality(S) = Limit
    BY <1>1, <2>2, <2>3, MinOfTwo
  <2>5. ~ S \subseteq BrokenOf(d)
    <3>1. S \subseteq BrokenOf(d) => Cardinality(S) <= Cardinality(BrokenOf(d))
      BY <1>4, FS_Subset
    <3>2. Cardinality(BrokenOf(d)) \in Nat
      BY <1>4, FS_CardinalityType
    <3> QED
      BY <2>3, <2>4, <3>1, <3>2
  <2>6. \E u \in S : u \notin Broken
    BY <1>2, <2>5, TableMaintenanceAssumption DEF BrokenOf
  <2> QED
    BY <1>2, <2>1, <2>6
<1> QED
  BY <1>5, <1>6

\* While a table on which VACUUM works is worth a VACUUM FULL, the list that is
\* read of its database has such a table, if those that fail every night are fewer
\* than the list has places (the LIMIT of get_bloat_tables).
ListsHealthy ==
  [][\A t \in Table \ Broken :
       /\ dead[t] = 3 /\ Cardinality(BrokenOf(DbOf[t])) < Limit
       /\ vpc = "dsn" /\ vpc' = "table"
       /\ DbOf[t] \in vdbs /\ vdbs' = vdbs \ {DbOf[t]}
       => \E b \in bloat' : b[1] \notin Broken /\ DbOf[b[1]] = DbOf[t] /\ b[2] = 3]_vars

\* A list that is read has a table that can be relieved, if there is one.
THEOREM HealthyAreListed == Spec => ListsHealthy
<1>1. ASSUME TypeOK, [Next]_vars, NEW t \in Table \ Broken,
             dead[t] = 3, Cardinality(BrokenOf(DbOf[t])) < Limit, vpc = "dsn", vpc' = "table",
             DbOf[t] \in vdbs, vdbs' = vdbs \ {DbOf[t]}
      PROVE  \E b \in bloat' : b[1] \notin Broken /\ DbOf[b[1]] = DbOf[t] /\ b[2] = 3
  <2>1. NextDsn
    <3>1. (\E u \in Table : Grow(u)) \/ Opens \/ Closes \/ Purge \/ UNCHANGED vars => UNCHANGED vpc
      BY DEF Grow, Opens, Closes, Purge, PurgeStart, NextDb, PurgeEnd, NextPurged, Delete,
             DeleteFails, Rebuild, RebuildFails, vars, vacuum
    <3>2. VacuumStart \/ VacuumEnd \/ NextTable \/ DsnDone \/ Execute \/ ExecuteFails
            => vpc # "dsn" \/ vpc' # "table"
      BY DEF VacuumStart, VacuumEnd, NextTable, DsnDone, Execute, ExecuteFails
    <3> QED
      BY <1>1, <3>1, <3>2 DEF Next, Vacuum
  <2>2. PICK d \in vdbs : /\ vdbs' = vdbs \ {d}
                          /\ \E S \in SUBSET Table :
                               Listed(S, d) /\ bloat' = {<<u, dead[u]>> : u \in S}
    BY <1>1, <2>1 DEF NextDsn
  <2>3. d = DbOf[t]
    BY <1>1, <2>2
  <2>4. PICK S \in SUBSET Table : Listed(S, d) /\ bloat' = {<<u, dead[u]>> : u \in S}
    BY <2>2
  <2>5. PICK u \in S \ Broken : dead[u] = 3 /\ DbOf[u] = d
    <3>1. d \in Db /\ t \in Table \ Broken /\ DbOf[t] = d /\ dead[t] = 3
      BY <1>1, <2>2, <2>3 DEF TypeOK
    <3>2. Cardinality(BrokenOf(d)) < Limit
      BY <1>1, <2>3, Zenon
    <3>3. TypeOK /\ Listed(S, d) /\ S \in SUBSET Table
      BY <1>1, <2>4
    <3>4. \E u \in S \ Broken : dead[u] = 3 /\ DbOf[u] = d
      BY <3>1, <3>2, <3>3, ListReaches, Zenon
    <3> QED
      BY <3>4
  <2>6. <<u, 3>> \in bloat' /\ <<u, 3>>[1] = u /\ <<u, 3>>[2] = 3
    BY <2>4, <2>5
  <2> QED
    BY <2>3, <2>5, <2>6
<1>2. TypeOK /\ [Next]_vars
        => [\A t \in Table \ Broken :
              /\ dead[t] = 3 /\ Cardinality(BrokenOf(DbOf[t])) < Limit
              /\ vpc = "dsn" /\ vpc' = "table"
              /\ DbOf[t] \in vdbs /\ vdbs' = vdbs \ {DbOf[t]}
              => \E b \in bloat' : b[1] \notin Broken /\ DbOf[b[1]] = DbOf[t] /\ b[2] = 3]_vars
  BY <1>1
<1> QED
  BY <1>2, TypeCorrect, PTL DEF Spec, ListsHealthy

\* A table of the highest ratio has a strategy, whatever it is and wherever.
LEMMA WorstHasStrategy == \A t \in Table : Commands(t, 3) # <<>>
BY DEF Commands

\* Within the window the list is worked through from the top: what is taken off a
\* list that has tables worth a VACUUM FULL is one of these, and it is treated.
WorstIsTreated ==
  [][open /\ vpc = "table" /\ bloat' # bloat /\ (\E b \in bloat : b[2] = 3)
       => \E b \in bloat :
            /\ b[2] = 3 /\ bloat' = bloat \ {b}
            /\ vpc' = "execute" /\ vcur' = b[1] /\ cmds' = Commands(b[1], 3)]_vars

\* A run of the vacuum job has less to do with each of its steps, and nothing adds
\* to it: databases, then tables of the list, then commands.
VacuumDwindles ==
  [][vpc # "idle" =>
       \/ UNCHANGED vacuum
       \/ vpc' = "idle"
       \/ vdbs' \subseteq vdbs /\ vdbs' # vdbs
       \/ vdbs' = vdbs /\ bloat' \subseteq bloat /\ bloat' # bloat
       \/ /\ vdbs' = vdbs /\ bloat' = bloat
          /\ \/ vpc = "execute" /\ vpc' = "execute" /\ Len(cmds') < Len(cmds)
             \/ vpc = "execute" /\ vpc' = "table"
             \/ vpc = "table" /\ vpc' = "dsn"]_vars

\* Only the vacuum job moves its own state.
LEMMA VacuumFrame ==
  ASSUME [Next]_vars
  PROVE  Vacuum \/ UNCHANGED vacuum
BY DEF Next, Grow, Opens, Closes, Purge, PurgeStart, NextDb, PurgeEnd, NextPurged, Delete,
       DeleteFails, Rebuild, RebuildFails, vars

\* A table that can be relieved is, once it is on top of the list.
THEOREM WorstAreTreated == Spec => WorstIsTreated
<1>1. ASSUME TypeOK, [Next]_vars, open, vpc = "table", bloat' # bloat,
             \E b \in bloat : b[2] = 3
      PROVE  \E b \in bloat :
               /\ b[2] = 3 /\ bloat' = bloat \ {b}
               /\ vpc' = "execute" /\ vcur' = b[1] /\ cmds' = Commands(b[1], 3)
  <2>1. NextTable
    BY <1>1, VacuumFrame
    DEF Vacuum, vacuum, VacuumStart, NextDsn, VacuumEnd, DsnDone, Execute, ExecuteFails
  <2>2. PICK b \in bloat :
          /\ \A c \in bloat : b[2] >= c[2]
          /\ bloat' = bloat \ {b}
          /\ IF open /\ Commands(b[1], b[2]) # <<>>
             THEN vpc' = "execute" /\ vcur' = b[1] /\ cmds' = Commands(b[1], b[2])
             ELSE UNCHANGED <<vpc, vcur, cmds>>
    BY <2>1 DEF NextTable
  <2>3. b[1] \in Table /\ b[2] \in Dead
    BY <1>1 DEF TypeOK
  <2>4. b[2] = 3
    BY <1>1, <2>2, <2>3 DEF Dead
  <2>5. Commands(b[1], b[2]) # <<>>
    BY <2>3, <2>4, WorstHasStrategy
  <2> QED
    BY <1>1, <2>2, <2>4, <2>5
<1>2. TypeOK /\ [Next]_vars =>
        [open /\ vpc = "table" /\ bloat' # bloat /\ (\E b \in bloat : b[2] = 3)
           => \E b \in bloat :
                /\ b[2] = 3 /\ bloat' = bloat \ {b}
                /\ vpc' = "execute" /\ vcur' = b[1] /\ cmds' = Commands(b[1], 3)]_vars
  BY <1>1
<1> QED
  BY <1>2, TypeCorrect, PTL DEF Spec, WorstIsTreated

\* A run of the vacuum job ends, whatever happens to the tables meanwhile.
THEOREM VacuumRunsDwindle == Spec => VacuumDwindles
<1> DEFINE Less ==
      \/ vpc' = "idle"
      \/ vdbs' \subseteq vdbs /\ vdbs' # vdbs
      \/ vdbs' = vdbs /\ bloat' \subseteq bloat /\ bloat' # bloat
      \/ /\ vdbs' = vdbs /\ bloat' = bloat
         /\ \/ vpc = "execute" /\ vpc' = "execute" /\ Len(cmds') < Len(cmds)
            \/ vpc = "execute" /\ vpc' = "table"
            \/ vpc = "table" /\ vpc' = "dsn"
<1>1. ASSUME TypeOK, vpc # "idle", Vacuum PROVE Less
  <2>1. NextDsn => vdbs' \subseteq vdbs /\ vdbs' # vdbs
    BY DEF NextDsn
  <2>2. NextTable => vdbs' = vdbs /\ bloat' \subseteq bloat /\ bloat' # bloat
    BY DEF NextTable
  <2>3. VacuumEnd => vpc' = "idle"
    BY DEF VacuumEnd
  <2>4. ASSUME DsnDone PROVE vdbs' = vdbs /\ bloat' = bloat /\ vpc = "table" /\ vpc' = "dsn"
    BY <2>4 DEF DsnDone
  <2>5. ASSUME ExecuteFails
        PROVE  vdbs' = vdbs /\ bloat' = bloat /\ vpc = "execute" /\ vpc' = "table"
    BY <2>5 DEF ExecuteFails
  <2>6. ASSUME Execute
        PROVE  /\ vdbs' = vdbs /\ bloat' = bloat
               /\ \/ vpc = "execute" /\ vpc' = "execute" /\ Len(cmds') < Len(cmds)
                  \/ vpc = "execute" /\ vpc' = "table"
    <3>1. cmds # <<>> /\ cmds \in Seq(Command)
      BY <1>1, <2>6 DEF Execute, TypeOK
    <3>2. Len(Tail(cmds)) < Len(cmds)
      BY <3>1
    <3> QED
      BY <2>6, <3>2 DEF Execute
  <2>7. ~VacuumStart
    BY <1>1 DEF VacuumStart
  <2> QED
    BY <1>1, <2>1, <2>2, <2>3, <2>4, <2>5, <2>6, <2>7 DEF Vacuum
<1>2. TypeOK /\ [Next]_vars => [vpc # "idle" => UNCHANGED vacuum \/ Less]_vars
  BY <1>1, VacuumFrame
<1> QED
  BY <1>2, TypeCorrect, PTL DEF Spec, VacuumDwindles
=============================================================================
