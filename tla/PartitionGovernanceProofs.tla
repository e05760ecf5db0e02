--------------------- MODULE PartitionGovernanceProofs ---------------------
(***************************************************************************)
(* Theorems about the nightly partition job, for any number of tables and  *)
(* partitions, widths and thresholds.                                      *)
(***************************************************************************)
EXTENDS PartitionGovernance, NumberSets, TLAPS

(***************************************************************************)
(* Types and lists.                                                        *)
(***************************************************************************)
\* What is fetched is bounded, and the list of a stage is the part that is left of
\* the partitions the stage began with.
Lists ==
  /\ \A t \in Table : Bounded(parts[t])
  /\ Bounded(work)
  /\ pc = "archive" => list \subseteq parts[cur]
  /\ pc \in {"tail", "dropTail", "head", "dropHead"} => list = work
  /\ pc \in {"dropTail", "dropHead"} => list # {}

\* Types and lists are right before the first job.
LEMMA InitLists == Init => TypeOK /\ Lists
<1> SUFFICES ASSUME Init PROVE TypeOK /\ Lists
  OBVIOUS
<1>1. parts \in [Table -> SUBSET Nat] /\ \A t \in Table : IsFiniteSet(parts[t])
  BY PartitionGovernanceAssumption DEF Init
<1>2. \A t \in Table : Bounded(parts[t])
  BY <1>1, FiniteIsBounded
<1>3. PICK filled \in [Table -> SUBSET UNION {Created[t] : t \in Table}] :
        /\ \A t \in Table : filled[t] \subseteq Created[t]
        /\ rows = filled
  BY DEF Init
<1>4. rows \in [Table -> SUBSET Nat] /\ \A t \in Table : rows[t] \subseteq parts[t]
  <2>1. UNION {Created[t] : t \in Table} \subseteq Nat
    BY PartitionGovernanceAssumption
  <2> QED
    BY <1>3, <2>1 DEF Init
<1>5. TypeOK
  <2>1. now \in 0 .. MaxNow /\ inserts \in 0 .. MaxRows /\ events \in 0 .. MaxEvents
    BY PartitionGovernanceAssumption DEF Init
  <2>2. default \in [Table -> SUBSET Nat] /\ cold \in [Table -> SUBSET Nat]
    BY DEF Init
  <2>3. \A t \in Table : cold[t] \subseteq parts[t]
    BY DEF Init
  <2> QED
    BY <1>1, <1>4, <2>1, <2>2, <2>3 DEF Init, TypeOK, Stages
<1>6. Bounded({})
  BY DEF Bounded
<1> QED
  BY <1>2, <1>5, <1>6 DEF Init, Lists

\* The next table of the job is a table.
LEMMA TodoMin ==
  ASSUME TypeOK, todo # {}
  PROVE  Min(todo) \in Table /\ Min(todo) \in todo
<1>1. todo \subseteq Table /\ todo \in SUBSET Nat
  BY PartitionGovernanceAssumption DEF TypeOK, Table
<1> QED
  BY <1>1, Least

\* What the assumptions say of widths and limits.
LEMMA Assumed ==
  /\ \A t \in Table : Width[t] \in Nat /\ Width[t] > 0 /\ Limit * Width[t] \in Nat /\ t # 0
  /\ Year \in Nat /\ 0 \notin Table
BY PartitionGovernanceAssumption DEF Table

\* What a step of the job that ends the work on a table leaves.
LEMMA ReleaseLists ==
  ASSUME TypeOK, Lists, Release, pc' \in {"idle", "migrate", "govern"},
         todo' \subseteq Table, events' \in 0 .. MaxEvents, UNCHANGED <<now, inserts>>,
         parts' \in [Table -> SUBSET Nat], \A t \in Table : Bounded(parts'[t]),
         rows' \in [Table -> SUBSET Nat], \A t \in Table : rows'[t] \subseteq parts'[t],
         default' \in [Table -> SUBSET Nat],
         cold' \in [Table -> SUBSET Nat], \A t \in Table : cold'[t] \subseteq parts'[t]
  PROVE  TypeOK' /\ Lists'
<1>1. Bounded({})
  BY DEF Bounded
<1> QED
  BY <1>1 DEF Release, TypeOK, Lists, Stages

\* Every step keeps types and lists.
LEMMA ListsStep == TypeOK /\ Lists /\ [Next]_vars => TypeOK' /\ Lists'
<1> SUFFICES ASSUME TypeOK, Lists, [Next]_vars PROVE TypeOK' /\ Lists'
  OBVIOUS
<1> USE DEF Stages
<1>0. CASE UNCHANGED vars
  BY <1>0 DEF vars, db, job, hist, TypeOK, Lists
<1>1. CASE Tick
  BY <1>1, PartitionGovernanceAssumption DEF Tick, db, job, TypeOK, Lists
<1>2. ASSUME NEW t \in Table, NEW p \in Slot(t), Insert(t, p) PROVE TypeOK' /\ Lists'
  <2>1. p \in Nat
    BY Assumed, PartitionGovernanceAssumption DEF Slot
  <2>2. inserts' \in 0 .. MaxRows /\ raced' \subseteq Nat
    BY <1>2, <2>1, PartitionGovernanceAssumption DEF Insert, TypeOK
  <2>3. /\ rows' \in [Table -> SUBSET Nat] /\ default' \in [Table -> SUBSET Nat]
        /\ \A u \in Table : rows'[u] \subseteq parts[u]
    BY <1>2, <2>1 DEF Insert, TypeOK
  <2> QED
    BY <1>2, <2>2, <2>3 DEF Insert, job, TypeOK, Lists
<1>3. ASSUME NEW t \in Table, NEW p \in Slot(t), Purge(t, p) PROVE TypeOK' /\ Lists'
  <2>1. p \in Nat
    BY <1>3 DEF Purge, TypeOK
  <2>2. events' \in 0 .. MaxEvents /\ raced' \subseteq Nat
    BY <1>3, <2>1, PartitionGovernanceAssumption DEF Purge, TypeOK
  <2>3. rows' \in [Table -> SUBSET Nat] /\ \A u \in Table : rows'[u] \subseteq parts[u]
    BY <1>3 DEF Purge, TypeOK
  <2> QED
    BY <1>3, <2>2, <2>3 DEF Purge, job, TypeOK, Lists
<1>4. CASE StartJob
  BY <1>4 DEF StartJob, db, hist, TypeOK, Lists
<1>5. CASE MigrateTable
  <2>1. Min(todo) \in Table /\ Min(todo) # 0
    BY <1>5, TodoMin, Assumed DEF MigrateTable
  <2> QED
    BY <1>5, <2>1 DEF MigrateTable, db, hist, TypeOK, Lists
<1>6. CASE Archive
  <2>1. Min(list) \in list /\ list \subseteq parts[cur] /\ cur \in Table
    BY <1>6, Least DEF Archive, TypeOK, Lists
  <2>2. cold' \in [Table -> SUBSET Nat] /\ \A t \in Table : cold'[t] \subseteq parts[t]
    BY <1>6, <2>1 DEF Archive, TypeOK
  <2> QED
    BY <1>6, <2>1, <2>2 DEF Archive, db, hist, TypeOK, Lists
<1>7. CASE MigrateNext
  BY <1>7, ReleaseLists DEF MigrateNext, db, TypeOK, Lists
<1>8. CASE MigrateEnd
  <2>1. events' \in 0 .. MaxEvents
    BY <1>8, PartitionGovernanceAssumption DEF MigrateEnd, TypeOK
  <2> QED
    BY <1>8, <2>1, ReleaseLists DEF MigrateEnd, db, TypeOK, Lists
<1>9. CASE GovernTable
  <2>1. Min(todo) \in Table /\ Min(todo) # 0
    BY <1>9, TodoMin, Assumed DEF GovernTable
  <2>2. latest' \in Nat
    BY <1>9, <2>1, Greatest DEF GovernTable, TypeOK, Lists
  <2> QED
    BY <1>9, <2>1, <2>2 DEF GovernTable, db, hist, TypeOK, Lists
<1>10. CASE FindTail
  BY <1>10 DEF FindTail, db, hist, TypeOK, Lists
<1>11. CASE DropTail
  <2>1. Bounded(work')
    BY <1>11, BoundedPart DEF DropTail, Lists
  <2> QED
    BY <1>11, <2>1 DEF DropTail, db, hist, TypeOK, Lists
<1>12. CASE TailDone
  BY <1>12 DEF TailDone, db, hist, TypeOK, Lists
<1>13. CASE Precreate
  <2>1. latest + Width[cur] \in Nat
    BY <1>13, Assumed DEF Precreate, TypeOK
  <2>2. Bounded(work') /\ work' \subseteq Nat
    BY <1>13, <2>1, BoundedMore DEF Precreate, TypeOK, Lists
  <2> QED
    BY <1>13, <2>1, <2>2 DEF Precreate, db, hist, TypeOK, Lists
<1>14. CASE CreateDone
  BY <1>14 DEF CreateDone, db, hist, TypeOK, Lists
<1>15. CASE FindHead
  BY <1>15 DEF FindHead, db, hist, TypeOK, Lists
<1>16. CASE DropHead
  <2>1. Bounded(work')
    BY <1>16, BoundedPart DEF DropHead, Lists
  <2> QED
    BY <1>16, <2>1 DEF DropHead, db, hist, TypeOK, Lists
<1>17. CASE HeadDone
  BY <1>17 DEF HeadDone, db, hist, TypeOK, Lists
<1>18. CASE Commit
  <2>1. cur \in Table /\ work \subseteq Nat /\ Bounded(work)
    BY <1>18 DEF Commit, TypeOK, Lists
  <2>2. /\ parts' \in [Table -> SUBSET Nat] /\ \A t \in Table : Bounded(parts'[t])
        /\ rows' \in [Table -> SUBSET Nat] /\ \A t \in Table : rows'[t] \subseteq parts'[t]
    BY <1>18, <2>1 DEF Commit, TypeOK, Lists
  <2>3. /\ default' \in [Table -> SUBSET Nat]
        /\ cold' \in [Table -> SUBSET Nat] /\ \A t \in Table : cold'[t] \subseteq parts'[t]
    BY <1>18, <2>1 DEF Commit, TypeOK
  <2>4. Release /\ pc' = "govern" /\ UNCHANGED <<now, inserts, events, todo>>
    BY <1>18 DEF Commit
  <2> QED
    BY <2>2, <2>3, <2>4, ReleaseLists DEF TypeOK
<1>19. CASE EndJob
  BY <1>19 DEF EndJob, db, hist, TypeOK, Lists
<1>20. CASE NoPartition
  BY <1>20, ReleaseLists DEF NoPartition, db, TypeOK, Lists
<1>21. CASE Fail
  <2>1. events' \in 0 .. MaxEvents
    BY <1>21, PartitionGovernanceAssumption DEF Fail, TypeOK
  <2> QED
    BY <1>21, <2>1, ReleaseLists DEF Fail, db, TypeOK, Lists
<1> QED
  BY <1>0, <1>1, <1>2, <1>3, <1>4, <1>5, <1>6, <1>7, <1>8, <1>9, <1>10, <1>11, <1>12, <1>13,
     <1>14, <1>15, <1>16, <1>17, <1>18, <1>19, <1>20, <1>21 DEF Next, Job

\* Types and lists are right in every reachable state.
THEOREM ListsCorrect == Spec => [](TypeOK /\ Lists)
BY InitLists, ListsStep, PTL DEF Spec

\* The job and its lists are well typed.
THEOREM TypeCorrect == Spec => []TypeOK
BY ListsCorrect, PTL

(***************************************************************************)
(* Steps, sorted by what they do to the table in hand.                     *)
(***************************************************************************)
\* Steps of the database, and none at all.
World ==
  \/ Tick
  \/ \E t \in Table : \E p \in Slot(t) : Insert(t, p) \/ Purge(t, p)
  \/ UNCHANGED vars

\* Steps after which no table is governed.
Away ==
  \/ StartJob \/ MigrateTable \/ Archive \/ MigrateNext \/ MigrateEnd
  \/ Commit \/ EndJob \/ NoPartition \/ Fail

\* Steps on the table in hand.
Within ==
  \/ FindTail \/ DropTail \/ TailDone \/ Precreate \/ CreateDone \/ FindHead \/ DropHead \/ HeadDone

\* Every step is of one of these kinds.
LEMMA StepKinds == [Next]_vars => World \/ Away \/ GovernTable \/ Within
BY DEF Next, Job, World, Away, Within

\* Steps of the database change neither partitions nor the job.
LEMMA WorldFacts == World => UNCHANGED <<parts, cold, pc, todo, cur, list, work, latest>>
BY DEF World, Tick, Insert, Purge, vars, db, job

\* After these steps no table is governed.
LEMMA AwayFacts == Away => ~Governing'
BY DEF Away, StartJob, MigrateTable, Archive, MigrateNext, MigrateEnd, Commit, EndJob,
   NoPartition, Fail, Governing

\* Steps on the table in hand change what the transaction sees, not what is
\* committed.
LEMMA WithinFacts == Within => Governing /\ Governing' /\ UNCHANGED <<now, parts, rows, default, cold, cur, ticked, raced>>
BY DEF Within, FindTail, DropTail, TailDone, Precreate, CreateDone, FindHead, DropHead,
   HeadDone, Governing, db, hist

\* A table is governed exactly when the job has one in hand and does not
\* migrate.
LEMMA GovernedTable ==
  ASSUME TypeOK
  PROVE  /\ Governing => cur \in Table
         /\ Governing <=> (cur # 0 /\ pc \notin {"migrate", "archive"})
BY Assumed DEF TypeOK, Governing

\* What GovernTable fetches.
LEMMA Fetched ==
  ASSUME TypeOK, Lists, GovernTable
  PROVE  /\ cur' \in Table /\ work' = parts'[cur'] /\ list' = work' /\ pc' = "tail"
         /\ work' # {} => latest' = Max(work') /\ latest' \in work' /\ \A p \in work' : p <= latest'
<1>1. Min(todo) \in Table
  BY TodoMin DEF GovernTable
<1>2. parts[Min(todo)] \in SUBSET Nat /\ Bounded(parts[Min(todo)])
  BY <1>1 DEF TypeOK, Lists
<1>3. /\ cur' = Min(todo) /\ work' = parts[Min(todo)] /\ list' = parts[Min(todo)] /\ pc' = "tail"
      /\ parts' = parts
      /\ latest' = IF parts[Min(todo)] = {} THEN 0 ELSE Max(parts[Min(todo)])
  BY DEF GovernTable, db
<1> QED
  BY <1>1, <1>2, <1>3, Greatest

\* The first and the last partition the transaction sees.
LEMMA WorkEnds ==
  ASSUME TypeOK, Lists, work # {}
  PROVE  /\ Max(work) \in work /\ \A p \in work : p <= Max(work)
         /\ Min(work) \in work /\ \A p \in work : Min(work) <= p
         /\ Max(work) \in Nat /\ Min(work) \in Nat
<1>1. work \in SUBSET Nat /\ Bounded(work)
  BY DEF TypeOK, Lists
<1> QED
  BY <1>1, Least, Greatest

(***************************************************************************)
(* The latest partition.                                                   *)
(***************************************************************************)
\* No partition starts after the latest one, and the new ones start after all those
\* that were there.
Order ==
  Governing =>
    /\ \A p \in parts[cur] \cup work : p <= latest
    /\ \A p \in work \ parts[cur] : \A q \in parts[cur] : q < p
    /\ parts[cur] = {} => pc = "tail" /\ work = {}

\* Every step keeps the order.
LEMMA OrderStep ==
  ASSUME TypeOK, Lists, Order, [Next]_vars
  PROVE  Order'
<1>1. CASE World
  BY <1>1, WorldFacts DEF Order, Governing
<1>2. CASE Away
  BY <1>2, AwayFacts DEF Order
<1>3. CASE GovernTable
  BY <1>3, Fetched DEF Order
<1>4. CASE Within
  <2>1. /\ cur \in Table /\ parts[cur] \subseteq Nat /\ work \subseteq Nat /\ latest \in Nat
        /\ UNCHANGED <<parts, cur>>
        /\ \A p \in parts[cur] \cup work : p <= latest
        /\ \A p \in work \ parts[cur] : \A q \in parts[cur] : q < p
        /\ parts[cur] = {} => pc = "tail" /\ work = {}
    BY <1>4, WithinFacts, GovernedTable DEF Order, TypeOK
  <2>2. CASE Precreate
    <3>1. /\ pc = "create" /\ latest' = latest + Width[cur] /\ work' = work \cup {latest + Width[cur]}
      BY <2>2 DEF Precreate
    <3>2. latest + Width[cur] \in Nat /\ latest + Width[cur] > latest
      BY <2>1, Assumed
    <3>3. ASSUME NEW p \in parts[cur] \cup work' PROVE p <= latest'
      <4>1. CASE p \in parts[cur] \cup work
        <5>1. p \in Nat /\ p <= latest
          BY <2>1, <4>1
        <5> QED
          BY <2>1, <3>1, <3>2, <5>1
      <4>2. CASE p = latest + Width[cur]
        BY <3>1, <3>2, <4>2
      <4> QED
        BY <3>1, <4>1, <4>2
    <3>4. \A p \in work' \ parts[cur] : \A q \in parts[cur] : q < p
      BY <2>1, <3>1, <3>2
    <3> QED
      BY <2>1, <3>1, <3>3, <3>4 DEF Order
  <2>3. CASE DropTail \/ DropHead
    BY <2>1, <2>3 DEF DropTail, DropHead, Order
  <2>4. CASE FindTail
    BY <2>1, <2>4 DEF FindTail, Order, Lists
  <2>5. CASE TailDone
    BY <2>1, <2>5 DEF TailDone, Order
  <2>6. CASE CreateDone \/ FindHead \/ HeadDone
    BY <2>1, <2>6 DEF CreateDone, FindHead, HeadDone, Order
  <2> QED
    BY <1>4, <2>2, <2>3, <2>4, <2>5, <2>6 DEF Within
<1> QED
  BY <1>1, <1>2, <1>3, <1>4, StepKinds

(***************************************************************************)
(* The cold tablespace.                                                    *)
(***************************************************************************)
\* The partitions that are off the list are in the cold tablespace.
Aged == pc = "archive" => parts[cur] \ list \subseteq cold[cur]

\* Every step keeps the cold partitions the oldest ones.
LEMMA ColdStep ==
  ASSUME TypeOK, Lists, Order, Aged, ColdOldest, [Next]_vars
  PROVE  Aged' /\ ColdOldest'
<1>1. CASE UNCHANGED <<parts, cold>> /\ (pc' # "archive" \/ UNCHANGED <<pc, cur, list>>)
  BY <1>1 DEF Aged, ColdOldest
<1>2. CASE MigrateTable
  <2>1. cur' = Min(todo) /\ list' = parts[Min(todo)] /\ UNCHANGED <<parts, cold>>
    BY <1>2 DEF MigrateTable, db
  <2> QED
    BY <2>1 DEF Aged, ColdOldest
<1>3. CASE Archive
  <2>1. /\ cur \in Table /\ list \subseteq parts[cur] /\ parts[cur] \subseteq Nat
        /\ parts[cur] \ list \subseteq cold[cur]
        /\ cold' = [cold EXCEPT ![cur] = @ \cup {Min(list)}] /\ list' = list \ {Min(list)}
        /\ UNCHANGED <<parts, cur>>
    BY <1>3, Assumed DEF Archive, db, TypeOK, Lists, Aged
  <2>2. Min(list) \in list /\ \A q \in list : Min(list) <= q
    BY <1>3, Least DEF Archive, TypeOK
  <2>3. Aged'
    BY <2>1 DEF Aged, TypeOK
  <2>4. ASSUME NEW p \in cold'[cur], NEW q \in parts[cur], q < p PROVE q \in cold'[cur]
    <3>1. CASE p \in cold[cur]
      BY <2>1, <2>4, <3>1 DEF ColdOldest, TypeOK
    <3>2. CASE p = Min(list)
      <4>1. q \notin list
        BY <2>1, <2>2, <2>4, <3>2
      <4> QED
        BY <2>1, <4>1 DEF TypeOK
    <3> QED
      BY <2>1, <2>4, <3>1, <3>2 DEF TypeOK
  <2>5. \A t \in Table : t # cur => cold'[t] = cold[t]
    BY <2>1 DEF TypeOK
  <2> QED
    BY <2>1, <2>3, <2>4, <2>5 DEF ColdOldest
<1>4. CASE Commit
  <2>1. /\ cur \in Table /\ parts' = [parts EXCEPT ![cur] = work]
        /\ cold' = [cold EXCEPT ![cur] = @ \cap work] /\ pc' = "govern"
        /\ cold[cur] \subseteq parts[cur] /\ parts[cur] \subseteq Nat /\ work \subseteq Nat
    BY <1>4, Assumed DEF Commit, TypeOK
  <2>2. \A p \in work \ parts[cur] : \A q \in parts[cur] : q < p
    BY <1>4 DEF Commit, Order, Governing
  <2>3. ASSUME NEW p \in cold'[cur], NEW q \in parts'[cur], q < p PROVE q \in cold'[cur]
    <3>1. p \in cold[cur] /\ p \in parts[cur] /\ q \in work /\ p \in Nat /\ q \in Nat
      BY <2>1, <2>3 DEF TypeOK
    <3>2. q \in parts[cur]
      BY <2>2, <2>3, <3>1
    <3>3. q \in cold[cur]
      BY <2>1, <2>3, <3>1, <3>2 DEF ColdOldest
    <3> QED
      BY <2>1, <3>1, <3>3 DEF TypeOK
  <2>4. \A t \in Table : t # cur => cold'[t] = cold[t] /\ parts'[t] = parts[t]
    BY <2>1 DEF TypeOK
  <2> QED
    BY <2>1, <2>3, <2>4 DEF Aged, ColdOldest
<1>5. CASE World
  BY <1>1, <1>5, WorldFacts
<1>6. CASE GovernTable \/ Within
  BY <1>1, <1>6, WithinFacts DEF GovernTable, Governing, db
<1>7. CASE StartJob \/ MigrateNext \/ MigrateEnd \/ EndJob \/ NoPartition \/ Fail
  BY <1>1, <1>7 DEF StartJob, MigrateNext, MigrateEnd, EndJob, NoPartition, Fail, db
<1> QED
  BY <1>2, <1>3, <1>4, <1>5, <1>6, <1>7, StepKinds DEF Away

(***************************************************************************)
(* Rows that are dropped.                                                  *)
(***************************************************************************)
\* The partition about to be dropped has rows only if they came after the look.
Aware ==
  /\ pc = "dropTail" => (Max(list) \in rows[cur] => Max(list) \in raced)
  /\ pc = "dropHead" => (Min(list) \in rows[cur] => Min(list) \in raced)

\* Every step keeps what is known of the rows of the partition about to be
\* dropped.
LEMMA LossStep ==
  ASSUME TypeOK, TypeOK', Lists, Aware, LossOnlyInWindow, [Next]_vars
  PROVE  Aware' /\ LossOnlyInWindow'
<1>1. LossOnlyInWindow <=> (Governing => (parts[cur] \ work) \cap rows[cur] \subseteq raced)
  BY GovernedTable DEF LossOnlyInWindow
<1>2. LossOnlyInWindow' <=> (Governing' => (parts'[cur'] \ work') \cap rows'[cur'] \subseteq raced')
  BY Assumed DEF LossOnlyInWindow, Governing, TypeOK
<1>3. CASE World
  <2> UNCHANGED <<parts, pc, cur, list, work>>
    BY <1>3, WorldFacts
  <2>1. CASE Tick \/ UNCHANGED vars
    <3>1. UNCHANGED <<rows, raced>>
      BY <2>1 DEF Tick, vars, db, hist
    <3> QED
      BY <1>1, <1>2, <3>1 DEF Aware, Governing
  <2>2. ASSUME NEW t \in Table, NEW p \in Slot(t), Insert(t, p) PROVE Aware' /\ LossOnlyInWindow'
    <3>1. raced \subseteq raced' /\ rows'[t] \subseteq rows[t] \cup {p}
          /\ \A u \in Table : u # t => rows'[u] = rows[u]
      BY <2>2 DEF Insert, TypeOK
    <3>2. CASE ~Governing
      BY <1>2, <3>2 DEF Aware, Governing
    <3>3. CASE Governing /\ t # cur
      BY <1>1, <1>2, <3>1, <3>3, GovernedTable DEF Aware, Governing
    <3>4. CASE t = cur /\ pc \in {"dropTail", "dropHead"}
      <4>1. p \in raced'
        BY <2>2, <3>4 DEF Insert
      <4> QED
        BY <1>1, <1>2, <3>1, <3>4, <4>1 DEF Aware, Governing
    <3>5. CASE Governing /\ t = cur /\ pc \notin {"dropTail", "dropHead"}
      <4>1. work = parts[cur]
        BY <2>2, <3>5 DEF Insert, Locked, Governing
      <4> QED
        BY <1>2, <3>5, <4>1 DEF Aware
    <3> QED
      BY <3>2, <3>3, <3>4, <3>5
  <2>3. ASSUME NEW t \in Table, NEW p \in Slot(t), Purge(t, p) PROVE Aware' /\ LossOnlyInWindow'
    <3>1. raced \subseteq raced' /\ \A u \in Table : rows'[u] \subseteq rows[u]
      BY <2>3 DEF Purge, TypeOK
    <3>2. CASE ~Governing
      BY <1>2, <3>2 DEF Aware, Governing
    <3>3. CASE Governing
      BY <1>1, <1>2, <3>1, <3>3, GovernedTable DEF Aware, Governing
    <3> QED
      BY <3>2, <3>3
  <2> QED
    BY <1>3, <2>1, <2>2, <2>3 DEF World
<1>4. CASE Away
  BY <1>2, <1>4, AwayFacts DEF Aware, Governing
<1>5. CASE GovernTable
  BY <1>2, <1>5, Fetched DEF Aware
<1>6. CASE Within
  <2>1. Governing /\ UNCHANGED <<parts, rows, cur, raced>>
    BY <1>6, WithinFacts
  <2>2. CASE FindTail \/ FindHead
    BY <1>1, <1>2, <2>1, <2>2 DEF FindTail, FindHead, Empty, Aware
  <2>3. CASE DropTail
    <3>1. pc = "dropTail" /\ pc' = "tail" /\ work' = work \ {Max(work)} /\ list = work
      BY <2>3 DEF DropTail, Lists
    <3> QED
      BY <1>1, <1>2, <2>1, <3>1 DEF Aware
  <2>4. CASE DropHead
    <3>1. pc = "dropHead" /\ pc' = "head" /\ work' = work \ {Min(work)} /\ list = work
      BY <2>4 DEF DropHead, Lists
    <3> QED
      BY <1>1, <1>2, <2>1, <3>1 DEF Aware
  <2>5. CASE TailDone \/ Precreate \/ CreateDone \/ HeadDone
    <3>1. work \subseteq work' /\ pc' \notin {"dropTail", "dropHead"}
      BY <2>5 DEF TailDone, Precreate, CreateDone, HeadDone
    <3> QED
      BY <1>1, <1>2, <2>1, <3>1 DEF Aware
  <2> QED
    BY <1>6, <2>2, <2>3, <2>4, <2>5 DEF Within
<1> QED
  BY <1>3, <1>4, <1>5, <1>6, StepKinds

(***************************************************************************)
(* Contiguous partitions.                                                  *)
(***************************************************************************)

\* Contiguous without Min: every partition is the first or follows another one.
LEMMA ContiguousIff ==
  ASSUME NEW t \in Table, NEW P \in SUBSET Nat
  PROVE  Contiguous(t, P) <=> \A p \in P : (\A q \in P : p <= q) \/ p - Width[t] \in P
<1>1. ASSUME NEW p \in P PROVE p = Min(P) <=> \A q \in P : p <= q
  <2>1. Min(P) \in P /\ \A q \in P : Min(P) <= q
    BY <1>1, Least
  <2>2. ASSUME \A q \in P : p <= q PROVE p = Min(P)
    <3>1. p <= Min(P) /\ Min(P) <= p /\ p \in Nat /\ Min(P) \in Nat
      BY <2>1, <2>2
    <3> QED
      BY <3>1
  <2> QED
    BY <2>1, <2>2
<1> QED
  BY <1>1 DEF Contiguous

\* Without its last partition a table has no hole, and ends one range earlier.
LEMMA DropLast ==
  ASSUME NEW t \in Table, NEW P \in SUBSET Nat, P # {}, Bounded(P), Contiguous(t, P)
  PROVE  /\ Contiguous(t, P \ {Max(P)})
         /\ P \ {Max(P)} # {} => Max(P \ {Max(P)}) + Width[t] >= Max(P)
<1> DEFINE m == Max(P)
           Q == P \ {m}
<1>1. m \in P /\ m \in Nat /\ \A p \in P : p <= m
  BY Greatest
<1> HIDE DEF m
<1>2. Width[t] \in Nat /\ Width[t] > 0
  BY Assumed
<1>3. \A p \in P : (\A q \in P : p <= q) \/ p - Width[t] \in P
  BY ContiguousIff
<1>4. ASSUME NEW p \in P, p - Width[t] \in P PROVE p - Width[t] \in Q
  <2>1. p \in Nat /\ p <= m /\ p - Width[t] < p
    BY <1>1, <1>2
  <2> QED
    BY <1>1, <1>2, <1>4, <2>1
<1>5. \A p \in Q : (\A q \in Q : p <= q) \/ p - Width[t] \in Q
  BY <1>3, <1>4
<1>6. Contiguous(t, Q)
  BY <1>5, ContiguousIff
<1>7. ASSUME Q # {} PROVE Max(Q) + Width[t] >= m
  <2>1. Max(Q) \in Q /\ \A q \in Q : q <= Max(Q)
    BY <1>7, Greatest, BoundedPart
  <2>2. PICK q \in Q : TRUE
    BY <1>7
  <2>3. ~(m <= q)
    BY <1>1, <2>2
  <2>4. m - Width[t] \in Q
    BY <1>1, <1>3, <1>4, <2>2, <2>3
  <2>5. m - Width[t] <= Max(Q) /\ Max(Q) \in Nat
    BY <2>1, <2>4
  <2> QED
    BY <1>1, <1>2, <2>5
<1> QED
  BY <1>6, <1>7 DEF m

\* Nor has it one without its first partition,
LEMMA DropFirst ==
  ASSUME NEW t \in Table, NEW P \in SUBSET Nat, P # {}, Contiguous(t, P)
  PROVE  Contiguous(t, P \ {Min(P)})
<1> DEFINE m == Min(P)
           Q == P \ {m}
<1>1. m \in P /\ m \in Nat /\ \A p \in P : m <= p
  BY Least
<1> HIDE DEF m
<1>2. Width[t] \in Nat /\ Width[t] > 0
  BY Assumed
<1>3. \A p \in P : (\A q \in P : p <= q) \/ p - Width[t] \in P
  BY ContiguousIff
<1>4. \A p \in Q : p - Width[t] \in P /\ p \in Nat
  <2> SUFFICES ASSUME NEW p \in Q PROVE p - Width[t] \in P /\ p \in Nat
    OBVIOUS
  <2>1. ~(p <= m)
    BY <1>1
  <2> QED
    BY <1>1, <1>3, <2>1
<1>5. ASSUME NEW p \in Q PROVE (\A q \in Q : p <= q) \/ p - Width[t] \in Q
  <2>1. CASE p - Width[t] = m
    <3>1. ASSUME NEW q \in Q PROVE p <= q
      <4>1. m <= q - Width[t] /\ q \in Nat /\ p \in Nat
        BY <1>1, <1>4, <3>1, <1>5
      <4> QED
        BY <1>1, <1>2, <2>1, <4>1
    <3> QED
      BY <3>1
  <2>2. CASE p - Width[t] # m
    BY <1>4, <1>5, <2>2
  <2> QED
    BY <2>1, <2>2
<1>6. Contiguous(t, Q)
  BY <1>5, ContiguousIff
<1> QED
  BY <1>6 DEF m

\* or with one more after the last.
LEMMA AddNext ==
  ASSUME NEW t \in Table, NEW P \in SUBSET Nat, Contiguous(t, P), NEW l \in P,
         \A p \in P : p <= l
  PROVE  Contiguous(t, P \cup {l + Width[t]})
<1> DEFINE n == l + Width[t]
           Q == P \cup {n}
<1>1. n \in Nat /\ n - Width[t] = l /\ \A p \in P : p <= n
  <2>1. Width[t] \in Nat /\ l \in Nat
    BY Assumed
  <2>2. ASSUME NEW p \in P PROVE p <= l + Width[t]
    <3>1. p \in Nat /\ p <= l
      OBVIOUS
    <3> QED
      BY <2>1, <3>1
  <2> QED
    BY <2>1, <2>2
<1> HIDE DEF n
<1>2. \A p \in P : (\A q \in P : p <= q) \/ p - Width[t] \in P
  BY ContiguousIff
<1>3. \A p \in Q : (\A q \in Q : p <= q) \/ p - Width[t] \in Q
  BY <1>1, <1>2
<1>4. Q \in SUBSET Nat
  BY <1>1
<1> HIDE DEF Q
<1>5. Contiguous(t, Q)
  BY <1>3, <1>4, ContiguousIff
<1> QED
  BY <1>5 DEF n, Q

\* The greatest element stays when the least one goes.
LEMMA FirstGone ==
  ASSUME NEW P \in SUBSET Nat, Bounded(P), P \ {Min(P)} # {}
  PROVE  Max(P \ {Min(P)}) = Max(P)
<1> DEFINE Q == P \ {Min(P)}
<1>1. Max(P) \in P /\ (\A p \in P : p <= Max(P)) /\ Min(P) \in P /\ \A p \in P : Min(P) <= p
  BY Greatest, Least
<1>2. Max(Q) \in Q /\ \A p \in Q : p <= Max(Q)
  BY Greatest, BoundedPart
<1>3. Max(P) \in Q
  <2>1. Max(Q) \in P /\ Max(Q) # Min(P)
    BY <1>2
  <2> HIDE DEF Q
  <2>2. Max(P) # Min(P)
    <3>1. Max(Q) <= Max(P) /\ Min(P) <= Max(Q) /\ Max(Q) \in Nat /\ Max(P) \in Nat /\ Min(P) \in Nat
      BY <1>1, <2>1
    <3> QED
      BY <2>1, <3>1
  <2> QED
    BY <1>1, <2>2 DEF Q
<1>4. Max(Q) <= Max(P) /\ Max(P) <= Max(Q) /\ Max(P) \in Nat /\ Max(Q) \in Nat
  BY <1>1, <1>2, <1>3
<1> QED
  BY <1>4

\* The two checks of the horizon.
LEMMA HorizonFacts ==
  ASSUME TypeOK, NEW t \in Table
  PROVE  /\ Horizon(t) \in Nat /\ Width[t] \in Nat /\ Width[t] > 0
         /\ \A p \in Nat : /\ Ahead(t, p) \in Int /\ Ahead(t, p) = p + Width[t] - now
                           /\ NeedClean(t, p) <=> Ahead(t, p) > Horizon(t)
                           /\ NeedPrecreate(t, p) <=> Ahead(t, p) < Horizon(t)
<1> DEFINE L == Limit * Width[t]
<1>1. L \in Nat /\ Year \in Nat /\ Width[t] \in Nat /\ Width[t] > 0 /\ now \in Nat
  BY Assumed DEF TypeOK
<1>2. Horizon(t) = IF L < Year THEN L ELSE Year
  BY DEF Horizon
<1>3. \A p \in Nat : /\ Ahead(t, p) = p + Width[t] - now
                     /\ NeedClean(t, p) <=> Ahead(t, p) > L \/ Ahead(t, p) > Year
                     /\ NeedPrecreate(t, p) <=> Ahead(t, p) < L /\ Ahead(t, p) < Year
  BY DEF Ahead, NeedClean, NeedPrecreate
<1> HIDE DEF L
<1> QED
  BY <1>1, <1>2, <1>3

(***************************************************************************)
(* The horizon.                                                            *)
(***************************************************************************)
\* The table in hand has no holes, and the clock stands still.
Steady == Governing /\ ~ticked /\ Contiguous(cur, parts[cur])

\* The partitions w of the table in hand, with the latest one l, in stage s: there
\* are no holes; nothing is precreated after a partition that was dropped for
\* lying too far ahead; and the last one ends about one horizon ahead as soon as
\* the stage is over that sees to it.
Planned(w, l, s) ==
  /\ Contiguous(cur, w)
  /\ s \in {"tail", "dropTail", "create"} /\ parts[cur] # {} => l \in w \/ NeedClean(cur, l)
  /\ s = "dropTail" => NeedClean(cur, Max(w))
  /\ w # {} =>
       /\ s \in {"tail", "dropTail", "create"} =>
            Max(w) = l \/ NeedClean(cur, Max(w) + Width[cur])
       /\ s \notin {"tail", "dropTail"} =>
            \/ Ahead(cur, Max(w)) < Horizon(cur) + Width[cur]
            \/ ~Empty(cur, Max(w)) \/ Max(w) \in raced
       /\ s \in {"head", "dropHead"} => Ahead(cur, Max(w)) > Horizon(cur) - Width[cur]

Plan == Steady => Planned(work, latest, pc)

\* Steps on the table in hand go by the plan.
LEMMA PlannedWithin ==
  ASSUME TypeOK, Lists, Order, Within, Steady, Planned(work, latest, pc)
  PROVE  Planned(work', latest', pc')
<1>1. /\ cur \in Table /\ work \in SUBSET Nat /\ Bounded(work) /\ latest \in Nat
      /\ \A p \in work : p <= latest
      /\ parts[cur] = {} => pc = "tail" /\ work = {}
  BY GovernedTable DEF Steady, Order, TypeOK, Lists
<1>2. /\ Horizon(cur) \in Nat /\ Width[cur] \in Nat /\ Width[cur] > 0
      /\ \A p \in Nat : /\ Ahead(cur, p) \in Int /\ Ahead(cur, p) = p + Width[cur] - now
                        /\ NeedClean(cur, p) <=> Ahead(cur, p) > Horizon(cur)
                        /\ NeedPrecreate(cur, p) <=> Ahead(cur, p) < Horizon(cur)
      /\ now \in Nat
  BY <1>1, HorizonFacts DEF TypeOK
<1>3. CASE FindTail
  <2>1. /\ pc = "tail" /\ pc' = "dropTail" /\ NeedClean(cur, Max(work))
        /\ work' = work /\ latest' = latest
    BY <1>3 DEF FindTail, Lists
  <2> QED
    BY <2>1 DEF Planned
<1>4. CASE DropTail
  <2>1. /\ pc = "dropTail" /\ pc' = "tail" /\ work # {}
        /\ work' = work \ {Max(work)} /\ latest' = latest
    BY <1>4 DEF DropTail, Lists
  <2>2. /\ Contiguous(cur, work')
        /\ work' # {} => Max(work') + Width[cur] >= Max(work)
    BY <1>1, <2>1, DropLast DEF Planned
  <2>3. Max(work) \in work /\ Max(work) \in Nat /\ NeedClean(cur, Max(work))
    BY <2>1, WorkEnds DEF Planned
  <2>4. parts[cur] # {} => latest \in work' \/ NeedClean(cur, latest)
    BY <2>1, <2>3 DEF Planned
  <2>5. ASSUME work' # {} PROVE NeedClean(cur, Max(work') + Width[cur])
    <3>1. Max(work') \in Nat
      BY <1>1, <2>1, <2>5, Greatest, BoundedPart
    <3>2. Max(work') + Width[cur] \in Nat /\ Max(work') + Width[cur] >= Max(work)
      BY <1>2, <2>2, <2>5, <3>1
    <3> HIDE <2>2
    <3> DEFINE n == Max(work') + Width[cur]
    <3> HIDE DEF n
    <3>3. n \in Nat /\ n >= Max(work)
      BY <3>2 DEF n
    <3>4. NeedClean(cur, n)
      BY <1>2, <2>3, <3>3
    <3> QED
      BY <3>4 DEF n
  <2> QED
    BY <2>1, <2>2, <2>4, <2>5 DEF Planned
<1>5. CASE TailDone
  <2>1. /\ pc = "tail" /\ pc' = "create" /\ work' = work /\ latest' = latest
        /\ work # {} => ~NeedClean(cur, Max(work)) \/ ~Empty(cur, Max(work))
    BY <1>5 DEF TailDone, Lists
  <2>2. ASSUME work # {}, ~NeedClean(cur, Max(work))
        PROVE  Ahead(cur, Max(work)) < Horizon(cur) + Width[cur]
    BY <1>2, <2>2, WorkEnds
  <2> QED
    BY <2>1, <2>2 DEF Planned
<1>6. CASE Precreate
  <2>1. /\ pc = "create" /\ pc' = "create" /\ NeedPrecreate(cur, latest)
        /\ work' = work \cup {latest + Width[cur]} /\ latest' = latest + Width[cur]
    BY <1>6 DEF Precreate
  <2>2. parts[cur] # {} /\ ~NeedClean(cur, latest)
    BY <1>1, <1>2, <2>1
  <2>3. latest \in work
    BY <2>1, <2>2 DEF Planned
  <2>4. Contiguous(cur, work')
    BY <1>1, <2>1, <2>3, AddNext DEF Planned
  <2>5. latest' \in Nat /\ latest' \in work' /\ \A p \in work' : p <= latest'
    <3>1. latest' \in Nat /\ latest <= latest'
      BY <1>1, <1>2, <2>1
    <3>2. ASSUME NEW p \in work PROVE p <= latest'
      <4>1. p <= latest /\ p \in Nat
        BY <1>1
      <4> QED
        BY <1>1, <3>1, <4>1
    <3> QED
      BY <2>1, <3>1, <3>2
  <2>6. Max(work') = latest'
    <3>1. work' \in SUBSET Nat /\ Bounded(work')
      BY <1>1, <2>1, <2>5, BoundedMore
    <3>2. Max(work') \in work' /\ latest' <= Max(work') /\ Max(work') <= latest' /\ Max(work') \in Nat
      BY <2>5, <3>1, Greatest
    <3> QED
      BY <2>5, <3>2
  <2>7. Ahead(cur, latest') < Horizon(cur) + Width[cur]
    <3>1. Ahead(cur, latest') = latest' + Width[cur] - now /\ Ahead(cur, latest) < Horizon(cur)
          /\ Ahead(cur, latest) = latest + Width[cur] - now
      BY <1>1, <1>2, <2>1, <2>5
    <3> QED
      BY <1>1, <1>2, <2>1, <3>1
  <2> QED
    BY <2>1, <2>4, <2>5, <2>6, <2>7 DEF Planned
<1>7. CASE CreateDone
  <2>1. /\ pc = "create" /\ pc' = "head" /\ ~NeedPrecreate(cur, latest)
        /\ work' = work /\ latest' = latest
    BY <1>7 DEF CreateDone
  <2>2. ASSUME work # {} PROVE Ahead(cur, Max(work)) > Horizon(cur) - Width[cur]
    <3>1. Max(work) \in Nat
      BY <2>2, WorkEnds
    <3>2. CASE Max(work) = latest
      BY <1>2, <2>1, <3>1, <3>2
    <3>3. CASE NeedClean(cur, Max(work) + Width[cur])
      <4> DEFINE n == Max(work) + Width[cur]
      <4>1. n \in Nat /\ n - Width[cur] = Max(work)
        BY <1>2, <3>1
      <4> HIDE DEF n
      <4>2. Ahead(cur, n) > Horizon(cur) /\ Ahead(cur, n) = n + Width[cur] - now
        BY <1>2, <3>3, <4>1 DEF n
      <4>3. Ahead(cur, Max(work)) = Max(work) + Width[cur] - now
        BY <1>2, <3>1
      <4> QED
        BY <1>2, <3>1, <4>1, <4>2, <4>3
    <3> QED
      BY <2>1, <2>2, <3>2, <3>3 DEF Planned
  <2> QED
    BY <2>1, <2>2 DEF Planned
<1>8. CASE FindHead \/ HeadDone
  BY <1>8 DEF FindHead, HeadDone, Planned
<1>9. CASE DropHead
  <2>1. /\ pc = "dropHead" /\ pc' = "head" /\ work # {}
        /\ work' = work \ {Min(work)} /\ latest' = latest
    BY <1>9 DEF DropHead, Lists
  <2>2. Contiguous(cur, work')
    BY <1>1, <2>1, DropFirst DEF Planned
  <2>3. work' # {} => Max(work') = Max(work)
    BY <1>1, <2>1, FirstGone
  <2> QED
    BY <2>1, <2>2, <2>3 DEF Planned
<1> QED
  BY <1>3, <1>4, <1>5, <1>6, <1>7, <1>8, <1>9 DEF Within

\* Every step keeps the plan.
LEMMA PlanStep ==
  ASSUME TypeOK, Lists, Order, Plan, [Next]_vars
  PROVE  Plan'
<1>1. CASE World
  <2>1. UNCHANGED <<parts, pc, cur, work, latest>>
    BY <1>1, WorldFacts
  <2>2. CASE UNCHANGED vars
    BY <2>2 DEF vars, db, job, hist, Plan, Steady, Governing, Planned, NeedClean, Ahead, Empty
  <2>3. CASE Tick
    BY <2>1, <2>3, GovernedTable DEF Tick, Plan, Steady, Governing
  <2>4. ASSUME NEW t \in Table, NEW p \in Slot(t), Insert(t, p) \/ Purge(t, p) PROVE Plan'
    <3>1. UNCHANGED <<now, ticked>> /\ raced \subseteq raced'
      BY <2>4 DEF Insert, Purge
    <3>2. ASSUME Governing
          PROVE  \A q : ~Empty(cur, q) \/ q \in raced
                          => \/ ~(q \notin rows'[cur] /\ (q \in parts[cur] \/ q \notin default'[cur]))
                             \/ q \in raced'
      <4>1. cur \in Table
        BY <3>2, GovernedTable
      <4>2. \A q : /\ q \in rows[cur] => q \in rows'[cur] \/ q \in raced'
                   /\ q \in default[cur] => q \in default'[cur]
        BY <2>4, <4>1 DEF Insert, Purge, TypeOK
      <4> QED
        BY <2>1, <3>1, <3>2, <4>2 DEF Empty
    <3> SUFFICES ASSUME Steady' PROVE Planned(work, latest, pc)'
      BY DEF Plan
    <3>3. Steady /\ Governing /\ Planned(work, latest, pc)
      BY <2>1, <3>1 DEF Plan, Steady, Governing
    <3>4. ~Empty(cur, Max(work)) \/ Max(work) \in raced
            => (~Empty(cur, Max(work)) \/ Max(work) \in raced)'
      BY <2>1, <3>2, <3>3 DEF Empty
    <3> QED
      BY <2>1, <3>1, <3>3, <3>4 DEF Planned, NeedClean, Ahead
  <2> QED
    BY <1>1, <2>2, <2>3, <2>4 DEF World
<1>2. CASE Away
  BY <1>2, AwayFacts DEF Plan, Steady
<1>3. CASE GovernTable
  BY <1>3, Fetched DEF Plan, Steady, Planned
<1>4. CASE Within
  <2>1. UNCHANGED <<now, parts, rows, default, cur, ticked, raced>> /\ Governing
    BY <1>4, WithinFacts
  <2> SUFFICES ASSUME Steady' PROVE Planned(work, latest, pc)'
    BY DEF Plan
  <2>2. Steady /\ Planned(work, latest, pc)
    BY <2>1 DEF Plan, Steady
  <2>3. Planned(work', latest', pc')
    BY <1>4, <2>2, PlannedWithin
  <2> QED
    BY <2>1, <2>3 DEF Planned, NeedClean, Ahead, Empty
<1> QED
  BY <1>1, <1>2, <1>3, <1>4, StepKinds

(***************************************************************************)
(* The theorems.                                                           *)
(***************************************************************************)
IInv == Order /\ Aged /\ Aware /\ Plan

\* The inductive invariant holds in every reachable state.
THEOREM Invariance == Spec => [](TypeOK /\ Lists /\ IInv /\ ColdOldest /\ LossOnlyInWindow)
<1>1. Init => IInv /\ ColdOldest /\ LossOnlyInWindow
  BY DEF Init, IInv, Order, Aged, Aware, Plan, Steady, Governing, ColdOldest, LossOnlyInWindow
<1>2. TypeOK /\ TypeOK' /\ Lists /\ IInv /\ ColdOldest /\ LossOnlyInWindow /\ [Next]_vars
        => IInv' /\ ColdOldest' /\ LossOnlyInWindow'
  BY OrderStep, ColdStep, LossStep, PlanStep DEF IInv
<1> QED
  BY <1>1, <1>2, ListsCorrect, PTL DEF Spec

\* The partitions in the cold tablespace are the oldest ones of their table.
THEOREM OldestAreCold == Spec => []ColdOldest
BY Invariance, PTL

\* Rows are dropped with a partition only if they came between the look at it and
\* the drop.
THEOREM LossIsRaced == Spec => []LossOnlyInWindow
BY Invariance, PTL

\* The last partition of a table ends about one horizon ahead.
THEOREM HorizonIsKept == Spec => []HorizonKept
<1>1. IInv => HorizonKept
  <2> SUFFICES ASSUME IInv, pc = "head", ~ticked, work # {}, Contiguous(cur, parts[cur])
               PROVE  LET last == Max(work) IN
                      /\ Ahead(cur, last) > Horizon(cur) - Width[cur]
                      /\ \/ Ahead(cur, last) < Horizon(cur) + Width[cur]
                         \/ ~Empty(cur, last) \/ last \in raced
    BY DEF HorizonKept
  <2>1. Planned(work, latest, pc)
    BY DEF IInv, Plan, Steady, Governing
  <2> QED
    BY <2>1 DEF Planned
<1> QED
  BY <1>1, Invariance, PTL

\* A job leaves no hole between partitions unless the clock moves meanwhile.
THEOREM HolesAreTicked == Spec => HoleOnlyIfTicked
<1>1. ASSUME TypeOK, IInv, [Next]_vars, NEW t \in Table,
             Contiguous(t, parts[t]), ~(cur = t /\ ticked)
      PROVE  Contiguous(t, parts'[t])
  <2>1. CASE Commit
    <3>1. parts' = [parts EXCEPT ![cur] = work]
      BY <2>1 DEF Commit
    <3>2. CASE t = cur
      <4>1. Steady
        BY <1>1, <2>1, <3>2 DEF Commit, Steady, Governing
      <4>2. Contiguous(cur, work)
        BY <1>1, <4>1 DEF IInv, Plan, Planned
      <4> QED
        BY <1>1, <3>1, <3>2, <4>2 DEF TypeOK
    <3>3. CASE t # cur
      BY <1>1, <3>1, <3>3 DEF TypeOK
    <3> QED
      BY <3>2, <3>3
  <2>2. CASE World \/ Within
    BY <1>1, <2>2, WorldFacts, WithinFacts
  <2>3. CASE UNCHANGED db
    BY <1>1, <2>3 DEF db
  <2>4. Away /\ ~Commit => UNCHANGED db
    BY DEF Away, StartJob, MigrateTable, Archive, MigrateNext, MigrateEnd, EndJob, NoPartition,
       Fail
  <2>5. GovernTable => UNCHANGED db
    BY DEF GovernTable
  <2> QED
    BY <1>1, <2>1, <2>2, <2>3, <2>4, <2>5, StepKinds
<1>2. TypeOK /\ IInv /\ [Next]_vars
        => [\A t \in Table :
              Contiguous(t, parts[t]) /\ ~(cur = t /\ ticked) => Contiguous(t, parts'[t])]_vars
  BY <1>1
<1> QED
  BY <1>2, Invariance, PTL DEF Spec, HoleOnlyIfTicked

(***************************************************************************)
(* The job implements PartitionTable.                                      *)
(***************************************************************************)
\* What the transaction has left of the old partitions is a stretch of them.
Stretch ==
  Governing =>
    \A a, b \in work \cap parts[cur], p \in parts[cur] : a < p /\ p < b => p \in work

\* Between two tables nothing has come too late.
Rested == cur = 0 => raced = {}

\* The transaction drops its first or its last partition, so a stretch remains.
LEMMA StretchStep ==
  ASSUME TypeOK, Lists, Order, Stretch, [Next]_vars
  PROVE  Stretch'
<1>1. CASE World
  BY <1>1, WorldFacts DEF Stretch, Governing
<1>2. CASE Away
  BY <1>2, AwayFacts DEF Stretch
<1>3. CASE GovernTable
  BY <1>3, Fetched DEF Stretch
<1>4. CASE Within
  <2>1. /\ cur \in Table /\ parts[cur] \subseteq Nat /\ work \subseteq Nat /\ latest \in Nat
        /\ UNCHANGED <<parts, cur>> /\ Governing
        /\ \A a, b \in work \cap parts[cur], p \in parts[cur] : a < p /\ p < b => p \in work
    BY <1>4, WithinFacts, GovernedTable DEF Stretch, TypeOK
  <2>2. CASE DropTail
    <3>1. work # {} /\ work' = work \ {Max(work)}
      BY <2>2 DEF DropTail, Lists
    <3>2. \A p \in work : p <= Max(work)
      BY <3>1, WorkEnds
    <3> QED
      BY <2>1, <3>1, <3>2, WorkEnds DEF Stretch
  <2>3. CASE DropHead
    <3>1. work # {} /\ work' = work \ {Min(work)}
      BY <2>3 DEF DropHead, Lists
    <3>2. \A p \in work : Min(work) <= p
      BY <3>1, WorkEnds
    <3> QED
      BY <2>1, <3>1, <3>2, WorkEnds DEF Stretch
  <2>4. CASE Precreate
    <3>1. work' = work \cup {latest + Width[cur]}
      BY <2>4 DEF Precreate
    <3>2. latest + Width[cur] > latest /\ \A p \in parts[cur] : p <= latest
      BY <2>1, Assumed DEF Order
    <3>3. latest + Width[cur] \notin parts[cur]
      BY <2>1, <3>2, Assumed
    <3> QED
      BY <2>1, <3>1, <3>3 DEF Stretch
  <2>5. CASE FindTail \/ TailDone \/ CreateDone \/ FindHead \/ HeadDone
    <3>1. UNCHANGED work
      BY <2>5 DEF FindTail, TailDone, CreateDone, FindHead, HeadDone
    <3> QED
      BY <2>1, <3>1 DEF Stretch
  <2> QED
    BY <1>4, <2>2, <2>3, <2>4, <2>5 DEF Within
<1> QED
  BY <1>1, <1>2, <1>3, <1>4, StepKinds

\* Releasing a table forgets what came too late.
LEMMA RestedStep ==
  ASSUME TypeOK, Rested, [Next]_vars
  PROVE  Rested'
<1>1. CASE World
  <2>1. UNCHANGED cur /\ (cur = 0 => UNCHANGED raced)
    BY <1>1, WorldFacts DEF World, Tick, Insert, Purge, vars, hist, Table
  <2> QED
    BY <2>1 DEF Rested
<1>2. CASE Away
  BY <1>2 DEF Away, StartJob, MigrateTable, Archive, MigrateNext, MigrateEnd, Commit, EndJob,
     NoPartition, Fail, Release, hist, Rested, TypeOK
<1>3. CASE GovernTable
  BY <1>3, TodoMin DEF GovernTable, Table, Rested
<1>4. CASE Within
  BY <1>4, WithinFacts DEF Rested
<1> QED
  BY <1>1, <1>2, <1>3, <1>4, StepKinds

\* The invariant the refinement needs.
THEOREM StretchInvariance == Spec => [](Stretch /\ Rested)
<1>1. Init => Stretch /\ Rested
  BY DEF Init, Stretch, Rested, Governing
<1> QED
  BY <1>1, StretchStep, RestedStep, Invariance, PTL DEF Spec, IInv

\* The first states are those of PartitionTable.
LEMMA KeptInit == Init => Kept!Init
<1> SUFFICES ASSUME Init PROVE Kept!Init
  OBVIOUS
<1>1. TypeOK
  BY InitLists
<1> QED
  BY <1>1 DEF Init, TypeOK, Kept!Init, Governing

\* A step that changes nothing a user sees.
LEMMA KeptStutter ==
  ASSUME UNCHANGED <<parts, rows, default, cold>>,
         \/ Governing /\ Governing' /\ UNCHANGED <<cur, raced>>
         \/ ~Governing /\ ~Governing'
  PROVE  UNCHANGED Kept!vars
BY DEF Kept!vars

\* An insert or a delete is one of PartitionTable.
LEMMA KeptWorld ==
  ASSUME TypeOK, World
  PROVE  [Kept!Next]_(Kept!vars)
<1>1. UNCHANGED <<pc, cur>> /\ (Governing' <=> Governing)
  BY WorldFacts DEF Governing
<1>2. CASE Tick \/ UNCHANGED vars
  <2>1. UNCHANGED <<parts, rows, default, cold, raced>>
    BY <1>2 DEF Tick, vars, db, hist
  <2>2. UNCHANGED Kept!vars
    BY <1>1, <2>1, KeptStutter
  <2> QED
    BY <2>2
<1>3. ASSUME NEW t \in Table, NEW p \in Slot(t), Insert(t, p) PROVE Kept!Next
  <2>1. Kept!Insert(t, p)
    <3>1. Kept!Touch(t, p)
      BY <1>1, <1>3 DEF Insert, Kept!Touch
    <3> QED
      BY <1>1, <1>3, <3>1 DEF Insert, Kept!Insert
  <2>2. p \in UNION {Slot(u) : u \in Table}
    OBVIOUS
  <2> QED
    BY <2>1, <2>2 DEF Kept!Next
<1>4. ASSUME NEW t \in Table, NEW p \in Slot(t), Purge(t, p) PROVE Kept!Next
  <2>1. Kept!Purge(t, p)
    <3>1. Kept!Touch(t, p)
      BY <1>1, <1>4 DEF Purge, Kept!Touch
    <3> QED
      BY <1>1, <1>4, <3>1 DEF Purge, Kept!Purge
  <2>2. p \in UNION {Slot(u) : u \in Table}
    OBVIOUS
  <2> QED
    BY <2>1, <2>2 DEF Kept!Next
<1> QED
  BY <1>2, <1>3, <1>4 DEF World

\* The migration moves the oldest partition that is not cold yet, or one that is
\* cold already.
LEMMA KeptArchive ==
  ASSUME TypeOK, Lists, Aged, Archive
  PROVE  [Kept!Next]_(Kept!vars)
<1>1. /\ cur \in Table /\ list \subseteq parts[cur] /\ parts[cur] \subseteq Nat
      /\ parts[cur] \ list \subseteq cold[cur]
      /\ cold' = [cold EXCEPT ![cur] = @ \cup {Min(list)}]
      /\ UNCHANGED <<parts, rows, default>> /\ ~Governing /\ ~Governing'
  BY Assumed DEF Archive, db, TypeOK, Lists, Aged, Governing
<1>2. Min(list) \in list /\ \A q \in list : Min(list) <= q
  BY Least DEF Archive, TypeOK
<1>3. CASE Min(list) \in cold[cur]
  <2>1. cold' = cold
    BY <1>1, <1>3 DEF TypeOK
  <2> QED
    BY <1>1, <2>1, KeptStutter
<1>4. CASE Min(list) \notin cold[cur]
  <2>1. \A q \in parts[cur] : q < Min(list) => q \in cold[cur]
    BY <1>1, <1>2
  <2>2. Kept!Archive(cur)
    BY <1>1, <1>2, <1>4, <2>1 DEF Kept!Archive
  <2> QED
    BY <1>1, <2>2 DEF Kept!Next
<1> QED
  BY <1>3, <1>4

\* The commit is the one step in which the table changes.
LEMMA KeptCommit ==
  ASSUME TypeOK, Order, Stretch, LossOnlyInWindow, Commit
  PROVE  Kept!Commit(cur) /\ cur \in Table
<1>1. /\ cur \in Table /\ work \subseteq Nat /\ Governing /\ ~Governing'
      /\ parts' = [parts EXCEPT ![cur] = work]
      /\ rows' = [rows EXCEPT ![cur] = (@ \cap work) \cup (default[cur] \cap (work \ parts[cur]))]
      /\ default' = [default EXCEPT ![cur] = @ \ (work \ parts[cur])]
      /\ cold' = [cold EXCEPT ![cur] = @ \cap work]
      /\ rows[cur] \subseteq parts[cur] /\ cold[cur] \subseteq parts[cur]
  BY Assumed DEF Commit, TypeOK, Governing
<1>2. parts'[cur] = work
  BY <1>1 DEF TypeOK
<1>3. Kept!AtTheEnds(parts[cur], parts[cur] \cap work, work \ parts[cur])
  BY <1>1 DEF Kept!AtTheEnds, Stretch, Order
<1>4. rows[cur] \subseteq (parts[cur] \cap work) \cup raced
  BY <1>1 DEF LossOnlyInWindow
<1>5. /\ rows' = [rows EXCEPT ![cur] = (@ \cap (parts[cur] \cap work)) \cup (default[cur] \cap (work \ parts[cur]))]
      /\ cold' = [cold EXCEPT ![cur] = @ \cap (parts[cur] \cap work)]
  <2>1. /\ rows[cur] \cap work = rows[cur] \cap (parts[cur] \cap work)
        /\ cold[cur] \cap work = cold[cur] \cap (parts[cur] \cap work)
    BY <1>1
  <2> QED
    BY <1>1, <2>1
<1> QED
  BY <1>1, <1>2, <1>3, <1>4, <1>5 DEF Kept!Commit

\* Every step of the job is a step of PartitionTable, or none.
LEMMA KeptStep ==
  ASSUME TypeOK, Lists, Order, Aged, Stretch, Rested, LossOnlyInWindow, [Next]_vars
  PROVE  [Kept!Next]_(Kept!vars)
<1>1. CASE World
  BY <1>1, KeptWorld
<1>2. CASE Within
  BY <1>2, WithinFacts, KeptStutter
<1>3. CASE Archive
  BY <1>3, KeptArchive
<1>4. CASE Commit
  BY <1>4, KeptCommit DEF Kept!Next
<1>5. CASE GovernTable
  <2>1. /\ cur' = Min(todo) /\ UNCHANGED <<parts, rows, default, cold>>
        /\ ~Governing /\ Governing' /\ raced' = {}
    BY <1>5 DEF GovernTable, db, hist, Governing, Rested, TypeOK
  <2>2. Kept!Begin(cur') /\ cur' \in Table
    BY <1>5, <2>1, TodoMin DEF GovernTable, Kept!Begin
  <2> QED
    BY <2>2 DEF Kept!Next
<1>6. CASE StartJob \/ MigrateTable \/ MigrateNext \/ MigrateEnd \/ EndJob
  <2>1. UNCHANGED <<parts, rows, default, cold>> /\ ~Governing /\ ~Governing'
    BY <1>6 DEF StartJob, MigrateTable, MigrateNext, MigrateEnd, EndJob, Governing, db
  <2> QED
    BY <2>1, KeptStutter
<1>7. CASE NoPartition \/ Fail
  <2>1. UNCHANGED <<parts, rows, default, cold>> /\ ~Governing'
    BY <1>7 DEF NoPartition, Fail, Governing, db
  <2>2. CASE Governing
    BY <2>1, <2>2 DEF Kept!Next, Kept!Rollback
  <2>3. CASE ~Governing
    BY <2>1, <2>3, KeptStutter
  <2> QED
    BY <2>2, <2>3
<1> QED
  BY <1>1, <1>2, <1>3, <1>4, <1>5, <1>6, <1>7, StepKinds DEF Away

\* The job implements PartitionTable: a table changes in one step and at its ends
\* only, and loses only rows that came too late.
THEOREM Refinement == Spec => TablesKept
<1>1. TypeOK /\ Lists /\ IInv /\ LossOnlyInWindow /\ Stretch /\ Rested /\ [Next]_vars
        => [Kept!Next]_(Kept!vars)
  BY KeptStep DEF IInv
<1> QED
  BY <1>1, KeptInit, Invariance, StretchInvariance, PTL DEF Spec, TablesKept, Kept!Spec
=============================================================================
