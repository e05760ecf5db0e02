--------------------------- MODULE CdcGuardProofs ---------------------------
(***************************************************************************)
(* Type correctness and the safety of the repair stages of the CDC guard,  *)
(* for every number of connectors, tasks and databases.                    *)
(***************************************************************************)
EXTENDS CdcGuard, FiniteSetTheorems, TLAPS

(***************************************************************************)
(* The inductive invariant behind the safety properties of CdcGuard.       *)
(***************************************************************************)

\* What a stage has still to handle, so that it cannot have handled it yet.
PendingFailed(t) ==
  \/ pc \in {"idle", "source", "failed"}
  \/ \E trace \in Traces : <<t, trace>> \in fails

InLoop(t) == t[1] \in left \/ (t[1] = cur /\ t[2] >= nxt)

PendingLag(t) ==
  \/ pc \in {"idle", "source", "failed", "restarting", "lag"}
  \/ pc = "lagging" /\ InLoop(t)

PendingSlot(t) ==
  \/ pc # "slot"
  \/ t[1] \in PgSource /\ DbOf[t[1]] \in dbs
  \/ InLoop(t)

Fresh(s, t) == posts[<<s, t>>] = 0 /\ <<s, t>> \notin skipped

\* The control state of the loops.
LoopShape ==
  /\ pc # "restarting" => fails = {}
  /\ pc \notin {"lagging", "slot"} => left = {} /\ cur = None
  /\ pc = "lagging" => left \subseteq Sink /\ cur \in Sink \cup {None}
  /\ pc = "slot" => /\ db = None => left = {} /\ cur = None
                    /\ db # None => left \cup {cur} \subseteq conns[db] \cup {None}
  /\ pc # "slot" => db = None
  /\ db \notin dbs
  /\ cur \notin left
  /\ \A d \in Db : \A c \in conns[d] : DbOf[c] = d
  /\ nxt = 0 => ~restart_needed /\ ~recreate_needed
  /\ cur = None => nxt = 0
  /\ \A f, g \in fails : f[1] = g[1] => f = g

\* What the guard acts on was true of the cluster at some time of this pass:
\* the cluster's own state is remembered, and so is what the guard holds.
Remembered ==
  /\ \A t \in Task : task[t].trace # "none" => task[t].state = "FAILED"
  /\ pc # "idle" =>
       /\ \A t \in Task : task[t].state = "FAILED" => t \in failedSeen
       /\ \A c \in PgSource : task[<<c, 0>>].trace = "duplicate" => c \in fatalSeen
       /\ lag \subseteq lagSeen

GroundedLocals ==
  /\ \A f \in fails : f[1] \in failedSeen
  /\ pc = "lagging" => left \cup {cur} \subseteq lagSeen \cup {None}
  /\ db # None => db \in suspect
  /\ \A i \in DOMAIN snap :
       cur \in PgSource /\ snap[i].trace = "duplicate" => cur \in fatalSeen
  /\ cur \in PgSource /\ recreate_needed => cur \in fatalSeen
  /\ pc = "idle" => dropped = {}

Grounded == Remembered /\ GroundedLocals

HandledOnce ==
  \A t \in Task :
    /\ PendingFailed(t) => Fresh("failed", t)
    /\ PendingLag(t) => Fresh("lag", t)
    /\ PendingSlot(t) => Fresh("slot", t)

Safety == RestartBudget /\ NoGratuitousRestart /\ DropOnlyAfterFatal /\ SkipHonoured

IInv == TypeOK /\ LoopShape /\ Grounded /\ HandledOnce /\ Safety

-----------------------------------------------------------------------------
USE CdcGuardAssumption DEF CdcGuardAssumption

\* Tasks and their indexes.
LEMMA TaskFacts ==
  /\ \A t \in Task : t = <<t[1], t[2]>> /\ t[1] \in Connector /\ t[2] \in Ids(t[1])
  /\ \A c \in Connector : \A i \in Ids(c) : <<c, i>> \in Task
  /\ \A c \in PgSource : 0 \in Ids(c) /\ <<c, 0>> \in Task
  /\ \A c \in Connector : Ids(c) \subseteq 0 .. NumTasks - 1
BY DEF Task, Ids, Connector

\* The values of the locals and the counts between passes.
LEMMA EmptyTypes ==
  /\ NoSnap \in [{} -> Status]
  /\ NoPosts \in [Stages \X Task -> Nat]
  /\ [d \in Db |-> {}] \in [Db -> SUBSET PgSource]
  /\ \A s \in {"RUNNING", "PAUSED", "UNASSIGNED"} : At(s) \in Status
BY DEF NoSnap, NoPosts, At, Status, States, Traces

\* What detaching a connector does to the slots.
LEMMA DetachedType ==
  ASSUME NEW c, slot \in [Db -> {"absent", "inactive", "active"}]
  PROVE  Detached(c) \in [Db -> {"absent", "inactive", "active"}]
BY DEF Detached

\* The cluster keeps the types.
LEMMA ClusterType == TypeOK /\ Cluster => TypeOK'
<1> SUFFICES ASSUME TypeOK, Cluster PROVE TypeOK'
  OBVIOUS
<1> USE DEF TypeOK, local, loop, seen, report, Status, States, Traces, At
<1>1. ASSUME NEW c \in Connector, Break(c) PROVE TypeOK'
  BY <1>1 DEF Break, Disturb
<1>2. ASSUME NEW c \in Connector, Pause(c) PROVE TypeOK'
  <2>1. task' \in [Task -> Status]
    BY <1>2 DEF Pause
  <2>2. slot' \in [Db -> {"absent", "inactive", "active"}]
    BY <1>2, DetachedType DEF Pause
  <2>3. events' \in 0 .. MaxEvents /\ paused' \subseteq Connector
    BY <1>2 DEF Pause, Disturb
  <2> QED
    BY <1>2, <2>1, <2>2, <2>3 DEF Pause
<1>3. ASSUME NEW c \in Connector, Resume(c) PROVE TypeOK'
  BY <1>3 DEF Resume
<1>4. ASSUME NEW c \in Connector, NEW i \in Ids(c), FailTask(c, i) PROVE TypeOK'
  <2>1. <<c, i>> \in Task
    BY <1>4, TaskFacts
  <2>2. task' \in [Task -> Status]
    <3>1. [state |-> "FAILED", trace |-> FatalTrace(c)] \in Status
      BY DEF FatalTrace
    <3>2. [state |-> "FAILED", trace |-> "transient"] \in Status
      OBVIOUS
    <3> HIDE DEF Status, TypeOK
    <3>3. \/ task' = [task EXCEPT ![<<c, i>>] = [state |-> "FAILED", trace |-> FatalTrace(c)]]
          \/ task' = [task EXCEPT ![<<c, i>>] = [state |-> "FAILED", trace |-> "transient"]]
      BY <1>4 DEF FailTask
    <3>4. task \in [Task -> Status]
      BY DEF TypeOK
    <3> QED
      BY <3>1, <3>2, <3>3, <3>4
  <2>5. events' \in 0 .. MaxEvents /\ fatalSeen' \subseteq PgSource
    BY <1>4 DEF FailTask, Disturb
  <2>3. slot' \in [Db -> {"absent", "inactive", "active"}]
    BY <1>4, DetachedType DEF FailTask
  <2>4. failedSeen' \subseteq Task
    BY <1>4, <2>1 DEF FailTask
  <2> QED
    BY <1>4, <2>2, <2>3, <2>4, <2>5 DEF FailTask
<1>5. ASSUME NEW c \in Sink, FixSink(c) PROVE TypeOK'
  BY <1>5 DEF FixSink
<1>6. ASSUME NEW c \in Sink, LagRises(c) PROVE TypeOK'
  BY <1>6 DEF LagRises, Disturb
<1>7. ASSUME NEW c \in Sink, LagDrains(c) PROVE TypeOK'
  BY <1>7 DEF LagDrains
<1>8. ASSUME NEW t \in Task, StartTask(t) PROVE TypeOK'
  BY <1>8 DEF StartTask
<1>9. ASSUME NEW d \in Db, AttachSlot(d) PROVE TypeOK'
  BY <1>9 DEF AttachSlot
<1> QED
  BY <1>1, <1>2, <1>3, <1>4, <1>5, <1>6, <1>7, <1>8, <1>9 DEF Cluster

\* A restart keeps the types of the tasks and of the counts.
LEMMA PostType ==
  ASSUME TypeOK, NEW stage \in Stages, NEW t \in Task, NEW applied \in BOOLEAN,
         Post(stage, t, applied)
  PROVE  /\ task' \in [Task -> Status]
         /\ posts' \in [Stages \X Task -> Nat]
BY DEF TypeOK, Post, Status, States, Traces, At

\* The guard keeps the types.
LEMMA GuardType == TypeOK /\ (Guard \/ Abort) => TypeOK'
<1> SUFFICES ASSUME TypeOK, Guard \/ Abort PROVE TypeOK'
  OBVIOUS
<1> USE DEF TypeOK, cluster, local, loop, seen, report
<1>1. ASSUME NEW a \in BOOLEAN, StartPass(a) PROVE TypeOK'
  BY <1>1 DEF StartPass
<1>2. ASSUME NEW a \in BOOLEAN, FetchLag(a) PROVE TypeOK'
  BY <1>2 DEF FetchLag, Connector
<1>3. CASE InspectSources
  BY <1>3 DEF InspectSources
<1>4. CASE FetchFailed
  BY <1>4 DEF FetchFailed, Status
<1>5. CASE FetchFailedRefused
  BY <1>5 DEF FetchFailedRefused
<1>6. ASSUME NEW f \in fails, NEW a \in BOOLEAN, RestartFailed(f[1], f[2], a) PROVE TypeOK'
  <2>1. f[1] \in Task
    OBVIOUS
  <2>2. task' \in [Task -> Status] /\ posts' \in [Stages \X Task -> Nat]
    <3>1. Post("failed", f[1], a)
      BY <1>6 DEF RestartFailed
    <3> QED
      BY <2>1, <3>1 DEF Post, Stages, Status, States, Traces, At
  <2>3. slot' \in [Db -> {"absent", "inactive", "active"}]
    BY <1>6, DetachedType DEF RestartFailed
  <2> QED
    BY <1>6, <2>2, <2>3 DEF RestartFailed
<1>7. ASSUME NEW f \in fails, SkipFailed(f[1], f[2]) PROVE TypeOK'
  BY <1>7 DEF SkipFailed, Stages
<1>8. CASE FailedDone
  BY <1>8 DEF FailedDone
<1>9. CASE ConnectorDone
  <2>1. snap' \in [IF cur' = None THEN {} ELSE Ids(cur') -> Status]
    BY <1>9, EmptyTypes DEF ConnectorDone
  <2>2. restart_needed' \in BOOLEAN /\ recreate_needed' \in BOOLEAN
    BY <1>9, Zenon DEF ConnectorDone
  <2> QED
    BY <1>9, <2>1, <2>2 DEF ConnectorDone
<1>10. CASE LagDone
  BY <1>10 DEF LagDone
<1>11. CASE DbDone
  BY <1>11 DEF DbDone
<1>12. CASE PassDone \/ Abort
  <2>1. Exit
    BY <1>12 DEF PassDone, Abort
  <2>2. snap' \in [IF cur' = None THEN {} ELSE Ids(cur') -> Status]
    BY <2>1, EmptyTypes DEF Exit
  <2>3. posts' \in [Stages \X Task -> Nat] /\ conns' \in [Db -> SUBSET PgSource]
    BY <2>1, EmptyTypes DEF Exit
  <2>4. restart_needed' \in BOOLEAN /\ recreate_needed' \in BOOLEAN
    BY <2>1, Zenon DEF Exit
  <2> QED
    BY <2>1, <2>2, <2>3, <2>4 DEF Exit
<1>13. ASSUME NEW c \in left, FetchStatus(c) PROVE TypeOK'
  <2>1. snap' \in [Ids(c) -> Status]
    BY <1>13, TaskFacts DEF FetchStatus
  <2> QED
    BY <1>13, <2>1 DEF FetchStatus
<1>14. ASSUME NEW c \in left, StatusUnknown(c) PROVE TypeOK'
  BY <1>14 DEF StatusUnknown
<1>15. ASSUME NEW a \in BOOLEAN, LagTask(a) PROVE TypeOK'
  <2>1. cur \in Connector /\ nxt \in Ids(cur) /\ <<cur, nxt>> \in Task /\ nxt' \in 0 .. NumTasks
    BY <1>15, TaskFacts DEF LagTask, Ids
  <2>2. task' \in [Task -> Status] /\ posts' \in [Stages \X Task -> Nat]
    BY <1>15, <2>1, PostType DEF LagTask, Stages
  <2>3. slot' \in [Db -> {"absent", "inactive", "active"}]
    BY <1>15, DetachedType DEF LagTask
  <2>4. restart_needed' \in BOOLEAN /\ skipped' \subseteq Stages \X Task
    <3>1. restart_needed' \in BOOLEAN
      BY <1>15, Zenon DEF LagTask
    <3>2. skipped' = skipped \/ skipped' = skipped \cup {<<"lag", <<cur, nxt>>>>}
      BY <1>15, Zenon DEF LagTask
    <3>3. <<"lag", <<cur, nxt>>>> \in Stages \X Task
      BY <2>1 DEF Stages
    <3> QED  BY <3>1, <3>2, <3>3
  <2> QED
    BY <1>15, <2>1, <2>2, <2>3, <2>4 DEF LagTask
<1>16. ASSUME NEW d \in dbs, SlotHealthy(d) PROVE TypeOK'
  BY <1>16 DEF SlotHealthy
<1>17. ASSUME NEW d \in dbs, SlotSuspect(d) PROVE TypeOK'
  BY <1>17 DEF SlotSuspect, Connector
<1>18. ASSUME NEW a \in BOOLEAN, NEW ok \in BOOLEAN, SlotTask(a, ok) PROVE TypeOK'
  <2>1. cur \in Connector /\ nxt \in Ids(cur) /\ <<cur, nxt>> \in Task /\ nxt' \in 0 .. NumTasks
    BY <1>18, TaskFacts DEF SlotTask, Ids
  <2>2. task' \in [Task -> Status] /\ posts' \in [Stages \X Task -> Nat]
    BY <1>18, <2>1, PostType DEF SlotTask, Stages
  <2>3. slot' \in [Db -> {"absent", "inactive", "active"}]
    BY <1>18, DetachedType DEF SlotTask
  <2>4. skipped' \subseteq Stages \X Task
    <3>1. skipped' = skipped \/ skipped' = skipped \cup {<<"slot", <<cur, nxt>>>>}
      BY <1>18, Zenon DEF SlotTask
    <3>2. <<"slot", <<cur, nxt>>>> \in Stages \X Task
      BY <2>1 DEF Stages
    <3> QED  BY <3>1, <3>2
  <2>6. restart_needed' \in BOOLEAN /\ recreate_needed' \in BOOLEAN
    BY <1>18, Zenon DEF SlotTask
  <2>5. dropped' \subseteq Db /\ fault' \subseteq Connector
    BY <1>18 DEF SlotTask
  <2> QED
    BY <1>18, <2>1, <2>2, <2>3, <2>4, <2>5, <2>6 DEF SlotTask
<1> HIDE DEF TypeOK, cluster, local, loop, seen, report
<1> QED
  BY <1>1, <1>2, <1>3, <1>4, <1>5, <1>6, <1>7, <1>8, <1>9, <1>10, <1>11, <1>12,
     <1>13, <1>14, <1>15, <1>16, <1>17, <1>18 DEF Guard

\* The guard and its cluster start well typed.
LEMMA InitType == Init => TypeOK
<1> SUFFICES ASSUME Init PROVE TypeOK
  OBVIOUS
<1>1. snap \in [IF cur = None THEN {} ELSE Ids(cur) -> Status]
  BY EmptyTypes DEF Init
<1>2. posts \in [Stages \X Task -> Nat] /\ conns \in [Db -> SUBSET PgSource]
  BY EmptyTypes DEF Init
<1>3. task \in [Task -> Status] /\ slot \in [Db -> {"absent", "inactive", "active"}]
  BY EmptyTypes DEF Init
<1>4. restart_needed \in BOOLEAN /\ recreate_needed \in BOOLEAN
  BY Zenon DEF Init
<1> QED
  BY <1>1, <1>2, <1>3, <1>4 DEF Init, TypeOK

\* Every step keeps the types.
LEMMA TypeStep == TypeOK /\ [Next]_vars => TypeOK'
<1>1. TypeOK /\ UNCHANGED vars => TypeOK'
  BY DEF TypeOK, vars, cluster, local, loop, seen, report
<1> QED
  BY <1>1, ClusterType, GuardType DEF Next

\* TypeOK holds in every state of the guard and its cluster.
THEOREM TypeCorrect == Spec => []TypeOK
BY InitType, TypeStep, PTL DEF Spec

-----------------------------------------------------------------------------
\* The cluster leaves the guard alone and only adds to what has been seen.
LEMMA ClusterFrame ==
  ASSUME TypeOK, Cluster
  PROVE  /\ UNCHANGED <<pc, local, report>>
         /\ failedSeen \subseteq failedSeen'
         /\ fatalSeen \subseteq fatalSeen'
         /\ lagSeen \subseteq lagSeen'
<1>1. ASSUME NEW c \in Connector, Break(c) \/ Pause(c) \/ Resume(c)
      PROVE  UNCHANGED <<pc, local, seen, report>>
  BY <1>1 DEF Break, Pause, Resume
<1>2. ASSUME NEW c \in Connector, NEW i \in Ids(c), FailTask(c, i)
      PROVE  /\ UNCHANGED <<pc, local, report, lagSeen>>
             /\ failedSeen \subseteq failedSeen' /\ fatalSeen \subseteq fatalSeen'
  BY <1>2 DEF FailTask
<1>3. ASSUME NEW c \in Sink, FixSink(c) \/ LagDrains(c)
      PROVE  UNCHANGED <<pc, local, seen, report>>
  BY <1>3 DEF FixSink, LagDrains
<1>4. ASSUME NEW c \in Sink, LagRises(c)
      PROVE  UNCHANGED <<pc, local, report, failedSeen, fatalSeen>> /\ lagSeen \subseteq lagSeen'
  BY <1>4 DEF LagRises
<1>5. ASSUME NEW t \in Task, StartTask(t)
      PROVE  UNCHANGED <<pc, local, seen, report>>
  BY <1>5 DEF StartTask
<1>6. ASSUME NEW d \in Db, AttachSlot(d)
      PROVE  UNCHANGED <<pc, local, seen, report>>
  BY <1>6 DEF AttachSlot
<1> QED
  BY <1>1, <1>2, <1>3, <1>4, <1>5, <1>6 DEF Cluster, seen

\* Every step keeps the shape of the loops: what a stage holds belongs to it.
LEMMA LoopShapeStep == TypeOK /\ LoopShape /\ [Next]_vars => LoopShape'
<1> SUFFICES ASSUME TypeOK, LoopShape, [Next]_vars PROVE LoopShape'
  OBVIOUS
<1> USE DEF LoopShape, local, loop
<1>1. CASE UNCHANGED vars
  BY <1>1 DEF vars
<1>2. CASE Cluster
  BY <1>2, ClusterFrame
<1>3. ASSUME NEW a \in BOOLEAN, StartPass(a) PROVE LoopShape'
  BY <1>3 DEF StartPass, TypeOK
<1>4. ASSUME NEW a \in BOOLEAN, FetchLag(a) PROVE LoopShape'
  BY <1>4 DEF FetchLag, TypeOK, Connector
<1>5. CASE InspectSources
  BY <1>5 DEF InspectSources
<1>6. CASE FetchFailed
  BY <1>6 DEF FetchFailed
<1>7. CASE FetchFailedRefused
  BY <1>7 DEF FetchFailedRefused
<1>8. ASSUME NEW f \in fails, NEW a \in BOOLEAN, RestartFailed(f[1], f[2], a) PROVE LoopShape'
  BY <1>8 DEF RestartFailed
<1>9. ASSUME NEW f \in fails, SkipFailed(f[1], f[2]) PROVE LoopShape'
  BY <1>9 DEF SkipFailed
<1>10. CASE FailedDone
  BY <1>10 DEF FailedDone
<1>11. CASE ConnectorDone
  BY <1>11 DEF ConnectorDone, TypeOK
<1>12. CASE LagDone
  BY <1>12 DEF LagDone
<1>13. CASE DbDone
  BY <1>13 DEF DbDone, TypeOK
<1>14. CASE PassDone \/ Abort
  BY <1>14 DEF PassDone, Abort, Exit, TypeOK
<1>15. ASSUME NEW c \in left, FetchStatus(c) PROVE LoopShape'
  BY <1>15 DEF FetchStatus
<1>16. ASSUME NEW c \in left, StatusUnknown(c) PROVE LoopShape'
  BY <1>16 DEF StatusUnknown
<1>17. ASSUME NEW a \in BOOLEAN, LagTask(a) PROVE LoopShape'
  BY <1>17 DEF LagTask, TypeOK
<1>18. ASSUME NEW d \in dbs, SlotHealthy(d) PROVE LoopShape'
  BY <1>18 DEF SlotHealthy
<1>19. ASSUME NEW d \in dbs, SlotSuspect(d) PROVE LoopShape'
  BY <1>19 DEF SlotSuspect, TypeOK, Connector
<1>20. ASSUME NEW a \in BOOLEAN, NEW ok \in BOOLEAN, SlotTask(a, ok) PROVE LoopShape'
  BY <1>20 DEF SlotTask, TypeOK
<1> HIDE DEF LoopShape, local, loop
<1> QED
  BY <1>1, <1>2, <1>3, <1>4, <1>5, <1>6, <1>7, <1>8, <1>9, <1>10, <1>11, <1>12,
     <1>13, <1>14, <1>15, <1>16, <1>17, <1>18, <1>19, <1>20 DEF Guard, Next

\* A task that is restarted, paused or resumed has not failed.
Calmer == \A t \in Task : \/ task'[t] = task[t]
                          \/ task'[t].state # "FAILED" /\ task'[t].trace = "none"

\* A restart brings no task into failure and no connector into lag.
LEMMA PostCalms ==
  ASSUME TypeOK, NEW stage, NEW t \in Task, NEW applied, Post(stage, t, applied)
  PROVE  Calmer
BY DEF Calmer, TypeOK, Post, At

\* What brings nothing new into failure or lag keeps all that has been seen true.
LEMMA CalmFrame ==
  ASSUME TypeOK, Grounded, Calmer, UNCHANGED <<failedSeen, fatalSeen, lagSeen>>,
         lag' \subseteq lag, pc # "idle" \/ pc' = "idle"
  PROVE  Remembered'
BY TaskFacts DEF Grounded, Calmer, Remembered

\* Every step keeps what the guard holds grounded in what was seen in the pass.
LEMMA GroundedStep == TypeOK /\ LoopShape /\ Grounded /\ [Next]_vars => Grounded'
<1> SUFFICES ASSUME TypeOK, LoopShape, Grounded, [Next]_vars PROVE Grounded'
  OBVIOUS
<1> USE TaskFacts DEF LoopShape, Grounded, Remembered, GroundedLocals, cluster, local, loop, seen, report, At
<1>1. CASE UNCHANGED vars
  BY <1>1 DEF vars
<1>2. ASSUME NEW c \in Connector, Break(c) \/ Pause(c) \/ Resume(c) PROVE Grounded'
  <2>1. Calmer
    BY <1>2 DEF Break, Pause, Resume, TypeOK, Calmer
  <2>2. UNCHANGED <<pc, local, seen, report, lag>>
    BY <1>2 DEF Break, Pause, Resume
  <2>3. Remembered'
    BY <2>1, <2>2, CalmFrame
  <2>4. GroundedLocals'
    BY <2>2 DEF GroundedLocals
  <2> QED
    BY <2>3, <2>4
<1>3. ASSUME NEW c \in Connector, NEW i \in Ids(c), FailTask(c, i) PROVE Grounded'
  <2>1. GroundedLocals'
    BY <1>3, ClusterFrame DEF GroundedLocals, Cluster
  <2>2. /\ pc' = pc /\ lag' = lag /\ lagSeen' = lagSeen
        /\ pc # "idle" => failedSeen' = failedSeen \cup {<<c, i>>}
    BY <1>3 DEF FailTask
  <2>3. <<c, i>> \in Task /\ \A t \in Task : t # <<c, i>> => task'[t] = task[t]
    BY <1>3 DEF FailTask, TypeOK
  <2>4. task'[<<c, i>>].state = "FAILED"
    BY <1>3, <2>3 DEF FailTask, TypeOK
  <2>5. /\ fatalSeen \subseteq fatalSeen'
        /\ pc # "idle" /\ c \in PgSource /\ task'[<<c, i>>].trace = "duplicate"
             => c \in fatalSeen'
    BY <1>3, <2>3 DEF FailTask, TypeOK
  <2>6. Remembered'
    BY <2>2, <2>3, <2>4, <2>5 DEF Remembered
  <2> QED
    BY <2>1, <2>6
<1>4. ASSUME NEW c \in Sink, FixSink(c) PROVE Grounded'
  BY <1>4 DEF FixSink, TypeOK
<1>5. ASSUME NEW c \in Sink, LagDrains(c) PROVE Grounded'
  BY <1>5 DEF LagDrains, TypeOK
<1>6. ASSUME NEW c \in Sink, LagRises(c) PROVE Grounded'
  BY <1>6 DEF LagRises, TypeOK
<1>7. ASSUME NEW t \in Task, StartTask(t) PROVE Grounded'
  BY <1>7 DEF StartTask, TypeOK
<1>8. ASSUME NEW d \in Db, AttachSlot(d) PROVE Grounded'
  BY <1>8 DEF AttachSlot, TypeOK
<1>9. ASSUME NEW a \in BOOLEAN, StartPass(a) PROVE Grounded'
  BY <1>9 DEF StartPass, TypeOK
<1>10. ASSUME NEW a \in BOOLEAN, FetchLag(a) PROVE Grounded'
  BY <1>10 DEF FetchLag, TypeOK
<1>11. CASE InspectSources
  BY <1>11 DEF InspectSources, TypeOK
<1>12. CASE FetchFailed
  BY <1>12 DEF FetchFailed, TypeOK
<1>13. CASE FetchFailedRefused
  BY <1>13 DEF FetchFailedRefused, TypeOK
<1>14. ASSUME NEW f \in fails, NEW a \in BOOLEAN, RestartFailed(f[1], f[2], a) PROVE Grounded'
  BY <1>14 DEF RestartFailed, Post, TypeOK
<1>15. ASSUME NEW f \in fails, SkipFailed(f[1], f[2]) PROVE Grounded'
  BY <1>15 DEF SkipFailed, TypeOK
<1>16. CASE FailedDone
  BY <1>16 DEF FailedDone, TypeOK
<1>17. CASE ConnectorDone
  <2>1. Remembered'
    BY <1>17 DEF ConnectorDone, Remembered
  <2>2. cur' = None /\ None \notin PgSource
    BY <1>17 DEF ConnectorDone, Connector
  <2>3. UNCHANGED <<fails, pc, left, lagSeen, failedSeen, db, suspect, dropped>>
    BY <1>17 DEF ConnectorDone
  <2>4. GroundedLocals'
    BY <2>2, <2>3 DEF GroundedLocals
  <2> QED
    BY <2>1, <2>4
<1>18. CASE LagDone
  BY <1>18 DEF LagDone, TypeOK
<1>19. CASE DbDone
  BY <1>19 DEF DbDone, TypeOK
<1>20. CASE PassDone \/ Abort
  <2>1. Exit
    BY <1>20 DEF PassDone, Abort
  <2>2. Remembered'
    BY <2>1 DEF Exit, Remembered
  <2>3. GroundedLocals'
    BY <2>1 DEF Exit, GroundedLocals, Connector
  <2> QED
    BY <2>2, <2>3
<1>21. ASSUME NEW c \in left, FetchStatus(c) PROVE Grounded'
  <2>1. Remembered'
    BY <1>21 DEF FetchStatus, Remembered
  <2>2. /\ cur = None /\ pc # "idle"
        /\ left' = left \ {c} /\ cur' = c /\ snap' = [i \in Ids(c) |-> task[<<c, i>>]]
        /\ UNCHANGED <<pc, db, fails, recreate_needed, failedSeen, fatalSeen, lagSeen, suspect, dropped>>
    BY <1>21 DEF FetchStatus
  <2>3. c \in PgSource => Ids(c) = {0}
    BY DEF Ids
  <2>4. c \in PgSource => \A i \in DOMAIN snap' :
          snap'[i].trace = "duplicate" => c \in fatalSeen
    BY <2>2, <2>3
  <2>5. ~recreate_needed
    BY <2>2
  <2>6. GroundedLocals'
    BY <2>2, <2>4, <2>5 DEF GroundedLocals
  <2> QED
    BY <2>1, <2>6
<1>22. ASSUME NEW c \in left, StatusUnknown(c) PROVE Grounded'
  BY <1>22 DEF StatusUnknown, TypeOK
<1>23. ASSUME NEW a \in BOOLEAN, LagTask(a) PROVE Grounded'
  <2>1. <<cur, nxt>> \in Task
    BY <1>23 DEF LagTask, TypeOK
  <2>2. Calmer
    <3>1. UNCHANGED task \/ Post("lag", <<cur, nxt>>, a)
      BY <1>23 DEF LagTask
    <3> QED
      BY <2>1, <3>1, PostCalms DEF Calmer
  <2>3. pc = "lagging" /\ UNCHANGED <<pc, db, fails, left, cur, snap, recreate_needed, lag, failedSeen,
                                     fatalSeen, lagSeen, suspect, dropped>>
    BY <1>23 DEF LagTask
  <2>4. Remembered'
    BY <2>2, <2>3, CalmFrame
  <2>5. GroundedLocals'
    BY <2>3 DEF GroundedLocals
  <2> QED
    BY <2>4, <2>5
<1>24. ASSUME NEW d \in dbs, SlotHealthy(d) PROVE Grounded'
  BY <1>24 DEF SlotHealthy, TypeOK
<1>25. ASSUME NEW d \in dbs, SlotSuspect(d) PROVE Grounded'
  BY <1>25 DEF SlotSuspect, TypeOK
<1>26. ASSUME NEW a \in BOOLEAN, NEW ok \in BOOLEAN, SlotTask(a, ok) PROVE Grounded'
  <2>1. <<cur, nxt>> \in Task /\ pc = "slot" /\ cur # None /\ nxt \in DOMAIN snap
    BY <1>26 DEF SlotTask, TypeOK
  <2>2. Calmer
    <3>1. UNCHANGED task \/ Post("slot", <<cur, nxt>>, a)
      BY <1>26 DEF SlotTask
    <3> QED
      BY <2>1, <3>1, PostCalms DEF Calmer
  <2>3. UNCHANGED <<pc, db, fails, left, cur, snap, lag, failedSeen, fatalSeen, lagSeen, suspect>>
    BY <1>26 DEF SlotTask
  <2>4. recreate_needed' => recreate_needed \/ snap[nxt].trace = "duplicate"
    BY <1>26 DEF SlotTask, ShouldDrop
  <2>5. Remembered'
    BY <2>1, <2>2, <2>3, CalmFrame
  <2>6. GroundedLocals'
    BY <2>1, <2>3, <2>4 DEF GroundedLocals
  <2> QED
    BY <2>5, <2>6
<1> HIDE DEF LoopShape, Grounded, Remembered, GroundedLocals, cluster, local, loop, seen, report, At
<1> QED
  BY <1>1, <1>2, <1>3, <1>4, <1>5, <1>6, <1>7, <1>8, <1>9, <1>10, <1>11, <1>12,
     <1>13, <1>14, <1>15, <1>16, <1>17, <1>18, <1>19, <1>20, <1>21, <1>22,
     <1>23, <1>24, <1>25, <1>26 DEF Guard, Next, Cluster

\* Every step leaves what a stage has still to handle untouched by that stage.
LEMMA HandledOnceStep == TypeOK /\ LoopShape /\ HandledOnce /\ [Next]_vars => HandledOnce'
<1> SUFFICES ASSUME TypeOK, LoopShape, HandledOnce, [Next]_vars PROVE HandledOnce'
  OBVIOUS
<1> USE DEF LoopShape, HandledOnce, PendingFailed, PendingLag, PendingSlot, InLoop,
                      Fresh, local, loop, report, Stages
<1>1. CASE UNCHANGED vars
  BY <1>1 DEF vars
<1>2. CASE Cluster
  <2>1. UNCHANGED <<pc, local, report>>
    BY <1>2, ClusterFrame
  <2> QED
    BY <2>1
<1>3. ASSUME NEW a \in BOOLEAN, StartPass(a) PROVE HandledOnce'
  BY <1>3 DEF StartPass, TypeOK
<1>4. ASSUME NEW a \in BOOLEAN, FetchLag(a) PROVE HandledOnce'
  BY <1>4 DEF FetchLag, TypeOK
<1>5. CASE InspectSources
  BY <1>5 DEF InspectSources, TypeOK
<1>6. CASE FetchFailed
  BY <1>6 DEF FetchFailed, TypeOK
<1>7. CASE FetchFailedRefused
  BY <1>7 DEF FetchFailedRefused, TypeOK
<1>8. ASSUME NEW f \in fails, NEW a \in BOOLEAN, RestartFailed(f[1], f[2], a) PROVE HandledOnce'
  <2>1. f[1] \in Task /\ f = <<f[1], f[2]>>
    BY DEF TypeOK
  <2>2. \A s \in Stages, t \in Task : s # "failed" \/ t # f[1] =>
          posts'[<<s, t>>] = posts[<<s, t>>]
    BY <1>8, <2>1 DEF RestartFailed, Post, TypeOK
  <2>3. \A trace : <<f[1], trace>> \notin fails'
    BY <1>8, <2>1 DEF RestartFailed
  <2>4. pc' = "restarting" /\ UNCHANGED <<pc, left, cur, nxt, dbs, skipped>> /\ fails' \subseteq fails
    BY <1>8 DEF RestartFailed
  <2> QED
    BY <2>1, <2>2, <2>3, <2>4
<1>9. ASSUME NEW f \in fails, SkipFailed(f[1], f[2]) PROVE HandledOnce'
  <2>1. f[1] \in Task /\ f = <<f[1], f[2]>>
    BY DEF TypeOK
  <2>2. \A trace : <<f[1], trace>> \notin fails'
    BY <1>9, <2>1 DEF SkipFailed
  <2>3. /\ pc' = "restarting" /\ UNCHANGED <<pc, left, cur, nxt, dbs, posts>>
        /\ fails' \subseteq fails /\ skipped' = skipped \cup {<<"failed", f[1]>>}
    BY <1>9 DEF SkipFailed
  <2> QED
    BY <2>1, <2>2, <2>3
<1>10. CASE FailedDone
  BY <1>10 DEF FailedDone, TypeOK
<1>11. CASE ConnectorDone
  <2>1. pc \in {"lagging", "slot"} /\ UNCHANGED <<pc, fails, left, dbs, posts, skipped>>
    BY <1>11 DEF ConnectorDone
  <2>2. \A t \in Task : t[1] # cur'
    BY <1>11, TaskFacts DEF ConnectorDone
  <2> QED
    BY <2>1, <2>2
<1>12. CASE LagDone
  BY <1>12 DEF LagDone, TypeOK
<1>13. CASE DbDone
  BY <1>13 DEF DbDone, TypeOK
<1>14. CASE PassDone \/ Abort
  <2>1. posts' = NoPosts /\ skipped' = {}
    BY <1>14 DEF PassDone, Abort, Exit
  <2> QED
    BY <2>1 DEF NoPosts
<1>15. ASSUME NEW c \in left, FetchStatus(c) PROVE HandledOnce'
  <2>1. pc \in {"lagging", "slot"} /\ UNCHANGED <<pc, fails, dbs, posts, skipped>>
    BY <1>15 DEF FetchStatus
  <2>2. left' = left \ {c} /\ cur' = c
    BY <1>15 DEF FetchStatus
  <2>3. ASSUME NEW t \in Task
        PROVE  (PendingLag(t)' => Fresh("lag", t)') /\ (PendingSlot(t)' => Fresh("slot", t)')
    <3>1. (PendingLag(t)' => PendingLag(t)) /\ (PendingSlot(t)' => PendingSlot(t))
      BY <2>1, <2>2
    <3> QED
      BY <2>1, <3>1
  <2>4. \A t \in Task : ~PendingFailed(t)'
    BY <2>1
  <2> QED
    BY <2>3, <2>4
<1>16. ASSUME NEW c \in left, StatusUnknown(c) PROVE HandledOnce'
  BY <1>16 DEF StatusUnknown, TypeOK
<1>17. ASSUME NEW a \in BOOLEAN, LagTask(a) PROVE HandledOnce'
  <2> DEFINE u == <<cur, nxt>>
  <2>1. u \in Task /\ u[1] = cur /\ u[2] = nxt /\ pc = "lagging"
    BY <1>17, TaskFacts DEF LagTask, TypeOK
  <2>2. \A s \in Stages, t \in Task : s # "lag" \/ t # u =>
          posts'[<<s, t>>] = posts[<<s, t>>]
    BY <1>17, <2>1 DEF LagTask, Post, TypeOK
  <2>3. skipped' \subseteq skipped \cup {<<"lag", u>>}
    BY <1>17 DEF LagTask
  <2>4. UNCHANGED <<pc, fails, left, cur, dbs>> /\ nxt' = nxt + 1 /\ nxt \in Nat
    BY <1>17 DEF LagTask, TypeOK
  <2>5. \A t \in Task : InLoop(t)' => InLoop(t) /\ t # u
    <3>1. \A t \in Task : t[2] \in Nat
      BY TaskFacts DEF Ids
    <3> QED
      BY <2>1, <2>4, <3>1
  <2> HIDE DEF u, InLoop
  <2> QED
    BY <2>1, <2>2, <2>3, <2>4, <2>5
<1>18. ASSUME NEW d \in dbs, SlotHealthy(d) PROVE HandledOnce'
  BY <1>18 DEF SlotHealthy, TypeOK
<1>19. ASSUME NEW d \in dbs, SlotSuspect(d) PROVE HandledOnce'
  <2>1. /\ pc = "slot" /\ cur = None /\ left' = conns[d] /\ dbs' = dbs \ {d}
        /\ UNCHANGED <<pc, fails, cur, nxt, posts, skipped>>
    BY <1>19 DEF SlotSuspect
  <2>2. \A t \in Task : t[1] # cur
    BY <2>1, TaskFacts
  <2>3. \A c \in conns[d] : c \in PgSource /\ DbOf[c] = d
    BY DEF TypeOK
  <2>4. \A t \in Task : PendingSlot(t)' => PendingSlot(t)
    BY <2>1, <2>2, <2>3
  <2>5. \A t \in Task : ~PendingLag(t)' /\ (PendingFailed(t)' => PendingFailed(t))
    BY <2>1
  <2> HIDE DEF PendingSlot, PendingLag, PendingFailed
  <2> QED
    BY <2>1, <2>4, <2>5
<1>20. ASSUME NEW a \in BOOLEAN, NEW ok \in BOOLEAN, SlotTask(a, ok) PROVE HandledOnce'
  <2> DEFINE u == <<cur, nxt>>
  <2>1. u \in Task /\ u[1] = cur /\ u[2] = nxt /\ pc = "slot" /\ db # None
    BY <1>20, TaskFacts DEF SlotTask, TypeOK
  <2>2. \A s \in Stages, t \in Task : s # "slot" \/ t # u =>
          posts'[<<s, t>>] = posts[<<s, t>>]
    BY <1>20, <2>1 DEF SlotTask, Post, TypeOK
  <2>3. skipped' \subseteq skipped \cup {<<"slot", u>>}
    BY <1>20 DEF SlotTask
  <2>4. UNCHANGED <<pc, fails, left, cur, dbs>> /\ nxt' = nxt + 1 /\ nxt \in Nat
    BY <1>20 DEF SlotTask, TypeOK
  <2>5. \A t \in Task : InLoop(t)' => InLoop(t) /\ t # u
    <3>1. \A t \in Task : t[2] \in Nat
      BY TaskFacts DEF Ids
    <3> QED
      BY <2>1, <2>4, <3>1
  <2>6. DbOf[cur] \notin dbs
    <3>1. cur \in conns[db] /\ db \in Db
      BY <1>20, <2>1 DEF TypeOK, SlotTask
    <3> QED
      BY <3>1
  <2> HIDE DEF u, InLoop
  <2> QED
    BY <2>1, <2>2, <2>3, <2>4, <2>5, <2>6
<1> HIDE DEF LoopShape, HandledOnce, local, loop, report
<1> QED
  BY <1>1, <1>2, <1>3, <1>4, <1>5, <1>6, <1>7, <1>8, <1>9, <1>10, <1>11, <1>12,
     <1>13, <1>14, <1>15, <1>16, <1>17, <1>18, <1>19, <1>20 DEF Guard, Next

-----------------------------------------------------------------------------
\* The steps that restart nothing, skip nothing and drop nothing.
Quiet ==
  /\ UNCHANGED <<posts, skipped, dropped>>
  /\ failedSeen \subseteq failedSeen' /\ fatalSeen \subseteq fatalSeen'
  /\ lagSeen \subseteq lagSeen' /\ suspect \subseteq suspect'

\* The steps that restart, skip, drop or start over, and all others.
LEMMA StepKinds ==
  ASSUME TypeOK, [Next]_vars
  PROVE  \/ Quiet \/ Exit
         \/ \E a \in BOOLEAN : StartPass(a)
         \/ \E f \in fails : \E a \in BOOLEAN : RestartFailed(f[1], f[2], a)
         \/ \E f \in fails : SkipFailed(f[1], f[2])
         \/ \E a \in BOOLEAN : LagTask(a)
         \/ \E a, ok \in BOOLEAN : SlotTask(a, ok)
<1> USE DEF Quiet, seen, report
<1>1. UNCHANGED vars => Quiet
  BY DEF vars
<1>2. Cluster => Quiet
  BY ClusterFrame
<1>3. ASSUME NEW a \in BOOLEAN, FetchLag(a) PROVE Quiet
  BY <1>3 DEF FetchLag
<1>4. InspectSources \/ FetchFailed \/ FetchFailedRefused => Quiet
  BY DEF InspectSources, FetchFailed, FetchFailedRefused
<1>5. FailedDone \/ ConnectorDone \/ LagDone \/ DbDone => Quiet
  BY DEF FailedDone, ConnectorDone, LagDone, DbDone
<1>6. ASSUME NEW c \in left, FetchStatus(c) \/ StatusUnknown(c) PROVE Quiet
  BY <1>6 DEF FetchStatus, StatusUnknown
<1>7. ASSUME NEW d \in dbs, SlotHealthy(d) \/ SlotSuspect(d) PROVE Quiet
  BY <1>7 DEF SlotHealthy, SlotSuspect
<1>8. PassDone \/ Abort => Exit
  BY DEF PassDone, Abort
<1> HIDE DEF Quiet
<1> QED
  BY <1>1, <1>2, <1>3, <1>4, <1>5, <1>6, <1>7, <1>8 DEF Next, Guard

\* Between passes nothing has been done yet.
LEMMA IdleFresh ==
  ASSUME HandledOnce, Grounded, pc = "idle"
  PROVE  /\ \A s \in Stages, t \in Task : Fresh(s, t)
         /\ dropped = {}
BY DEF HandledOnce, PendingFailed, PendingLag, PendingSlot, Stages, Grounded, GroundedLocals

\* What one restart does to the counts of the tasks.
LEMMA PostCounts ==
  ASSUME TypeOK, NEW stage \in Stages, NEW u \in Task, NEW applied,
         posts[<<stage, u>>] = 0, Post(stage, u, applied)
  PROVE  \A s \in Stages, t \in Task :
           posts'[<<s, t>>] = IF s = stage /\ t = u THEN 1 ELSE posts[<<s, t>>]
BY DEF TypeOK, Post

\* Every step keeps the safety properties, given the rest of the invariant.
LEMMA SafetyStep ==
  TypeOK /\ LoopShape /\ Grounded /\ HandledOnce /\ Safety /\ [Next]_vars => Safety'
<1> SUFFICES ASSUME TypeOK, LoopShape, Grounded, HandledOnce, Safety, [Next]_vars
             PROVE  Safety'
  OBVIOUS
<1> USE DEF Safety, RestartBudget, NoGratuitousRestart, DropOnlyAfterFatal, SkipHonoured
<1>1. CASE Quiet
  BY <1>1 DEF Quiet
<1>2. CASE Exit
  <2>1. dropped' = {} /\ skipped' = {} /\ posts' = NoPosts
    BY <1>2 DEF Exit
  <2> QED
    BY <2>1 DEF NoPosts
<1>3. ASSUME NEW a \in BOOLEAN, StartPass(a) PROVE Safety'
  <2>1. pc = "idle" /\ UNCHANGED <<posts, skipped, dropped>>
    BY <1>3 DEF StartPass, report
  <2>2. dropped = {} /\ \A s \in Stages, t \in Task : posts[<<s, t>>] = 0
    BY <2>1, IdleFresh DEF Fresh
  <2> QED
    BY <2>1, <2>2
<1>4. ASSUME NEW f \in fails, NEW a \in BOOLEAN, RestartFailed(f[1], f[2], a) PROVE Safety'
  <2>1. f[1] \in Task /\ f = <<f[1], f[2]>> /\ f[2] \in Traces
    BY DEF TypeOK
  <2>2. posts[<<"failed", f[1]>>] = 0 /\ <<"failed", f[1]>> \notin skipped
    BY <1>4, <2>1 DEF RestartFailed, HandledOnce, PendingFailed, Fresh
  <2>3. \A s \in Stages, t \in Task :
          posts'[<<s, t>>] = IF s = "failed" /\ t = f[1] THEN 1 ELSE posts[<<s, t>>]
    BY <1>4, <2>1, <2>2, PostCounts DEF RestartFailed, Stages
  <2>4. f[1] \in failedSeen
    BY DEF Grounded, GroundedLocals
  <2>5. UNCHANGED <<failedSeen, fatalSeen, lagSeen, suspect, skipped, dropped>>
    BY <1>4 DEF RestartFailed, seen
  <2> QED
    BY <2>1, <2>2, <2>3, <2>4, <2>5 DEF Stages
<1>5. ASSUME NEW f \in fails, SkipFailed(f[1], f[2]) PROVE Safety'
  <2>1. f[1] \in Task /\ f = <<f[1], f[2]>> /\ f[2] \in Traces
    BY DEF TypeOK
  <2>2. posts[<<"failed", f[1]>>] = 0
    BY <1>5, <2>1 DEF SkipFailed, HandledOnce, PendingFailed, Fresh
  <2>3. /\ UNCHANGED <<failedSeen, fatalSeen, lagSeen, suspect, posts, dropped>>
        /\ skipped' = skipped \cup {<<"failed", f[1]>>}
    BY <1>5 DEF SkipFailed, seen
  <2> QED
    BY <2>1, <2>2, <2>3
<1>6. ASSUME NEW a \in BOOLEAN, LagTask(a) PROVE Safety'
  <2> DEFINE u == <<cur, nxt>>
  <2>1. u \in Task /\ u[1] = cur /\ u[2] = nxt /\ pc = "lagging" /\ cur # None
    BY <1>6, TaskFacts DEF LagTask, TypeOK
  <2>2. posts[<<"lag", u>>] = 0 /\ cur \in lagSeen
    <3>1. InLoop(u) /\ PendingLag(u)
      BY <2>1 DEF InLoop, PendingLag, TypeOK
    <3> HIDE DEF u
    <3>2. posts[<<"lag", u>>] = 0
      BY <2>1, <3>1 DEF HandledOnce, Fresh
    <3> QED
      BY <2>1, <3>2 DEF Grounded, GroundedLocals
  <2>3. \/ UNCHANGED posts
        \/ \A s \in Stages, t \in Task :
              posts'[<<s, t>>] = IF s = "lag" /\ t = u THEN 1 ELSE posts[<<s, t>>]
    BY <1>6, <2>1, <2>2, PostCounts DEF LagTask, Stages
  <2>4. /\ UNCHANGED <<failedSeen, fatalSeen, lagSeen, suspect, dropped>>
        /\ skipped' \subseteq skipped \cup {<<"lag", u>>}
    BY <1>6 DEF LagTask, seen
  <2> HIDE DEF u
  <2> QED
    BY <2>1, <2>2, <2>3, <2>4 DEF Stages
<1>7. ASSUME NEW a \in BOOLEAN, NEW ok \in BOOLEAN, SlotTask(a, ok) PROVE Safety'
  <2> DEFINE u == <<cur, nxt>>
             fatal == snap[nxt].state = "FAILED" /\ ShouldDrop(snap[nxt].trace)
  <2>1. u \in Task /\ u[1] = cur /\ u[2] = nxt /\ pc = "slot" /\ cur # None /\ db # None
    BY <1>7, TaskFacts DEF SlotTask, TypeOK
  <2>2. posts[<<"slot", u>>] = 0 /\ <<"slot", u>> \notin skipped
    <3>1. PendingSlot(u)
      BY <2>1 DEF InLoop, PendingSlot, TypeOK
    <3> HIDE DEF u
    <3> QED
      BY <2>1, <3>1 DEF HandledOnce, Fresh
  <2>3. cur \in PgSource /\ DbOf[cur] = db /\ db \in suspect /\ db \in Db
    BY <2>1 DEF LoopShape, TypeOK, Grounded, GroundedLocals
  <2>4. nxt = 0 /\ nxt \in DOMAIN snap /\ ~restart_needed
    BY <1>7, <2>3 DEF SlotTask, Ids, TypeOK, LoopShape
  <2>5. fatal => UNCHANGED posts
    BY <1>7, <2>4 DEF SlotTask
  <2>6. \/ UNCHANGED posts
        \/ \A s \in Stages, t \in Task :
              posts'[<<s, t>>] = IF s = "slot" /\ t = u THEN 1 ELSE posts[<<s, t>>]
    BY <1>7, <2>1, <2>2, PostCounts DEF SlotTask, Stages
  <2>7. UNCHANGED <<failedSeen, fatalSeen, lagSeen, suspect>>
    BY <1>7 DEF SlotTask, seen
  <2>8. skipped' = IF fatal THEN skipped \cup {<<"slot", u>>} ELSE skipped
    BY <1>7 DEF SlotTask
  <2>9. dropped' \subseteq dropped \cup {db} /\ (dropped' # dropped => cur \in fatalSeen)
    BY <1>7, <2>3, <2>4 DEF SlotTask, ShouldDrop, Grounded, GroundedLocals
  <2> HIDE DEF u, fatal
  <2>10. RestartBudget' /\ NoGratuitousRestart'
    BY <2>1, <2>2, <2>3, <2>6, <2>7 DEF Stages
  <2>11. DropOnlyAfterFatal'
    BY <2>3, <2>7, <2>9
  <2>12. SkipHonoured'
    <3>1. ASSUME NEW t \in Task, t # u
          PROVE  <<"slot", t>> \in skipped' => posts'[<<"slot", t>>] = 0
      BY <2>6, <2>8, <3>1 DEF Stages
    <3>2. <<"slot", u>> \in skipped' => posts'[<<"slot", u>>] = 0
      BY <2>2, <2>5, <2>8
    <3>3. ASSUME NEW t \in Task
          PROVE  <<"failed", t>> \in skipped' => posts'[<<"failed", t>>] = 0
      BY <2>6, <2>8 DEF Stages
    <3> QED
      BY <3>1, <3>2, <3>3
  <2> QED
    BY <2>10, <2>11, <2>12
<1> HIDE DEF Safety
<1> QED
  BY <1>1, <1>2, <1>3, <1>4, <1>5, <1>6, <1>7, StepKinds

\* Every state of the guard and its cluster satisfies the inductive invariant.
THEOREM Invariance == Spec => []IInv
<1>1. Init => IInv
  <2> SUFFICES ASSUME Init PROVE IInv
    OBVIOUS
  <2>1. TypeOK
    BY InitType
  <2>2. LoopShape /\ Remembered
    BY TaskFacts DEF Init, LoopShape, Remembered, At
  <2>3. GroundedLocals
    BY DEF Init, GroundedLocals, NoSnap, Connector
  <2>4. HandledOnce
    BY DEF Init, HandledOnce, Fresh, NoPosts, Stages
  <2>5. Safety
    BY DEF Init, Safety, RestartBudget, NoGratuitousRestart, DropOnlyAfterFatal,
           SkipHonoured, NoPosts, Stages
  <2> QED
    BY <2>1, <2>2, <2>3, <2>4, <2>5 DEF IInv, Grounded
<1>2. IInv /\ [Next]_vars => IInv'
  BY TypeStep, LoopShapeStep, GroundedStep, HandledOnceStep, SafetyStep DEF IInv
<1> QED
  BY <1>1, <1>2, PTL DEF Spec

\* A stage restarts a task at most once in a pass.
THEOREM RestartBudgetHolds == Spec => []RestartBudget
BY Invariance, PTL DEF IInv, Safety

\* No task is restarted that has not failed, lagged or lost its slot.
THEOREM RestartsAreGrounded == Spec => []NoGratuitousRestart
BY Invariance, PTL DEF IInv, Safety

\* A slot is dropped only for a connector that failed fatally in this pass.
THEOREM DropsAreGrounded == Spec => []DropOnlyAfterFatal
BY Invariance, PTL DEF IInv, Safety

\* What the failed-task stage and the slot stage skip they do not restart.
THEOREM SkipsAreHonoured == Spec => []SkipHonoured
BY Invariance, PTL DEF IInv, Safety

-----------------------------------------------------------------------------
(***************************************************************************)
(* Every pass ends.                                                        *)
(***************************************************************************)

\* The stages from a given one on.
After(s) == {i \in 1 .. 6 : \E j \in 1 .. i : Course[j] = s}

\* The tasks of the connector in hand that are still to be looked at.
TasksLeft == {i \in IF cur = None THEN {} ELSE Ids(cur) : nxt <= i}

\* A loop has less to do.
Shrinks(new, old) == new \subseteq old /\ new # old

\* The stages come one after the other, and none after the end.
LEMMA StageOrder ==
  /\ After("source") = 1 .. 6 /\ After("failed") = 2 .. 6 /\ After("restarting") = 3 .. 6
  /\ After("lag") = 4 .. 6 /\ After("lagging") = 5 .. 6 /\ After("slot") = 6 .. 6
  /\ After("idle") = {}
<1>1. /\ Course[1] = "source" /\ Course[2] = "failed" /\ Course[3] = "restarting"
      /\ Course[4] = "lag" /\ Course[5] = "lagging" /\ Course[6] = "slot"
  BY DEF Course
<1>2. \A i \in 1 .. 6 : i = 1 \/ i = 2 \/ i = 3 \/ i = 4 \/ i = 5 \/ i = 6
  OBVIOUS
<1>3. /\ 1 \in 1 .. 1 /\ 2 \in 1 .. 2 /\ 3 \in 1 .. 3 /\ 4 \in 1 .. 4 /\ 5 \in 1 .. 5 /\ 6 \in 1 .. 6
  OBVIOUS
<1>4. \A i, k \in 1 .. 6 : (\E j \in 1 .. i : Course[j] = Course[k]) <=> k <= i
  BY <1>1, <1>2
<1>5. \A k \in 1 .. 6 : After(Course[k]) = k .. 6
  BY <1>4 DEF After
<1>6. After("idle") = {}
  BY <1>1, <1>2 DEF After
<1> QED
  BY <1>1, <1>5, <1>6

\* Each stage leaves less to do than the one before.
LEMMA StagesShrink ==
  /\ Shrinks(After("failed"), After("source")) /\ Shrinks(After("restarting"), After("failed"))
  /\ Shrinks(After("lag"), After("failed")) /\ Shrinks(After("lag"), After("restarting"))
  /\ Shrinks(After("lagging"), After("lag")) /\ Shrinks(After("slot"), After("lagging"))
  /\ \A i \in 1 .. 6 : Shrinks(After("idle"), After(Course[i]))
<1>1. \A j, k \in 1 .. 6 : j < k => Shrinks(k .. 6, j .. 6)
  <2> SUFFICES ASSUME NEW j \in 1 .. 6, NEW k \in 1 .. 6, j < k PROVE Shrinks(k .. 6, j .. 6)
    OBVIOUS
  <2>1. j \in j .. 6 /\ j \notin k .. 6 /\ k .. 6 \subseteq j .. 6
    OBVIOUS
  <2> QED
    BY <2>1 DEF Shrinks
<1>2. \A i \in 1 .. 6 : After(Course[i]) # {}
  <2>1. \A i \in 1 .. 6 : i \in After(Course[i])
    BY DEF After
  <2> QED
    BY <2>1
<1> QED
  BY <1>1, <1>2, StageOrder DEF Shrinks

\* Less is to be done when a loop has less to do and the loops around it have not
\* moved.
LEMMA LoopMoves ==
  ASSUME \/ Shrinks(After(pc'), After(pc))
         \/ /\ UNCHANGED pc
            /\ Shrinks(fails', fails)
         \/ /\ UNCHANGED <<pc, fails>>
            /\ Shrinks(dbs', dbs)
         \/ /\ UNCHANGED <<pc, fails, dbs>>
            /\ Shrinks({db'} \ {None}, {db} \ {None})
         \/ /\ UNCHANGED <<pc, fails, dbs, db>>
            /\ Shrinks(left', left)
         \/ /\ UNCHANGED <<pc, fails, dbs, db, left>>
            /\ Shrinks({cur'} \ {None}, {cur} \ {None})
         \/ /\ UNCHANGED <<pc, fails, dbs, db, left, cur>>
            /\ Shrinks(TasksLeft', TasksLeft)
  PROVE  Dwindles(Ahead', Ahead)
<1>1. /\ Ahead[1] = After(pc) /\ Ahead[2] = fails /\ Ahead[3] = dbs /\ Ahead[4] = {db} \ {None}
      /\ Ahead[5] = left /\ Ahead[6] = {cur} \ {None} /\ Ahead[7] = TasksLeft
  BY DEF Ahead, After, TasksLeft
<1>2. /\ Ahead'[1] = After(pc') /\ Ahead'[2] = fails' /\ Ahead'[3] = dbs'
      /\ Ahead'[4] = {db'} \ {None} /\ Ahead'[5] = left' /\ Ahead'[6] = {cur'} \ {None}
      /\ Ahead'[7] = TasksLeft'
  BY DEF Ahead, After, TasksLeft
<1> DEFINE new == Ahead'
           old == Ahead
<1>3. ASSUME NEW n \in 1 .. 7, \A m \in 1 .. n - 1 : new[m] = old[m], Shrinks(new[n], old[n])
      PROVE  Dwindles(new, old)
  BY <1>3 DEF Dwindles, Shrinks
<1> HIDE DEF new, old
<1>4. /\ \A m \in 1 .. 1 - 1 : FALSE
      /\ \A m \in 1 .. 2 - 1 : m = 1
      /\ \A m \in 1 .. 3 - 1 : m \in {1, 2}
      /\ \A m \in 1 .. 4 - 1 : m \in {1, 2, 3}
      /\ \A m \in 1 .. 5 - 1 : m \in {1, 2, 3, 4}
      /\ \A m \in 1 .. 6 - 1 : m \in {1, 2, 3, 4, 5}
      /\ \A m \in 1 .. 7 - 1 : m \in {1, 2, 3, 4, 5, 6}
  OBVIOUS
<1>5. /\ old[1] = After(pc) /\ old[2] = fails /\ old[3] = dbs /\ old[4] = {db} \ {None}
      /\ old[5] = left /\ old[6] = {cur} \ {None} /\ old[7] = TasksLeft
  BY <1>1 DEF old
<1>6. /\ new[1] = After(pc') /\ new[2] = fails' /\ new[3] = dbs' /\ new[4] = {db'} \ {None}
      /\ new[5] = left' /\ new[6] = {cur'} \ {None} /\ new[7] = TasksLeft'
  BY <1>2 DEF new
<1>7. Dwindles(new, old)
  BY <1>3, <1>4, <1>5, <1>6
<1> QED
  BY <1>7 DEF new, old

\* Every step of a pass has less to do.
LEMMA GuardMoves ==
  ASSUME TypeOK, pc # "idle", Guard \/ Abort
  PROVE  Dwindles(Ahead', Ahead)
<1> USE DEF local, loop
<1>1. ASSUME NEW a \in BOOLEAN, StartPass(a) PROVE FALSE
  BY <1>1 DEF StartPass
<1>2. ASSUME NEW a \in BOOLEAN, FetchLag(a) PROVE Shrinks(After(pc'), After(pc))
  BY <1>2, StagesShrink DEF FetchLag
<1>3. InspectSources \/ FetchFailed \/ FetchFailedRefused \/ FailedDone \/ LagDone
        => Shrinks(After(pc'), After(pc))
  BY StagesShrink DEF InspectSources, FetchFailed, FetchFailedRefused, FailedDone, LagDone
<1>4. Exit => Shrinks(After(pc'), After(pc))
  <2>1. \E i \in 1 .. 6 : pc = Course[i]
    <3>1. pc \in {"source", "failed", "restarting", "lag", "lagging", "slot"}
      BY DEF TypeOK
    <3>2. /\ Course[1] = "source" /\ Course[2] = "failed" /\ Course[3] = "restarting"
          /\ Course[4] = "lag" /\ Course[5] = "lagging" /\ Course[6] = "slot"
      BY DEF Course
    <3> QED
      BY <3>1, <3>2
  <2> QED
    BY <2>1, StagesShrink DEF Exit
<1>5. ASSUME NEW f \in fails,
             SkipFailed(f[1], f[2]) \/ \E a \in BOOLEAN : RestartFailed(f[1], f[2], a)
      PROVE  UNCHANGED pc /\ Shrinks(fails', fails)
  <2>1. UNCHANGED pc /\ fails' = fails \ {<<f[1], f[2]>>} /\ <<f[1], f[2]>> \in fails
    BY <1>5 DEF SkipFailed, RestartFailed
  <2> QED
    BY <2>1 DEF Shrinks
<1>6. ASSUME NEW d \in dbs, SlotHealthy(d) \/ SlotSuspect(d)
      PROVE  UNCHANGED <<pc, fails>> /\ Shrinks(dbs', dbs)
  BY <1>6 DEF SlotHealthy, SlotSuspect, Shrinks
<1>7. DbDone => UNCHANGED <<pc, fails, dbs>> /\ Shrinks({db'} \ {None}, {db} \ {None})
  BY DEF DbDone, Shrinks
<1>8. ASSUME NEW c \in left, FetchStatus(c) \/ StatusUnknown(c)
      PROVE  UNCHANGED <<pc, fails, dbs, db>> /\ Shrinks(left', left)
  BY <1>8 DEF FetchStatus, StatusUnknown, Shrinks
<1>9. ConnectorDone
        => UNCHANGED <<pc, fails, dbs, db, left>> /\ Shrinks({cur'} \ {None}, {cur} \ {None})
  BY DEF ConnectorDone, Shrinks
<1>10. ASSUME \/ \E a \in BOOLEAN : LagTask(a)
              \/ \E a, ok \in BOOLEAN : SlotTask(a, ok)
       PROVE  UNCHANGED <<pc, fails, dbs, db, left, cur>> /\ Shrinks(TasksLeft', TasksLeft)
  <2>1. /\ UNCHANGED <<pc, fails, dbs, db, left, cur>>
        /\ cur # None /\ nxt \in Ids(cur) /\ nxt' = nxt + 1
    BY <1>10 DEF LagTask, SlotTask
  <2>2. nxt \in TasksLeft /\ nxt \notin TasksLeft' /\ TasksLeft' \subseteq TasksLeft
    BY <2>1 DEF TasksLeft, TypeOK, Ids
  <2> QED
    BY <2>1, <2>2 DEF Shrinks
<1>11. PassDone \/ Abort => Exit
  BY DEF PassDone, Abort
<1> QED
  BY <1>1, <1>2, <1>3, <1>4, <1>5, <1>6, <1>7, <1>8, <1>9, <1>10, <1>11, LoopMoves DEF Guard

\* A pass ends whatever the cluster does meanwhile: each step of the guard leaves
\* less to do, and the cluster adds nothing.
THEOREM PassesDwindle == Spec => PassDwindles
<1>1. TypeOK /\ [Next]_vars
        => [pc # "idle" => Dwindles(Ahead', Ahead) \/ UNCHANGED <<pc, local, report>>]_vars
  BY GuardMoves, ClusterFrame DEF Next
<1> QED
  BY <1>1, TypeCorrect, PTL DEF Spec, PassDwindles

\* What a pass has still to do is finite if connectors and databases are, so that
\* it can dwindle only finitely often.
THEOREM AheadIsFinite ==
  ASSUME IsFiniteSet(Connector), IsFiniteSet(Db)
  PROVE  TypeOK => \A n \in 1 .. 7 : IsFiniteSet(Ahead[n])
<1> SUFFICES ASSUME TypeOK PROVE \A n \in 1 .. 7 : IsFiniteSet(Ahead[n])
  OBVIOUS
<1>1. ASSUME NEW a \in Int, NEW b \in Int PROVE IsFiniteSet(a .. b)
  BY FS_Interval
<1>2. IsFiniteSet(1 .. 6) /\ IsFiniteSet(0 .. NumTasks - 1)
  <2>1. 1 \in Int /\ 6 \in Int /\ 0 \in Int /\ NumTasks - 1 \in Int
    OBVIOUS
  <2> QED
    BY <1>1, <2>1
<1>3. IsFiniteSet(Task \X Traces)
  <2>1. IsFiniteSet(Connector \X (0 .. NumTasks - 1))
    BY <1>2, FS_Product
  <2>2. Task \subseteq Connector \X (0 .. NumTasks - 1)
    BY DEF Task, Connector
  <2>3. IsFiniteSet(Task)
    BY <2>1, <2>2, FS_Subset
  <2>4. IsFiniteSet({} \cup {"none"} \cup {"transient"} \cup {"nonrestartable"} \cup {"duplicate"})
    BY FS_EmptySet, FS_AddElement
  <2>5. {} \cup {"none"} \cup {"transient"} \cup {"nonrestartable"} \cup {"duplicate"} = Traces
    BY DEF Traces
  <2>6. IsFiniteSet(Traces)
    BY <2>4, <2>5, Zenon
  <2> QED
    BY <2>3, <2>6, FS_Product
<1>4. {db} \ {None} \subseteq Db /\ {cur} \ {None} \subseteq Connector
  BY DEF TypeOK
<1>5. /\ {i \in 1 .. 6 : \E j \in 1 .. i : Course[j] = pc} \subseteq 1 .. 6
      /\ fails \subseteq Task \X Traces /\ dbs \subseteq Db /\ left \subseteq Connector
      /\ TasksLeft \subseteq 0 .. NumTasks - 1
  BY TaskFacts DEF TypeOK, TasksLeft
<1>6. /\ IsFiniteSet({i \in 1 .. 6 : \E j \in 1 .. i : Course[j] = pc})
      /\ IsFiniteSet(fails) /\ IsFiniteSet(dbs) /\ IsFiniteSet({db} \ {None})
      /\ IsFiniteSet(left) /\ IsFiniteSet({cur} \ {None}) /\ IsFiniteSet(TasksLeft)
  <2>1. \A S, T : IsFiniteSet(S) /\ T \subseteq S => IsFiniteSet(T)
    BY FS_Subset
  <2> DEFINE stages == {i \in 1 .. 6 : \E j \in 1 .. i : Course[j] = pc}
             dbInHand == {db} \ {None}
             curInHand == {cur} \ {None}
  <2>2. /\ stages \subseteq 1 .. 6 /\ dbInHand \subseteq Db /\ curInHand \subseteq Connector
    BY <1>4
  <2> HIDE DEF stages, dbInHand, curInHand
  <2>3. /\ IsFiniteSet(stages) /\ IsFiniteSet(fails) /\ IsFiniteSet(dbs) /\ IsFiniteSet(dbInHand)
        /\ IsFiniteSet(left) /\ IsFiniteSet(curInHand) /\ IsFiniteSet(TasksLeft)
    BY <1>2, <1>3, <1>5, <2>1, <2>2
  <2> QED
    BY <2>3 DEF stages, dbInHand, curInHand
<1>7. /\ IsFiniteSet(Ahead[1]) /\ IsFiniteSet(Ahead[2]) /\ IsFiniteSet(Ahead[3])
      /\ IsFiniteSet(Ahead[4]) /\ IsFiniteSet(Ahead[5]) /\ IsFiniteSet(Ahead[6])
      /\ IsFiniteSet(Ahead[7])
  BY <1>6 DEF Ahead, TasksLeft
<1> QED
  <2>1. \A n \in 1 .. 7 : n = 1 \/ n = 2 \/ n = 3 \/ n = 4 \/ n = 5 \/ n = 6 \/ n = 7
    OBVIOUS
  <2> QED
    BY <1>7, <2>1
=============================================================================
