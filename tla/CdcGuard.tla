------------------------------ MODULE CdcGuard ------------------------------
(***************************************************************************)
(* One pass of the CDC guard (kafka/cdc/src/main.py), repeated by an       *)
(* outside scheduler, against the Kafka Connect cluster and the PostgreSQL *)
(* replication slots it repairs.  Every HTTP call of the guard is a step of*)
(* its own, so the cluster moves between the moment the guard reads a      *)
(* status and the moment it acts on it.                                    *)
(*                                                                         *)
(* Sink connectors (JDBC) run NumTasks tasks each; a PostgreSQL source     *)
(* connector runs exactly one.  Traces are abstracted to the classes the   *)
(* guard tells apart: a sink trace that contains one of the                *)
(* non_restartable_errors, a source trace that contains one of the         *)
(* non_recoverable_keywords, and any other ("transient").                  *)
(***************************************************************************)
EXTENDS Naturals, FiniteSets

CONSTANTS Sink,       \* JDBC sink connectors
          PgSource,   \* Debezium PostgreSQL source connectors
          NumTasks,   \* tasks of a sink connector
          Db,         \* PostgreSQL databases, each with a slot 'debezium'
          DbOf,       \* the database a PostgreSQL connector captures
          Holder,     \* the connector that consumes the slot of a database
          None,       \* "no connector", "no database"
          MaxEvents   \* bound: disturbances of the cluster that are not
                      \* consequences of an earlier one

Connector == Sink \cup PgSource

ASSUME CdcGuardAssumption ==
  /\ Sink \cap PgSource = {}
  /\ NumTasks \in Nat \ {0}
  /\ DbOf \in [PgSource -> Db]
  /\ Holder \in [Db -> PgSource]
  /\ \A d \in Db : DbOf[Holder[d]] = d
  /\ None \notin Connector \cup Db
  /\ MaxEvents \in Nat

Ids(c) == IF c \in Sink THEN 0 .. NumTasks - 1 ELSE {0}
Task   == (Sink \X (0 .. NumTasks - 1)) \cup (PgSource \X {0})

States == {"RUNNING", "UNASSIGNED", "PAUSED", "FAILED"}
Traces == {"none", "transient", "nonrestartable", "duplicate"}
Status == [state : States, trace : Traces]
Stages == {"failed", "lag", "slot"}
At(s)  == [state |-> s, trace |-> "none"]

VARIABLES
  \* Kafka Connect, Kafka and PostgreSQL (external)
  task,     \* state and trace of every task
  fault,    \* connectors with a fault that a restart does not cure
  paused,   \* paused connectors
  lag,      \* sinks whose consumer group has a summedLag above 200
  slot,     \* replication slot 'debezium' of every database
  events,   \* disturbances so far
  \* the guard's control and locals
  pc,       \* the stage of main()
  conns,    \* db['connectors'], as discovered at the start of the pass
  dbs,      \* databases the slot stage has still to check
  db,       \* the database under repair, or None
  fails,    \* failed_tasks still to restart, with their traces
  left,     \* connectors the lag or the slot stage has still to visit
  cur, snap, nxt,                  \* connector, its fetched status, task index
  restart_needed, recreate_needed, \* the flags of the task loop
  \* what happened during this pass (history, read by properties only)
  posts, skipped, failedSeen, fatalSeen, lagSeen, suspect, dropped

cluster == <<task, fault, paused, lag, slot, events>>
loop    == <<cur, snap, nxt, restart_needed, recreate_needed>>
local   == <<conns, dbs, db, fails, left, loop>>
seen    == <<failedSeen, fatalSeen, lagSeen>>
report  == <<posts, skipped, suspect, dropped>>
vars    == <<cluster, pc, local, seen, report>>

NoSnap  == [i \in {} |-> At("RUNNING")]
NoPosts == [p \in Stages \X Task |-> 0]

TypeOK ==
  /\ task \in [Task -> Status]
  /\ fault \subseteq Connector
  /\ paused \subseteq Connector
  /\ lag \subseteq Sink
  /\ slot \in [Db -> {"absent", "inactive", "active"}]
  /\ events \in 0 .. MaxEvents
  /\ pc \in {"idle", "source", "failed", "restarting", "lag", "lagging", "slot"}
  /\ conns \in [Db -> SUBSET PgSource]
  /\ dbs \subseteq Db
  /\ db \in Db \cup {None}
  /\ fails \subseteq Task \X Traces
  /\ left \subseteq Connector
  /\ cur \in Connector \cup {None}
  /\ snap \in [IF cur = None THEN {} ELSE Ids(cur) -> Status]
  /\ nxt \in 0 .. NumTasks
  /\ restart_needed \in BOOLEAN
  /\ recreate_needed \in BOOLEAN
  /\ posts \in [Stages \X Task -> Nat]
  /\ skipped \subseteq Stages \X Task
  /\ failedSeen \subseteq Task
  /\ fatalSeen \subseteq PgSource
  /\ lagSeen \subseteq Sink
  /\ suspect \subseteq Db
  /\ dropped \subseteq Db

Init ==
  /\ task = [t \in Task |-> At("RUNNING")]
  /\ fault = {} /\ paused = {} /\ lag = {}
  /\ slot = [d \in Db |-> "active"]
  /\ events = 0
  /\ pc = "idle"
  /\ conns = [d \in Db |-> {}] /\ dbs = {} /\ db = None
  /\ fails = {} /\ left = {}
  /\ cur = None /\ snap = NoSnap /\ nxt = 0
  /\ restart_needed = FALSE /\ recreate_needed = FALSE
  /\ posts = NoPosts /\ skipped = {} /\ suspect = {} /\ dropped = {}
  /\ failedSeen = {} /\ fatalSeen = {} /\ lagSeen = {}

-----------------------------------------------------------------------------
(***************************************************************************)
(* The cluster.                                                            *)
(***************************************************************************)
FatalTrace(c) == IF c \in Sink THEN "nonrestartable" ELSE "duplicate"

\* The slot of a database loses its consumer when the holder's task stops.
Detached(c) ==
  [d \in Db |-> IF c = Holder[d] /\ slot[d] = "active" THEN "inactive" ELSE slot[d]]

Disturb == events < MaxEvents /\ events' = events + 1

\* A running task fails: again and again while its connector has a fault,
\* once in a while for a transient reason.
FailTask(c, i) ==
  LET t == <<c, i>> IN
  /\ task[t].state = "RUNNING"
  /\ \/ /\ c \in fault
        /\ task' = [task EXCEPT ![t] = [state |-> "FAILED", trace |-> FatalTrace(c)]]
        /\ fatalSeen' = IF c \in PgSource /\ pc # "idle"
                        THEN fatalSeen \cup {c} ELSE fatalSeen
        /\ UNCHANGED events
     \/ /\ Disturb
        /\ task' = [task EXCEPT ![t] = [state |-> "FAILED", trace |-> "transient"]]
        /\ UNCHANGED fatalSeen
  /\ slot' = Detached(c)
  /\ failedSeen' = IF pc = "idle" THEN failedSeen ELSE failedSeen \cup {t}
  /\ UNCHANGED <<fault, paused, lag, pc, local, lagSeen, report>>

\* A table, a column or a relation changes under a connector.
Break(c) ==
  /\ c \notin fault
  /\ Disturb
  /\ fault' = fault \cup {c}
  /\ UNCHANGED <<task, paused, lag, slot, pc, local, seen, report>>

\* A person repairs what a sink cannot recover from and restarts its tasks.
FixSink(c) ==
  /\ c \in fault
  /\ fault' = fault \ {c}
  /\ task' = [t \in Task |-> IF t[1] = c /\ task[t].state = "FAILED"
                             THEN At("UNASSIGNED") ELSE task[t]]
  /\ UNCHANGED <<paused, lag, slot, events, pc, local, seen, report>>

\* A (re)started task is picked up by a worker.
StartTask(t) ==
  /\ task[t].state = "UNASSIGNED"
  /\ task' = [task EXCEPT ![t] = At("RUNNING")]
  /\ UNCHANGED <<fault, paused, lag, slot, events, pc, local, seen, report>>

\* The holder's task connects to its slot, creating it when it is absent.
AttachSlot(d) ==
  /\ task[<<Holder[d], 0>>].state = "RUNNING"
  /\ slot[d] # "active"
  /\ slot' = [slot EXCEPT ![d] = "active"]
  /\ UNCHANGED <<task, fault, paused, lag, events, pc, local, seen, report>>

Pause(c) ==
  /\ c \notin paused
  /\ Disturb
  /\ paused' = paused \cup {c}
  /\ task' = [t \in Task |-> IF t[1] = c /\ task[t].state # "FAILED"
                             THEN At("PAUSED") ELSE task[t]]
  /\ slot' = Detached(c)
  /\ UNCHANGED <<fault, lag, pc, local, seen, report>>

Resume(c) ==
  /\ c \in paused
  /\ paused' = paused \ {c}
  /\ task' = [t \in Task |-> IF t[1] = c /\ task[t].state = "PAUSED"
                             THEN At("UNASSIGNED") ELSE task[t]]
  /\ UNCHANGED <<fault, lag, slot, events, pc, local, seen, report>>

LagRises(c) ==
  /\ c \notin lag
  /\ Disturb
  /\ lag' = lag \cup {c}
  /\ lagSeen' = IF pc = "idle" THEN lagSeen ELSE lagSeen \cup {c}
  /\ UNCHANGED <<task, fault, paused, slot, pc, local, failedSeen, fatalSeen, report>>

LagDrains(c) ==
  /\ c \in lag
  /\ lag' = lag \ {c}
  /\ UNCHANGED <<task, fault, paused, slot, events, pc, local, seen, report>>

Cluster ==
  \/ \E c \in Connector : Break(c) \/ Pause(c) \/ Resume(c)
  \/ \E c \in Connector : \E i \in Ids(c) : FailTask(c, i)
  \/ \E c \in Sink : FixSink(c) \/ LagRises(c) \/ LagDrains(c)
  \/ \E t \in Task : StartTask(t)
  \/ \E d \in Db : AttachSlot(d)

-----------------------------------------------------------------------------
(***************************************************************************)
(* The guard.                                                              *)
(***************************************************************************)

\* get_debezium_sqlserver_connectors: the databases and, for each, the
\* connectors that are not paused.  A status code other than 200 yields no
\* database; a connection error aborts the pass, which changes nothing.
StartPass(answered) ==
  /\ pc = "idle"
  /\ pc' = "source"
  /\ conns' = [d \in Db |-> {c \in PgSource : answered /\ DbOf[c] = d /\ c \notin paused}]
  /\ dbs' = IF answered THEN Db ELSE {}
  /\ failedSeen' = {t \in Task : task[t].state = "FAILED"}
  /\ fatalSeen' = {c \in PgSource : task[<<c, 0>>].trace = "duplicate"}
  /\ lagSeen' = lag
  /\ UNCHANGED <<cluster, db, fails, left, loop, report>>

\* The SQL Server and the topic stages, which do not touch Kafka Connect.
InspectSources ==
  /\ pc = "source"
  /\ pc' = "failed"
  /\ UNCHANGED <<cluster, local, seen, report>>

\* Mutant: only a task without a trace is restarted.
RestartableNoTrace(trace) == trace = "none"

\* check_kafka_connect_failed_tasks
Restartable(trace) == trace # "nonrestartable"

\* Mutant: any failure of a source counts as non-recoverable.
ShouldDropAny(trace) == trace # "none"

\* should_drop_postgres_replication_slot
ShouldDrop(trace) == trace = "duplicate"

\* Mutant: whatever is not running is taken for failed.
FetchNotRunning ==
  /\ pc = "failed"
  /\ pc' = "restarting"
  /\ fails' = {<<t, task[t].trace>> : t \in {u \in Task : task[u].state # "RUNNING"}}
  /\ UNCHANGED <<cluster, conns, dbs, db, left, loop, seen, report>>

\* check_and_restart_kafka_connect_failed_tasks fetches the status of every
\* task once; a status code other than 200 ends the stage.
FetchFailed ==
  /\ pc = "failed"
  /\ pc' = "restarting"
  /\ fails' = {<<t, task[t].trace>> : t \in {u \in Task : task[u].state = "FAILED"}}
  /\ UNCHANGED <<cluster, conns, dbs, db, left, loop, seen, report>>

FetchFailedRefused ==
  /\ pc = "failed"
  /\ pc' = "lag"
  /\ UNCHANGED <<cluster, local, seen, report>>

\* restart_kafka_connect_tasks: the POST is applied, or refused by the
\* cluster (409 during a rebalance, 404); the guard goes on in either case.
Post(stage, t, applied) ==
  /\ posts' = [posts EXCEPT ![<<stage, t>>] = @ + 1]
  /\ task' = IF applied
             THEN [task EXCEPT ![t] =
                     At(IF t[1] \in paused THEN "PAUSED" ELSE "UNASSIGNED")]
             ELSE task

RestartFailed(t, trace, applied) ==
  /\ pc = "restarting"
  /\ <<t, trace>> \in fails
  /\ Restartable(trace)
  /\ Post("failed", t, applied)
  /\ slot' = IF applied THEN Detached(t[1]) ELSE slot
  /\ fails' = fails \ {<<t, trace>>}
  /\ UNCHANGED <<fault, paused, lag, events, pc, conns, dbs, db, left, loop,
                 seen, skipped, suspect, dropped>>

SkipFailed(t, trace) ==
  /\ pc = "restarting"
  /\ <<t, trace>> \in fails
  /\ ~Restartable(trace)
  /\ skipped' = skipped \cup {<<"failed", t>>}
  /\ fails' = fails \ {<<t, trace>>}
  /\ UNCHANGED <<cluster, pc, conns, dbs, db, left, loop, seen, posts, suspect, dropped>>

\* Mutant: the stage starts over until no task is failed.
FailedAgain ==
  /\ pc = "restarting" /\ fails = {}
  /\ pc' = "failed"
  /\ UNCHANGED <<cluster, local, seen, report>>

FailedDone ==
  /\ pc = "restarting" /\ fails = {}
  /\ pc' = "lag"
  /\ UNCHANGED <<cluster, local, seen, report>>

\* get_kafka_lag_consumer_groups_v2: each lagging group once, whatever the
\* number of its topics that lag (the break); nothing when refused.
FetchLag(answered) ==
  /\ pc = "lag"
  /\ pc' = "lagging"
  /\ left' = IF answered THEN lag ELSE {}
  /\ UNCHANGED <<cluster, conns, dbs, db, fails, loop, seen, report>>

\* get_kafka_connect_tasks_status of the next connector of the lag or of the
\* slot stage; without an answer the connector is skipped.
FetchStatus(c) ==
  /\ pc \in {"lagging", "slot"}
  /\ c \in left /\ cur = None
  /\ left' = left \ {c}
  /\ cur' = c
  /\ snap' = [i \in Ids(c) |-> task[<<c, i>>]]
  /\ UNCHANGED <<cluster, pc, conns, dbs, db, fails, nxt, restart_needed,
                 recreate_needed, seen, report>>

StatusUnknown(c) ==
  /\ pc \in {"lagging", "slot"}
  /\ c \in left /\ cur = None
  /\ left' = left \ {c}
  /\ UNCHANGED <<cluster, pc, conns, dbs, db, fails, loop, seen, report>>

\* One iteration of the task loop of check_kafka2postgres_sync.  The flag
\* restart_needed is set before the loop and never cleared inside it.
LagTask(applied) ==
  LET s    == snap[nxt]
      t    == <<cur, nxt>>
      skip == s.state = "FAILED" /\ ~Restartable(s.trace)
      need == \/ restart_needed
              \/ s.state = "FAILED" /\ Restartable(s.trace)
              \/ s.state \in {"RUNNING", "UNASSIGNED"}
  IN
  /\ pc = "lagging"
  /\ cur # None /\ nxt \in Ids(cur)
  /\ restart_needed' = need
  /\ nxt' = nxt + 1
  /\ skipped' = IF skip THEN skipped \cup {<<"lag", t>>} ELSE skipped
  /\ IF need THEN Post("lag", t, applied) ELSE UNCHANGED <<posts, task>>
  /\ slot' = IF need /\ applied THEN Detached(cur) ELSE slot
  /\ UNCHANGED <<fault, paused, lag, events, pc, conns, dbs, db, fails, left, cur,
                 snap, recreate_needed, seen, suspect, dropped>>

\* Mutant: the flags are initialised once, before the loop over connectors.
ConnectorDoneKeepFlags ==
  /\ cur # None /\ nxt \notin Ids(cur)
  /\ cur' = None /\ snap' = NoSnap /\ nxt' = 0
  /\ UNCHANGED <<cluster, pc, conns, dbs, db, fails, left, restart_needed,
                 recreate_needed, seen, report>>

\* Mutant: the status of the connector outlives its iteration.
ConnectorDoneKeepStatus ==
  /\ cur # None /\ nxt \notin Ids(cur)
  /\ cur' = None /\ nxt' = 0
  /\ restart_needed' = FALSE /\ recreate_needed' = FALSE
  /\ UNCHANGED <<cluster, pc, conns, dbs, db, fails, left, snap, seen, report>>

\* The task loop is over; the next connector starts with fresh flags.
ConnectorDone ==
  /\ cur # None /\ nxt \notin Ids(cur)
  /\ cur' = None /\ snap' = NoSnap /\ nxt' = 0
  /\ restart_needed' = FALSE /\ recreate_needed' = FALSE
  /\ UNCHANGED <<cluster, pc, conns, dbs, db, fails, left, seen, report>>

LagDone ==
  /\ pc = "lagging" /\ left = {} /\ cur = None
  /\ pc' = "slot"
  /\ UNCHANGED <<cluster, local, seen, report>>

\* check_postgres_replication_slot: TRUE only for a slot that is active and a
\* query that succeeds; an error of the query counts as a slot that is down.
SlotHealthy(d) ==
  /\ pc = "slot" /\ db = None /\ d \in dbs
  /\ slot[d] = "active"
  /\ dbs' = dbs \ {d}
  /\ UNCHANGED <<cluster, pc, conns, db, fails, left, loop, seen, report>>

SlotSuspect(d) ==
  /\ pc = "slot" /\ db = None /\ d \in dbs
  /\ dbs' = dbs \ {d}
  /\ db' = d
  /\ left' = conns[d]
  /\ suspect' = suspect \cup {d}
  /\ UNCHANGED <<cluster, pc, conns, fails, loop, seen, posts, skipped, dropped>>

\* drop_postgres_replication_slot, then the restart, in one iteration of the
\* task loop of check_and_repair_postgres_datasource.  PostgreSQL refuses to
\* drop a slot that is active or absent, and the guard swallows the error.
\* With a new slot the holder starts over, which cures its fault.
SlotTask(applied, ok) ==
  LET s     == snap[nxt]
      t     == <<cur, nxt>>
      fatal == s.state = "FAILED" /\ ShouldDrop(s.trace)
      need  == \/ restart_needed
               \/ s.state = "FAILED" /\ ~ShouldDrop(s.trace)
               \/ s.state \in {"RUNNING", "UNASSIGNED"}
      drop  == recreate_needed \/ fatal
      gone  == drop /\ ok /\ slot[db] = "inactive"
  IN
  /\ pc = "slot" /\ db # None
  /\ cur # None /\ nxt \in Ids(cur)
  /\ restart_needed' = need
  /\ recreate_needed' = drop
  /\ nxt' = nxt + 1
  /\ skipped' = IF fatal THEN skipped \cup {<<"slot", t>>} ELSE skipped
  /\ dropped' = IF gone THEN dropped \cup {db} ELSE dropped
  /\ fault' = IF gone THEN fault \ {Holder[db]} ELSE fault
  /\ slot' = IF gone THEN [slot EXCEPT ![db] = "absent"]
             ELSE IF need /\ applied THEN Detached(cur) ELSE slot
  /\ IF need THEN Post("slot", t, applied) ELSE UNCHANGED <<posts, task>>
  /\ UNCHANGED <<paused, lag, events, pc, conns, dbs, db, fails, left, cur, snap,
                 seen, suspect>>

DbDone ==
  /\ pc = "slot" /\ db # None /\ left = {} /\ cur = None
  /\ db' = None
  /\ UNCHANGED <<cluster, pc, conns, dbs, fails, left, loop, seen, report>>

\* The process exits: its locals are gone.
Exit ==
  /\ pc' = "idle"
  /\ conns' = [d \in Db |-> {}] /\ dbs' = {} /\ db' = None
  /\ fails' = {} /\ left' = {}
  /\ cur' = None /\ snap' = NoSnap /\ nxt' = 0
  /\ restart_needed' = FALSE /\ recreate_needed' = FALSE
  /\ posts' = NoPosts /\ skipped' = {} /\ suspect' = {} /\ dropped' = {}
  /\ failedSeen' = {} /\ fatalSeen' = {} /\ lagSeen' = {}
  /\ UNCHANGED cluster

PassDone == pc = "slot" /\ dbs = {} /\ db = None /\ Exit

\* An exception that no function catches reaches main() and ends the pass, as
\* does the end of the process.
Abort == pc # "idle" /\ Exit

Guard ==
  \/ \E answered \in BOOLEAN : StartPass(answered) \/ FetchLag(answered)
  \/ InspectSources \/ FetchFailed \/ FetchFailedRefused
  \/ \E f \in fails : \E applied \in BOOLEAN : RestartFailed(f[1], f[2], applied)
  \/ \E f \in fails : SkipFailed(f[1], f[2])
  \/ FailedDone \/ ConnectorDone \/ LagDone \/ DbDone \/ PassDone
  \/ \E c \in left : FetchStatus(c) \/ StatusUnknown(c)
  \/ \E applied \in BOOLEAN : LagTask(applied)
  \/ \E d \in dbs : SlotHealthy(d) \/ SlotSuspect(d)
  \/ \E applied, ok \in BOOLEAN : SlotTask(applied, ok)

Next == Cluster \/ Guard \/ Abort

Spec == Init /\ [][Next]_vars

-----------------------------------------------------------------------------
(***************************************************************************)
(* Safety.                                                                 *)
(***************************************************************************)

\* A stage restarts a task at most once in a pass, so that a task that is
\* failing, lagging and short of its slot at the same time is never restarted
\* in a loop (the task loops of check_and_restart_kafka_connect_failed_tasks,
\* check_kafka2postgres_sync and check_and_repair_postgres_datasource).
RestartBudget == \A s \in Stages, t \in Task : posts[<<s, t>>] <= 1

\* The guard works from snapshots the cluster has outrun, and yet it restarts
\* no task without grounds: during the pass the task failed, or its group
\* lagged, or the slot of its database did not look active.
NoGratuitousRestart ==
  \A s \in Stages, t \in Task :
    posts[<<s, t>>] > 0 =>
      \/ t \in failedSeen
      \/ t[1] \in lagSeen
      \/ t[1] \in PgSource /\ DbOf[t[1]] \in suspect

\* A replication slot, and with it the position of the capture, is given up
\* only when during this very pass the slot looked inactive and a connector of
\* that database had failed with the error that only a new slot cures.
DropOnlyAfterFatal ==
  \A d \in dropped :
    d \in suspect /\ \E c \in fatalSeen : DbOf[c] = d

\* The stage for failed tasks and the slot stage never restart a task they have
\* reported as skipped (the log lines of the two functions).
SkipHonoured ==
  \A t \in Task : \A s \in {"failed", "slot"} :
    <<s, t>> \in skipped => posts[<<s, t>>] = 0

\* The same claim for check_kafka2postgres_sync, whose log says "Skipping
\* restart for ... due to non-restartable error".
LagSkipHonoured ==
  \A t \in Task : <<"lag", t>> \in skipped => posts[<<"lag", t>>] = 0

\* What a pass has still to do: its stages, and the loops of a stage from the
\* outer ones to the inner ones.
Course == <<"source", "failed", "restarting", "lag", "lagging", "slot">>
Ahead ==
  <<{i \in 1 .. 6 : \E j \in 1 .. i : Course[j] = pc},
    fails, dbs, {db} \ {None}, left, {cur} \ {None},
    {i \in IF cur = None THEN {} ELSE Ids(cur) : nxt <= i}>>

\* The first loop that has moved has less to do.
Dwindles(new, old) ==
  \E n \in 1 .. 7 : /\ \A m \in 1 .. n - 1 : new[m] = old[m]
                    /\ new[n] \subseteq old[n] /\ new[n] # old[n]

\* A pass comes to an end whatever the cluster does meanwhile and whatever is
\* refused: with every step of the guard it has less to do, and nothing that
\* happens in the cluster adds to it (the lists a pass works on are read once,
\* before the loops over them).
PassDwindles ==
  [][pc # "idle" => Dwindles(Ahead', Ahead) \/ UNCHANGED <<pc, local, report>>]_vars

-----------------------------------------------------------------------------
(***************************************************************************)
(* Liveness.  The scheduler starts the guard again and again and a running *)
(* guard goes on (WF).  A call that is made again and again is not refused *)
(* for ever (SF): no bound on retries is assumed, only that no single call *)
(* of the pass is the one that always fails.                               *)
(***************************************************************************)
Served ==
  /\ WF_vars(Guard)
  /\ SF_vars(InspectSources) /\ SF_vars(FetchFailed)
  /\ \A t \in Task : SF_vars(RestartFailed(t, "transient", TRUE))

FairSpec == Spec /\ Served

\* Passes in which every call is answered, every restart applied and nothing
\* aborts, over a cluster that runs: workers start what is restarted, a
\* connector with a fault fails again, a paused connector is resumed.
Answered ==
  \/ StartPass(TRUE) \/ InspectSources \/ FetchFailed \/ FetchLag(TRUE)
  \/ \E f \in fails : RestartFailed(f[1], f[2], TRUE) \/ SkipFailed(f[1], f[2])
  \/ FailedDone \/ ConnectorDone \/ LagDone \/ DbDone \/ PassDone
  \/ \E c \in left : FetchStatus(c)
  \/ LagTask(TRUE) \/ SlotTask(TRUE, TRUE)
  \/ \E d \in dbs : SlotHealthy(d) \/ (slot[d] # "active" /\ SlotSuspect(d))

CalmSpec ==
  /\ Init /\ [][Cluster \/ Answered]_vars
  /\ WF_vars(Answered)
  /\ \A t \in Task : WF_vars(StartTask(t))
  /\ \A c \in PgSource : WF_vars(Resume(c)) /\ WF_vars(c \in fault /\ FailTask(c, 0))

\* A task that failed for a transient reason is not left failed: some later
\* pass restarts it, however often passes abort, calls are refused and other
\* tasks are handled first (check_and_restart_kafka_connect_failed_tasks).
TransientHealed ==
  \A t \in Task : task[t].trace = "transient" ~> task[t].trace # "transient"

\* "Whenever it is met the slot has to be rebuilt": a source that fails with
\* the relfilenode error eventually has its slot dropped
\* (should_drop_postgres_replication_slot).
FatalSlotRebuilt ==
  \A d \in Db :
    task[<<Holder[d], 0>>].trace = "duplicate" ~> Holder[d] \notin fault
=============================================================================
