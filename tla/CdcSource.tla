----------------------------- MODULE CdcSource -----------------------------
(***************************************************************************)
(* The SQL Server stage and the topic audit of the CDC guard               *)
(* (kafka/cdc/src/main.py): for every database behind a Debezium connector *)
(* the guard checks the AlwaysOn group, moves to the primary replica and   *)
(* starts the capture job if it has stopped; then it compares the topics of*)
(* Kafka with those the connectors use.  What CdcGuard takes as one step   *)
(* (InspectSources) is spelled out here.                                   *)
(*                                                                         *)
(* Every query is one action.  The connection cache of a pass is kept for  *)
(* the database in hand: its key holds host and database, and the databases*)
(* of the list differ.  A topic is the sequence of its dot-separated names.*)
(***************************************************************************)
EXTENDS Naturals, FiniteSets, SequencesExt

CONSTANTS Server, Group, Db, Connector, None,
          Members,   \* the servers of a group
          GroupOf,   \* the group of a database, or None
          Home,      \* the host in the configuration of a database
          HasJob,    \* <<s, d>>: a capture job of d exists on s
          Published, \* databases with transactional replication
          Lost,      \* servers that stay down once they go down
          Config,    \* the configuration of a connector
          Stray,     \* topics of Kafka that no connector uses
          MaxEvents  \* bound: disturbances

ASSUME CdcSourceAssumption ==
  /\ None \notin Group \cup Db
  /\ Members \in [Group -> (SUBSET Server) \ {{}}]
  /\ GroupOf \in [Db -> Group \cup {None}]
  /\ Home \in [Db -> Server]
  /\ \A d \in Db : GroupOf[d] # None => Home[d] \in Members[GroupOf[d]]
  /\ HasJob \subseteq Server \X Db /\ Published \subseteq Db /\ Lost \subseteq Server
  /\ Config \in [Connector -> [db : Db, prefix : Seq(STRING) \ {<<>>}, path : Seq(STRING),
                               history : Seq(STRING) \ {<<>>}, tables : SUBSET STRING]]
  /\ MaxEvents \in Nat

VARIABLES
  \* SQL Server and Kafka (external)
  up,         \* servers that answer
  primary,    \* the primary replica of a group
  abnormal,   \* groups whose secondaries do not report SYNCHRONIZING
  jobs,       \* <<s, d>>: the capture job of d runs on s
  topics, paused, events,
  \* the guard
  pc,
  left,       \* databases still to visit
  db, host,   \* the database in hand and db["hostname"]
  conn,       \* connections[(host, port, db)]: none, live, dead
  expected,   \* the topics of a database as discovered
  deprecated, missing, \* reported for a database by the last audit
  \* history
  clean,      \* no query has failed since the database was taken in hand
  reign       \* the servers that have been its primary since then

env    == <<up, primary, abnormal, jobs, topics, paused>>
audit  == <<expected, deprecated, missing>>
inHand == <<db, host, conn, clean, reign>>
vars   == <<env, events, pc, left, inHand, audit>>
Place(d) == IF GroupOf[d] = None THEN Home[d] ELSE primary[GroupOf[d]]
Hosted(s) == {g \in Group : s \in Members[g]}

\* get_kafka_connect_all_topics: schema changes, schema history, one per table.
AllTopics(c) ==
  {Config[c].prefix, Config[c].history} \cup {Append(Config[c].path, t) : t \in Config[c].tables}

Topic == Stray \cup UNION {AllTopics(c) : c \in Connector}

Stages == {"idle", "next", "tables", "group", "sync", "role", "switch", "job", "start",
           "apply", "audit"}

TypeOK ==
  /\ up \subseteq Server
  /\ primary \in [Group -> Server] /\ \A g \in Group : primary[g] \in Members[g]
  /\ abnormal \subseteq Group
  /\ jobs \subseteq HasJob
  /\ topics \subseteq Topic /\ paused \subseteq Connector
  /\ events \in 0 .. MaxEvents
  /\ pc \in Stages
  /\ left \subseteq Db
  /\ IF pc \in {"idle", "next", "audit"}
     THEN db = None /\ host = None
     ELSE db \in Db /\ host \in Server
  /\ conn \in [Server -> {"none", "live", "dead"}]
  /\ expected \in [Db -> SUBSET Topic]
  /\ deprecated \in [Db -> SUBSET Topic] /\ missing \in [Db -> SUBSET Topic]
  /\ clean \in BOOLEAN
  /\ reign \subseteq Server

NoConn    == [s \in Server |-> "none"]
NoReports == [d \in Db |-> {}]

Init ==
  /\ up = Server
  /\ primary \in [Group -> Server] /\ \A g \in Group : primary[g] \in Members[g]
  /\ abnormal = {}
  /\ jobs \in {J \in SUBSET HasJob : \A j \in J : j[1] = Place(j[2])}
  /\ topics = Topic /\ paused = {} /\ events = 0
  /\ pc = "idle" /\ left = {} /\ db = None /\ host = None /\ conn = NoConn
  /\ expected = NoReports /\ deprecated = NoReports /\ missing = NoReports
  /\ clean = TRUE /\ reign = {}

-----------------------------------------------------------------------------
(***************************************************************************)
(* SQL Server, Kafka and their operators.                                  *)
(***************************************************************************)
Disturb == events < MaxEvents /\ events' = events + 1

ServerDown(s) ==
  /\ s \in up /\ Disturb
  /\ up' = up \ {s}
  /\ jobs' = {j \in jobs : j[1] # s}
  /\ conn' = [conn EXCEPT ![s] = IF @ = "live" THEN "dead" ELSE @]
  /\ UNCHANGED <<primary, abnormal, topics, paused, pc, left, db, host, clean, reign, audit>>

Recover(s) ==
  /\ s \in Server \ (up \cup Lost)
  /\ up' = up \cup {s}
  /\ UNCHANGED <<primary, abnormal, jobs, topics, paused, events, pc, left, inHand, audit>>

\* Another replica takes over, as it must when the primary is down.  Jobs end
\* on the old one, and so may the connections to the databases of the group.
Failover(g, s) ==
  /\ s \in (Members[g] \cap up) \ {primary[g]}
  /\ IF primary[g] \in up THEN Disturb ELSE UNCHANGED events
  /\ primary' = [primary EXCEPT ![g] = s]
  /\ jobs' = {j \in jobs : ~(j[1] = primary[g] /\ GroupOf[j[2]] = g)}
  /\ IF db # None /\ GroupOf[db] = g
     THEN /\ reign' = reign \cup {s}
          /\ \/ UNCHANGED conn
             \/ conn' = [t \in Server |-> IF conn[t] = "live" THEN "dead" ELSE conn[t]]
     ELSE UNCHANGED <<reign, conn>>
  /\ UNCHANGED <<up, abnormal, topics, paused, pc, left, db, host, clean, audit>>

JobStops(j) ==
  /\ j \in jobs /\ Disturb
  /\ jobs' = jobs \ {j}
  /\ UNCHANGED <<up, primary, abnormal, topics, paused, pc, left, inHand, audit>>

SyncStops(g) ==
  /\ g \notin abnormal /\ Disturb
  /\ abnormal' = abnormal \cup {g}
  /\ UNCHANGED <<up, primary, jobs, topics, paused, pc, left, inHand, audit>>

SyncResumes(g) ==
  /\ g \in abnormal
  /\ abnormal' = abnormal \ {g}
  /\ UNCHANGED <<up, primary, jobs, topics, paused, events, pc, left, inHand, audit>>

\* A topic is created or deleted, a connector is paused or resumed.
KafkaChanges ==
  /\ Disturb
  /\ \/ \E t \in Topic : topics' \in {topics \cup {t}, topics \ {t}} /\ UNCHANGED paused
     \/ \E c \in Connector : paused' \in {paused \cup {c}, paused \ {c}} /\ UNCHANGED topics
  /\ UNCHANGED <<up, primary, abnormal, jobs, pc, left, inHand, audit>>

-----------------------------------------------------------------------------
(***************************************************************************)
(* get_sqlserver_connection, and a query on the connection it returns.     *)
(***************************************************************************)
Reachable == conn[host] = "live" \/ (conn[host] = "none" /\ host \in up)

\* A query is answered (ok), fails on its own account, or finds no connection.
Answered(ok) ==
  /\ ok => Reachable
  /\ IF Reachable /\ ~ok THEN Disturb ELSE UNCHANGED events

\* On with this database.  A connection that died stays in the cache.
Continue(stage, ok) ==
  /\ pc' = stage
  /\ conn' = IF Reachable THEN [conn EXCEPT ![host] = "live"] ELSE conn
  /\ clean' = (clean /\ ok)
  /\ UNCHANGED <<left, db, reign>>

\* Mutant: the host name of one database is kept for the next one.
NextDbKeepsHost ==
  /\ pc' = "next" /\ db' = None /\ conn' = NoConn
  /\ clean' = TRUE /\ reign' = {} /\ UNCHANGED <<left, host>>

\* The rest of the iteration is skipped.
NextDb ==
  /\ pc' = "next" /\ db' = None /\ host' = None /\ conn' = NoConn
  /\ clean' = TRUE /\ reign' = {} /\ UNCHANGED left

-----------------------------------------------------------------------------
(***************************************************************************)
(* get_debezium_sqlserver_connectors and                                   *)
(* check_and_repair_sqlserver_datasource.                                  *)
(***************************************************************************)

\* All databases are listed; those whose connectors are paused, without topics.
\* A request that is refused gives an empty list.
Discover ==
  /\ pc = "idle"
  /\ pc' = "next"
  /\ \/ left' = Db /\ UNCHANGED events
     \/ left' = {} /\ Disturb
  /\ expected' = [d \in Db |-> UNION {AllTopics(c) : c \in
                    {x \in Connector \ paused : Config[x].db = d /\ d \in left'}}]
  /\ deprecated' = NoReports /\ missing' = NoReports
  /\ UNCHANGED <<env, inHand>>

TakeDb(d) ==
  /\ pc = "next" /\ d \in left
  /\ pc' = "tables"
  /\ left' = left \ {d} /\ db' = d /\ host' = Home[d]
  /\ reign' = {Place(d)}
  /\ UNCHANGED <<env, events, conn, clean, audit>>

\* Mutant: the exception of the first query is not caught.
CheckTablesRaises ==
  /\ pc = "tables"
  /\ \E ok \in BOOLEAN :
       /\ Answered(ok)
       /\ IF ok THEN Continue("group", ok) /\ UNCHANGED host
          ELSE /\ pc' = "idle" /\ left' = {} /\ db' = None /\ host' = None
               /\ conn' = NoConn /\ clean' = TRUE /\ reign' = {}
  /\ UNCHANGED <<env, audit>>

\* check_sqlserver_cdc: a database that cannot be asked is skipped.
CheckTables ==
  /\ pc = "tables"
  /\ \E ok \in BOOLEAN :
       /\ Answered(ok)
       /\ IF ok THEN Continue("group", ok) /\ UNCHANGED host ELSE NextDb
  /\ UNCHANGED <<env, audit>>

\* is_sqlserver_alwayson: an error counts as no.
CheckGroup ==
  /\ pc = "group"
  /\ \E ok \in BOOLEAN :
       /\ Answered(ok)
       /\ Continue(IF ok /\ Hosted(host) # {} THEN "sync" ELSE "job", ok)
  /\ UNCHANGED <<env, host, audit>>

\* The secondary replicas of the database that the host knows the state of.
Rows ==
  IF GroupOf[db] = None THEN {}
  ELSE IF host = Place(db) THEN Members[GroupOf[db]] \ {host} ELSE {host}

Synchronizing(s) == s \in up /\ GroupOf[db] \notin abnormal

\* check_sqlserver_alwayson_status: it reads the first row only, and skips the
\* database when that replica is in any state but SYNCHRONIZING, or on an error.
CheckSync ==
  /\ pc = "sync"
  /\ \E ok \in BOOLEAN :
       /\ Answered(ok)
       /\ \/ ok /\ (Rows = {} \/ \E s \in Rows : Synchronizing(s))
            /\ Continue("role", ok) /\ UNCHANGED host
          \/ (ok => \E s \in Rows : ~Synchronizing(s)) /\ NextDb
  /\ UNCHANGED <<env, audit>>

\* Mutant: the answer is not used.
CheckRoleIgnored ==
  /\ pc = "role"
  /\ \E ok \in BOOLEAN : Answered(ok) /\ Continue("job", ok)
  /\ UNCHANGED <<env, host, audit>>

\* is_sqlserver_alwayson_primary: NULL, for a database of no group, counts as
\* yes, and an error as no.
CheckRole ==
  /\ pc = "role"
  /\ \E ok \in BOOLEAN :
       /\ Answered(ok)
       /\ Continue(IF ok /\ (GroupOf[db] = None \/ host = Place(db)) THEN "job" ELSE "switch", ok)
  /\ UNCHANGED <<env, host, audit>>

\* Mutant: the primary replica is looked up and the host name kept.
SwitchNowhere ==
  /\ pc = "switch"
  /\ \E ok \in BOOLEAN : Answered(ok) /\ Continue("job", ok)
  /\ UNCHANGED <<env, host, audit>>

\* get_sqlserver_alwayson_primary: the first row, of any group on the host.
Switch ==
  /\ pc = "switch"
  /\ \E ok \in BOOLEAN :
       /\ Answered(ok) /\ Continue("job", ok)
       /\ IF ok /\ Hosted(host) # {} THEN \E g \in Hosted(host) : host' = primary[g]
          ELSE UNCHANGED host
  /\ UNCHANGED <<env, audit>>

\* check_sqlserver_cdc_agent_job: a query about a job that does not exist, or
\* that fails, is followed by one for IsPublished.
CheckJob ==
  /\ pc = "job" /\ Reachable
  /\ \E ok \in BOOLEAN :
       /\ Answered(ok)
       /\ LET fine == IF ok /\ <<host, db>> \in HasJob THEN <<host, db>> \in jobs
                      ELSE db \in Published
          IN  Continue(IF fine THEN "apply" ELSE "start", ok)
  /\ UNCHANGED <<env, host, audit>>

\* The connection is made outside the try, and the second query in the handler:
\* the exception ends the pass.
Abort ==
  /\ pc = "job"
  /\ IF Reachable THEN Disturb ELSE UNCHANGED events
  /\ pc' = "idle" /\ left' = {} /\ db' = None /\ host' = None /\ conn' = NoConn
  /\ clean' = TRUE /\ reign' = {}
  /\ UNCHANGED <<env, audit>>

\* restart_sqlserver_cdc_agent_job: errors are swallowed.
StartJob ==
  /\ pc = "start"
  /\ \E ok \in BOOLEAN :
       /\ Answered(ok) /\ Continue("apply", ok)
       /\ jobs' = IF ok THEN jobs \cup ({<<host, db>>} \cap HasJob) ELSE jobs
  /\ UNCHANGED <<up, primary, abnormal, topics, paused, host, audit>>

\* apply_sqlserver_cdc_changes, always a dry run: the statements are logged.
Apply ==
  /\ pc = "apply"
  /\ NextDb
  /\ UNCHANGED <<env, events, audit>>

StageEnd ==
  /\ pc = "next" /\ left = {}
  /\ pc' = "audit"
  /\ UNCHANGED <<env, events, left, inHand, audit>>

-----------------------------------------------------------------------------
(***************************************************************************)
(* check_and_repair_kafka_topics.                                          *)
(***************************************************************************)

\* Mutant: the name is split at its first dot.
ParentFirst(t) == SubSeq(t, 1, 1)

\* t.rsplit('.', 1)[0]
Parent(t) == Front(t)

\* The topics of all that belong to the expected ones: those with the same
\* parent (or a longer one), or a name without a dot that is expected.
Matching(all, wanted) ==
  {t \in all : \/ \E w \in wanted : Len(w) > 1 /\ IsStrictPrefix(Parent(w), t)
               \/ Len(t) = 1 /\ t \in wanted}

Audit ==
  /\ pc = "audit" /\ topics # {}
  /\ pc' = "idle"
  /\ deprecated' = [d \in Db |-> Matching(topics, expected[d]) \ expected[d]]
  /\ missing' = [d \in Db |-> expected[d] \ Matching(topics, expected[d])]
  /\ UNCHANGED <<env, events, left, inHand, expected>>

\* The request fails or names no topic: nothing is reported.
NoAudit ==
  /\ pc = "audit"
  /\ IF topics # {} THEN Disturb ELSE UNCHANGED events
  /\ pc' = "idle"
  /\ UNCHANGED <<env, left, inHand, audit>>

-----------------------------------------------------------------------------
Guard ==
  \/ Discover \/ (\E d \in Db : TakeDb(d)) \/ CheckTables \/ CheckGroup \/ CheckSync
  \/ CheckRole \/ Switch \/ CheckJob \/ Abort \/ StartJob \/ Apply
  \/ StageEnd \/ Audit \/ NoAudit

Repairs ==
  \/ \E s \in Server : Recover(s)
  \/ \E g \in Group : SyncResumes(g)

Next ==
  \/ Guard \/ Repairs \/ KafkaChanges
  \/ \E s \in Server : ServerDown(s) \/ \E g \in Group : Failover(g, s)
  \/ \E j \in HasJob : JobStops(j)
  \/ \E g \in Group : SyncStops(g)

Spec == Init /\ [][Next]_vars

\* The guard is run again and again and a pass goes on; servers that are not
\* lost come back, groups synchronize again, and a group does not stay without
\* its primary.
FairSpec ==
  /\ Spec /\ WF_vars(Guard)
  /\ \A s \in Server : WF_vars(Recover(s))
  /\ \A g \in Group : /\ WF_vars(SyncResumes(g))
                     /\ WF_vars(primary[g] \notin up /\ \E s \in Server : Failover(g, s))

-----------------------------------------------------------------------------
(***************************************************************************)
(* Properties.                                                             *)
(***************************************************************************)

\* The servers of a database.
Replicas(d) == IF GroupOf[d] = None THEN {Home[d]} ELSE Members[GroupOf[d]]

\* The group of a database is the only one on its host.
OneGroup(d) == Hosted(Home[d]) \subseteq {GroupOf[d]}

\* A capture job is started only on a server that has been the primary replica
\* of its database since the guard took the database in hand, through
\* failovers between any two queries; unless a query failed (an error of
\* is_sqlserver_alwayson counts as "no group"), or the host of the database has
\* a replica of another group, whose primary may be taken for its own.
StartedAtPrimary ==
  [][\A j \in jobs' \ jobs :
       j[2] = db /\ (j[1] \in reign \/ ~clean \/ ~OneGroup(db))]_vars

\* Passes get through the stage to the topic audit again and again, although a
\* server may stay down: check_sqlserver_cdc fails first, and its errors are
\* caught.
StageCompletes == []<>(pc = "audit")

\* Whatever servers fail or change roles, a capture job that has stopped is
\* started again where the database lives then, if no server of its database
\* stays down.
JobRepaired ==
  \A d \in {e \in Db : OneGroup(e) /\ Replicas(e) \X {e} \subseteq HasJob
                       /\ Replicas(e) \cap Lost = {}} :
    []<>(<<Place(d), d>> \in jobs)

\* Names of topics do not run into each other: the path of the tables of one
\* database is no prefix of a topic of another one, and the names of history
\* and schema topics have no dot.
Separate ==
  \A c, e \in Connector :
    /\ Config[c].path # <<>> /\ Len(Config[c].prefix) = 1 /\ Len(Config[c].history) = 1
    /\ Config[c].db # Config[e].db =>
         \A t \in AllTopics(e) : ~IsStrictPrefix(Config[c].path, t)

\* What the audit reports can be acted on: the missing topics are exactly those
\* expected and absent, and a topic reported as deprecated exists and is used by
\* no connector, of whatever database, that was not paused at the discovery.
AuditSound ==
  [][Audit => \A d \in Db :
       /\ missing'[d] = expected[d] \ topics
       /\ deprecated'[d] \subseteq topics
       /\ Separate => \A e \in Db : deprecated'[d] \cap expected[e] = {}]_vars
=============================================================================
