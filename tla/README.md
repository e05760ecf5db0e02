# Verification of dockerize-and-ansible

TLA+ modules, model-checking configurations and machine-checked proofs for the
programs of this repository. The repository is a collection of deployments
(images, compose files, playbooks) of third-party systems together with a set
of small programs of its own that keep those systems running: a guard for a
change-data-capture pipeline, a webhook proxy for alerts, nightly jobs on a
data warehouse, archive and backup scripts. Only the latter have logic of their
own, and they are what this project models. Each of them shares its state with
a system that does not wait for it (Kafka Connect, Alertmanager, Greenplum,
PostgreSQL, SQL Server), so most of what can go wrong lies between two calls.

Contents: [inventory](#inventory), [plan](#plan), [modules](#modules),
[runs](#runs), [proofs](#proofs), [what is not covered](#what-is-not-covered).

## Inventory

### CDC guard (`src/kafka/cdc/src/main.py`)

A scheduled script. One run is one *pass* of `main()`: discovery of the
databases behind the Debezium connectors; repair of the SQL Server sources;
topic audit; restart of failed Kafka Connect tasks; restart of the sinks whose
consumer groups lag; repair of the PostgreSQL replication slots. A pass keeps
nothing between runs; all it knows it has fetched over HTTP or SQL a moment
ago.

| | |
|---|---|
| State | discovered databases and connectors, the failed tasks of one snapshot, the status of the connector in hand, `restart_needed`, `recreate_needed`; a cache of SQL Server connections |
| Shares | task states and traces (Kafka Connect), consumer lag, replication slots, CDC settings of SQL Server |
| Hard | everything it acts on may have changed since it was read; flags that live across iterations; one uncaught exception ends the pass; three stages may handle one task |
| Correct if | no stage restarts a task in a loop or without grounds; a slot is dropped only for the error that needs it; what is reported as skipped is left alone; what failed for a passing reason is healed |

`metrics.py` prints lag, `sanitization.py` rewrites connector credentials.

### Alert webhook proxy (`src/prometheus/proxy-webhook/main.go`)

An HTTP server between Alertmanager and chat robots. Alerts that differ in
severity only are one incident; the proxy replaces the `startsAt` of each by the
one it saw first, forwards the message to one of its targets in turn, and
forgets the incident when an alert of it is resolved.

| | |
|---|---|
| State | `FingerprintStore` (fingerprint -> start) under a mutex, the round-robin `counter`; both in memory |
| Shares | nothing, but every request runs in a goroutine of its own |
| Hard | the mutex covers one store operation, not a message; the store changes before the forward, which may fail and be retried; restarts lose the store |
| Correct if | one incident has one start; no entry outlives its incident; every end is announced although a target is down |

### Greenplum jobs (`src/gpdb/cron/`)

`archive_partition.py`, nightly: `partition_migrate` moves partitions older than
the table's threshold to the cold tablespace, one commit each;
`partition_governance` drops empty partitions that lie too far ahead,
precreates those that are missing and drops the leading empty ones, one
transaction per table. `vacuum_analyse.py` works through the most bloated tables of every
database while the time is within its window; `send_alert.py` mails the result of queries; the `gpfix_*.sh`
scripts are run by hand.

| | |
|---|---|
| State | the list of partitions fetched last, `latest_subpartition`, the open transaction |
| Shares | partitions, their rows and the default partition with the applications |
| Hard | a partition is looked at, then dropped; the clock is read anew for each check; a list is used after it has gone stale; a failure rolls back one table and, in one case, stops the job |
| Correct if | no row is dropped that was there at the look; the horizon of precreated partitions is kept; no hole appears in the ranges; the cold partitions are the oldest |

### SQL Server tools (`src/mssql/`)

`replication/main.py` follows log shipping, publications and subscriptions from
server to server, depth first, to draw the lineage in Neo4j, and on its way
drops inactive subscriptions of blacklisted subscribers.
`test/ag_listener/main.py` writes and reads random rows through an availability
group listener; `cron/backup.sh` backs up every database and uploads the file.

| | |
|---|---|
| State | `visited_servers`, the pool of connections, the frames of the recursion and their result sets, the graph |
| Shares | the subscriptions, which live on two servers, and their status |
| Hard | the topology has cycles; a subscription is dropped on two servers, one after the other; its status is read long before; errors of one server surface in the handler of another |
| Correct if | every server that can be reached is traversed once; only subscriptions seen as inactive are dropped, publisher first; a server reported as unreachable is so |

### PostgreSQL scripts (`src/postgres/`)

`script/archive2file.sh` and `archive2gp.sh` (with `setvars.sh`) copy expired
partitions to a file or to Greenplum and drop them at the source;
`delete_table.py` deletes old rows in batches, then vacuums and reindexes;
`pg_basebackup.sh` elects the replica that takes the backup, takes it and removes
old ones; `check_logical_replication.py` prints settings; keepalived's `check.sh`
decides whether a node may hold the address.

| | |
|---|---|
| State | the partitions at the source, the copies in Greenplum, the dumps of the day, the list a run works through |
| Shares | the partitions, with the applications and with each other |
| Hard | copy and drop are commands on two servers; either may fail, or succeed in part; the other script takes a partition away in between; rows arrive late |
| Correct if | no row is lost that was there before its partition was taken in hand; copies are repeated only by runs that ended half-way; everything expired goes in the end |

### Others

`src/parquet/diff-parquet/main.py` downloads and compares data frames with a
cache on disk; `src/kafka/deploy.dev/cron/*.sh` are the guard's predecessors;
`src/minio`, `src/samba`, `src/rabbitmq` hold small clients; the rest are
images, deployment and upgrade command lists, examples and vendored files.
These have no state or concurrency of their own worth a model.

The components do not call each other. They meet in the systems they look
after: the two archive scripts take the same partitions, what `delete_table.py`
deletes is bloat for `vacuum_analyse.py`, the guard's stages follow each other in
one pass. These meetings are modelled where they matter: `ArchiveMove` runs both
scripts, `TableMaintenance` both jobs, `CdcSource` spells out what is one step
of `CdcGuard`.

## Plan

In order of how much the behaviour matters and how hard it is to test:

| # | Module | Models | Proved |
|---|---|---|---|
| 1 | `CdcGuard` | the guard against Kafka Connect and the slots | all safety properties |
| 2 | `ProxyWebhook` | the webhook proxy against Alertmanager | all safety properties |
| 3 | `PartitionTable`, `PartitionGovernance` | what the partition job promises about a table, and the job against the applications | all safety properties and the refinement |
| 4 | `CdcSource` | the SQL Server stage and the topic audit of the guard, with failovers between queries | all safety properties |
| 5 | `RowLifecycle`, `ArchiveMove` | the life of an archived row, and the scripts that implement it | all safety properties and the refinement |
| 6 | `Lineage` | the traversal of the replication topology, the drop of subscriptions | all safety properties |
| 7 | `TableMaintenance` | the vacuum job and the purge | all safety properties |

What is left, should it be wanted: the election of the replica that takes the
backup, which needs a model of how its snapshot of the cluster ages; an abstract
incident store that `ProxyWebhook` with a single request implements; `CdcGuard`
as the abstract view of a pass whose first stage is `CdcSource`.

## Modules

Each component module models the program together with the system it works on,
since the interleaving of the two is the subject; the variables, the actions and
the fairness of the two are kept apart. The bounds are constants named in the
guards of the environment's actions (`Max...`); the program's own actions have
none. Definitions called a *mutant* in their comment are wrong on purpose: each
is a plausible bug that makes a property fail, and nothing in the specification
uses them.

### `CdcGuard`, `MCCdcGuard`, `CdcGuardProofs`

Every HTTP or SQL call of the guard is one action, so the cluster may move
between two calls.

| Model | Code |
|---|---|
| `pc` | the stage of `main()` (1039-1084) |
| `conns`, `dbs`, `StartPass` | `get_debezium_sqlserver_connectors` and its filter on paused connectors |
| `FetchFailed`, `RestartFailed`, `SkipFailed` | `check_and_restart_kafka_connect_failed_tasks` |
| `FetchLag`, `FetchStatus`, `LagTask` | `check_kafka2postgres_sync` |
| `SlotHealthy`, `SlotSuspect`, `SlotTask` | `check_and_repair_postgres_datasource` |
| `cur`, `snap`, `nxt`, the flags | the locals of the task loops; `ConnectorDone` is the end of an iteration |
| `Post` | `restart_kafka_connect_tasks`, applied or refused |
| `Abort` | an uncaught exception, or the end of the process |
| `Cluster` | external: tasks fail, start, are paused; groups lag; slots attach and detach |

Traces are reduced to the classes `non_restartable_errors`,
`non_recoverable_keywords` and "any other", which is all the code tells apart.
The SQL Server and the topic stages are one step that leaves Kafka Connect
alone. The variables `posts`, `skipped`, `failedSeen`, `fatalSeen`, `lagSeen`,
`suspect` and `dropped` record what happened in the pass and are read by
properties only. `Ahead` is what a pass has still to do, its stages first, then
the loops of a stage from the outermost to the innermost; `Dwindles` compares
two of these at the first place where they differ.

### `ProxyWebhook`, `MCProxyWebhook`, `ProxyWebhookProofs`

A request is a record of `req` that goes through `getNextTarget` (`Receive`),
the loop over the alerts (`Rewrite`, `Delete`: the two operations of the store
under its mutex), and the forward (`Forward`, `BadGateway`). The order of the
alerts in a message is left open, and other requests may run between any two
operations. Alertmanager is external: alerts start and end, and its notices list
what fires and what ended and has not been notified. Time is the number of
alerts that ever started; 0 is "none". `given`, `shown` and `steady` are
history. A target in `Down` never answers (an error of the client, or a reply
that makes Alertmanager retry). A proxy without targets answers 200 and does
nothing, and is left out. `store`, a map in memory, is a function to 0 or a start.

### `PartitionTable`, `PartitionGovernance`, `MCPartitionGovernance`, `PartitionGovernanceProofs`

`PartitionTable` is what the users of a table may rely on: its partitions change
in one step (`Commit`), at the ends of the ranges only, and move to the cold
tablespace one by one from the oldest on (`Archive`); a change in preparation may
come to nothing (`Rollback`). The rows of a partition that is kept stay, and a
partition that goes takes only rows that came while the change was in
preparation, too late to be seen (`late`). `PartitionGovernance` maps its
committed variables to these as they are; a change is in preparation while the
job governs a table (`Governing`), and what came late is `raced`.

In `PartitionGovernance` a partition is the start of its range, and a table a set of starts with one
width. Each statement that looks or alters is an action; `work` is the table as
the open transaction sees it and `parts` what is committed. The lock an ALTER
TABLE takes keeps the applications out from the first change to the commit
(`Locked`), which leaves exactly one window: from the look at a partition to the
drop. The default partition is modelled because precreation splits it and holes
fill it. `Limit` and `Year` stand for the 20 partitions and the 365 days; what
matters is which of the two is smaller for a table, and there is one of each.
`list` and `latest` go stale just as the locals of the loop do.

### `CdcSource`, `MCCdcSource`, `CdcSourceProofs`

What `CdcGuard` takes as one step, query by query.

| Model | Code |
|---|---|
| `Discover` | `get_debezium_sqlserver_connectors`, and `connections` of a new pass |
| `TakeDb` ... `StageEnd` | the loop of `check_and_repair_sqlserver_datasource` over the databases |
| `CheckTables`, `CheckGroup`, `CheckSync`, `CheckRole` | `check_sqlserver_cdc` and the three queries on the availability group, with what an error of each counts as |
| `Switch` | `db["hostname"]` is overwritten with the primary of the moment |
| `CheckJob`, `StartJob` | the capture job |
| `Abort` | the connection that is made outside the `try` |
| `Apply` | `apply_sqlserver_cdc_changes`, a dry run in the code |
| `Audit` | `check_and_repair_kafka_topics` |

`conn` is the connection cache: `Answered` and `Continue` say whether a query
is answered on a cached connection that may have died. A topic is the
sequence of its dot-separated names, since `Audit` compares parents of topics.
Servers go down and come back, groups fail over and stop synchronizing, jobs stop,
topics and pauses change, all between any two queries. `clean` and `reign` are
history: no query has failed since the database was taken in hand, and the servers
that have been its primary since.

### `Lineage`, `MCLineage`, `LineageProofs`

The recursion of `traverse_lineage` is a stack of frames; a frame holds the
server, the place in the function, what its loop has still to do, and the
subscription in hand. `Pool` is the pool of connections, in which one that died stays.
`ReadShips` and `FollowShip` are the log shipping, `ReadSubs` the rows of
`get_replication_info`, `Drop`, `NotListed` and `Clean` the drop of an inactive
subscription at its publisher and then at its subscriber, `FollowSub` the edges.
The order of rows is left open, and the articles of a subscription, a row each
in the code, are one row. `live` and `target` are the two ends of a
subscription. `Crash` kills the script anywhere; the next `StartRun` begins
anew. Errors of Neo4j lose the edge in hand and change nothing else. `Reached`
is the least set of servers that has the first one and is closed under what there
is to follow; `StagesLeft` and `RowsLeft` are what a run has still to do, the
stages of servers and then the rows of the loops in progress.

### `RowLifecycle`, `ArchiveMove`, `MCArchiveMove`, `ArchiveMoveProofs`

`RowLifecycle` is what the scripts promise about a row: absent, live, archived,
each for good, with one exception, a row that is *exposed* because it arrived
while its partition was being archived; only such a row may be lost.

`ArchiveMove` runs `archive2gp.sh` (`"gp"`) and `archive2file.sh` (`"file"`) on
one table. `Start` is `pg_get_expired_partitions`; `Take` opens the COPY or the
dump, which fixes what it sees (`snap`) and has emptied the file by then;
`CopyDone` stores it; `Drop` drops the partition, waiting for readers; `End`
creates the next partition. `CopyFails` stores part of the rows in Greenplum (the
receiving side takes the end of its input for the end of the data) or leaves a
useless dump, and ends the run as `set -e` and `pipefail` make it; `Crash` ends
it anywhere. Rows arrive at any time (`Insert`). The mapping is `Fate`: a row is
exposed while a script that has taken its snapshot without it is about to drop
the partition, or while its only copy is a dump that the run in progress will
overwrite.

### `TableMaintenance`, `MCTableMaintenance`, `TableMaintenanceProofs`

Both jobs on the same tables. The vacuum job: `VacuumStart`, the window
(`NextDsn`), the list of bloated tables with its limit (30 or 10 in the code), and
the commands of a strategy one by one (`NextTable`, `Execute`, `ExecuteFails`).
`Commands` is the strategy for the ratio a table was listed with, and `After` what
a command does to the ratio the table has by then: a table listed for a plain
VACUUM that grows meanwhile is not rewritten.
The purge: databases, tables, batches (`Delete`), `Rebuild` for VACUUM and
REINDEX, and what an exception of each ends (`DeleteFails` its table,
`RebuildFails` and a refused connection in `NextDb` its database). The ratio of dead tuples is reduced to the four
classes the code tells apart. Tables in `Broken` fail every time; other
failures, such as lock timeouts of one job under the other, are disturbances.

### `NumberSets`

Facts on the least and greatest element of a set of numbers, for the two modules
that take `Min` and `Max` of lists again and again.

## Runs

All runs take about two minutes or less with two workers.

| Run | Instance | Shows |
|---|---|---|
| `cdc_guard` | one sink of two tasks, two sources on one database, two disturbances | `RestartBudget`, `NoGratuitousRestart`, `DropOnlyAfterFatal`, `SkipHonoured`, `PassDwindles`, over any interleaving of calls and cluster |
| `cdc_guard_live` | one sink and one source of one task each | `TransientHealed` |
| `cdc_guard_skip` | a lagging sink of two tasks | **violated**: a task reported as skipped by the lag stage is restarted |
| `cdc_guard_rebuild` | one source, all calls answered | **violated**: a slot that has to be rebuilt need never be |
| `webhook` | one key, two severities, two requests in progress | `OneStartPerEntry` under full concurrency |
| `webhook_seq` | one request at a time, three alerts, two restarts or stray requests, one target of two down | `NothingLeft`, `FiringStable`, `Announced` |
| `partition` | two tables (widths of 1 and 2 days), four days, one insert, one purge or failure | `LossOnlyInWindow`, `HorizonKept`, `ColdOldest`, `HoleOnlyIfTicked`, `TablesKept` (the refinement of `PartitionTable`), `Replenished` |
| `partition_head` | one table without rows | **violated**: current and future partitions are dropped as history |
| `cdc_source` | a database in a group of two servers, one outside it on the same server, one on a server that may stay down; three disturbances | `StartedAtPrimary`, `AuditSound`, `StageCompletes`, `JobRepaired` |
| `lineage` | four servers in a circle of subscriptions and log shipping, two distributors, two disturbances | `DropOnlySeenInactive`, `CleanAfterDrop`, `TraversedOnce`, `UnreachableIsTrue`, `Complete`, `Dwindles`, `Terminates` |
| `archive` | both scripts, a row in each of two partitions and a third one to come, two failures | `Archived` (the refinement of `RowLifecycle`), `CopiesBounded`, `Drained` |
| `maintenance` | three tables of a Greenplum database, one of them broken, and one of a PostgreSQL database, old rows of a full and a partial batch, a list of two | `BatchesExhaust`, `OldRowsGo`, `Relieved` |

The three runs that end in a violation are disagreements between what a comment,
a log line or a document of the repository says and what the code does; each is
described with its quotation under `findings` in `PROJECT.json`. Two smaller ones
are noted with their hazards and have no run: the alerts of one resolved message
leave with different starts (`main.go:192` and `:208` want one), and a
precreated table ends up with one usable partition more than its limit of 20
(`archive_partition.py:194`).

**Bounds.** Two tasks are the least with which a flag can leak from one task to
the next; two sources on one database the least with which it could leak between
connectors and with which a slot may be dropped for the wrong one. Two
disturbances give every pair of simultaneous troubles; faults, restarts and
slot losses that *follow* from a disturbance are not counted, so behaviours are
unbounded in length and passes repeat for ever. For the webhook two requests
and two severities give every race on one entry (entries of different
fingerprints do not meet), and three starts are an incident of two severities
and its successor. For the partition job the limits are 2 partitions and 3 days
and the clock runs to day 3: a table of each kind is trimmed, runs out, is
replenished and archives two partitions in that time.
`cdc_source`: with three disturbances a server goes down, its group fails over
and something else happens before the guard has finished with the database; a
second database on the same server shows what the cache and the overwritten host
would do to it. `lineage`: four servers are the least with a circle that goes
through two distributors; two disturbances make a server go down and a status
change, or the script die, at any two points, and recoveries are not counted.
`archive`: a partition each to be archived by one script or both, a third for
`End`; two failures put a partial copy and a crash into one life of a row.
`maintenance`: a full batch followed by a partial or, after a change, an empty one,
a list shorter than the tables, a table that may grow between the list and its
command, and a broken table among the others.

**Deadlock** is checked except for the webhook, whose source of alerts runs dry
at `MaxTime`.

**Fairness.** `CdcGuard`: the scheduler starts a pass again and again and a
running one goes on (WF of `Guard`); a call that is made again and again is not
refused for ever (SF of the few calls `TransientHealed` depends on). Passes may
still abort at any point infinitely often. `CalmSpec`, used for a violation
only, assumes more than the code can count on: every call answered, no abort,
every restarted task started; the slot is not rebuilt even then. `ProxyWebhook`:
Alertmanager repeats notices until they are accepted, and a goroutine that has
begun ends (WF). `PartitionGovernance`: cron starts the job and it goes on (WF
of `Job`); failures are finite because they are bounded, which the liveness
property needs: a job that fails every night replenishes nothing.
`Replenished` assumes in addition that every table keeps rows, since an empty
one stops the job (see the hazards). `CdcSource`: WF of `Guard`; servers outside
`Lost` come back, groups synchronize again and a group does not stay without its
primary (WF), without which no repair could be expected. `Lineage`: a run that has
begun goes on (WF); nothing is assumed of servers or operators, as every query
is answered or refused. `ArchiveMove`: cron starts each script and a command ends
(WF per script). `TableMaintenance`: the window opens every night (WF), the
vacuum job is started within it as well (SF: it is open only part of the time),
the purge again and again, and what runs goes on (WF).

## Proofs

Proved with TLAPS for every value of the constants that satisfies the
assumptions named below (any number of connectors, tasks, databases, keys,
severities, requests and targets; any bounds).

### `CdcGuardProofs` (from `CdcGuardAssumption`)

`TypeCorrect`, `RestartBudgetHolds`, `RestartsAreGrounded`, `DropsAreGrounded`
and `SkipsAreHonoured`: `Spec` implies `[]TypeOK`, `[]RestartBudget`,
`[]NoGratuitousRestart`, `[]DropOnlyAfterFatal` and `[]SkipHonoured`.

None of the last four is inductive: they speak of the past of the pass, while a
step reads only the locals. The invariant that is has three parts besides
`TypeOK`:

- `LoopShape`, the shape of control: the status in hand belongs to a connector
  of the stage in progress, nothing is left over between connectors, and the
  flags are fresh when a connector begins;
- `Grounded`, what justifies the locals: every entry of `fails`, every
  connector in `left`, every state in the snapshot was observed during this
  pass, so that acting on it later is grounded although the cluster has moved;
- `HandledOnce`, what is not yet done: a task that a loop has still to visit
  has no restart of that stage and no skip.

`Grounded` gives the action its reason, `HandledOnce` its budget, `LoopShape`
that the flags speak of this connector; a sink has several tasks, so the slot
stage keeps its skips only because a source has one, and the proof shows where
that is used. The step proof has one case per action; what the cluster and
the other stages do to the invariant is settled once, by frame lemmas.

`PassesDwindle` is the property `PassDwindles`: whatever the cluster does, a step
of the guard leaves less to do and nothing adds to it. `AheadIsFinite`: with
finitely many connectors and databases, `Ahead` consists of finite sets. That a
lexicographic order of finite sets is well founded is not proved here.

### `ProxyWebhookProofs` (from `ProxyWebhookAssumption`)

`TypeCorrect` and `OneStart`: `Spec` implies `[]TypeOK` and
`[]OneStartPerEntry`, for any number of requests in progress. The latter is
inductive together with the fact that every alert a request has still to rewrite
carries a start other than 0 (`RealStarts`): an entry is then always created
with a start, and 0 keeps its meaning of "no entry".

`NothingIsLeft` and `FiringIsStable` are about one request at a time, which is
their hypothesis (`\A p, q \in Request : p = q`); with two requests `NothingLeft`
is false. Their invariant `SeqInv` compares the message in hand with what
Alertmanager has meanwhile to say: `Sent`, what has become of the alerts of
the message; `Owned`, every entry belongs to an incident that goes on, or to one
whose end a later message will bring (`Waiting`), or is about to be deleted
(`Doomed`); `Stable`, while firing notices of an undisturbed incident may come its
entry is not doomed and holds the one start shown. `Owned` survives the receipt
of a message because what was waiting is then doomed, and a failed forward
because what was deleted is not needed.

### `PartitionGovernanceProofs` (from `PartitionGovernanceAssumption`)

`TypeCorrect`, `OldestAreCold`, `LossIsRaced`, `HorizonIsKept`,
`HolesAreTicked`. `Lists` says that a stage's list is what is left of the
partitions it began with, and that all sets are bounded, so that `Max` exists
(`NumberSets`; the assumption is that the partitions at first are finitely many);
`Order`, that new partitions start after all that were there; `Aged`, that what is
off the list of the migration is cold; `Aware`, that the partition about to be
dropped has rows only if they came after the look; `Plan`, what each stage has
achieved for a table without holes while the clock stands still: where the last
partition lies with respect to the horizon, and that nothing is precreated after
a partition that was dropped for lying too far ahead. The last is why the stale
`latest_subpartition` does no harm.

`Refinement` is the property `TablesKept`. Two facts are needed besides these
(`StretchInvariance`): what the transaction has left of the old partitions is a
stretch of them (`Stretch`), because drops are of the last or the first
partition; and between two tables nothing has come too late (`Rested`). The step
proof takes the actions one by one: the commit of a table is the one step that
changes its partitions, a commit of the migration is `Archive`, the first
statement on a table `Begin`, a failure `Rollback`, rows come and go on both
sides, and everything else stutters.

### `CdcSourceProofs` (from `CdcSourceAssumption`)

`TypeCorrect`, `StartedWherePrimary`, `AuditIsSound`, `JobRunsWhenDone`. `HostInv`: up to the switch
the host is the configured one; where the job is looked after has been the
primary, if every query was answered. `AuditIsSound` rests on lemmas about
topics as sequences of names of any length: a topic matches itself, and under
`Separate` no topic of another database. `JobRunsWhenDone` is a part of the
argument for `JobRepaired`: if every query was answered, and the configured host of
the database serves no other group, the stage has arrived at a server that has been
the primary, and leaves the capture job running there if that server has one.

### `LineageProofs` (from `LineageAssumption`)

`TypeCorrect`, `CleanedAfterDrop`, `OneTraversal`, `UnreachableOnes`,
`DropsAreSeen`, `LineageComplete`, `RunsDwindle`. `FramesInv` speaks of every frame of a stack of any depth: only
the top one may be about to connect, and then its server is not visited; what is
still to be dropped was read as inactive in this run; the subscription in hand is
gone from its publisher. With it the first five are inductive.

`LineageComplete` (`Spec => []Complete`) is about a run that nothing disturbs.
Its invariant `OwedInv` says that whatever there is to follow from a visited
server, and whatever this run has dropped, is in the drawing or owed by a call
that has not returned (`ShipsOwed`, `SubsOwed`, `DroppedOwed`). A step takes one
frame away and puts others in its place; the lemma `Handover` shows that it is
enough if what that frame owed is drawn or owed by them. When the stack is
empty nothing is owed, so the visited servers are closed under what there is to
follow, and all of the least closed set `Reached` is among them.

`RunsDwindle` is the property `Dwindles`: every step of the script leaves fewer
stages of servers, or the same and fewer rows. It rests on `StackInv`: the
servers in the stack are all different, those beyond the connection are
visited, and the row in hand is one the loop has still to do.

`RunsAreBounded` draws the conclusion for finite topologies: with `K` rows at most,
`StepsLeft`, that is stages times `K + 1` plus rows, is a natural number that each
step of the script makes smaller and nothing else changes before the run ends.

### `ArchiveMoveProofs` (from `ArchiveMoveAssumption`)

`TypeCorrect`, `CopiesAreBounded` and `Refinement`: `Spec` implies
`RowLifecycle`'s specification under the mapping `Fate`. The invariant: nobody
drops what a script reads (`Reading`); the dump of a partition that is still
there holds nothing that is not in it (`FreshDump`); what is about to be dropped
has been stored (`Stored`); a row that can still be copied has been copied by runs
that ended half-way (`Copies`); and two facts on the order in which partitions
expire and are created (`Expiry`, `Missed`), without which `End` could create
a partition whose dump exists. The step proof shows for each action that every
row keeps its fate or moves as the abstract specification lets it (`MoveOf`).

Two parts of the argument for `Drained` need no fairness: `RunsEnd`, a run has
less to do with each of its steps and no other step adds to it; and
`ListedAreDropped`, what a run has listed is gone when it leaves its list,
unless it ends half-way.

### `TableMaintenanceProofs` (from `TableMaintenanceAssumption`)

`TypeCorrect` and `BatchesAreExhausted`, which rests on one lemma: a batch is what
is left, or `Batch` rows.

The argument for `Relieved` is proved as far as it needs no fairness.
`HealthyAreListed`: while a table on which VACUUM works is worth a VACUUM FULL,
a list that is read of its database has such a table, provided that the tables
that fail every night are fewer than the places of the list. `WorstAreTreated`:
within the window, what is taken off a list with tables worth a VACUUM FULL is
one of them, and its strategy is taken in hand. `VacuumRunsDwindle`: each step of
the job leaves it fewer databases, tables or commands.
The first rests on `ListReaches`, about lists cut off at a limit.

### Only model-checked

Liveness (`TransientHealed`, `Announced`, `Replenished`, `StageCompletes`,
`JobRepaired`, `Terminates`, `Drained`, `OldRowsGo`, `Relieved`) is out of the
prover's reach under fairness and stays with TLC; the parts of these arguments
that need no fairness are proved where they are named above. Every invariant and
every action property of the passing runs is stated by a theorem. What is
violated is shown by a trace.

## What is not covered

`PROJECT.json` lists every component with its status and the reason.

Not modelled: programs that only query and print or mail (`metrics.py`,
`send_alert.py`, `check_logical_replication.py`), tools and clients run by hand
without a state of their own (`sanitization.py`, the `gpfix_*.sh` scripts, the
parquet comparison, the downloaders, the listener test), backups (one query
that elects the replica, and I/O), images, deployment and upgrade command lists,
examples and vendored files.

Within the modelled components: the content of messages and traces beyond the
classes the code distinguishes; logging; SQL text;
`check_sqlserver2kafka_sync`, which samples a topic and logs; the S3 variant of
the partition archive, which the code disables; tables whose ranges are shorter
than a day (partition job) or a month (archive scripts), whose names collide; a
maintenance window that passes midnight; the wrap-around of the webhook's 64-bit
counter; servers with two spellings of their name (lineage). Hazards that no
property covers are listed in `PROJECT.json` with the reason.
