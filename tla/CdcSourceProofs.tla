-------------------------- MODULE CdcSourceProofs --------------------------
(***************************************************************************)
(* Type correctness of the SQL Server stage, the server a capture job is   *)
(* started on, and the reports of the topic audit, for any servers, groups,*)
(* databases and connectors and any number of failures and failovers.      *)
(***************************************************************************)
EXTENDS CdcSource, TLAPS

(***************************************************************************)
(* Topics and their matching.                                              *)
(***************************************************************************)

\* A topic is a sequence of one or more names.
LEMMA TopicShape ==
  ASSUME NEW c \in Connector, NEW t \in AllTopics(c)
  PROVE  t \in Seq(STRING) /\ Len(t) >= 1
<1>1. /\ Config[c].prefix \in Seq(STRING) \ {<<>>} /\ Config[c].history \in Seq(STRING) \ {<<>>}
      /\ Config[c].path \in Seq(STRING) /\ Config[c].tables \subseteq STRING
  BY CdcSourceAssumption
<1>2. CASE t = Config[c].prefix
  BY <1>1, <1>2
<1>3. CASE t = Config[c].history
  BY <1>1, <1>3
<1>4. CASE \E n \in Config[c].tables : t = Append(Config[c].path, n)
  BY <1>1, <1>4
<1> QED
  BY <1>2, <1>3, <1>4 DEF AllTopics

\* A topic is found by its own parent, or by its name if that has no dot.
LEMMA MatchesItself ==
  ASSUME NEW t \in Seq(STRING), Len(t) >= 1, NEW all, t \in all, NEW wanted, t \in wanted
  PROVE  t \in Matching(all, wanted)
<1>0. PICK n \in Nat : n = Len(t)
  OBVIOUS
<1>1. CASE n = 1
  BY <1>0, <1>1 DEF Matching
<1>2. CASE n > 1
  <2>1. /\ Front(t) \in Seq(STRING) /\ Len(Front(t)) = Len(t) - 1
        /\ SubSeq(Front(t), 1, Len(Front(t))) = Front(t)
    BY <1>0, <1>2 DEF Front
  <2>2. IsStrictPrefix(Parent(t), t)
    BY <1>0, <1>2, <2>1 DEF IsStrictPrefix, IsPrefix, Parent, Front
  <2> QED
    BY <1>0, <1>2, <2>2 DEF Matching
<1> QED
  BY <1>0, <1>1, <1>2

\* What matches is among what there is.
LEMMA MatchingSubset ==
  ASSUME NEW all, NEW wanted
  PROVE  Matching(all, wanted) \subseteq all
BY DEF Matching

\* Under Separate, only topics of the database itself match what it expects.
LEMMA MatchesNoOther ==
  ASSUME Separate, NEW d \in Db, NEW e \in Db, d # e,
         NEW c \in Connector, Config[c].db = e, NEW t \in AllTopics(c),
         NEW wanted, t \notin wanted,
         \A w \in wanted : \E k \in Connector : Config[k].db = d /\ w \in AllTopics(k),
         NEW all
  PROVE  t \notin Matching(all, wanted)
<1> SUFFICES ASSUME NEW w \in wanted, Len(w) > 1, IsStrictPrefix(Parent(w), t)
             PROVE  FALSE
  BY DEF Matching
<1>1. PICK k \in Connector : Config[k].db = d /\ w \in AllTopics(k)
  OBVIOUS
<1>2. Len(Config[k].prefix) = 1 /\ Len(Config[k].history) = 1
      /\ ~IsStrictPrefix(Config[k].path, t)
  BY <1>1 DEF Separate
<1>3. PICK n \in Config[k].tables : w = Append(Config[k].path, n)
  <2>0. PICK n \in Nat : n = Len(w) /\ n > 1
    BY <1>1, TopicShape
  <2>1. Len(w) # Len(Config[k].prefix) /\ Len(w) # Len(Config[k].history)
    BY <1>2, <2>0
  <2>2. w # Config[k].prefix /\ w # Config[k].history
    BY <2>1, Zenon
  <2> QED
    BY <1>1, <2>2 DEF AllTopics
<1>4. Config[k].path \in Seq(STRING) /\ n \in STRING
  BY CdcSourceAssumption
<1>5. Parent(w) = Config[k].path
  BY <1>3, <1>4 DEF Parent, Front
<1> QED
  BY <1>2, <1>5

(***************************************************************************)
(* Types.                                                                  *)
(***************************************************************************)

\* The guard and the cluster begin well typed.
LEMMA InitType == Init => TypeOK
BY CdcSourceAssumption DEF Init, TypeOK, NoConn, NoReports, Stages

\* Queries leave the stage and the connections well typed.
LEMMA ContinueType ==
  ASSUME TypeOK, NEW stage \in Stages, NEW ok \in BOOLEAN, Continue(stage, ok)
  PROVE  pc' = stage /\ conn' \in [Server -> {"none", "live", "dead"}] /\ clean' \in BOOLEAN
BY DEF Continue, TypeOK

\* A disturbance keeps the count within its bound.
LEMMA EventsType ==
  ASSUME TypeOK
  PROVE  /\ Disturb => events' \in 0 .. MaxEvents
         /\ UNCHANGED events => events' \in 0 .. MaxEvents
BY CdcSourceAssumption DEF Disturb, TypeOK

\* Every step keeps the types.
LEMMA TypeStep == TypeOK /\ [Next]_vars => TypeOK'
<1> SUFFICES ASSUME TypeOK, [Next]_vars PROVE TypeOK'
  OBVIOUS
<1> USE DEF Stages
<1>0. CASE UNCHANGED vars
  BY <1>0 DEF vars, env, inHand, audit, TypeOK
<1>1. CASE Discover
  <2>1. \A d \in Db : expected'[d] \subseteq Topic
    BY <1>1 DEF Discover, Topic
  <2> QED
    BY <1>1, <2>1, EventsType DEF Discover, TypeOK, env, inHand, NoReports
<1>2. ASSUME NEW d \in Db, TakeDb(d) PROVE TypeOK'
  <2>1. Place(d) \in Server
    BY CdcSourceAssumption DEF Place, TypeOK
  <2> QED
    BY <1>2, <2>1, CdcSourceAssumption DEF TakeDb, TypeOK, env, audit
<1>3. CASE CheckTables
  BY <1>3, EventsType DEF CheckTables, Answered, Continue, NextDb, NoConn, TypeOK, env, audit
<1>4. CASE CheckGroup
  BY <1>4, EventsType DEF CheckGroup, Answered, Continue, TypeOK, env, audit
<1>5. CASE CheckSync
  BY <1>5, EventsType DEF CheckSync, Answered, Continue, NextDb, NoConn, TypeOK, env, audit
<1>6. CASE CheckRole
  BY <1>6, EventsType DEF CheckRole, Answered, Continue, TypeOK, env, audit
<1>7. CASE Switch
  <2>1. host' \in Server
    BY <1>7, CdcSourceAssumption DEF Switch, Hosted, TypeOK
  <2> QED
    BY <1>7, <2>1, EventsType DEF Switch, Answered, Continue, TypeOK, env, audit
<1>8. CASE CheckJob
  BY <1>8, EventsType DEF CheckJob, Answered, Continue, TypeOK, env, audit
<1>9. CASE Abort
  BY <1>9, EventsType DEF Abort, NoConn, TypeOK, env, audit
<1>10. CASE StartJob
  BY <1>10, EventsType DEF StartJob, Answered, Continue, TypeOK, audit
<1>11. CASE Apply
  BY <1>11 DEF Apply, NextDb, NoConn, TypeOK, env, audit
<1>12. CASE StageEnd
  BY <1>12 DEF StageEnd, TypeOK, env, inHand, audit
<1>13. CASE Audit
  <2>1. \A d \in Db : deprecated'[d] \subseteq Topic /\ missing'[d] \subseteq Topic
    BY <1>13, MatchingSubset DEF Audit, TypeOK
  <2> QED
    BY <1>13, <2>1 DEF Audit, TypeOK, env, inHand
<1>14. CASE NoAudit
  BY <1>14, EventsType DEF NoAudit, TypeOK, env, inHand, audit
<1>15. ASSUME NEW s \in Server, Recover(s) PROVE TypeOK'
  BY <1>15 DEF Recover, TypeOK, inHand, audit
<1>16. ASSUME NEW g \in Group, SyncResumes(g) PROVE TypeOK'
  BY <1>16 DEF SyncResumes, TypeOK, inHand, audit
<1>17. CASE KafkaChanges
  BY <1>17, EventsType DEF KafkaChanges, TypeOK, inHand, audit
<1>18. ASSUME NEW s \in Server, ServerDown(s) PROVE TypeOK'
  BY <1>18, EventsType DEF ServerDown, TypeOK, audit
<1>19. ASSUME NEW g \in Group, NEW s \in Server, Failover(g, s) PROVE TypeOK'
  BY <1>19, EventsType, CdcSourceAssumption DEF Failover, TypeOK, audit
<1>20. ASSUME NEW j \in HasJob, JobStops(j) PROVE TypeOK'
  BY <1>20, EventsType DEF JobStops, TypeOK, inHand, audit
<1>21. ASSUME NEW g \in Group, SyncStops(g) PROVE TypeOK'
  BY <1>21, EventsType DEF SyncStops, TypeOK, inHand, audit
<1> QED
  BY <1>0, <1>1, <1>2, <1>3, <1>4, <1>5, <1>6, <1>7, <1>8, <1>9, <1>10, <1>11, <1>12, <1>13,
     <1>14, <1>15, <1>16, <1>17, <1>18, <1>19, <1>20, <1>21 DEF Next, Guard, Repairs

\* The stage and the audit are well typed.
THEOREM TypeCorrect == Spec => []TypeOK
BY InitType, TypeStep, PTL DEF Spec

(***************************************************************************)
(* Where capture jobs are started.                                         *)
(***************************************************************************)

\* Up to the switch the host is the configured one; where the job is looked
\* after has been the primary, if every query was answered.  The primary of the
\* moment always counts among those that have been.
HostInv ==
  db # None =>
    /\ Place(db) \in reign
    /\ pc \in {"tables", "group", "sync", "role", "switch"} => host = Home[db]
    /\ pc \in {"job", "start"} /\ clean /\ OneGroup(db) => host \in reign

\* What the expected topics of a database come from.
ExpectedInv ==
  \A d \in Db : \A t \in expected[d] :
    \E c \in Connector : Config[c].db = d /\ t \in AllTopics(c)

\* A database without a group has nothing but its configured host; the host of
\* one with a group is in that group.
LEMMA HomeFacts ==
  ASSUME NEW d \in Db
  PROVE  /\ GroupOf[d] = None => Place(d) = Home[d]
         /\ GroupOf[d] # None => GroupOf[d] \in Hosted(Home[d])
         /\ Hosted(Home[d]) = {} => Place(d) = Home[d]
         /\ OneGroup(d) => \A g \in Hosted(Home[d]) : primary[g] = Place(d)
BY CdcSourceAssumption DEF Place, Hosted, OneGroup

\* Every step keeps what is known of the host, failovers between two queries
\* included.
LEMMA HostStep == TypeOK /\ HostInv /\ [Next]_vars => HostInv'
<1> SUFFICES ASSUME TypeOK, HostInv, [Next]_vars PROVE HostInv'
  OBVIOUS
<1>d. db = None \/ db \in Db
  BY DEF TypeOK
<1>s. db # None => pc \in {"tables", "group", "sync", "role", "switch", "job", "start", "apply"}
  BY CdcSourceAssumption DEF TypeOK, Stages
<1>0. CASE UNCHANGED <<primary, pc, inHand>>
  BY <1>0 DEF inHand, HostInv, Place, OneGroup
<1>1. CASE pc' \in {"idle", "next", "audit"} /\ TypeOK'
  BY <1>1 DEF TypeOK, HostInv
<1>2. ASSUME NEW d \in Db, TakeDb(d) PROVE HostInv'
  BY <1>2, HomeFacts DEF TakeDb, env, HostInv, Place
<1>3. ASSUME NextDb PROVE HostInv'
  BY <1>3 DEF NextDb, HostInv
<1>4. ASSUME NEW stage \in Stages, NEW ok \in BOOLEAN, Continue(stage, ok), UNCHANGED <<primary, host>>,
             pc \in {"tables", "group", "sync", "role", "switch"},
             stage \in {"group", "sync", "role", "switch"}
      PROVE  HostInv'
  BY <1>4 DEF Continue, HostInv, Place, OneGroup
<1>5. CASE CheckTables
  BY <1>5, <1>3, <1>4 DEF CheckTables, env, Stages
<1>6. CASE CheckGroup
  BY <1>6, <1>d, <1>s, HomeFacts DEF CheckGroup, Continue, env, HostInv, Place, OneGroup
<1>7. CASE CheckSync
  BY <1>7, <1>3, <1>4 DEF CheckSync, env, Stages
<1>8. CASE CheckRole
  BY <1>8, <1>d, <1>s, HomeFacts DEF CheckRole, Continue, env, HostInv, Place, OneGroup
<1>9. CASE Switch
  <2>1. PICK ok \in BOOLEAN :
          /\ Continue("job", ok)
          /\ IF ok /\ Hosted(host) # {} THEN \E g \in Hosted(host) : host' = primary[g]
             ELSE UNCHANGED host
    BY <1>9 DEF Switch
  <2>2. UNCHANGED <<primary, db, reign>> /\ pc = "switch" /\ pc' = "job" /\ clean' = (clean /\ ok)
    BY <1>9, <2>1 DEF Switch, env, Continue
  <2>3. db \in Db
    BY <2>2 DEF TypeOK
  <2>4. Place(db) \in reign /\ host = Home[db]
    BY <2>2, <2>3, CdcSourceAssumption DEF HostInv
  <2>5. ok /\ OneGroup(db) => host' \in reign
    BY <2>1, <2>3, <2>4, HomeFacts
  <2> QED
    BY <2>2, <2>4, <2>5, <2>3 DEF HostInv, Place, OneGroup, TypeOK
<1>10. CASE CheckJob \/ StartJob
  <2>1. pc \in {"job", "start"} /\ pc' \in {"start", "apply"}
    BY <1>10 DEF CheckJob, StartJob, Continue
  <2>2. UNCHANGED <<primary, db, host, reign>> /\ (clean' => clean)
    BY <1>10 DEF CheckJob, StartJob, Continue, env, TypeOK
  <2>3. CASE CheckJob
    BY <2>1, <2>2, <2>3 DEF CheckJob, HostInv, Place, OneGroup
  <2>4. CASE StartJob
    <3>1. pc' = "apply"
      BY <2>4 DEF StartJob, Continue
    <3> QED
      BY <2>2, <3>1 DEF HostInv, Place
  <2> QED
    BY <1>10, <2>3, <2>4
<1>11. ASSUME NEW g \in Group, NEW s \in Server, Failover(g, s) PROVE HostInv'
  BY <1>11, <1>d, CdcSourceAssumption DEF Failover, HostInv, Place, OneGroup, TypeOK
<1>12. CASE \E s \in Server : ServerDown(s)
  BY <1>12 DEF ServerDown, HostInv, Place, OneGroup
<1>13. CASE Discover \/ StageEnd \/ Audit \/ NoAudit \/ Abort \/ Apply
  BY <1>13, <1>1, <1>3, TypeStep DEF Discover, StageEnd, Audit, NoAudit, Abort, Apply,
     inHand, env, HostInv, Place, OneGroup
<1>14. CASE KafkaChanges \/ (\E j \in HasJob : JobStops(j)) \/ (\E g \in Group : SyncStops(g)) \/ Repairs
  BY <1>14, <1>0 DEF KafkaChanges, JobStops, SyncStops, Repairs, Recover, SyncResumes
<1> QED
  BY <1>0, <1>2, <1>5, <1>6, <1>7, <1>8, <1>9, <1>10, <1>11, <1>12, <1>13, <1>14
  DEF Next, Guard, vars, env

\* Whatever fails over and whenever, a capture job is started only on a server
\* that has been the primary of its database since the guard took it in hand,
\* with the exceptions the property names.
THEOREM StartedWherePrimary == Spec => StartedAtPrimary
<1>1. Init => HostInv
  BY DEF Init, HostInv
<1>2. TypeOK /\ HostInv /\ [Next]_vars =>
        [\A j \in jobs' \ jobs : j[2] = db /\ (j[1] \in reign \/ ~clean \/ ~OneGroup(db))]_vars
  <2> SUFFICES ASSUME TypeOK, HostInv, Next, NEW j \in jobs' \ jobs
               PROVE  j[2] = db /\ (j[1] \in reign \/ ~clean \/ ~OneGroup(db))
    OBVIOUS
  <2>1. CASE StartJob
    <3>1. j = <<host, db>> /\ pc = "start"
      BY <2>1 DEF StartJob
    <3>2. db # None
      BY <3>1, CdcSourceAssumption DEF TypeOK
    <3> QED
      BY <3>1, <3>2 DEF HostInv
  <2>2. CASE ~StartJob
    BY <2>2 DEF Next, Guard, Repairs, Discover, TakeDb, CheckTables, CheckGroup, CheckSync,
       CheckRole, Switch, CheckJob, Abort, Apply, StageEnd, Audit, NoAudit, Recover, SyncResumes,
       KafkaChanges, ServerDown, Failover, JobStops, SyncStops, env
  <2> QED
    BY <2>1, <2>2
<1> QED
  BY <1>1, <1>2, TypeCorrect, HostStep, PTL DEF Spec, StartedAtPrimary

\* When the stage is done with the capture job of a database, every query was
\* answered and the configured host serves no other group, the stage has arrived
\* at a server that has been the primary since the database was taken in hand,
\* and the job runs there if that server has one (check_sqlserver_cdc_agent_job
\* and restart_sqlserver_cdc_agent_job).
RunsWhenDone ==
  [][pc' = "apply" /\ pc \in {"job", "start"} /\ clean' /\ OneGroup(db)
       => host \in reign /\ (<<host, db>> \in HasJob => <<host, db>> \in jobs')]_vars

\* The capture job is left running on a server that has been the primary, under
\* the conditions the property names.
THEOREM JobRunsWhenDone == Spec => RunsWhenDone
<1>1. Init => HostInv
  BY DEF Init, HostInv
<1>2. TypeOK /\ HostInv /\ [Next]_vars =>
        [pc' = "apply" /\ pc \in {"job", "start"} /\ clean' /\ OneGroup(db)
           => host \in reign /\ (<<host, db>> \in HasJob => <<host, db>> \in jobs')]_vars
  <2> SUFFICES ASSUME TypeOK, HostInv, Next,
                      pc \in {"job", "start"}, pc' = "apply", clean', OneGroup(db)
               PROVE  host \in reign /\ (<<host, db>> \in HasJob => <<host, db>> \in jobs')
    OBVIOUS
  <2>1. db # None
    BY CdcSourceAssumption DEF TypeOK
  <2>2. CheckJob \/ StartJob
    BY DEF Next, Guard, Repairs, Discover, TakeDb, CheckTables, CheckGroup, CheckSync, CheckRole,
       Switch, Abort, Apply, StageEnd, Audit, NoAudit, Recover, SyncResumes, KafkaChanges,
       ServerDown, Failover, JobStops, SyncStops, Continue, NextDb, inHand
  <2>3. CASE CheckJob
    <3>1. PICK ok \in BOOLEAN :
            LET fine == IF ok /\ <<host, db>> \in HasJob THEN <<host, db>> \in jobs
                        ELSE db \in Published
            IN  Continue(IF fine THEN "apply" ELSE "start", ok)
      BY <2>3 DEF CheckJob
    <3>2. clean /\ ok
      BY <3>1 DEF Continue, TypeOK
    <3>3. <<host, db>> \in HasJob => <<host, db>> \in jobs
      BY <3>1, <3>2 DEF Continue
    <3>4. jobs' = jobs
      BY <2>3 DEF CheckJob, env
    <3> QED
      BY <2>1, <3>2, <3>3, <3>4 DEF HostInv
  <2>4. CASE StartJob
    <3>1. PICK ok \in BOOLEAN :
            Continue("apply", ok) /\ jobs' = IF ok THEN jobs \cup ({<<host, db>>} \cap HasJob) ELSE jobs
      BY <2>4 DEF StartJob
    <3>2. clean /\ ok
      BY <3>1 DEF Continue, TypeOK
    <3> QED
      BY <2>1, <3>1, <3>2 DEF HostInv
  <2> QED
    BY <2>2, <2>3, <2>4
<1> QED
  BY <1>1, <1>2, TypeCorrect, HostStep, PTL DEF Spec, RunsWhenDone

(***************************************************************************)
(* What the audit reports.                                                 *)
(***************************************************************************)

\* Every step keeps what is known of the expected topics.
LEMMA ExpectedStep == TypeOK /\ ExpectedInv /\ [Next]_vars => ExpectedInv'
<1> SUFFICES ASSUME TypeOK, ExpectedInv, [Next]_vars PROVE ExpectedInv'
  OBVIOUS
<1>1. CASE Discover
  BY <1>1 DEF Discover, ExpectedInv
<1>2. CASE ~Discover
  <2>1. UNCHANGED expected
    BY <1>2 DEF Next, Guard, Repairs, TakeDb, CheckTables, CheckGroup, CheckSync, CheckRole, Switch,
       CheckJob, Abort, StartJob, Apply, StageEnd, Audit, NoAudit, Recover, SyncResumes,
       KafkaChanges, ServerDown, Failover, JobStops, SyncStops, audit, vars
  <2> QED
    BY <2>1 DEF ExpectedInv
<1> QED
  BY <1>1, <1>2

\* What one audit reports.
LEMMA AuditReports ==
  ASSUME TypeOK, ExpectedInv, Audit, NEW d \in Db
  PROVE  /\ missing'[d] = expected[d] \ topics
         /\ deprecated'[d] \subseteq topics
         /\ Separate => \A e \in Db : deprecated'[d] \cap expected[e] = {}
<1>1. /\ missing'[d] = expected[d] \ Matching(topics, expected[d])
      /\ deprecated'[d] = Matching(topics, expected[d]) \ expected[d]
  BY DEF Audit
<1>2. \A t \in expected[d] \cap topics : t \in Matching(topics, expected[d])
  BY MatchesItself, TopicShape DEF ExpectedInv
<1>3. missing'[d] = expected[d] \ topics
  BY <1>1, <1>2, MatchingSubset
<1>4. ASSUME Separate, NEW e \in Db, NEW t \in deprecated'[d] \cap expected[e]
      PROVE  FALSE
  <2>1. PICK c \in Connector : Config[c].db = e /\ t \in AllTopics(c)
    BY <1>4 DEF ExpectedInv
  <2>2. t \in Matching(topics, expected[d]) /\ t \notin expected[d] /\ d # e
    BY <1>1, <1>4
  <2>3. \A w \in expected[d] : \E k \in Connector : Config[k].db = d /\ w \in AllTopics(k)
    BY DEF ExpectedInv
  <2> QED
    BY <1>4, <2>1, <2>2, <2>3, MatchesNoOther
<1> QED
  BY <1>1, <1>3, <1>4, MatchingSubset

\* The reports of the topic audit are exact, for topics of any names.
THEOREM AuditIsSound == Spec => AuditSound
<1>1. Init => ExpectedInv
  BY DEF Init, ExpectedInv, NoReports
<1>2. TypeOK /\ ExpectedInv /\ [Next]_vars =>
        [Audit => \A d \in Db :
           /\ missing'[d] = expected[d] \ topics
           /\ deprecated'[d] \subseteq topics
           /\ Separate => \A e \in Db : deprecated'[d] \cap expected[e] = {}]_vars
  BY AuditReports
<1> QED
  BY <1>1, <1>2, TypeCorrect, ExpectedStep, PTL DEF Spec, AuditSound
=============================================================================
