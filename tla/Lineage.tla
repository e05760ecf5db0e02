------------------------------ MODULE Lineage ------------------------------
(***************************************************************************)
(* The lineage of SQL Server replication (mssql/replication/main.py): a    *)
(* depth-first traversal from server to server, along log shipping and     *)
(* subscriptions, that draws what it finds in Neo4j and on its way drops   *)
(* inactive subscriptions of blacklisted subscribers.                      *)
(*                                                                         *)
(* The recursion of traverse_lineage is a stack of frames, and every query *)
(* an action.  The order in which a query lists its rows is left open.     *)
(***************************************************************************)
EXTENDS Naturals, FiniteSets, SequencesExt

CONSTANTS Server, Sub, None,
          Root,      \* config["server"]
          Ship,      \* the log shipping secondaries of a server
          Dist,      \* the distributor of a server, or None
          Pub, To,   \* publisher and subscriber of a subscription
          Merge,     \* subscriptions to merge publications
          Blacklist, \* config["blacklist"]
          MaxEvents  \* bound: disturbances

ASSUME LineageAssumption ==
  /\ None \notin Server /\ Root \in Server
  /\ Ship \in [Server -> SUBSET Server]
  /\ Dist \in [Server -> Server \cup {None}]
  /\ Pub \in [Sub -> Server] /\ To \in [Sub -> Server]
  /\ Merge \subseteq Sub /\ Blacklist \subseteq Server
  /\ MaxEvents \in Nat

\* What is drawn: a log shipping, or a subscription.
Shipping == {e \in Server \X Server : e[2] \in Ship[e[1]]}

VARIABLES
  \* SQL Server (external)
  up,       \* servers that answer
  live,     \* subscriptions at their publisher and distributor
  target,   \* subscriptions at their subscriber
  inactive, \* subscriptions whose status is inactive
  events,
  \* the script and what it draws
  stack,    \* frames of traverse_lineage: see Frame
  visited,  \* visited_servers: no, conn or error
  conn,     \* CONNECTION_POOL: none, live or dead
  drawn,    \* the graph of this run
  \* history of the run
  entered,  \* servers that were traversed
  seen,     \* subscriptions read as inactive
  refused,  \* servers that could not be connected to
  calm,     \* all servers were up and all queries answered
  start     \* the subscriptions at its beginning

env  == <<up, live, target, inactive>>
hist == <<entered, seen, refused, calm, start>>
vars == <<env, events, stack, visited, conn, drawn, hist>>

Stages == {"connect", "ships", "ship", "distributor", "read", "drop", "clean", "group"}

\* todo: what the loop in progress has still to visit; df: the rows of
\* get_replication_info; cur: the subscription being dropped
Frame(s) == [srv |-> s, step |-> "connect", todo |-> {}, df |-> {}, cur |-> {}]

TypeOK ==
  /\ up \subseteq Server /\ live \subseteq Sub /\ target \subseteq Sub /\ inactive \subseteq live
  /\ events \in 0 .. MaxEvents
  /\ stack \in Seq([srv : Server, step : Stages, todo : SUBSET (Server \cup Sub),
                    df : SUBSET Sub, cur : SUBSET Sub])
  /\ \A i \in DOMAIN stack :
       /\ stack[i].step = "ship" => stack[i].todo \subseteq Ship[stack[i].srv]
       /\ stack[i].step \in {"drop", "clean", "group"} => stack[i].todo \subseteq stack[i].df
       /\ stack[i].cur # {} <=> stack[i].step = "clean"
  /\ visited \in [Server -> {"no", "conn", "error"}]
  /\ conn \in [Server -> {"none", "live", "dead"}]
  /\ drawn \subseteq Shipping \cup Sub
  /\ entered \in [Server -> 0 .. 2] /\ seen \subseteq Sub /\ refused \subseteq Server
  /\ calm \in BOOLEAN /\ start \subseteq Sub

Init ==
  /\ up = Server /\ live = Sub /\ target = Sub /\ inactive \in SUBSET Sub /\ events = 0
  /\ stack = <<>> /\ visited = [s \in Server |-> "no"] /\ conn = [s \in Server |-> "none"]
  /\ drawn = {} /\ entered = [s \in Server |-> 0] /\ seen = {} /\ refused = {}
  /\ calm = TRUE /\ start = {}

-----------------------------------------------------------------------------
(***************************************************************************)
(* SQL Server.                                                             *)
(***************************************************************************)
Disturb == events < MaxEvents /\ events' = events + 1

Down(s) ==
  /\ s \in up /\ Disturb
  /\ up' = up \ {s}
  /\ conn' = [conn EXCEPT ![s] = IF @ = "live" THEN "dead" ELSE @]
  /\ calm' = FALSE
  /\ UNCHANGED <<live, target, inactive, stack, visited, drawn, entered, seen, refused, start>>

Back(s) ==
  /\ s \in Server \ up
  /\ up' = up \cup {s}
  /\ UNCHANGED <<live, target, inactive, events, stack, visited, conn, drawn, hist>>

\* A subscription is activated or deactivated.
StatusChange(x) ==
  /\ x \in live /\ Disturb
  /\ inactive' = IF x \in inactive THEN inactive \ {x} ELSE inactive \cup {x}
  /\ UNCHANGED <<up, live, target, stack, visited, conn, drawn, hist>>

-----------------------------------------------------------------------------
(***************************************************************************)
(* The script: frames, connections and queries.                            *)
(***************************************************************************)
Top == stack[Len(stack)]
SetTop(f) == stack' = [stack EXCEPT ![Len(stack)] = f]
Return == stack' = Front(stack)

\* connect_sql_server: a connection that died stays in the pool and fails later.
Connects(s)  == conn[s] # "none" \/ s \in up
Pool(s)      == conn' = IF conn[s] = "none" /\ s \in up THEN [conn EXCEPT ![s] = "live"] ELSE conn
Refused(s)   == refused' = IF Connects(s) THEN refused ELSE refused \cup {s}

\* A query on the pooled connection to s is answered, or fails.
Answered(s, ok) ==
  /\ ok => conn'[s] = "live"
  /\ IF conn'[s] = "live" /\ ~ok THEN Disturb ELSE UNCHANGED events
  /\ calm' = (calm /\ ok)

\* Mutant: only a server that cannot be reached is entered in visited_servers.
EnterLate ==
  /\ stack # <<>> /\ Top.step = "connect"
  /\ entered' = [entered EXCEPT ![Top.srv] = IF @ < 2 THEN @ + 1 ELSE 2]
  /\ Pool(Top.srv) /\ Refused(Top.srv)
  /\ IF Connects(Top.srv)
     THEN SetTop([Top EXCEPT !.step = "ships"]) /\ UNCHANGED visited
     ELSE visited' = [visited EXCEPT ![Top.srv] = "error"] /\ Return
  /\ UNCHANGED <<env, events, drawn, seen, calm, start>>

\* main: a run begins with nothing visited and an empty pool.
StartRun ==
  /\ stack = <<>>
  /\ stack' = <<Frame(Root)>>
  /\ visited' = [s \in Server |-> "no"] /\ conn' = [s \in Server |-> "none"]
  /\ drawn' = {} /\ entered' = [s \in Server |-> 0] /\ seen' = {} /\ refused' = {}
  /\ calm' = (up = Server) /\ start' = live
  /\ UNCHANGED <<env, events>>

Enter ==
  /\ stack # <<>> /\ Top.step = "connect"
  /\ entered' = [entered EXCEPT ![Top.srv] = IF @ < 2 THEN @ + 1 ELSE 2]
  /\ Pool(Top.srv) /\ Refused(Top.srv)
  /\ visited' = [visited EXCEPT ![Top.srv] = IF Connects(Top.srv) THEN "conn" ELSE "error"]
  /\ IF Connects(Top.srv) THEN SetTop([Top EXCEPT !.step = "ships"]) ELSE Return
  /\ UNCHANGED <<env, events, drawn, seen, calm, start>>

\* get_log_shipping_info: an error gives no rows.
ReadShips ==
  /\ stack # <<>> /\ Top.step = "ships"
  /\ \E ok \in BOOLEAN :
       /\ UNCHANGED conn /\ Answered(Top.srv, ok)
       /\ SetTop([Top EXCEPT !.step = "ship", !.todo = IF ok THEN Ship[Top.srv] ELSE {}])
  /\ UNCHANGED <<env, visited, drawn, entered, seen, refused, start>>

\* Mutant: a server is traversed whenever something leads to it.
TraverseAgain(t, f) == stack' = Append(Append(Front(stack), f), Frame(t))

\* The top frame goes on with f, after the traversal of t if that is not done.
Traverse(t, f) ==
  LET rest == Append(Front(stack), f) IN
  stack' = IF visited[t] = "no" THEN Append(rest, Frame(t)) ELSE rest

\* Mutant: what leads to a server already visited is not drawn.
DrawNew(e, t) == drawn' = IF visited[t] = "no" THEN drawn \cup {e} ELSE drawn

\* create_lineage
Draw(e, t) == drawn' = drawn \cup {e}

FollowShip ==
  /\ stack # <<>> /\ Top.step = "ship"
  /\ \E t \in Top.todo :
       /\ Draw(<<Top.srv, t>>, t)
       /\ Traverse(t, [Top EXCEPT !.todo = @ \ {t}])
  /\ UNCHANGED <<env, events, visited, conn, hist>>

ShipsDone ==
  /\ stack # <<>> /\ Top.step = "ship" /\ Top.todo = {}
  /\ SetTop([Top EXCEPT !.step = "distributor"])
  /\ UNCHANGED <<env, events, visited, conn, drawn, hist>>

\* get_sql_server_distributor, and the connection to what it names.  Without a
\* distributor, or on an error, the server is done; if the distributor cannot be
\* reached, it is this server that is reported.
FindDistributor ==
  /\ stack # <<>> /\ Top.step = "distributor"
  /\ \E ok \in BOOLEAN :
       LET d == IF ok THEN Dist[Top.srv] ELSE None IN
       /\ IF d = None THEN UNCHANGED <<conn, refused>> ELSE Pool(d) /\ Refused(d)
       /\ ok => conn[Top.srv] = "live"
       /\ IF conn[Top.srv] = "live" /\ ~ok THEN Disturb ELSE UNCHANGED events
       /\ calm' = (calm /\ ok)
       /\ IF d # None /\ Connects(d)
          THEN SetTop([Top EXCEPT !.step = "read"]) /\ visited' = [visited EXCEPT ![d] = "conn"]
          ELSE /\ Return
               /\ visited' = IF d = None THEN visited ELSE [visited EXCEPT ![Top.srv] = "error"]
  /\ UNCHANGED <<env, drawn, entered, seen, start>>

\* get_replication_info: the subscriptions of all publishers of the distributor.
ReadSubs ==
  /\ stack # <<>> /\ Top.step = "read"
  /\ \E ok \in BOOLEAN :
       LET df == IF ok THEN {x \in live : Dist[Pub[x]] = Dist[Top.srv]} ELSE {} IN
       /\ UNCHANGED conn /\ Answered(Dist[Top.srv], ok)
       /\ seen' = seen \cup (df \cap inactive)
       /\ IF df = {} THEN Return
          ELSE SetTop([Top EXCEPT !.step = "drop", !.df = df, !.todo = df \cap inactive])
  /\ UNCHANGED <<env, visited, drawn, entered, refused, start>>

-----------------------------------------------------------------------------
(***************************************************************************)
(* drop_inactive_subscription.                                             *)
(***************************************************************************)

\* Mutant: all inactive subscriptions are dropped.
AnyListed(x) == TRUE

Listed(x) == To[x] \in Blacklist

\* Mutant: a subscription that could not be dropped is tried again.
PassOverRetry(x) == [Top EXCEPT !.step = "drop", !.cur = {}]

\* Mutant: the row is kept as the one being dropped.
PassOverKeeps(x) == [Top EXCEPT !.step = "drop", !.todo = @ \ {x}]

\* The loop goes on with the next row.
PassOver(x) == [Top EXCEPT !.step = "drop", !.todo = @ \ {x}, !.cur = {}]

\* Mutant: the subscriber is cleaned up first.
DropReversed ==
  /\ stack # <<>> /\ Top.step = "drop"
  /\ \E x \in Top.todo :
       /\ Listed(x) /\ Connects(To[x]) /\ Pool(To[x])
       /\ conn'[To[x]] = "live"
       /\ target' = target \ {x} /\ SetTop([Top EXCEPT !.step = "clean", !.cur = {x}])
  /\ UNCHANGED <<up, live, inactive, events, visited, drawn, hist>>

\* Mutant: a publisher that cannot be reached ends the traversal of the server.
DropRaises ==
  /\ stack # <<>> /\ Top.step = "drop"
  /\ \E x \in Top.todo :
       /\ Listed(x) /\ ~Connects(Pub[x])
       /\ visited' = [visited EXCEPT ![Top.srv] = "error"] /\ Return
  /\ UNCHANGED <<env, events, conn, drawn, hist>>

\* sp_dropsubscription at the publisher, and its commit.  It fails for a merge
\* subscription and for one that is gone.
Drop ==
  /\ stack # <<>> /\ Top.step = "drop"
  /\ \E x \in Top.todo : \E ok \in BOOLEAN :
       /\ Listed(x) /\ Pool(Pub[x]) /\ Refused(Pub[x])
       /\ Answered(Pub[x], ok)
       /\ IF ok /\ x \in live \ Merge
          THEN /\ live' = live \ {x} /\ inactive' = inactive \ {x}
               /\ SetTop([Top EXCEPT !.step = "clean", !.cur = {x}])
          ELSE UNCHANGED <<live, inactive>> /\ SetTop(PassOver(x))
  /\ UNCHANGED <<up, target, visited, drawn, entered, seen, start>>

NotListed ==
  /\ stack # <<>> /\ Top.step = "drop"
  /\ \E x \in Top.todo : ~Listed(x) /\ SetTop(PassOver(x))
  /\ UNCHANGED <<env, events, visited, conn, drawn, hist>>

\* sp_subscription_cleanup at the subscriber: errors are logged.
Clean ==
  /\ stack # <<>> /\ Top.step = "clean"
  /\ \E x \in Top.cur : \E ok \in BOOLEAN :
       /\ Pool(To[x]) /\ Refused(To[x])
       /\ Answered(To[x], ok)
       /\ target' = IF ok THEN target \ {x} ELSE target
       /\ SetTop(PassOver(x))
  /\ UNCHANGED <<up, live, inactive, visited, drawn, entered, seen, start>>

DropsDone ==
  /\ stack # <<>> /\ Top.step = "drop" /\ Top.todo = {}
  /\ SetTop([Top EXCEPT !.step = "group", !.todo = Top.df])
  /\ UNCHANGED <<env, events, visited, conn, drawn, hist>>

\* One group of rows is drawn, and its subscriber traversed.
FollowSub ==
  /\ stack # <<>> /\ Top.step = "group"
  /\ \E x \in Top.todo :
       /\ Draw(x, To[x])
       /\ Traverse(To[x], [Top EXCEPT !.todo = @ \ {x}])
  /\ UNCHANGED <<env, events, visited, conn, hist>>

ServerDone ==
  /\ stack # <<>> /\ Top.step = "group" /\ Top.todo = {}
  /\ Return
  /\ UNCHANGED <<env, events, visited, conn, drawn, hist>>

\* The script is killed.
Crash ==
  /\ stack # <<>> /\ Disturb
  /\ stack' = <<>> /\ calm' = FALSE
  /\ UNCHANGED <<env, visited, conn, drawn, entered, seen, refused, start>>

Script ==
  \/ StartRun \/ Enter \/ ReadShips \/ FollowShip \/ ShipsDone \/ FindDistributor \/ ReadSubs
  \/ Drop \/ NotListed \/ Clean \/ DropsDone \/ FollowSub \/ ServerDone

Next ==
  \/ Script \/ Crash
  \/ \E s \in Server : Down(s) \/ Back(s)
  \/ \E x \in Sub : StatusChange(x)

Spec == Init /\ [][Next]_vars

\* A run that has begun goes on.
FairSpec == Spec /\ WF_vars(Script)

-----------------------------------------------------------------------------
(***************************************************************************)
(* Properties.                                                             *)
(***************************************************************************)

\* A subscription is dropped only if its subscriber is blacklisted and this very
\* run has read it as inactive: not because an earlier run had, nor because
\* another subscription of the publisher was.
DropOnlySeenInactive ==
  [][\A x \in live \ live' : To[x] \in Blacklist /\ x \in seen]_vars

\* A subscriber is cleaned up only when the publisher no longer replicates to
\* it, through crashes and failures between the two.
CleanAfterDrop == live \subseteq target

\* In whatever way the topology runs in circles, and whatever server goes down
\* and comes back, a run traverses a server once.
TraversedOnce == \A s \in Server : entered[s] <= 1

\* A server reported as unreachable has refused a connection in this run, or its
\* distributor has: what happens to the publishers and subscribers of its
\* subscriptions is not held against it.
UnreachableIsTrue ==
  \A s \in Server : visited[s] = "error" => {s, Dist[s]} \cap refused # {}

\* The subscriptions a run follows from server s, and the sets of servers that
\* are closed under all that is followed: Reached is the least one with Root.
SubsAt(s) == {x \in start : Dist[s] # None /\ Dist[Pub[x]] = Dist[s]}
Closed(C) == \A s \in C : Ship[s] \subseteq C /\ {To[x] : x \in SubsAt(s)} \subseteq C
Reached   == {s \in Server : \A C \in SUBSET Server : Root \in C /\ Closed(C) => s \in C}

\* A server that distributes for others has nothing else to be followed.
PlainDistributors ==
  \A s \in Server : Dist[s] \notin {s, None} =>
    Ship[Dist[s]] = {} /\ Dist[Dist[s]] \in {Dist[s], None}

\* A run that nothing disturbs draws every log shipping and every subscription
\* of the servers that can be reached from the first one, the dropped ones
\* included; unless a distributor has more to follow than what it distributes,
\* for it counts as visited.
Complete ==
  stack = <<>> /\ calm /\ visited[Root] # "no" /\ PlainDistributors =>
    /\ {e \in Shipping : e[1] \in Reached} \subseteq drawn
    /\ UNION {SubsAt(s) : s \in Reached} \subseteq drawn

\* What is left of a run: the stages of the servers that are not visited or whose
\* call has not returned, and the rows of the loops in progress, of which one
\* that is being dropped is left once more.
Open == {stack[i] : i \in DOMAIN stack}

Rank == [connect |-> 1, ships |-> 2, ship |-> 3, distributor |-> 4, read |-> 5,
         drop |-> 6, clean |-> 6, group |-> 7]

StagesLeft ==
  {e \in Server \X (1 .. 7) :
     \/ visited[e[1]] = "no"
     \/ \E f \in Open : f.srv = e[1] /\ f.step # "connect" /\ Rank[f.step] <= e[2]}

RowsLeft ==
  {e \in Server \X (Server \cup Sub) \X {"drop", "pass"} :
     \E f \in Open : f.srv = e[1] /\ e[2] \in f.todo /\ (e[3] = "drop" => e[2] \notin f.cur)}

\* Every step of a run, whatever fails in it and in whatever circles the
\* topology runs, leaves fewer stages than before, or the same stages and fewer
\* rows; only a kill or a step of the script changes what is left.  So a run ends.
Fewer(new, old) == new \subseteq old /\ new # old
Dwindles ==
  [][stack # <<>> =>
       IF Script THEN \/ Fewer(StagesLeft', StagesLeft)
                      \/ StagesLeft' = StagesLeft /\ Fewer(RowsLeft', RowsLeft)
       ELSE stack' = <<>> \/ UNCHANGED <<StagesLeft, RowsLeft>>]_vars

\* Every run ends.
Terminates == []<>(stack = <<>>)
=============================================================================
