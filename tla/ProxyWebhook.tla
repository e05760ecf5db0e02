---------------------------- MODULE ProxyWebhook ----------------------------
(***************************************************************************)
(* The webhook between Alertmanager and the chat robots                    *)
(* (prometheus/proxy-webhook/main.go).  Alerts that differ in severity only*)
(* are one incident: the proxy gives all of them the startsAt it met first *)
(* and forgets it when the incident is resolved.                           *)
(*                                                                         *)
(* Every request runs in a goroutine of its own.  The store is locked for  *)
(* one operation at a time, so requests interleave between SetIfAbsent and *)
(* Delete.  The order of the alerts of a message is left open.             *)
(*                                                                         *)
(* Timestamps are numbers and 0 stands for "none": no entry of the store,  *)
(* an alert that is not firing.                                            *)
(***************************************************************************)
EXTENDS Naturals, FiniteSets

CONSTANTS Key,        \* the labels of an alert, without its severity
          Severity,
          Request,    \* requests that can be in progress at a time
          NumTargets, \* targets given on the command line
          Down,       \* the targets that do not answer
          MaxTime,    \* bound: alerts that ever start
          MaxEvents   \* bound: restarts of the proxy and stray requests

ASSUME ProxyWebhookAssumption ==
  /\ NumTargets \in Nat \ {0}
  /\ Down \subseteq 0 .. NumTargets - 1
  /\ MaxTime \in Nat
  /\ MaxEvents \in Nat

Time  == 0 .. MaxTime
Alert == [key : Key, sev : Severity, status : {"firing", "resolved"}, start : Time]

VARIABLES
  \* Alertmanager (external)
  firing,   \* startsAt of the alerts that fire
  resolved, \* startsAt of the alerts that ended and have yet to be notified
  clock,    \* the last startsAt
  events,   \* restarts and stray requests so far
  \* the proxy
  store,    \* FingerprintStore
  counter,  \* requests so far, modulo the number of targets
  req,      \* the requests in progress: see Idle
  \* history
  given,    \* starts handed out since the entry of the key was created
  shown,    \* starts of the firing notices of the current incident of the key
  steady    \* keys whose incident began when the end of the last one had been
            \* notified, and since then ended as a whole if at all

am   == <<firing, resolved, clock>>
hist == <<given, shown, steady>>
vars == <<am, events, store, counter, req, hist>>

\* msg: the alerts received, todo: those the loop has still to rewrite, out:
\* the rewritten ones, key: the fingerprint about to be deleted
Idle == [pc |-> "idle", target |-> 0, msg |-> {}, todo |-> {}, out |-> {}, key |-> {}]

TypeOK ==
  /\ firing \in [Key \X Severity -> Time]
  /\ resolved \in [Key \X Severity -> Time]
  /\ clock \in Time
  /\ events \in 0 .. MaxEvents
  /\ store \in [Key -> Time]
  /\ counter \in 0 .. NumTargets - 1
  /\ req \in [Request -> [pc : {"idle", "loop", "delete", "send"},
                          target : 0 .. NumTargets - 1,
                          msg : SUBSET Alert, todo : SUBSET Alert, out : SUBSET Alert,
                          key : SUBSET Key]]
  /\ given \in [Key -> SUBSET Time]
  /\ shown \in [Key -> SUBSET Time]
  /\ steady \subseteq Key

Init ==
  /\ firing = [a \in Key \X Severity |-> 0]
  /\ resolved = [a \in Key \X Severity |-> 0]
  /\ clock = 0 /\ events = 0
  /\ store = [k \in Key |-> 0]
  /\ counter = 0
  /\ req = [r \in Request |-> Idle]
  /\ given = [k \in Key |-> {}]
  /\ shown = [k \in Key |-> {}]
  /\ steady = {}

-----------------------------------------------------------------------------
(***************************************************************************)
(* Alertmanager.                                                           *)
(***************************************************************************)
IsFiring(k) == \E s \in Severity : firing[<<k, s>>] # 0
Pending(k)  == \E s \in Severity : resolved[<<k, s>>] # 0

\* An alert starts; if its previous end has not been notified, it never is.
Fire(k, s) ==
  /\ firing[<<k, s>>] = 0
  /\ clock < MaxTime
  /\ clock' = clock + 1
  /\ firing' = [firing EXCEPT ![<<k, s>>] = clock + 1]
  /\ resolved' = [resolved EXCEPT ![<<k, s>>] = 0]
  /\ shown' = IF IsFiring(k) THEN shown ELSE [shown EXCEPT ![k] = {}]
  /\ steady' = IF Pending(k) THEN steady \ {k}
               ELSE IF IsFiring(k) THEN steady ELSE steady \cup {k}
  /\ UNCHANGED <<events, store, counter, req, given>>

\* Alerts of one key, of some of its severities, end together.
End(k, S) ==
  /\ S # {} /\ \A s \in S : firing[<<k, s>>] # 0
  /\ firing' = [a \in Key \X Severity |->
                  IF a[1] = k /\ a[2] \in S THEN 0 ELSE firing[a]]
  /\ resolved' = [a \in Key \X Severity |->
                    IF a[1] = k /\ a[2] \in S THEN firing[a] ELSE resolved[a]]
  /\ steady' = IF \E s \in Severity \ S : firing[<<k, s>>] # 0
               THEN steady \ {k} ELSE steady
  /\ UNCHANGED <<clock, events, store, counter, req, given, shown>>

\* A notice lists the alerts of the group that fire and those that ended.
Notice ==
  {[key |-> a[1], sev |-> a[2], status |-> "firing", start |-> firing[a]] :
     a \in {b \in Key \X Severity : firing[b] # 0}}
  \cup
  {[key |-> a[1], sev |-> a[2], status |-> "resolved", start |-> resolved[a]] :
     a \in {b \in Key \X Severity : resolved[b] # 0}}

-----------------------------------------------------------------------------
(***************************************************************************)
(* handleProxy.                                                            *)
(***************************************************************************)

\* Mutant: the index into the targets is not reduced.
NextTargetUnreduced == counter + 1

\* Mutant: the counter is read and never advanced.
NextTargetStuck == counter

\* getNextTarget
NextTarget == (counter + 1) % NumTargets

\* A request arrives, a first one or a retry: its target is chosen before its
\* body is read and parsed.
Receive(r) ==
  /\ req[r].pc = "idle"
  /\ Notice # {}
  /\ counter' = NextTarget
  /\ req' = [req EXCEPT ![r] = [Idle EXCEPT !.pc = "loop", !.target = NextTarget,
                                            !.msg = Notice, !.todo = Notice]]
  /\ UNCHANGED <<am, events, store, hist>>

\* A request whose body is not a notice is refused, and has used up a target.
Stray ==
  /\ events < MaxEvents
  /\ events' = events + 1
  /\ counter' = NextTarget
  /\ UNCHANGED <<am, store, req, hist>>

\* Mutant: the entry takes the start of the latest alert.
SetAlways(k, t) == t

\* FingerprintStore.SetIfAbsent
SetIfAbsent(k, t) == IF store[k] # 0 THEN store[k] ELSE t

\* Mutant: the entry is looked up for a resolved alert and stays.
RewriteKeep(r, a) ==
  LET t == SetIfAbsent(a.key, a.start) IN
  /\ req[r].pc = "loop" /\ a \in req[r].todo
  /\ store' = [store EXCEPT ![a.key] = t]
  /\ req' = [req EXCEPT ![r].todo = @ \ {a},
                        ![r].out = @ \cup {[a EXCEPT !.start = t]}]
  /\ given' = [given EXCEPT ![a.key] = @ \cup {t}]
  /\ shown' = [shown EXCEPT ![a.key] = IF a.status = "firing" THEN @ \cup {t} ELSE @]
  /\ UNCHANGED <<am, events, counter, steady>>

\* Mutant: the start is decided on a look at the store that another request
\* has overtaken.
RewriteRace(r, a) ==
  \E t \in {a.start, SetIfAbsent(a.key, a.start)} :
  /\ req[r].pc = "loop" /\ a \in req[r].todo
  /\ store' = [store EXCEPT ![a.key] = t]
  /\ req' = [req EXCEPT ![r].pc = IF a.status = "resolved" THEN "delete" ELSE "loop",
                        ![r].todo = @ \ {a},
                        ![r].out = @ \cup {[a EXCEPT !.start = t]},
                        ![r].key = IF a.status = "resolved" THEN {a.key} ELSE {}]
  /\ given' = [given EXCEPT ![a.key] = @ \cup {t}]
  /\ shown' = [shown EXCEPT ![a.key] = IF a.status = "firing" THEN @ \cup {t} ELSE @]
  /\ UNCHANGED <<am, events, counter, steady>>

\* One iteration of the loop over the alerts, up to the Delete of a resolved one.
Rewrite(r, a) ==
  LET t == SetIfAbsent(a.key, a.start) IN
  /\ req[r].pc = "loop" /\ a \in req[r].todo
  /\ store' = [store EXCEPT ![a.key] = t]
  /\ req' = [req EXCEPT ![r].pc = IF a.status = "resolved" THEN "delete" ELSE "loop",
                        ![r].todo = @ \ {a},
                        ![r].out = @ \cup {[a EXCEPT !.start = t]},
                        ![r].key = IF a.status = "resolved" THEN {a.key} ELSE {}]
  /\ given' = [given EXCEPT ![a.key] = @ \cup {t}]
  /\ shown' = [shown EXCEPT ![a.key] = IF a.status = "firing" THEN @ \cup {t} ELSE @]
  /\ UNCHANGED <<am, events, counter, steady>>

\* FingerprintStore.Delete
Delete(r) ==
  /\ req[r].pc = "delete"
  /\ store' = [k \in Key |-> IF k \in req[r].key THEN 0 ELSE store[k]]
  /\ given' = [k \in Key |-> IF k \in req[r].key THEN {} ELSE given[k]]
  /\ req' = [req EXCEPT ![r].pc = "loop", ![r].key = {}]
  /\ UNCHANGED <<am, events, counter, shown, steady>>

Rewritten(r) ==
  /\ req[r].pc = "loop" /\ req[r].todo = {}
  /\ req' = [req EXCEPT ![r].pc = "send"]
  /\ UNCHANGED <<am, events, store, counter, hist>>

\* The target answers and Alertmanager has nothing left to say about the
\* alerts of the message that ended.
Forward(r) ==
  /\ req[r].pc = "send" /\ req[r].target \notin Down
  /\ req' = [req EXCEPT ![r] = Idle]
  /\ resolved' = [a \in Key \X Severity |->
       IF [key |-> a[1], sev |-> a[2], status |-> "resolved", start |-> resolved[a]]
            \in req[r].msg
       THEN 0 ELSE resolved[a]]
  /\ UNCHANGED <<firing, clock, events, store, counter, hist>>

\* The target does not answer: 502, and Alertmanager retries.
BadGateway(r) ==
  /\ req[r].pc = "send" /\ req[r].target \in Down
  /\ req' = [req EXCEPT ![r] = Idle]
  /\ UNCHANGED <<am, events, store, counter, hist>>

\* The proxy restarts: the store and the requests in progress are lost.
Restart ==
  /\ events < MaxEvents
  /\ events' = events + 1
  /\ store' = [k \in Key |-> 0]
  /\ counter' = 0
  /\ req' = [r \in Request |-> Idle]
  /\ given' = [k \in Key |-> {}]
  /\ steady' = {}
  /\ UNCHANGED <<am, shown>>

Handle(r) ==
  \/ \E a \in req[r].todo : Rewrite(r, a)
  \/ Delete(r) \/ Rewritten(r) \/ Forward(r) \/ BadGateway(r)

Next ==
  \/ \E k \in Key, s \in Severity : Fire(k, s)
  \/ \E k \in Key : \E S \in SUBSET Severity : End(k, S)
  \/ \E r \in Request : Receive(r) \/ Handle(r)
  \/ Stray \/ Restart

Spec == Init /\ [][Next]_vars

\* Alertmanager goes on notifying, and a request that has begun ends.
FairSpec == Spec /\ \A r \in Request : WF_vars(Receive(r)) /\ WF_vars(Handle(r))

-----------------------------------------------------------------------------
(***************************************************************************)
(* Properties.                                                             *)
(***************************************************************************)

\* Between the creation and the deletion of an entry all alerts of its key are
\* given one start, whatever requests they come in and however these
\* interleave (SetIfAbsent under the lock).
OneStartPerEntry ==
  \A k \in Key : given[k] \subseteq {store[k]} \ {0}

\* With one request at a time, the store keeps no entry of an incident that is
\* over, through failed forwards, partial ends and restarts: an entry left
\* behind would give its start to the next incident of the key.
NothingLeft ==
  (\A r \in Request : req[r] = Idle) =>
    \A k \in Key : store[k] # 0 /\ ~Pending(k) => IsFiring(k)

\* With one request at a time, while an incident has not been disturbed (its end
\* was partial, it began before the end of the last one was notified, the proxy
\* restarted), all its firing notices carry one and the same start, of whatever
\* severity they are, in whatever order the alerts come and however often the
\* forward fails: the purpose of the store.
FiringStable == \A k \in steady : Cardinality(shown[k]) <= 1

\* The end of an alert is notified downstream, or the alert fires again, even
\* if some targets are down for ever: a retry takes the next target.
Announced ==
  \A k \in Key, s \in Severity : resolved[<<k, s>>] # 0 ~> resolved[<<k, s>>] = 0
=============================================================================
