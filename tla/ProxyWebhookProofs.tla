------------------------- MODULE ProxyWebhookProofs -------------------------
(***************************************************************************)
(* Theorems on ProxyWebhook, for any keys, severities, requests in progress*)
(* and targets.  OneStartPerEntry is inductive once it is known that what a*)
(* request has still to rewrite carries a start: 0 is "no entry", and an   *)
(* alert with the start 0 would leave none behind.                         *)
(*                                                                         *)
(* NothingLeft and FiringStable are about one request at a time; SeqInv    *)
(* relates the message in hand to what Alertmanager has meanwhile to say.  *)
(***************************************************************************)
EXTENDS ProxyWebhook, FiniteSetTheorems, TLAPS

\* Every alert a request has still to rewrite has a start.
RealStarts == \A r \in Request : \A a \in req[r].todo : a.start # 0

IInv == TypeOK /\ RealStarts /\ OneStartPerEntry

(***************************************************************************)
(* The alerts of a notice are well formed and have a start.                *)
(***************************************************************************)
\* What Notice lists are alerts, each with a start.
LEMMA NoticeAlerts ==
  ASSUME TypeOK
  PROVE  Notice \subseteq Alert /\ \A a \in Notice : a.start # 0
<1>1. ASSUME NEW a \in Notice
      PROVE  a \in Alert /\ a.start # 0
  <2>1. CASE \E b \in Key \X Severity :
               firing[b] # 0 /\ a = [key |-> b[1], sev |-> b[2],
                                     status |-> "firing", start |-> firing[b]]
    BY <2>1 DEF TypeOK, Alert
  <2>2. CASE \E b \in Key \X Severity :
               resolved[b] # 0 /\ a = [key |-> b[1], sev |-> b[2],
                                       status |-> "resolved", start |-> resolved[b]]
    BY <2>2 DEF TypeOK, Alert
  <2> QED  BY <1>1, <2>1, <2>2 DEF Notice
<1> QED  BY <1>1

(***************************************************************************)
(* Facts on single values.                                                 *)
(***************************************************************************)
\* getNextTarget returns the index of a target.
LEMMA TargetInRange ==
  ASSUME TypeOK
  PROVE  NextTarget \in 0 .. NumTargets - 1
<1>1. counter + 1 \in Nat /\ NumTargets \in Nat /\ NumTargets > 0
  BY ProxyWebhookAssumption DEF TypeOK
<1>2. (counter + 1) % NumTargets \in 0 .. NumTargets - 1
  BY <1>1
<1> QED  BY <1>2 DEF NextTarget

\* SetIfAbsent returns the entry, or else the start it was given.
LEMMA StartGiven ==
  ASSUME TypeOK, NEW k \in Key, NEW t \in Time
  PROVE  /\ SetIfAbsent(k, t) \in Time
         /\ t # 0 => SetIfAbsent(k, t) # 0
         /\ store[k] # 0 => SetIfAbsent(k, t) = store[k]
BY DEF TypeOK, SetIfAbsent

Requests == [Request -> [pc : {"idle", "loop", "delete", "send"},
                         target : 0 .. NumTargets - 1,
                         msg : SUBSET Alert, todo : SUBSET Alert, out : SUBSET Alert,
                         key : SUBSET Key]]

\* A request that has not begun is well typed.
LEMMA IdleTyped ==
  Idle \in [pc : {"idle", "loop", "delete", "send"}, target : 0 .. NumTargets - 1,
           msg : SUBSET Alert, todo : SUBSET Alert, out : SUBSET Alert, key : SUBSET Key]
BY ProxyWebhookAssumption DEF Idle

(***************************************************************************)
(* The initial state.                                                      *)
(***************************************************************************)
\* The proxy starts with the invariant.
LEMMA InitIInv == Init => IInv
<1> SUFFICES ASSUME Init PROVE IInv
  OBVIOUS
<1>1. 0 \in Time
  BY ProxyWebhookAssumption DEF Time
<1>2. 0 \in 0 .. NumTargets - 1 /\ 0 \in 0 .. MaxEvents
  BY ProxyWebhookAssumption
<1>3. TypeOK
  BY <1>1, <1>2, IdleTyped DEF Init, TypeOK
<1>4. RealStarts
  BY DEF Init, RealStarts, Idle
<1>5. OneStartPerEntry
  BY DEF Init, OneStartPerEntry
<1> QED  BY <1>3, <1>4, <1>5 DEF IInv

(***************************************************************************)
(* The steps of Alertmanager.  They leave the proxy alone.                 *)
(***************************************************************************)
\* What leaves requests, store and history alone keeps the invariant.
LEMMA Unmoved ==
  ASSUME RealStarts, OneStartPerEntry, req' = req, store' = store, given' = given
  PROVE  RealStarts' /\ OneStartPerEntry'
BY DEF RealStarts, OneStartPerEntry

\* An alert starts.
LEMMA FireStep ==
  ASSUME IInv, NEW k \in Key, NEW s \in Severity, Fire(k, s)
  PROVE  IInv'
<1>1. clock + 1 \in Time /\ 0 \in Time
  BY ProxyWebhookAssumption DEF IInv, TypeOK, Fire, Time
<1>2. firing' \in [Key \X Severity -> Time] /\ resolved' \in [Key \X Severity -> Time]
  BY <1>1 DEF IInv, TypeOK, Fire
<1>3. shown' \in [Key -> SUBSET Time] /\ steady' \subseteq Key
  BY DEF IInv, TypeOK, Fire
<1>4. TypeOK'
  BY <1>1, <1>2, <1>3 DEF IInv, TypeOK, Fire
<1> QED  BY <1>4, Unmoved DEF IInv, Fire

\* Alerts end.
LEMMA EndStep ==
  ASSUME IInv, NEW k \in Key, NEW S \in SUBSET Severity, End(k, S)
  PROVE  IInv'
<1>1. firing' \in [Key \X Severity -> Time] /\ resolved' \in [Key \X Severity -> Time]
  BY ProxyWebhookAssumption DEF IInv, TypeOK, End, Time
<1>2. steady' \subseteq Key
  BY DEF IInv, TypeOK, End
<1>3. TypeOK'
  BY <1>1, <1>2 DEF IInv, TypeOK, End
<1> QED  BY <1>3, Unmoved DEF IInv, End

(***************************************************************************)
(* The steps of a request.                                                 *)
(***************************************************************************)
\* A request is received: its alerts have starts.
LEMMA ReceiveStep ==
  ASSUME IInv, NEW r \in Request, Receive(r)
  PROVE  IInv'
<1>1. NextTarget \in 0 .. NumTargets - 1
  BY TargetInRange DEF IInv
<1>2. Notice \subseteq Alert /\ \A a \in Notice : a.start # 0
  BY NoticeAlerts DEF IInv
<1>3. req' \in Requests
  BY <1>1, <1>2, IdleTyped DEF IInv, TypeOK, Receive, Requests, Idle
<1>4. TypeOK'
  BY <1>1, <1>3 DEF IInv, TypeOK, Receive, Requests, am, hist
<1>5. RealStarts'
  BY <1>2 DEF IInv, TypeOK, RealStarts, Receive
<1>6. OneStartPerEntry'
  BY DEF IInv, OneStartPerEntry, Receive, hist
<1> QED  BY <1>4, <1>5, <1>6 DEF IInv

\* An alert is rewritten: it is given the start of the entry, new or old.
LEMMA RewriteStep ==
  ASSUME IInv, NEW r \in Request, NEW a \in req[r].todo, Rewrite(r, a)
  PROVE  IInv'
<1> DEFINE t == SetIfAbsent(a.key, a.start)
<1>1. a \in Alert /\ a.key \in Key /\ a.start \in Time /\ a.start # 0
  BY DEF IInv, TypeOK, RealStarts, Alert
<1>2. t \in Time /\ t # 0 /\ (store[a.key] # 0 => t = store[a.key])
  BY <1>1, StartGiven DEF IInv
<1> HIDE DEF t
<1>3. [a EXCEPT !.start = t] \in Alert
  BY <1>1, <1>2 DEF Alert
<1>4. /\ req' = [req EXCEPT ![r].pc = IF a.status = "resolved" THEN "delete" ELSE "loop",
                           ![r].todo = @ \ {a},
                           ![r].out = @ \cup {[a EXCEPT !.start = t]},
                           ![r].key = IF a.status = "resolved" THEN {a.key} ELSE {}]
      /\ store' = [store EXCEPT ![a.key] = t]
      /\ given' = [given EXCEPT ![a.key] = @ \cup {t}]
      /\ shown' = [shown EXCEPT ![a.key] = IF a.status = "firing" THEN @ \cup {t} ELSE @]
      /\ UNCHANGED <<am, events, counter, steady>>
  BY DEF Rewrite, t
<1>5. req' \in Requests
  BY <1>1, <1>3, <1>4 DEF IInv, TypeOK, Requests
<1>6. TypeOK'
  BY <1>1, <1>2, <1>4, <1>5 DEF IInv, TypeOK, Requests, am
<1>7. RealStarts'
  BY <1>4 DEF IInv, TypeOK, RealStarts
<1>8. OneStartPerEntry'
  <2> SUFFICES ASSUME NEW k \in Key PROVE given'[k] \subseteq {store'[k]} \ {0}
    BY DEF OneStartPerEntry
  <2>1. given[k] \subseteq {store[k]} \ {0}
    BY DEF IInv, OneStartPerEntry
  <2>2. CASE k = a.key
    <3>1. store'[k] = t /\ given'[k] = given[k] \cup {t}
      BY <1>1, <1>4, <2>2 DEF IInv, TypeOK
    <3> QED  BY <1>2, <2>1, <2>2, <3>1
  <2>3. CASE k # a.key
    BY <1>4, <2>1, <2>3 DEF IInv, TypeOK
  <2> QED  BY <2>2, <2>3
<1> QED  BY <1>6, <1>7, <1>8 DEF IInv

\* An entry is deleted, and its history with it.
LEMMA DeleteStep ==
  ASSUME IInv, NEW r \in Request, Delete(r)
  PROVE  IInv'
<1>1. 0 \in Time
  BY ProxyWebhookAssumption DEF Time
<1>2. req' \in Requests
  <2>1. /\ req \in Requests
        /\ req' = [req EXCEPT ![r].pc = "loop", ![r].key = {}]
    BY DEF IInv, TypeOK, Delete, Requests
  <2> QED  BY <2>1 DEF Requests
<1>3. TypeOK'
  BY <1>1, <1>2 DEF IInv, TypeOK, Delete, Requests, am
<1>4. RealStarts'
  BY DEF IInv, TypeOK, RealStarts, Delete
<1>5. OneStartPerEntry'
  BY DEF IInv, OneStartPerEntry, Delete
<1> QED  BY <1>3, <1>4, <1>5 DEF IInv

\* The loop over the alerts ends, or the request.
LEMMA EndOfRequestStep ==
  ASSUME IInv, NEW r \in Request, Rewritten(r) \/ Forward(r) \/ BadGateway(r)
  PROVE  IInv'
<1>1. req' \in Requests /\ \A q \in Request : req'[q].todo \subseteq req[q].todo
  <2>1. req \in Requests
    BY DEF IInv, TypeOK, Requests
  <2>2. CASE Rewritten(r)
    BY <2>1, <2>2 DEF Rewritten, Requests
  <2>3. CASE Forward(r) \/ BadGateway(r)
    <3>1. req' = [req EXCEPT ![r] = Idle]
      BY <2>3 DEF Forward, BadGateway
    <3>2. Idle.todo = {}
      BY DEF Idle
    <3> QED  BY <2>1, <3>1, <3>2, IdleTyped DEF Requests
  <2> QED  BY <2>2, <2>3
<1>2. resolved' \in [Key \X Severity -> Time]
  <2>1. 0 \in Time /\ resolved \in [Key \X Severity -> Time]
    BY ProxyWebhookAssumption DEF IInv, TypeOK, Time
  <2>2. CASE Rewritten(r) \/ BadGateway(r)
    BY <2>1, <2>2 DEF Rewritten, BadGateway, am
  <2>3. CASE Forward(r)
    BY <2>1, <2>3 DEF Forward
  <2> QED  BY <2>2, <2>3
<1>3. TypeOK'
  BY <1>1, <1>2 DEF IInv, TypeOK, Rewritten, Forward, BadGateway, Requests, am, hist
<1>4. RealStarts'
  BY <1>1 DEF IInv, RealStarts
<1>5. OneStartPerEntry'
  BY DEF IInv, OneStartPerEntry, Rewritten, Forward, BadGateway, hist
<1> QED  BY <1>3, <1>4, <1>5 DEF IInv

(***************************************************************************)
(* The steps of the proxy as a whole.                                      *)
(***************************************************************************)
\* A request is refused.
LEMMA StrayStep ==
  ASSUME IInv, Stray
  PROVE  IInv'
<1>1. NextTarget \in 0 .. NumTargets - 1
  BY TargetInRange DEF IInv
<1>2. events' \in 0 .. MaxEvents
  BY ProxyWebhookAssumption DEF IInv, TypeOK, Stray
<1>3. TypeOK'
  BY <1>1, <1>2 DEF IInv, TypeOK, Stray, am, hist
<1> QED  BY <1>3, Unmoved DEF IInv, Stray, hist

\* The proxy restarts.
LEMMA RestartStep ==
  ASSUME IInv, Restart
  PROVE  IInv'
<1>1. 0 \in Time /\ 0 \in 0 .. NumTargets - 1
  BY ProxyWebhookAssumption DEF Time
<1>2. events' \in 0 .. MaxEvents
  BY ProxyWebhookAssumption DEF IInv, TypeOK, Restart
<1>3. TypeOK'
  BY <1>1, <1>2, IdleTyped DEF IInv, TypeOK, Restart, am
<1>4. RealStarts'
  BY DEF RealStarts, Restart, Idle
<1>5. OneStartPerEntry'
  BY DEF OneStartPerEntry, Restart
<1> QED  BY <1>3, <1>4, <1>5 DEF IInv

(***************************************************************************)
(* The inductive invariant is preserved by every step.                     *)
(***************************************************************************)
\* Every step keeps the invariant.
LEMMA StepIInv == IInv /\ [Next]_vars => IInv'
<1> SUFFICES ASSUME IInv, [Next]_vars PROVE IInv'
  OBVIOUS
<1>1. ASSUME NEW k \in Key, NEW s \in Severity, Fire(k, s) PROVE IInv'
  BY <1>1, FireStep
<1>2. ASSUME NEW k \in Key, NEW S \in SUBSET Severity, End(k, S) PROVE IInv'
  BY <1>2, EndStep
<1>3. ASSUME NEW r \in Request, Receive(r) PROVE IInv'
  BY <1>3, ReceiveStep
<1>4. ASSUME NEW r \in Request, Handle(r) PROVE IInv'
  BY <1>4, RewriteStep, DeleteStep, EndOfRequestStep DEF Handle
<1>5. CASE Stray
  BY <1>5, StrayStep
<1>6. CASE Restart
  BY <1>6, RestartStep
<1>7. CASE UNCHANGED vars
  BY <1>7 DEF vars, am, hist, IInv, TypeOK, RealStarts, OneStartPerEntry
<1> QED  BY <1>1, <1>2, <1>3, <1>4, <1>5, <1>6, <1>7 DEF Next

(***************************************************************************)
(* The theorems.                                                           *)
(***************************************************************************)

\* The inductive invariant holds in every reachable state of the proxy.
THEOREM Invariance == Spec => []IInv
BY InitIInv, StepIInv, PTL DEF Spec

\* State and messages are well typed; in particular the index getNextTarget
\* computes is always one of the targets.
THEOREM TypeCorrect == Spec => []TypeOK
<1>1. IInv => TypeOK
  BY DEF IInv
<1> QED  BY <1>1, Invariance, PTL

\* Between the creation and the deletion of an entry every alert with its
\* fingerprint is given the one start, whatever requests run concurrently in
\* handleProxy.
THEOREM OneStart == Spec => []OneStartPerEntry
<1>1. IInv => OneStartPerEntry
  BY DEF IInv
<1> QED  BY <1>1, Invariance, PTL

(***************************************************************************)
(* One request at a time: then a notice is forwarded before the next one is*)
(* received, and what its message says of an alert cannot be outdated by   *)
(* another message.                                                        *)
(***************************************************************************)
Ended(a) == a.status = "resolved"

\* The notice of the end of alert x, as Alertmanager has it now.
EndOf(x) == [key |-> x[1], sev |-> x[2], status |-> "resolved", start |-> resolved[x]]

\* How the fields of a request hang together.
Shape ==
  \A r \in Request :
    /\ req[r].todo \subseteq req[r].msg
    /\ req[r].pc \in {"idle", "send"} => req[r].todo = {}
    /\ req[r].pc # "delete" => req[r].key = {}
    /\ req[r].pc = "idle" => req[r].msg = {}
    /\ \A k \in req[r].key : \E a \in req[r].msg : a.key = k /\ Ended(a)

\* An alert that fires has no end to be notified.
Once ==
  \A x \in Key \X Severity :
    /\ resolved[x] # 0 => firing[x] = 0
    /\ firing[x] <= clock /\ resolved[x] <= clock

\* What has become of the alerts of the message in hand: an end is still to be
\* notified unless the alert has started again; an alert that fired does so, or
\* its end is one that the message does not speak of.
Sent ==
  \A r \in Request : \A a \in req[r].msg :
    /\ a.start <= clock /\ a.start # 0
    /\ Ended(a) => /\ firing[<<a.key, a.sev>>] # a.start
                   /\ firing[<<a.key, a.sev>>] # 0 \/ resolved[<<a.key, a.sev>>] # 0
    /\ ~Ended(a) => \/ firing[<<a.key, a.sev>>] # 0
                    \/ resolved[<<a.key, a.sev>>] # 0 /\ EndOf(<<a.key, a.sev>>) \notin req[r].msg

\* An end of k will be notified by a later message.
Waiting(k) ==
  \E s \in Severity : resolved[<<k, s>>] # 0 /\ \A r \in Request : EndOf(<<k, s>>) \notin req[r].msg

\* The entry of k is about to be deleted.
Doomed(k) == \E r \in Request : k \in req[r].key \/ \E a \in req[r].todo : a.key = k /\ Ended(a)

\* Every entry belongs to an incident that goes on, or to one whose end will be
\* notified by a later message, or is about to be deleted.
Owned == \A k \in Key : store[k] # 0 => IsFiring(k) \/ Waiting(k) \/ Doomed(k)

\* A firing alert of k is about to be rewritten.
Awaited(k) == \E r \in Request : \E a \in req[r].todo : a.key = k /\ ~Ended(a)

\* While firing notices of an undisturbed incident may come, its entry stays and
\* holds the one start that they have shown.
Stable ==
  \A k \in steady :
    /\ \E t \in Time : shown[k] \subseteq {t}
    /\ IsFiring(k) \/ Awaited(k) => shown[k] \subseteq {store[k]} \ {0} /\ ~Doomed(k)
    /\ IsFiring(k) => ~Pending(k)

SeqInv == Shape /\ Once /\ Sent /\ Owned /\ Stable

\* The proxy starts with it.
LEMMA InitSeq == Init => SeqInv
<1> SUFFICES ASSUME Init PROVE SeqInv
  OBVIOUS
<1>1. Shape /\ Sent /\ Owned /\ Stable
  BY DEF Init, Idle, Shape, Sent, Owned, Stable
<1>2. Once
  BY DEF Init, Once
<1> QED  BY <1>1, <1>2 DEF SeqInv

\* An alert starts.
LEMMA FireSeq ==
  ASSUME IInv, SeqInv, NEW k \in Key, NEW s \in Severity, Fire(k, s)
  PROVE  SeqInv'
<1>1. /\ clock' = clock + 1 /\ clock \in Nat /\ firing[<<k, s>>] = 0
      /\ firing' \in [Key \X Severity -> Nat] /\ resolved' \in [Key \X Severity -> Nat]
      /\ \A x \in Key \X Severity :
           /\ firing'[x] = IF x = <<k, s>> THEN clock + 1 ELSE firing[x]
           /\ resolved'[x] = IF x = <<k, s>> THEN 0 ELSE resolved[x]
      /\ UNCHANGED <<store, req>>
  BY DEF Fire, IInv, TypeOK, Time
<1>2. \A r \in Request : \A a \in req[r].msg : <<a.key, a.sev>> \in Key \X Severity /\ a.start \in Nat
  BY DEF IInv, TypeOK, Alert, Time
<1>3. Shape'
  BY <1>1 DEF SeqInv, Shape
<1>4. Once'
  <2> SUFFICES ASSUME NEW x \in Key \X Severity
               PROVE  /\ resolved'[x] # 0 => firing'[x] = 0
                      /\ firing'[x] <= clock + 1 /\ resolved'[x] <= clock + 1
    BY <1>1 DEF Once
  <2>1. /\ resolved[x] # 0 => firing[x] = 0
        /\ firing[x] <= clock /\ resolved[x] <= clock
        /\ firing[x] \in Nat /\ resolved[x] \in Nat
    BY DEF SeqInv, Once, IInv, TypeOK, Time
  <2> QED  BY <1>1, <2>1
<1>5. Sent'
  <2> SUFFICES ASSUME NEW r \in Request, NEW a \in req[r].msg
               PROVE  /\ a.start <= clock' /\ a.start # 0
                      /\ Ended(a) => /\ firing'[<<a.key, a.sev>>] # a.start
                                     /\ firing'[<<a.key, a.sev>>] # 0 \/ resolved'[<<a.key, a.sev>>] # 0
                      /\ ~Ended(a) => \/ firing'[<<a.key, a.sev>>] # 0
                                      \/ /\ resolved'[<<a.key, a.sev>>] # 0
                                         /\ EndOf(<<a.key, a.sev>>)' \notin req[r].msg
    BY <1>1 DEF Sent, Ended, EndOf
  <2>1. /\ a.start <= clock /\ a.start # 0 /\ a.start \in Nat
        /\ Ended(a) => /\ firing[<<a.key, a.sev>>] # a.start
                       /\ firing[<<a.key, a.sev>>] # 0 \/ resolved[<<a.key, a.sev>>] # 0
        /\ ~Ended(a) => \/ firing[<<a.key, a.sev>>] # 0
                        \/ resolved[<<a.key, a.sev>>] # 0 /\ EndOf(<<a.key, a.sev>>) \notin req[r].msg
    BY <1>2 DEF SeqInv, Sent
  <2>2. CASE <<a.key, a.sev>> = <<k, s>>
    BY <1>1, <1>2, <2>1, <2>2
  <2>3. CASE <<a.key, a.sev>> # <<k, s>>
    <3>1. EndOf(<<a.key, a.sev>>)' = EndOf(<<a.key, a.sev>>)
      BY <1>1, <1>2, <2>3 DEF EndOf
    <3> QED  BY <1>1, <1>2, <2>1, <2>3, <3>1
  <2> QED  BY <2>2, <2>3
<1>6. \A q \in Key : IsFiring(q) => IsFiring(q)'
  BY <1>1 DEF IsFiring
<1>7. IsFiring(k)'
  BY <1>1 DEF IsFiring
<1>8. \A q \in Key : (Doomed(q)' <=> Doomed(q)) /\ (Awaited(q)' <=> Awaited(q))
  BY <1>1 DEF Doomed, Awaited, Ended
<1>9. Owned'
  <2>1. ASSUME NEW q \in Key, q # k, Waiting(q) PROVE Waiting(q)'
    <3>1. \A z \in Severity : resolved'[<<q, z>>] = resolved[<<q, z>>] /\ EndOf(<<q, z>>)' = EndOf(<<q, z>>)
      BY <1>1, <2>1 DEF EndOf
    <3> QED  BY <1>1, <2>1, <3>1 DEF Waiting
  <2>2. \A q \in Key : store[q] # 0 => IsFiring(q) \/ Waiting(q) \/ Doomed(q)
    BY DEF SeqInv, Owned
  <2> QED  BY <1>1, <1>6, <1>7, <1>8, <2>1, <2>2 DEF Owned
<1>10. Stable'
  <2> SUFFICES ASSUME NEW q \in Key, q \in steady'
               PROVE  /\ \E t \in Time : shown'[q] \subseteq {t}
                      /\ IsFiring(q)' \/ Awaited(q)' => shown'[q] \subseteq {store'[q]} \ {0} /\ ~Doomed(q)'
                      /\ IsFiring(q)' => ~Pending(q)'
    <3>1. steady' \subseteq Key
      BY DEF Fire, IInv, TypeOK
    <3> QED  BY <3>1 DEF Stable
  <2>1. q \in steady =>
          /\ \E t \in Time : shown[q] \subseteq {t}
          /\ IsFiring(q) \/ Awaited(q) => shown[q] \subseteq {store[q]} \ {0} /\ ~Doomed(q)
          /\ IsFiring(q) => ~Pending(q)
    BY DEF SeqInv, Stable
  <2>2. CASE q # k
    <3>1. q \in steady /\ shown'[q] = shown[q]
      BY <2>2 DEF Fire, IInv, TypeOK
    <3>2. \A z \in Severity : /\ firing'[<<q, z>>] = firing[<<q, z>>]
                             /\ resolved'[<<q, z>>] = resolved[<<q, z>>]
      <4>1. q \in Key
        BY <3>1 DEF IInv, TypeOK
      <4>2. ASSUME NEW z \in Severity
            PROVE  <<q, z>> # <<k, s>> /\ <<q, z>> \in Key \X Severity
        BY <2>2, <4>1
      <4> QED  BY <1>1, <4>2
    <3>3. (IsFiring(q)' <=> IsFiring(q)) /\ (Pending(q)' <=> Pending(q))
      BY <3>2 DEF IsFiring, Pending
    <3> QED  BY <1>1, <1>8, <2>1, <3>1, <3>3
  <2>3. CASE q = k
    <3>1. ~Pending(k)
      BY <2>3 DEF Fire
    <3>2. ~Pending(k)'
      BY <1>1, <3>1 DEF Pending
    <3>3. CASE IsFiring(k)
      <4>1. k \in steady /\ shown' = shown
        BY <2>3, <3>1, <3>3 DEF Fire
      <4> QED  BY <1>1, <1>8, <2>1, <2>3, <3>2, <3>3, <4>1
    <3>4. CASE ~IsFiring(k)
      <4>1. shown'[k] = {} /\ 0 \in Time
        BY <3>4, ProxyWebhookAssumption DEF Fire, IInv, TypeOK, Time
      <4>2. ~Doomed(k)
        <5>1. ASSUME NEW r \in Request, NEW a \in req[r].msg, Ended(a), a.key = k PROVE FALSE
          <6>1. firing[<<k, a.sev>>] # 0 \/ resolved[<<k, a.sev>>] # 0
            BY <5>1 DEF SeqInv, Sent
          <6>2. a.sev \in Severity
            BY <1>2, <5>1
          <6> QED  BY <3>1, <3>4, <6>1, <6>2 DEF IsFiring, Pending
        <5> QED  BY <5>1 DEF Doomed, SeqInv, Shape
      <4> QED  BY <1>8, <2>3, <3>2, <4>1, <4>2
    <3> QED  BY <3>3, <3>4
  <2> QED  BY <2>2, <2>3
<1> QED  BY <1>3, <1>4, <1>5, <1>9, <1>10 DEF SeqInv

\* Alerts of a key end.
LEMMA EndSeq ==
  ASSUME IInv, SeqInv, NEW k \in Key, NEW S \in SUBSET Severity, End(k, S)
  PROVE  SeqInv'
<1>1. /\ UNCHANGED <<clock, store, req, shown>> /\ clock \in Nat
      /\ firing \in [Key \X Severity -> Nat] /\ resolved \in [Key \X Severity -> Nat]
      /\ \A q \in Key, z \in Severity :
           /\ firing'[<<q, z>>] = IF q = k /\ z \in S THEN 0 ELSE firing[<<q, z>>]
           /\ resolved'[<<q, z>>] = IF q = k /\ z \in S THEN firing[<<q, z>>] ELSE resolved[<<q, z>>]
      /\ \A z \in S : firing[<<k, z>>] # 0
  BY DEF End, IInv, TypeOK, Time
<1>2. \A r \in Request : \A a \in req[r].msg :
        a.key \in Key /\ a.sev \in Severity /\ a.start \in Nat /\ a.status \in {"firing", "resolved"}
  BY DEF IInv, TypeOK, Alert, Time
<1>3. Shape'
  BY <1>1 DEF SeqInv, Shape, Ended
<1>4. \A q \in Key, z \in Severity :
        /\ resolved[<<q, z>>] # 0 => firing[<<q, z>>] = 0
        /\ firing[<<q, z>>] <= clock /\ resolved[<<q, z>>] <= clock
  BY DEF SeqInv, Once
<1>5. Once'
  <2>1. \A q \in Key, z \in Severity :
          /\ resolved'[<<q, z>>] # 0 => firing'[<<q, z>>] = 0
          /\ firing'[<<q, z>>] <= clock /\ resolved'[<<q, z>>] <= clock
    BY <1>1, <1>4
  <2> QED  BY <1>1, <2>1 DEF Once
<1>6. ASSUME NEW r \in Request, NEW z \in S PROVE EndOf(<<k, z>>)' \notin req[r].msg
  <2>1. EndOf(<<k, z>>)' = [key |-> k, sev |-> z, status |-> "resolved", start |-> firing[<<k, z>>]]
    BY <1>1 DEF EndOf
  <2>2. \A a \in req[r].msg : a.status = "resolved" => firing[<<a.key, a.sev>>] # a.start
    BY DEF SeqInv, Sent, Ended
  <2> QED  BY <2>1, <2>2
<1>7. Sent'
  <2> SUFFICES ASSUME NEW r \in Request, NEW a \in req[r].msg
               PROVE  /\ a.start <= clock' /\ a.start # 0
                      /\ Ended(a) => /\ firing'[<<a.key, a.sev>>] # a.start
                                     /\ firing'[<<a.key, a.sev>>] # 0 \/ resolved'[<<a.key, a.sev>>] # 0
                      /\ ~Ended(a) => \/ firing'[<<a.key, a.sev>>] # 0
                                      \/ /\ resolved'[<<a.key, a.sev>>] # 0
                                         /\ EndOf(<<a.key, a.sev>>)' \notin req[r].msg
    BY <1>1 DEF Sent, Ended, EndOf
  <2>1. /\ a.start <= clock /\ a.start # 0 /\ a.start \in Nat /\ a.key \in Key /\ a.sev \in Severity
        /\ Ended(a) => /\ firing[<<a.key, a.sev>>] # a.start
                       /\ firing[<<a.key, a.sev>>] # 0 \/ resolved[<<a.key, a.sev>>] # 0
        /\ ~Ended(a) => \/ firing[<<a.key, a.sev>>] # 0
                        \/ resolved[<<a.key, a.sev>>] # 0 /\ EndOf(<<a.key, a.sev>>) \notin req[r].msg
    BY <1>2 DEF SeqInv, Sent
  <2>2. CASE a.key = k /\ a.sev \in S
    BY <1>1, <1>6, <2>1, <2>2
  <2>3. CASE ~(a.key = k /\ a.sev \in S)
    <3>1. EndOf(<<a.key, a.sev>>)' = EndOf(<<a.key, a.sev>>)
      BY <1>1, <2>1, <2>3 DEF EndOf
    <3> QED  BY <1>1, <2>1, <2>3, <3>1
  <2> QED  BY <2>2, <2>3
<1>8. \A q \in Key : (Doomed(q)' <=> Doomed(q)) /\ (Awaited(q)' <=> Awaited(q))
  BY <1>1 DEF Doomed, Awaited, Ended
<1>9. Owned'
  <2>1. ASSUME NEW q \in Key, IsFiring(q) PROVE IsFiring(q)' \/ Waiting(q)'
    <3>1. PICK z \in Severity : firing[<<q, z>>] # 0
      BY <2>1 DEF IsFiring
    <3>2. CASE q = k /\ z \in S
      BY <1>1, <1>6, <3>1, <3>2 DEF Waiting
    <3>3. CASE ~(q = k /\ z \in S)
      BY <1>1, <3>1, <3>3 DEF IsFiring
    <3> QED  BY <3>2, <3>3
  <2>2. ASSUME NEW q \in Key, Waiting(q) PROVE Waiting(q)'
    <3>1. PICK z \in Severity :
            resolved[<<q, z>>] # 0 /\ \A r \in Request : EndOf(<<q, z>>) \notin req[r].msg
      BY <2>2 DEF Waiting
    <3>2. ~(q = k /\ z \in S)
      BY <1>1, <1>4, <3>1
    <3>3. resolved'[<<q, z>>] = resolved[<<q, z>>] /\ EndOf(<<q, z>>)' = EndOf(<<q, z>>)
      BY <1>1, <3>2 DEF EndOf
    <3> QED  BY <1>1, <3>1, <3>3 DEF Waiting
  <2>3. \A q \in Key : store[q] # 0 => IsFiring(q) \/ Waiting(q) \/ Doomed(q)
    BY DEF SeqInv, Owned
  <2> QED  BY <1>1, <1>8, <2>1, <2>2, <2>3 DEF Owned
<1>10. Stable'
  <2> SUFFICES ASSUME NEW q \in Key, q \in steady'
               PROVE  /\ \E t \in Time : shown'[q] \subseteq {t}
                      /\ IsFiring(q)' \/ Awaited(q)' => shown'[q] \subseteq {store'[q]} \ {0} /\ ~Doomed(q)'
                      /\ IsFiring(q)' => ~Pending(q)'
    <3>1. steady' \subseteq Key
      BY DEF End, IInv, TypeOK
    <3> QED  BY <3>1 DEF Stable
  <2>1. /\ \E t \in Time : shown[q] \subseteq {t}
        /\ IsFiring(q) \/ Awaited(q) => shown[q] \subseteq {store[q]} \ {0} /\ ~Doomed(q)
        /\ IsFiring(q) => ~Pending(q)
    BY DEF End, SeqInv, Stable
  <2>2. IsFiring(q)' => IsFiring(q)
    BY <1>1 DEF IsFiring
  <2>3. IsFiring(q)' => ~Pending(q)'
    <3>1. CASE q # k
      BY <1>1, <2>1, <2>2, <3>1 DEF IsFiring, Pending
    <3>2. CASE q = k
      <4>1. ~ \E z \in Severity \ S : firing[<<k, z>>] # 0
        BY <3>2 DEF End, IInv, TypeOK
      <4>2. ~IsFiring(k)'
        BY <1>1, <4>1 DEF IsFiring
      <4> QED  BY <3>2, <4>2
    <3> QED  BY <3>1, <3>2
  <2> QED  BY <1>1, <1>8, <2>1, <2>2, <2>3
<1> QED  BY <1>3, <1>5, <1>7, <1>9, <1>10 DEF SeqInv

\* What a notice lists.
LEMMA NoticeLists ==
  ASSUME TypeOK
  PROVE  /\ \A a \in Notice : /\ a.key \in Key /\ a.sev \in Severity
                              /\ IF Ended(a) THEN a.start = resolved[<<a.key, a.sev>>]
                                 ELSE a.start = firing[<<a.key, a.sev>>]
                              /\ a.start # 0
         /\ \A q \in Key, z \in Severity :
              resolved[<<q, z>>] # 0 => EndOf(<<q, z>>) \in Notice /\ Ended(EndOf(<<q, z>>))
<1>1. ASSUME NEW a \in Notice
      PROVE  /\ a.key \in Key /\ a.sev \in Severity
             /\ IF Ended(a) THEN a.start = resolved[<<a.key, a.sev>>]
                ELSE a.start = firing[<<a.key, a.sev>>]
             /\ a.start # 0
  <2>1. CASE \E q \in Key, z \in Severity :
               /\ firing[<<q, z>>] # 0
               /\ a = [key |-> q, sev |-> z, status |-> "firing", start |-> firing[<<q, z>>]]
    BY <2>1 DEF Ended
  <2>2. CASE \E q \in Key, z \in Severity :
               /\ resolved[<<q, z>>] # 0
               /\ a = [key |-> q, sev |-> z, status |-> "resolved", start |-> resolved[<<q, z>>]]
    BY <2>2 DEF Ended
  <2> QED  BY <1>1, <2>1, <2>2 DEF Notice
<1>2. ASSUME NEW q \in Key, NEW z \in Severity, resolved[<<q, z>>] # 0
      PROVE  EndOf(<<q, z>>) \in Notice /\ Ended(EndOf(<<q, z>>))
  BY <1>2 DEF Notice, EndOf, Ended
<1> QED  BY <1>1, <1>2

\* A notice is received: the ends that waited for it are in it.
LEMMA ReceiveSeq ==
  ASSUME IInv, SeqInv, NEW r \in Request, \A q \in Request : q = r, Receive(r)
  PROVE  SeqInv'
<1>1. /\ UNCHANGED <<firing, resolved, clock, store, shown, steady>>
      /\ req'[r].msg = Notice /\ req'[r].todo = Notice /\ req'[r].key = {} /\ req'[r].pc = "loop"
      /\ req[r].todo = {} /\ req[r].key = {}
  BY DEF Receive, am, hist, IInv, TypeOK, Idle, SeqInv, Shape
<1>2. /\ \A a \in Notice : /\ a.key \in Key /\ a.sev \in Severity
                           /\ IF Ended(a) THEN a.start = resolved[<<a.key, a.sev>>]
                              ELSE a.start = firing[<<a.key, a.sev>>]
                           /\ a.start # 0
      /\ \A q \in Key, z \in Severity :
           resolved[<<q, z>>] # 0 => EndOf(<<q, z>>) \in Notice /\ Ended(EndOf(<<q, z>>))
  BY NoticeLists DEF IInv
<1>3. Shape'
  BY <1>1 DEF Shape
<1>4. Once'
  BY <1>1 DEF SeqInv, Once
<1>5. Sent'
  <2>1. \A q \in Key, z \in Severity :
          /\ resolved[<<q, z>>] # 0 => firing[<<q, z>>] = 0
          /\ firing[<<q, z>>] <= clock /\ resolved[<<q, z>>] <= clock
    BY DEF SeqInv, Once
  <2>2. \A a \in Notice :
          /\ a.start <= clock /\ a.start # 0
          /\ Ended(a) => firing[<<a.key, a.sev>>] # a.start /\ resolved[<<a.key, a.sev>>] # 0
          /\ ~Ended(a) => firing[<<a.key, a.sev>>] # 0
    BY <1>2, <2>1
  <2>3. ASSUME NEW a \in Notice PROVE Ended(a)' <=> Ended(a)
    BY DEF Ended
  <2> QED  BY <1>1, <2>2 DEF Sent, Ended
<1>6. \A q \in Key : (IsFiring(q)' <=> IsFiring(q)) /\ (Pending(q)' <=> Pending(q))
  BY <1>1 DEF IsFiring, Pending
<1>7. Owned'
  <2>1. ASSUME NEW q \in Key, Waiting(q) PROVE Doomed(q)'
    <3>1. PICK z \in Severity : resolved[<<q, z>>] # 0
      BY <2>1 DEF Waiting
    <3>2. EndOf(<<q, z>>) \in req'[r].todo /\ Ended(EndOf(<<q, z>>)) /\ EndOf(<<q, z>>).key = q
      BY <1>1, <1>2, <3>1 DEF EndOf
    <3>3. \E a \in req'[r].todo : a.key = q /\ a.status = "resolved"
      BY <3>2 DEF Ended
    <3> QED  BY <3>3 DEF Doomed, Ended
  <2>2. \A q \in Key : ~Doomed(q)
    BY <1>1 DEF Doomed
  <2>3. \A q \in Key : store[q] # 0 => IsFiring(q) \/ Waiting(q) \/ Doomed(q)
    BY DEF SeqInv, Owned
  <2> QED  BY <1>1, <1>6, <2>1, <2>2, <2>3 DEF Owned
<1>8. Stable'
  <2>1. ASSUME NEW k \in Key, Awaited(k)' PROVE IsFiring(k)
    <3>1. PICK a \in Notice : a.key = k /\ ~Ended(a)
      BY <1>1, <2>1 DEF Awaited, Ended
    <3> QED  BY <1>2, <3>1 DEF IsFiring
  <2>2. ASSUME NEW k \in Key, Doomed(k)' PROVE Pending(k)
    <3>1. PICK a \in Notice : a.key = k /\ Ended(a)
      BY <1>1, <2>2 DEF Doomed, Ended
    <3> QED  BY <1>2, <3>1 DEF Pending
  <2>3. steady \subseteq Key
    BY DEF IInv, TypeOK
  <2>4. \A k \in steady :
          /\ \E t \in Time : shown[k] \subseteq {t}
          /\ IsFiring(k) => shown[k] \subseteq {store[k]} \ {0} /\ ~Pending(k)
    BY DEF SeqInv, Stable
  <2> QED  BY <1>1, <1>6, <2>1, <2>2, <2>3, <2>4 DEF Stable
<1> QED  BY <1>3, <1>4, <1>5, <1>7, <1>8 DEF SeqInv

\* An alert is rewritten: its start is the one shown, or the first to be shown.
LEMMA RewriteSeq ==
  ASSUME IInv, SeqInv, NEW r \in Request, \A q \in Request : q = r,
         NEW a \in req[r].todo, Rewrite(r, a)
  PROVE  SeqInv'
<1> DEFINE t == SetIfAbsent(a.key, a.start)
<1>1. a \in Alert /\ a.key \in Key /\ a.sev \in Severity /\ a.start \in Time /\ a.start # 0
      /\ a.status \in {"firing", "resolved"}
  BY DEF IInv, TypeOK, RealStarts, Alert
<1>2. t \in Time /\ t # 0 /\ (store[a.key] # 0 => t = store[a.key])
  BY <1>1, StartGiven DEF IInv
<1>3. /\ UNCHANGED <<firing, resolved, clock, steady>>
      /\ store' = [store EXCEPT ![a.key] = t]
      /\ shown' = [shown EXCEPT ![a.key] = IF a.status = "firing" THEN @ \cup {t} ELSE @]
      /\ req[r].pc = "loop"
      /\ req'[r].pc = IF a.status = "resolved" THEN "delete" ELSE "loop"
      /\ req'[r].msg = req[r].msg
      /\ req'[r].todo = req[r].todo \ {a}
      /\ req'[r].key = IF a.status = "resolved" THEN {a.key} ELSE {}
  BY DEF Rewrite, am, IInv, TypeOK
<1> HIDE DEF t
<1>4. /\ req[r].key = {} /\ a \in req[r].msg /\ req[r].todo \subseteq req[r].msg
  BY <1>3 DEF SeqInv, Shape
<1>5. /\ \A q \in Key : store'[q] = IF q = a.key THEN t ELSE store[q]
      /\ \A q \in Key : shown'[q] = IF q = a.key /\ a.status = "firing" THEN shown[q] \cup {t}
                                    ELSE shown[q]
  BY <1>1, <1>3 DEF IInv, TypeOK
<1>6. Shape'
  BY <1>3, <1>4 DEF Shape, Ended
<1>7. Once'
  BY <1>3 DEF SeqInv, Once
<1>8. Sent'
  BY <1>3 DEF SeqInv, Sent, Ended, EndOf
<1>9. \A q \in Key : /\ IsFiring(q)' <=> IsFiring(q)
                     /\ Pending(q)' <=> Pending(q)
                     /\ Waiting(q)' <=> Waiting(q)
  BY <1>3 DEF IsFiring, Pending, Waiting, EndOf
<1>10. Owned'
  <2> SUFFICES ASSUME NEW q \in Key, store'[q] # 0, ~IsFiring(q), ~Waiting(q)
               PROVE  Doomed(q)'
    BY <1>9 DEF Owned
  <2>1. CASE q = a.key
    <3>1. \/ firing[<<a.key, a.sev>>] # 0
          \/ resolved[<<a.key, a.sev>>] # 0 /\ EndOf(<<a.key, a.sev>>) \notin req[r].msg
          \/ Ended(a)
      BY <1>4 DEF SeqInv, Sent
    <3>2. Ended(a)
      BY <1>1, <2>1, <3>1 DEF IsFiring, Waiting
    <3> QED  BY <1>3, <2>1, <3>2 DEF Doomed, Ended
  <2>2. CASE q # a.key
    <3>1. Doomed(q)
      BY <1>5, <2>2 DEF SeqInv, Owned
    <3>2. PICK b \in req[r].todo : b.key = q /\ Ended(b)
      BY <1>4, <3>1 DEF Doomed
    <3>3. b \in req'[r].todo
      BY <1>3, <2>2, <3>2
    <3> QED  BY <3>2, <3>3 DEF Doomed, Ended
  <2> QED  BY <2>1, <2>2
<1>11. Stable'
  <2> SUFFICES ASSUME NEW k \in steady, k \in Key
               PROVE  /\ \E u \in Time : shown'[k] \subseteq {u}
                      /\ IsFiring(k)' \/ Awaited(k)' => shown'[k] \subseteq {store'[k]} \ {0} /\ ~Doomed(k)'
                      /\ IsFiring(k)' => ~Pending(k)'
    BY <1>3 DEF Stable, IInv, TypeOK
  <2>1. /\ \E u \in Time : shown[k] \subseteq {u}
        /\ IsFiring(k) \/ Awaited(k) => shown[k] \subseteq {store[k]} \ {0} /\ ~Doomed(k)
        /\ IsFiring(k) => ~Pending(k)
    BY DEF SeqInv, Stable
  <2>2. Awaited(k)' => Awaited(k)
    BY <1>3 DEF Awaited, Ended
  <2>3. Doomed(k)' => Doomed(k) \/ (k = a.key /\ Ended(a))
    BY <1>3 DEF Doomed, Ended
  <2>4. CASE k # a.key
    BY <1>5, <1>9, <2>1, <2>2, <2>3, <2>4
  <2>5. CASE k = a.key /\ Ended(a)
    <3>1. Doomed(k)
      BY <2>5 DEF Doomed
    <3>2. shown'[k] = shown[k]
      BY <1>5, <2>5 DEF Ended
    <3> QED  BY <1>9, <2>1, <2>2, <3>1, <3>2
  <2>6. CASE k = a.key /\ ~Ended(a)
    <3>1. Awaited(k)
      BY <2>6 DEF Awaited
    <3>2. shown'[k] = shown[k] \cup {t} /\ store'[k] = t
      BY <1>1, <1>5, <2>6 DEF Ended
    <3>3. shown'[k] \subseteq {t}
      BY <1>2, <2>1, <2>6, <3>1, <3>2
    <3> QED  BY <1>2, <1>9, <2>1, <2>3, <2>6, <3>1, <3>2, <3>3
  <2> QED  BY <2>4, <2>5, <2>6
<1> QED  BY <1>6, <1>7, <1>8, <1>10, <1>11 DEF SeqInv

\* The entry of an alert that ended is deleted.
LEMMA DeleteSeq ==
  ASSUME IInv, SeqInv, NEW r \in Request, \A q \in Request : q = r, Delete(r)
  PROVE  SeqInv'
<1>1. /\ UNCHANGED <<firing, resolved, clock, shown, steady>>
      /\ req[r].pc = "delete" /\ req'[r].pc = "loop" /\ req'[r].key = {}
      /\ req'[r].msg = req[r].msg /\ req'[r].todo = req[r].todo
      /\ \A k \in Key : store'[k] = IF k \in req[r].key THEN 0 ELSE store[k]
  BY DEF Delete, am, IInv, TypeOK
<1>2. Shape'
  BY <1>1 DEF SeqInv, Shape, Ended
<1>3. Once'
  BY <1>1 DEF SeqInv, Once
<1>4. Sent'
  BY <1>1 DEF SeqInv, Sent, Ended, EndOf
<1>5. \A q \in Key : /\ IsFiring(q)' <=> IsFiring(q)
                     /\ Pending(q)' <=> Pending(q)
                     /\ Waiting(q)' <=> Waiting(q)
                     /\ Awaited(q)' <=> Awaited(q)
                     /\ Doomed(q) => Doomed(q)' \/ q \in req[r].key
                     /\ Doomed(q)' => Doomed(q)
                     /\ q \in req[r].key => Doomed(q)
  BY <1>1 DEF IsFiring, Pending, Waiting, EndOf, Awaited, Doomed, Ended
<1>6. Owned'
  BY <1>1, <1>5 DEF SeqInv, Owned
<1>7. Stable'
  BY <1>1, <1>5 DEF SeqInv, Stable, IInv, TypeOK
<1> QED  BY <1>2, <1>3, <1>4, <1>6, <1>7 DEF SeqInv

\* The message is ready to be sent.
LEMMA RewrittenSeq ==
  ASSUME IInv, SeqInv, NEW r \in Request, \A q \in Request : q = r, Rewritten(r)
  PROVE  SeqInv'
<1>1. /\ UNCHANGED <<firing, resolved, clock, store, shown, steady>>
      /\ req[r].pc = "loop" /\ req'[r].pc = "send" /\ req'[r].key = req[r].key
      /\ req'[r].msg = req[r].msg /\ req'[r].todo = req[r].todo /\ req[r].todo = {}
  BY DEF Rewritten, am, hist, IInv, TypeOK
<1>2. Shape'
  BY <1>1 DEF SeqInv, Shape, Ended
<1>3. Once'
  BY <1>1 DEF SeqInv, Once
<1>4. Sent'
  BY <1>1 DEF SeqInv, Sent, Ended, EndOf
<1>5. \A q \in Key : /\ IsFiring(q)' <=> IsFiring(q)
                     /\ Pending(q)' <=> Pending(q)
                     /\ Waiting(q)' <=> Waiting(q)
                     /\ Awaited(q)' <=> Awaited(q)
                     /\ Doomed(q)' <=> Doomed(q)
  BY <1>1 DEF IsFiring, Pending, Waiting, EndOf, Awaited, Doomed, Ended
<1>6. Owned'
  BY <1>1, <1>5 DEF SeqInv, Owned
<1>7. Stable'
  BY <1>1, <1>5 DEF SeqInv, Stable, IInv, TypeOK
<1> QED  BY <1>2, <1>3, <1>4, <1>6, <1>7 DEF SeqInv

\* The forward succeeds or fails: an end that is notified is one of the message,
\* whose entry is gone.
LEMMA ForwardSeq ==
  ASSUME IInv, SeqInv, NEW r \in Request, \A q \in Request : q = r,
         Forward(r) \/ BadGateway(r)
  PROVE  SeqInv'
<1>1. /\ UNCHANGED <<firing, clock, store, shown, steady>>
      /\ req[r].pc = "send" /\ req'[r] = Idle
      /\ \A q \in Key, z \in Severity :
           \/ resolved'[<<q, z>>] = resolved[<<q, z>>]
           \/ resolved'[<<q, z>>] = 0 /\ EndOf(<<q, z>>) \in req[r].msg
  <2>1. CASE Forward(r)
    BY <2>1 DEF Forward, hist, IInv, TypeOK, EndOf
  <2>2. CASE BadGateway(r)
    BY <2>2 DEF BadGateway, am, hist, IInv, TypeOK
  <2> QED  BY <2>1, <2>2
<1>2. /\ req'[r].msg = {} /\ req'[r].todo = {} /\ req'[r].key = {} /\ req'[r].pc = "idle"
      /\ req[r].todo = {} /\ req[r].key = {}
  BY <1>1 DEF Idle, SeqInv, Shape
<1>3. Shape' /\ Sent'
  BY <1>2 DEF Shape, Sent
<1>4. Once'
  <2>1. \A q \in Key, z \in Severity :
          /\ resolved[<<q, z>>] # 0 => firing[<<q, z>>] = 0
          /\ firing[<<q, z>>] <= clock /\ resolved[<<q, z>>] <= clock
    BY DEF SeqInv, Once
  <2>2. clock \in Nat
    BY DEF IInv, TypeOK, Time
  <2>3. \A q \in Key, z \in Severity :
          /\ resolved'[<<q, z>>] # 0 => firing'[<<q, z>>] = 0
          /\ firing'[<<q, z>>] <= clock' /\ resolved'[<<q, z>>] <= clock'
    BY <1>1, <2>1, <2>2
  <2> QED  BY <2>3 DEF Once
<1>5. \A q \in Key : /\ IsFiring(q)' <=> IsFiring(q)
                     /\ ~Awaited(q)' /\ ~Doomed(q)' /\ ~Doomed(q)
  BY <1>1, <1>2 DEF IsFiring, Awaited, Doomed
<1>6. \A q \in Key : Pending(q)' => Pending(q)
  BY <1>1 DEF Pending
<1>7. ASSUME NEW q \in Key, Waiting(q) PROVE Waiting(q)'
  <2>1. PICK z \in Severity : resolved[<<q, z>>] # 0 /\ EndOf(<<q, z>>) \notin req[r].msg
    BY <1>7 DEF Waiting
  <2>2. resolved'[<<q, z>>] # 0
    BY <1>1, <2>1
  <2> QED  BY <1>2, <2>2 DEF Waiting
<1>8. Owned'
  BY <1>1, <1>5, <1>7 DEF SeqInv, Owned
<1>9. Stable'
  BY <1>1, <1>5, <1>6 DEF SeqInv, Stable, IInv, TypeOK
<1> QED  BY <1>3, <1>4, <1>8, <1>9 DEF SeqInv

\* What leaves Alertmanager, entries and requests alone keeps the invariant.
LEMMA StillSeq ==
  ASSUME IInv, SeqInv, UNCHANGED <<firing, resolved, clock, store, req, shown, steady>>
  PROVE  SeqInv'
<1>1. Shape' /\ Once' /\ Sent'
  BY DEF SeqInv, Shape, Once, Sent, Ended, EndOf
<1>2. \A q \in Key : /\ IsFiring(q)' <=> IsFiring(q)
                     /\ Pending(q)' <=> Pending(q)
                     /\ Waiting(q)' <=> Waiting(q)
                     /\ Awaited(q)' <=> Awaited(q)
                     /\ Doomed(q)' <=> Doomed(q)
  BY DEF IsFiring, Pending, Waiting, EndOf, Awaited, Doomed, Ended
<1>3. Owned'
  BY <1>2 DEF SeqInv, Owned
<1>4. Stable'
  BY <1>2 DEF SeqInv, Stable, IInv, TypeOK
<1> QED  BY <1>1, <1>3, <1>4 DEF SeqInv

\* After a restart no entry is left, and every incident counts as disturbed.
LEMMA RestartSeq ==
  ASSUME IInv, SeqInv, Restart
  PROVE  SeqInv'
<1>1. Shape' /\ Sent'
  BY DEF Restart, Idle, Shape, Sent
<1>2. Once'
  BY DEF Restart, am, SeqInv, Once
<1>3. Owned' /\ Stable'
  BY DEF Restart, Owned, Stable
<1> QED  BY <1>1, <1>2, <1>3 DEF SeqInv

\* Every step keeps the invariant.
LEMMA StepSeq ==
  ASSUME \A p, q \in Request : p = q, IInv, SeqInv, [Next]_vars
  PROVE  SeqInv'
<1>1. ASSUME NEW k \in Key, NEW s \in Severity, Fire(k, s) PROVE SeqInv'
  BY <1>1, FireSeq
<1>2. ASSUME NEW k \in Key, NEW S \in SUBSET Severity, End(k, S) PROVE SeqInv'
  BY <1>2, EndSeq
<1>3. ASSUME NEW r \in Request, Receive(r) PROVE SeqInv'
  BY <1>3, ReceiveSeq
<1>4. ASSUME NEW r \in Request, Handle(r) PROVE SeqInv'
  <2>1. \A q \in Request : q = r
    OBVIOUS
  <2> QED  BY <1>4, <2>1, RewriteSeq, DeleteSeq, RewrittenSeq, ForwardSeq DEF Handle
<1>5. CASE Stray
  BY <1>5, StillSeq DEF Stray, am, hist
<1>6. CASE Restart
  BY <1>6, RestartSeq
<1>7. CASE UNCHANGED vars
  BY <1>7, StillSeq DEF vars, am, hist
<1> QED  BY <1>1, <1>2, <1>3, <1>4, <1>5, <1>6, <1>7 DEF Next

\* With one request at a time the invariant holds in every reachable state.
LEMMA SeqInvariance ==
  ASSUME \A p, q \in Request : p = q
  PROVE  Spec => []SeqInv
<1>1. IInv /\ SeqInv /\ [Next]_vars => SeqInv'
  BY StepSeq
<1> QED  BY <1>1, InitSeq, Invariance, PTL DEF Spec

\* With one request at a time no entry outlives its incident, for any keys,
\* severities, targets that are down and restarts: what handleProxy deletes and
\* what it creates anew balance.
THEOREM NothingIsLeft ==
  ASSUME \A p, q \in Request : p = q
  PROVE  Spec => []NothingLeft
<1>1. SeqInv => NothingLeft
  <2> SUFFICES ASSUME SeqInv, \A r \in Request : req[r] = Idle,
                      NEW k \in Key, store[k] # 0, ~Pending(k)
               PROVE  IsFiring(k)
    BY DEF NothingLeft
  <2>1. ~Doomed(k)
    BY DEF Doomed, Idle
  <2>2. ~Waiting(k)
    BY DEF Waiting, Pending
  <2> QED  BY <2>1, <2>2 DEF SeqInv, Owned
<1> QED  BY <1>1, SeqInvariance, PTL

\* With one request at a time all firing notices of an undisturbed incident carry
\* one start, whatever severities come and go and however often the forward
\* fails.
THEOREM FiringIsStable ==
  ASSUME \A p, q \in Request : p = q
  PROVE  Spec => []FiringStable
<1>1. SeqInv => FiringStable
  <2> SUFFICES ASSUME SeqInv, NEW k \in steady PROVE Cardinality(shown[k]) <= 1
    BY DEF FiringStable
  <2>1. PICK t \in Time : shown[k] \subseteq {t}
    BY DEF SeqInv, Stable
  <2>2. shown[k] = {} \/ shown[k] = {t}
    BY <2>1
  <2>3. Cardinality({}) = 0 /\ Cardinality({t}) = 1
    BY FS_EmptySet, FS_Singleton
  <2> QED  BY <2>2, <2>3
<1> QED  BY <1>1, SeqInvariance, PTL
=============================================================================
