--------------------------- MODULE LineageProofs ---------------------------
(***************************************************************************)
(* The safety of the lineage script, for any topology of servers and       *)
(* subscriptions, any blacklist, and any number of runs, failures, kills   *)
(* and changes of status.                                                  *)
(***************************************************************************)
EXTENDS Lineage, SequenceTheorems, FiniteSetTheorems, TLAPS

(***************************************************************************)
(* The stack of frames.                                                    *)
(***************************************************************************)
FrameSet == {f \in [srv : Server, step : Stages, todo : SUBSET (Server \cup Sub),
                    df : SUBSET Sub, cur : SUBSET Sub] :
               /\ f.step = "ship" => f.todo \subseteq Ship[f.srv]
               /\ f.step \in {"drop", "clean", "group"} => f.todo \subseteq f.df
               /\ f.cur # {} <=> f.step = "clean"}

\* A sequence whose elements are in B is a sequence over B.
LEMMA SeqOfGood ==
  ASSUME NEW A, NEW B, NEW q \in Seq(A), \A i \in DOMAIN q : q[i] \in B
  PROVE  q \in Seq(B)
OBVIOUS

\* The elements of a sequence.
LEMMA Elements ==
  ASSUME NEW S, NEW q \in Seq(S)
  PROVE  \A i \in DOMAIN q : q[i] \in S
OBVIOUS

\* The frames of the stack are well formed.
LEMMA StackType == TypeOK => stack \in Seq(FrameSet)
<1> SUFFICES ASSUME TypeOK PROVE stack \in Seq(FrameSet)
  OBVIOUS
<1> DEFINE Raw == [srv : Server, step : Stages, todo : SUBSET (Server \cup Sub),
                   df : SUBSET Sub, cur : SUBSET Sub]
<1>1. stack \in Seq(Raw)
  BY DEF TypeOK
<1>2. \A i \in DOMAIN stack : stack[i] \in Raw
  <2> HIDE DEF Raw
  <2> QED
    BY <1>1, Elements
<1>3. \A i \in DOMAIN stack : stack[i] \in FrameSet
  BY <1>2 DEF TypeOK, FrameSet
<1> HIDE DEF Raw
<1> QED
  BY <1>1, <1>3, SeqOfGood

\* And a stack of well-formed frames is what TypeOK asks for.
LEMMA StackTyped ==
  ASSUME NEW q \in Seq(FrameSet)
  PROVE  /\ q \in Seq([srv : Server, step : Stages, todo : SUBSET (Server \cup Sub),
                       df : SUBSET Sub, cur : SUBSET Sub])
         /\ \A i \in DOMAIN q :
              /\ q[i].step = "ship" => q[i].todo \subseteq Ship[q[i].srv]
              /\ q[i].step \in {"drop", "clean", "group"} => q[i].todo \subseteq q[i].df
              /\ q[i].cur # {} <=> q[i].step = "clean"
<1> DEFINE Raw == [srv : Server, step : Stages, todo : SUBSET (Server \cup Sub),
                   df : SUBSET Sub, cur : SUBSET Sub]
<1>1. \A i \in DOMAIN q : q[i] \in FrameSet
  BY Elements
<1>2. \A i \in DOMAIN q : q[i] \in Raw
  BY <1>1 DEF FrameSet
<1>3. q \in Seq(Raw)
  <2> HIDE DEF Raw
  <2> QED
    BY <1>2, SeqOfGood
<1> QED
  BY <1>1, <1>3 DEF FrameSet

\* What the script does to its stack: another frame on top, one frame less, or
\* another frame on top with a new one above it.
LEMMA TopFacts ==
  ASSUME NEW S, NEW q \in Seq(S), q # <<>>
  PROVE  Len(q) \in Nat \ {0} /\ DOMAIN q = 1 .. Len(q) /\ q[Len(q)] \in S
OBVIOUS

\* Another frame on top.
LEMMA Replaced ==
  ASSUME NEW S, NEW q \in Seq(S), q # <<>>, NEW f \in S
  PROVE  LET r == [q EXCEPT ![Len(q)] = f] IN
         /\ r \in Seq(S) /\ Len(r) = Len(q) /\ DOMAIN r = 1 .. Len(q)
         /\ r[Len(q)] = f /\ \A i \in 1 .. Len(q) : i # Len(q) => r[i] = q[i]
BY TopFacts

\* One frame less; what is then on top was under it.
LEMMA Popped ==
  ASSUME NEW S, NEW q \in Seq(S), q # <<>>
  PROVE  /\ Front(q) \in Seq(S) /\ Len(Front(q)) = Len(q) - 1
         /\ DOMAIN Front(q) = 1 .. Len(q) - 1
         /\ \A i \in 1 .. Len(q) - 1 : Front(q)[i] = q[i]
<1>1. Len(q) \in Nat \ {0} /\ \A i \in 1 .. Len(q) - 1 : q[i] \in S
  BY TopFacts
<1>m. PICK m \in Nat : m = Len(q) /\ m # 0
  BY <1>1
<1>2. PICK n \in Nat : n = Len(q) - 1
  BY <1>m
<1>3. Front(q) = SubSeq(q, 1, n)
  BY <1>2 DEF Front
<1>4. /\ Front(q) \in Seq(S)
      /\ Len(Front(q)) = IF 1 <= n THEN n - 1 + 1 ELSE 0
      /\ \A i \in 1 .. n - 1 + 1 : Front(q)[i] = q[1 + i - 1]
  BY <1>1, <1>2, <1>3, SubSeqProperties
<1>5. (IF 1 <= n THEN n - 1 + 1 ELSE 0) = n
  OBVIOUS
<1>6. Len(Front(q)) = n
  BY <1>4, <1>5
<1>7. DOMAIN Front(q) = 1 .. n
  BY <1>4, <1>6, LenProperties
<1> QED
  BY <1>2, <1>4, <1>6, <1>7

\* Another frame on top with a new one above it.
LEMMA Pushed ==
  ASSUME NEW S, NEW q \in Seq(S), q # <<>>, NEW f \in S, NEW g \in S
  PROVE  LET r == Append(Front(q), f)
             p == Append(r, g)
         IN  /\ r \in Seq(S) /\ Len(r) = Len(q) /\ r[Len(q)] = f
             /\ \A i \in 1 .. Len(q) - 1 : r[i] = q[i]
             /\ p \in Seq(S) /\ Len(p) = Len(q) + 1 /\ p[Len(q) + 1] = g /\ p[Len(q)] = f
             /\ \A i \in 1 .. Len(q) - 1 : p[i] = q[i]
BY Popped, TopFacts

(***************************************************************************)
(* Types.                                                                  *)
(***************************************************************************)

\* The frame of a call that begins is well formed.
LEMMA NewFrame == \A s \in Server : Frame(s) \in FrameSet
BY DEF Frame, FrameSet, Stages

\* The frame in hand is well formed.
LEMMA TopType ==
  ASSUME TypeOK, stack # <<>>
  PROVE  /\ Top \in FrameSet /\ Top.srv \in Server
         /\ Top.todo \subseteq Server \cup Sub /\ Top.df \subseteq Sub /\ Top.cur \subseteq Sub
         /\ Top.step = "ship" => Top.todo \subseteq Ship[Top.srv] /\ Top.todo \subseteq Server
         /\ Top.step \in {"drop", "clean", "group"} => Top.todo \subseteq Top.df
         /\ Top.cur # {} <=> Top.step = "clean"
BY StackType, TopFacts, LineageAssumption DEF Top, FrameSet

\* Changing the frame in hand keeps the stack well formed.
LEMMA SetTopType ==
  ASSUME TypeOK, stack # <<>>, NEW f \in FrameSet, SetTop(f)
  PROVE  stack' \in Seq(FrameSet)
BY StackType, Replaced DEF SetTop

\* So does the end of a call,
LEMMA ReturnType ==
  ASSUME TypeOK, stack # <<>>, Return
  PROVE  stack' \in Seq(FrameSet)
BY StackType, Popped DEF Return

\* and a recursive call.
LEMMA TraverseType ==
  ASSUME TypeOK, stack # <<>>, NEW t \in Server, NEW f \in FrameSet, Traverse(t, f)
  PROVE  stack' \in Seq(FrameSet)
BY StackType, Pushed, NewFrame DEF Traverse

\* A disturbance keeps the count within its bound.
LEMMA EventsType ==
  ASSUME TypeOK, Disturb \/ UNCHANGED events
  PROVE  events' \in 0 .. MaxEvents
BY LineageAssumption DEF Disturb, TypeOK

\* A query through the pool keeps connections and history well typed.
LEMMA PoolType ==
  ASSUME TypeOK, NEW s \in Server
  PROVE  /\ Pool(s) => conn' \in [Server -> {"none", "live", "dead"}]
         /\ Refused(s) => refused' \subseteq Server
         /\ \A ok \in BOOLEAN : Answered(s, ok) => events' \in 0 .. MaxEvents /\ calm' \in BOOLEAN
BY LineageAssumption DEF Pool, Refused, Answered, Disturb, TypeOK

\* The rest of the state.
RestOK ==
  /\ up \subseteq Server /\ live \subseteq Sub /\ target \subseteq Sub /\ inactive \subseteq live
  /\ events \in 0 .. MaxEvents
  /\ visited \in [Server -> {"no", "conn", "error"}]
  /\ conn \in [Server -> {"none", "live", "dead"}]
  /\ drawn \subseteq Shipping \cup Sub
  /\ entered \in [Server -> 0 .. 2] /\ seen \subseteq Sub /\ refused \subseteq Server
  /\ calm \in BOOLEAN /\ start \subseteq Sub

\* TypeOK in two parts: the stack, and the rest.
LEMMA TypeParts == stack \in Seq(FrameSet) /\ RestOK => TypeOK
BY StackTyped DEF RestOK, TypeOK

\* The same after a step.
LEMMA TypePartsNext == (stack \in Seq(FrameSet) /\ RestOK)' => TypeOK'
BY TypeParts, PTL

\* Everything is well typed before the first run.
LEMMA InitType == Init => TypeOK
<1> SUFFICES ASSUME Init PROVE TypeOK
  OBVIOUS
<1>1. stack \in Seq(FrameSet)
  BY DEF Init
<1>2. RestOK
  BY LineageAssumption DEF Init, RestOK
<1> QED
  BY <1>1, <1>2, TypeParts

\* To pass over a subscription keeps the frame well formed.
LEMMA PassOverType ==
  ASSUME TypeOK, stack # <<>>, Top.step \in {"drop", "clean"}, NEW x
  PROVE  PassOver(x) \in FrameSet
BY TopType DEF PassOver, FrameSet, Stages

\* Every step keeps the types.
LEMMA TypeStep == TypeOK /\ [Next]_vars => TypeOK'
<1> SUFFICES ASSUME TypeOK, [Next]_vars PROVE stack' \in Seq(FrameSet) /\ RestOK'
  BY TypePartsNext
<1> USE DEF Stages
<1>0. CASE UNCHANGED vars
  BY <1>0, StackType DEF vars, env, hist, TypeOK, RestOK
<1>1. CASE StartRun
  <2>1. stack' \in Seq(FrameSet)
    BY <1>1, NewFrame, LineageAssumption DEF StartRun
  <2> QED
    BY <1>1, <2>1 DEF StartRun, TypeOK, RestOK, env
<1>2. CASE Enter
  <2>1. [Top EXCEPT !.step = "ships"] \in FrameSet
    BY <1>2, TopType DEF Enter, FrameSet
  <2>2. stack' \in Seq(FrameSet)
    BY <1>2, <2>1, SetTopType, ReturnType DEF Enter
  <2>3. Top.srv \in Server
    BY <1>2, TopType DEF Enter
  <2>4. entered' \in [Server -> 0 .. 2] /\ visited' \in [Server -> {"no", "conn", "error"}]
    BY <1>2, <2>3 DEF Enter, TypeOK
  <2>5. conn' \in [Server -> {"none", "live", "dead"}] /\ refused' \subseteq Server
    BY <1>2, <2>3, PoolType DEF Enter
  <2> QED
    BY <1>2, <2>2, <2>4, <2>5 DEF Enter, TypeOK, RestOK, env
<1>3. CASE ReadShips
  <2>1. PICK ok \in BOOLEAN :
          /\ Answered(Top.srv, ok)
          /\ SetTop([Top EXCEPT !.step = "ship", !.todo = IF ok THEN Ship[Top.srv] ELSE {}])
    BY <1>3 DEF ReadShips
  <2>2. [Top EXCEPT !.step = "ship", !.todo = IF ok THEN Ship[Top.srv] ELSE {}] \in FrameSet
    BY <1>3, TopType, LineageAssumption DEF ReadShips, FrameSet
  <2>3. stack' \in Seq(FrameSet)
    BY <1>3, <2>1, <2>2, SetTopType DEF ReadShips
  <2> QED
    BY <1>3, <2>1, <2>3, TopType, PoolType DEF ReadShips, TypeOK, RestOK, env
<1>4. CASE FollowShip
  <2>1. PICK t \in Top.todo : Draw(<<Top.srv, t>>, t) /\ Traverse(t, [Top EXCEPT !.todo = @ \ {t}])
    BY <1>4 DEF FollowShip
  <2>2. t \in Server /\ [Top EXCEPT !.todo = @ \ {t}] \in FrameSet
    BY <1>4, TopType DEF FollowShip, FrameSet
  <2>3. stack' \in Seq(FrameSet)
    BY <1>4, <2>1, <2>2, TraverseType DEF FollowShip
  <2>4. <<Top.srv, t>> \in Shipping
    BY <1>4, <2>1, <2>2, TopType DEF FollowShip, Shipping
  <2> QED
    BY <1>4, <2>1, <2>3, <2>4 DEF FollowShip, Draw, TypeOK, RestOK, env, hist
<1>5. CASE ShipsDone
  <2>1. [Top EXCEPT !.step = "distributor"] \in FrameSet
    BY <1>5, TopType DEF ShipsDone, FrameSet
  <2> QED
    BY <1>5, <2>1, SetTopType DEF ShipsDone, TypeOK, RestOK, env, hist
<1>6. CASE FindDistributor
  <2>1. [Top EXCEPT !.step = "read"] \in FrameSet
    BY <1>6, TopType DEF FindDistributor, FrameSet
  <2>2. stack' \in Seq(FrameSet)
    BY <1>6, <2>1, SetTopType, ReturnType DEF FindDistributor
  <2>3. PICK ok \in BOOLEAN :
          LET d == IF ok THEN Dist[Top.srv] ELSE None IN
          /\ IF d = None THEN UNCHANGED <<conn, refused>> ELSE Pool(d) /\ Refused(d)
          /\ Disturb \/ UNCHANGED events
          /\ calm' = (calm /\ ok)
          /\ visited' \in {visited, [visited EXCEPT ![d] = "conn"], [visited EXCEPT ![Top.srv] = "error"]}
    BY <1>6 DEF FindDistributor
  <2>4. Dist[Top.srv] \in Server \cup {None}
    BY <1>6, TopType, LineageAssumption DEF FindDistributor
  <2>5. visited' \in [Server -> {"no", "conn", "error"}]
    BY <1>6, <2>3, <2>4, TopType DEF FindDistributor, TypeOK
  <2>6. conn' \in [Server -> {"none", "live", "dead"}] /\ refused' \subseteq Server
        /\ events' \in 0 .. MaxEvents
    BY <2>3, <2>4, PoolType, EventsType DEF TypeOK
  <2> QED
    BY <1>6, <2>2, <2>3, <2>5, <2>6 DEF FindDistributor, TypeOK, RestOK, env
<1>7. CASE ReadSubs
  <2>1. PICK ok \in BOOLEAN :
          LET df == IF ok THEN {x \in live : Dist[Pub[x]] = Dist[Top.srv]} ELSE {} IN
          /\ Answered(Dist[Top.srv], ok)
          /\ seen' = seen \cup (df \cap inactive)
          /\ IF df = {} THEN Return
             ELSE SetTop([Top EXCEPT !.step = "drop", !.df = df, !.todo = df \cap inactive])
    BY <1>7 DEF ReadSubs
  <2> DEFINE df == IF ok THEN {x \in live : Dist[Pub[x]] = Dist[Top.srv]} ELSE {}
  <2>2. df \subseteq Sub
    BY DEF TypeOK
  <2>3. [Top EXCEPT !.step = "drop", !.df = df, !.todo = df \cap inactive] \in FrameSet
    BY <1>7, <2>2, TopType DEF ReadSubs, FrameSet
  <2>4. stack' \in Seq(FrameSet)
    BY <1>7, <2>1, <2>3, SetTopType, ReturnType DEF ReadSubs
  <2>5. events' \in 0 .. MaxEvents /\ calm' \in BOOLEAN
    BY <2>1, LineageAssumption DEF Answered, Disturb, TypeOK
  <2> QED
    BY <1>7, <2>1, <2>2, <2>4, <2>5 DEF ReadSubs, TypeOK, RestOK, env
<1>8. CASE Drop
  <2>1. PICK x \in Top.todo, ok \in BOOLEAN :
          /\ Pool(Pub[x]) /\ Refused(Pub[x]) /\ Answered(Pub[x], ok)
          /\ IF ok /\ x \in live \ Merge
             THEN /\ live' = live \ {x} /\ inactive' = inactive \ {x}
                  /\ SetTop([Top EXCEPT !.step = "clean", !.cur = {x}])
             ELSE UNCHANGED <<live, inactive>> /\ SetTop(PassOver(x))
    BY <1>8 DEF Drop
  <2>2. x \in Sub /\ Pub[x] \in Server
    BY <1>8, TopType, LineageAssumption DEF Drop
  <2>3. [Top EXCEPT !.step = "clean", !.cur = {x}] \in FrameSet /\ PassOver(x) \in FrameSet
    BY <1>8, <2>2, TopType, PassOverType DEF Drop, FrameSet
  <2>4. stack' \in Seq(FrameSet)
    BY <1>8, <2>1, <2>3, SetTopType DEF Drop
  <2> QED
    BY <1>8, <2>1, <2>2, <2>4, PoolType DEF Drop, TypeOK, RestOK
<1>9. CASE NotListed
  <2>1. PICK x \in Top.todo : SetTop(PassOver(x))
    BY <1>9 DEF NotListed
  <2> QED
    BY <1>9, <2>1, PassOverType, SetTopType DEF NotListed, TypeOK, RestOK, env, hist
<1>10. CASE Clean
  <2>1. PICK x \in Top.cur, ok \in BOOLEAN :
          /\ Pool(To[x]) /\ Refused(To[x]) /\ Answered(To[x], ok)
          /\ target' = IF ok THEN target \ {x} ELSE target
          /\ SetTop(PassOver(x))
    BY <1>10 DEF Clean
  <2>2. x \in Sub /\ To[x] \in Server
    BY <1>10, TopType, LineageAssumption DEF Clean
  <2>3. stack' \in Seq(FrameSet)
    BY <1>10, <2>1, PassOverType, SetTopType DEF Clean
  <2> QED
    BY <1>10, <2>1, <2>2, <2>3, PoolType DEF Clean, TypeOK, RestOK
<1>11. CASE DropsDone
  <2>1. [Top EXCEPT !.step = "group", !.todo = Top.df] \in FrameSet
    BY <1>11, TopType DEF DropsDone, FrameSet
  <2> QED
    BY <1>11, <2>1, SetTopType DEF DropsDone, TypeOK, RestOK, env, hist
<1>12. CASE FollowSub
  <2>1. PICK x \in Top.todo : Draw(x, To[x]) /\ Traverse(To[x], [Top EXCEPT !.todo = @ \ {x}])
    BY <1>12 DEF FollowSub
  <2>2. x \in Sub /\ To[x] \in Server /\ [Top EXCEPT !.todo = @ \ {x}] \in FrameSet
    BY <1>12, TopType, LineageAssumption DEF FollowSub, FrameSet
  <2>3. stack' \in Seq(FrameSet)
    BY <1>12, <2>1, <2>2, TraverseType DEF FollowSub
  <2> QED
    BY <1>12, <2>1, <2>2, <2>3 DEF FollowSub, Draw, TypeOK, RestOK, env, hist
<1>13. CASE ServerDone
  BY <1>13, ReturnType DEF ServerDone, TypeOK, RestOK, env, hist
<1>14. CASE Crash
  <2>1. stack' \in Seq(FrameSet)
    BY <1>14 DEF Crash
  <2>2. events' \in 0 .. MaxEvents
    BY <1>14, EventsType DEF Crash
  <2> QED
    BY <1>14, <2>1, <2>2 DEF Crash, TypeOK, RestOK, env
<1>15. ASSUME NEW s \in Server, Down(s) PROVE stack' \in Seq(FrameSet) /\ RestOK'
  <2>1. events' \in 0 .. MaxEvents
    BY <1>15, EventsType DEF Down
  <2>2. conn' \in [Server -> {"none", "live", "dead"}]
    BY <1>15 DEF Down, TypeOK
  <2> QED
    BY <1>15, <2>1, <2>2, StackType DEF Down, TypeOK, RestOK
<1>17. ASSUME NEW s \in Server, Back(s) PROVE stack' \in Seq(FrameSet) /\ RestOK'
  BY <1>17, StackType DEF Back, TypeOK, RestOK, hist
<1>16. CASE \E x \in Sub : StatusChange(x)
  BY <1>16, StackType, LineageAssumption DEF StatusChange, Disturb, TypeOK, RestOK, hist
<1> QED
  BY <1>0, <1>1, <1>2, <1>3, <1>4, <1>5, <1>6, <1>7, <1>8, <1>9, <1>10, <1>11, <1>12, <1>13,
     <1>14, <1>15, <1>16, <1>17 DEF Next, Script

\* The stack and the rest of the script's state are well typed, however deep the
\* traversal goes.
THEOREM TypeCorrect == Spec => []TypeOK
BY InitType, TypeStep, PTL DEF Spec

(***************************************************************************)
(* The inductive invariant.                                                *)
(***************************************************************************)

\* A frame about to connect is the top one, and its server is not visited; what
\* is still to be dropped was read as inactive in this run; the subscription in
\* hand is gone from its publisher.
FramesInv ==
  \A i \in 1 .. Len(stack) :
    /\ stack[i].step = "connect" => i = Len(stack) /\ visited[stack[i].srv] = "no"
    /\ stack[i].step \in {"drop", "clean"} => stack[i].todo \subseteq seen
    /\ stack[i].cur \cap live = {}

\* A server that is not visited has not been entered.
VisitedInv == \A s \in Server : visited[s] = "no" => entered[s] = 0

IInv == FramesInv /\ VisitedInv /\ CleanAfterDrop /\ TraversedOnce /\ UnreachableIsTrue

\* What FramesInv says of the frame in hand.
LEMMA TopInv ==
  ASSUME TypeOK, FramesInv, stack # <<>>
  PROVE  /\ Top.step = "connect" => visited[Top.srv] = "no"
         /\ Top.step \in {"drop", "clean"} => Top.todo \subseteq seen
         /\ Top.cur \cap live = {}
         /\ \A i \in 1 .. Len(stack) - 1 :
              /\ stack[i].step # "connect"
              /\ stack[i].step \in {"drop", "clean"} => stack[i].todo \subseteq seen
              /\ stack[i].cur \cap live = {}
<1>1. PICK n \in Nat : n = Len(stack) /\ n # 0
  BY StackType, TopFacts
<1> QED
  BY <1>1 DEF FramesInv, Top

\* Changing the frame in hand keeps FramesInv if the new frame satisfies it.
LEMMA SetTopInv ==
  ASSUME TypeOK, FramesInv, stack # <<>>, NEW f \in FrameSet, SetTop(f),
         f.step # "connect", f.step \in {"drop", "clean"} => f.todo \subseteq seen',
         f.cur \cap live' = {}, seen \subseteq seen', live' \subseteq live
  PROVE  FramesInv'
<1>1. PICK n \in Nat : n = Len(stack) /\ n # 0
  BY StackType, TopFacts
<1>2. Len(stack') = n /\ stack'[n] = f /\ \A i \in 1 .. n - 1 : stack'[i] = stack[i]
  BY <1>1, StackType, Replaced DEF SetTop
<1> QED
  BY <1>1, <1>2, TopInv DEF FramesInv

\* The end of a call keeps FramesInv.
LEMMA ReturnInv ==
  ASSUME TypeOK, FramesInv, stack # <<>>, Return, seen \subseteq seen', live' \subseteq live
  PROVE  FramesInv'
<1>1. PICK n \in Nat : n = Len(stack) /\ n # 0
  BY StackType, TopFacts
<1>2. Len(stack') = n - 1 /\ \A i \in 1 .. n - 1 : stack'[i] = stack[i]
  BY <1>1, StackType, Popped DEF Return
<1> QED
  BY <1>1, <1>2, TopInv DEF FramesInv

\* A recursive call keeps FramesInv: the frame it leaves is not about to
\* connect.
LEMMA TraverseInv ==
  ASSUME TypeOK, FramesInv, stack # <<>>, NEW t \in Server, NEW f \in FrameSet, Traverse(t, f),
         f.step \in {"ship", "group"}, f.cur = {}, UNCHANGED <<visited, seen, live>>
  PROVE  FramesInv'
<1>1. PICK n \in Nat : n = Len(stack) /\ n # 0
  BY StackType, TopFacts
<1>2. CASE visited[t] = "no"
  <2>1. /\ Len(stack') = n + 1 /\ stack'[n + 1] = Frame(t) /\ stack'[n] = f
        /\ \A i \in 1 .. n - 1 : stack'[i] = stack[i]
    BY <1>1, <1>2, StackType, NewFrame, Pushed DEF Traverse
  <2> QED
    BY <1>1, <1>2, <2>1, TopInv DEF FramesInv, Frame
<1>3. CASE visited[t] # "no"
  <2>1. Len(stack') = n /\ stack'[n] = f /\ \A i \in 1 .. n - 1 : stack'[i] = stack[i]
    BY <1>1, <1>3, StackType, NewFrame, Pushed DEF Traverse
  <2> QED
    BY <1>1, <2>1, TopInv DEF FramesInv
<1> QED
  BY <1>2, <1>3

\* To pass over a subscription takes it from what is to be done, and no more.
LEMMA PassOverFacts ==
  ASSUME TypeOK, stack # <<>>, Top.step \in {"drop", "clean"}, NEW x
  PROVE  /\ PassOver(x) \in FrameSet /\ PassOver(x).step = "drop" /\ PassOver(x).cur = {}
         /\ PassOver(x).todo \subseteq Top.todo
BY TopType, PassOverType DEF FrameSet, PassOver

\* Every step keeps FramesInv.
LEMMA FramesStep == TypeOK /\ FramesInv /\ [Next]_vars => FramesInv'
<1> SUFFICES ASSUME TypeOK, FramesInv, [Next]_vars PROVE FramesInv'
  OBVIOUS
<1> USE DEF Stages
<1>0. CASE UNCHANGED <<stack, visited, seen, live>>
  BY <1>0 DEF FramesInv
<1>1. CASE StartRun
  <2>1. Len(stack') = 1 /\ stack'[1] = Frame(Root) /\ visited'[Root] = "no"
    BY <1>1, LineageAssumption DEF StartRun
  <2>2. Frame(Root).srv = Root /\ Frame(Root).step = "connect" /\ Frame(Root).cur = {}
    BY DEF Frame
  <2> QED
    BY <2>1, <2>2 DEF FramesInv
<1>2. CASE Enter
  <2>1. [Top EXCEPT !.step = "ships"] \in FrameSet /\ Top.cur = {}
    BY <1>2, TopType DEF Enter, FrameSet
  <2> QED
    BY <1>2, <2>1, TopType, SetTopInv, ReturnInv DEF Enter, env, FrameSet
<1>3. CASE ReadShips
  <2>1. PICK ok \in BOOLEAN :
          SetTop([Top EXCEPT !.step = "ship", !.todo = IF ok THEN Ship[Top.srv] ELSE {}])
    BY <1>3 DEF ReadShips
  <2> DEFINE f == [Top EXCEPT !.step = "ship", !.todo = IF ok THEN Ship[Top.srv] ELSE {}]
  <2>2. f \in FrameSet /\ f.step = "ship" /\ f.cur = {}
    BY <1>3, TopType, LineageAssumption DEF ReadShips, FrameSet
  <2> QED
    BY <1>3, <2>1, <2>2, SetTopInv DEF ReadShips, env
<1>4. CASE FollowShip
  <2>1. PICK t \in Top.todo : Traverse(t, [Top EXCEPT !.todo = @ \ {t}])
    BY <1>4 DEF FollowShip
  <2> DEFINE f == [Top EXCEPT !.todo = @ \ {t}]
  <2>2. t \in Server /\ f \in FrameSet /\ f.step = "ship" /\ f.cur = {}
    BY <1>4, TopType DEF FollowShip, FrameSet
  <2> QED
    BY <1>4, <2>1, <2>2, TraverseInv DEF FollowShip, env, hist
<1>5. CASE ShipsDone
  <2> DEFINE f == [Top EXCEPT !.step = "distributor"]
  <2>1. f \in FrameSet /\ f.step = "distributor" /\ f.cur = {}
    BY <1>5, TopType DEF ShipsDone, FrameSet
  <2> QED
    BY <1>5, <2>1, SetTopInv DEF ShipsDone, env, hist
<1>6. CASE FindDistributor
  <2> DEFINE f == [Top EXCEPT !.step = "read"]
  <2>1. f \in FrameSet /\ f.step = "read" /\ f.cur = {}
    BY <1>6, TopType DEF FindDistributor, FrameSet
  <2> QED
    BY <1>6, <2>1, SetTopInv, ReturnInv DEF FindDistributor, env
<1>7. CASE ReadSubs
  <2>1. PICK ok \in BOOLEAN :
          LET df == IF ok THEN {x \in live : Dist[Pub[x]] = Dist[Top.srv]} ELSE {} IN
          /\ seen' = seen \cup (df \cap inactive)
          /\ IF df = {} THEN Return
             ELSE SetTop([Top EXCEPT !.step = "drop", !.df = df, !.todo = df \cap inactive])
    BY <1>7 DEF ReadSubs
  <2> DEFINE df == IF ok THEN {x \in live : Dist[Pub[x]] = Dist[Top.srv]} ELSE {}
             f  == [Top EXCEPT !.step = "drop", !.df = df, !.todo = df \cap inactive]
  <2>2. df \subseteq Sub
    BY DEF TypeOK
  <2> HIDE DEF df
  <2>3. f \in FrameSet /\ f.step = "drop" /\ f.cur = {} /\ f.todo = df \cap inactive
    BY <1>7, <2>2, TopType DEF ReadSubs, FrameSet
  <2>4. seen' = seen \cup (df \cap inactive) /\ (Return \/ SetTop(f))
    BY <2>1 DEF df
  <2> QED
    BY <1>7, <2>3, <2>4, SetTopInv, ReturnInv DEF ReadSubs, env
<1>8. CASE Drop
  <2>1. PICK x \in Top.todo, ok \in BOOLEAN :
          IF ok /\ x \in live \ Merge
          THEN /\ live' = live \ {x}
               /\ SetTop([Top EXCEPT !.step = "clean", !.cur = {x}])
          ELSE UNCHANGED live /\ SetTop(PassOver(x))
    BY <1>8 DEF Drop
  <2> DEFINE f == [Top EXCEPT !.step = "clean", !.cur = {x}]
  <2>2. f \in FrameSet /\ f.step = "clean" /\ f.cur = {x} /\ f.todo = Top.todo
    BY <1>8, TopType DEF Drop, FrameSet
  <2>4. /\ PassOver(x) \in FrameSet /\ PassOver(x).step = "drop" /\ PassOver(x).cur = {}
        /\ PassOver(x).todo \subseteq Top.todo
    BY <1>8, PassOverFacts DEF Drop
  <2>3. Top.todo \subseteq seen /\ UNCHANGED seen /\ stack # <<>>
    BY <1>8, TopInv DEF Drop
  <2> QED
    BY <2>1, <2>2, <2>3, <2>4, SetTopInv
<1>9. ASSUME NEW x, SetTop(PassOver(x)), UNCHANGED <<seen, live>>, stack # <<>>,
             Top.step \in {"drop", "clean"}
      PROVE  FramesInv'
  <2>1. /\ PassOver(x) \in FrameSet /\ PassOver(x).step = "drop" /\ PassOver(x).cur = {}
        /\ PassOver(x).todo \subseteq Top.todo
    BY <1>9, PassOverFacts
  <2> QED
    BY <1>9, <2>1, TopInv, SetTopInv
<1>10. CASE NotListed
  BY <1>9, <1>10 DEF NotListed, env, hist
<1>11. CASE Clean
  BY <1>9, <1>11 DEF Clean
<1>12. CASE DropsDone
  <2> DEFINE f == [Top EXCEPT !.step = "group", !.todo = Top.df]
  <2>1. f \in FrameSet /\ f.step = "group" /\ f.cur = {}
    BY <1>12, TopType DEF DropsDone, FrameSet
  <2> QED
    BY <1>12, <2>1, SetTopInv DEF DropsDone, env, hist
<1>13. CASE FollowSub
  <2>1. PICK x \in Top.todo : Traverse(To[x], [Top EXCEPT !.todo = @ \ {x}])
    BY <1>13 DEF FollowSub
  <2> DEFINE f == [Top EXCEPT !.todo = @ \ {x}]
  <2>2. To[x] \in Server /\ f \in FrameSet /\ f.step = "group" /\ f.cur = {}
    BY <1>13, TopType, LineageAssumption DEF FollowSub, FrameSet
  <2> QED
    BY <1>13, <2>1, <2>2, TraverseInv DEF FollowSub, env, hist
<1>14. CASE ServerDone
  BY <1>14, ReturnInv DEF ServerDone, env, hist
<1>15. CASE Crash
  BY <1>15 DEF Crash, FramesInv
<1>16. CASE (\E s \in Server : Down(s) \/ Back(s)) \/ (\E x \in Sub : StatusChange(x))
  BY <1>0, <1>16 DEF Down, Back, StatusChange, hist
<1> QED
  BY <1>0, <1>1, <1>2, <1>3, <1>4, <1>5, <1>6, <1>7, <1>8, <1>10, <1>11, <1>12, <1>13,
     <1>14, <1>15, <1>16 DEF Next, Script, vars, env, hist

\* Every step keeps the invariant.
LEMMA SafetyStep == TypeOK /\ IInv /\ [Next]_vars => IInv'
<1> SUFFICES ASSUME TypeOK, IInv, [Next]_vars PROVE IInv'
  OBVIOUS
<1>1. FramesInv'
  BY FramesStep DEF IInv
<1>2. VisitedInv' /\ TraversedOnce'
  <2>1. CASE StartRun
    BY <2>1 DEF StartRun, VisitedInv, TraversedOnce
  <2>2. CASE Enter
    <3>1. Top.srv \in Server /\ entered[Top.srv] = 0
      BY <2>2, TopType, TopInv DEF Enter, IInv, VisitedInv
    <3>2. entered' = [entered EXCEPT ![Top.srv] = 1]
      BY <2>2, <3>1 DEF Enter
    <3>3. \E r \in {"conn", "error"} : visited' = [visited EXCEPT ![Top.srv] = r]
      BY <2>2 DEF Enter
    <3> QED
      BY <3>1, <3>2, <3>3 DEF IInv, VisitedInv, TraversedOnce, TypeOK
  <2>3. CASE FindDistributor
    <3>1. UNCHANGED entered
      BY <2>3 DEF FindDistributor
    <3>2. \A s \in Server : visited'[s] = "no" => visited[s] = "no"
      BY <2>3 DEF FindDistributor, TypeOK
    <3> QED
      BY <3>1, <3>2 DEF IInv, VisitedInv, TraversedOnce
  <2>4. CASE ~(StartRun \/ Enter \/ FindDistributor)
    <3>1. UNCHANGED <<entered, visited>>
      BY <2>4 DEF Next, Script, ReadShips, FollowShip, ShipsDone, ReadSubs, Drop, NotListed, Clean,
         DropsDone, FollowSub, ServerDone, Crash, Down, Back, StatusChange, vars, hist
    <3> QED
      BY <3>1 DEF IInv, VisitedInv, TraversedOnce
  <2> QED
    BY <2>1, <2>2, <2>3, <2>4
<1>3. CleanAfterDrop'
  <2>1. CASE Drop
    BY <2>1 DEF Drop, IInv, CleanAfterDrop
  <2>2. CASE Clean
    <3>1. Top.cur \cap live = {}
      BY <2>2, TopInv DEF Clean, IInv
    <3> QED
      BY <2>2, <3>1 DEF Clean, IInv, CleanAfterDrop
  <2>3. CASE ~(Drop \/ Clean)
    <3>1. UNCHANGED <<live, target>>
      BY <2>3 DEF Next, Script, StartRun, Enter, FindDistributor, ReadShips, FollowShip, ShipsDone,
         ReadSubs, NotListed, DropsDone, FollowSub, ServerDone, Crash, Down, Back, StatusChange,
         vars, env
    <3> QED
      BY <3>1 DEF IInv, CleanAfterDrop
  <2> QED
    BY <2>1, <2>2, <2>3
<1>4. UnreachableIsTrue'
  <2>1. CASE StartRun
    BY <2>1 DEF StartRun, UnreachableIsTrue
  <2>2. CASE Enter
    BY <2>2, TopType DEF Enter, Refused, IInv, UnreachableIsTrue, TypeOK
  <2>3. CASE FindDistributor
    <3>1. PICK ok \in BOOLEAN :
            LET d == IF ok THEN Dist[Top.srv] ELSE None IN
            /\ IF d = None THEN UNCHANGED refused ELSE Refused(d)
            /\ IF d # None /\ Connects(d)
               THEN visited' = [visited EXCEPT ![d] = "conn"]
               ELSE visited' = IF d = None THEN visited ELSE [visited EXCEPT ![Top.srv] = "error"]
      BY <2>3 DEF FindDistributor
    <3>2. refused \subseteq refused' /\ Top.srv \in Server
      BY <2>3, <3>1, TopType DEF FindDistributor, Refused
    <3>3. ASSUME NEW s \in Server, visited'[s] = "error", s # Top.srv
          PROVE  {s, Dist[s]} \cap refused' # {}
      BY <3>1, <3>2, <3>3 DEF IInv, UnreachableIsTrue, TypeOK
    <3>4. ASSUME visited'[Top.srv] = "error"
          PROVE  {Top.srv, Dist[Top.srv]} \cap refused' # {}
      BY <3>1, <3>2, <3>4 DEF Refused, IInv, UnreachableIsTrue, TypeOK
    <3> QED
      BY <3>3, <3>4 DEF UnreachableIsTrue
  <2>4. CASE ~(StartRun \/ Enter \/ FindDistributor)
    <3>1. UNCHANGED visited /\ refused \subseteq refused'
      BY <2>4 DEF Next, Script, ReadShips, FollowShip, ShipsDone, ReadSubs, Drop, NotListed, Clean,
         DropsDone, FollowSub, ServerDone, Crash, Down, Back, StatusChange, Refused, vars, hist
    <3> QED
      BY <3>1 DEF IInv, UnreachableIsTrue
  <2> QED
    BY <2>1, <2>2, <2>3, <2>4
<1> QED
  BY <1>1, <1>2, <1>3, <1>4 DEF IInv

\* Every state of the script satisfies the inductive invariant.
THEOREM Invariance == Spec => []IInv
<1>1. Init => IInv
  BY DEF Init, IInv, FramesInv, VisitedInv, CleanAfterDrop, TraversedOnce, UnreachableIsTrue
<1> QED
  BY <1>1, TypeCorrect, SafetyStep, PTL DEF Spec

\* A subscriber is cleaned up only once its publisher has dropped it.
THEOREM CleanedAfterDrop == Spec => []CleanAfterDrop
BY Invariance, PTL DEF IInv

\* A run traverses a server once, in whatever circles the topology runs.
THEOREM OneTraversal == Spec => []TraversedOnce
BY Invariance, PTL DEF IInv

\* A server reported as unreachable, or its distributor, has been so.
THEOREM UnreachableOnes == Spec => []UnreachableIsTrue
BY Invariance, PTL DEF IInv

\* Only subscriptions that this run saw inactive, and whose subscriber is
\* blacklisted, are dropped.
THEOREM DropsAreSeen == Spec => DropOnlySeenInactive
<1>1. TypeOK /\ IInv /\ [Next]_vars =>
        [\A x \in live \ live' : To[x] \in Blacklist /\ x \in seen]_vars
  <2> SUFFICES ASSUME TypeOK, IInv, Next, NEW x \in live \ live'
               PROVE  To[x] \in Blacklist /\ x \in seen
    OBVIOUS
  <2>1. CASE Drop
    <3>1. x \in Top.todo /\ To[x] \in Blacklist
      BY <2>1 DEF Drop, Listed
    <3>2. Top.todo \subseteq seen
      BY <2>1, TopInv DEF Drop, IInv
    <3> QED
      BY <3>1, <3>2
  <2>2. CASE ~Drop
    BY <2>2 DEF Next, Script, StartRun, Enter, FindDistributor, ReadShips, FollowShip, ShipsDone,
       ReadSubs, NotListed, Clean, DropsDone, FollowSub, ServerDone, Crash, Down, Back,
       StatusChange, env
  <2> QED
    BY <2>1, <2>2
<1> QED
  BY <1>1, TypeCorrect, Invariance, PTL DEF Spec, DropOnlySeenInactive

(***************************************************************************)
(* Completeness.  In a run that nothing disturbs, everything there is to   *)
(* follow from a visited server is drawn, or is still owed by a call that  *)
(* has not returned.  When all calls have returned nothing is owed: the    *)
(* visited servers are closed under what is followed, and contain the      *)
(* servers that can be reached.                                            *)
(***************************************************************************)
\* A server that has been visited, or is about to be.
Known(t) == visited[t] # "no" \/ \E f \in Open : f.srv = t

\* An edge to t is drawn, and t is known.
Shown(e, t) == e \in drawn /\ Known(t)

\* What the call f has still to do for an edge: read the log shippings of s and
\* follow the one to t,
OwesShip(f, s, t) == f.srv = s /\ (f.step = "ships" \/ (f.step = "ship" /\ t \in f.todo))

\* follow a subscription it has read,
OwesRow(f, x) ==
  \/ f.step \in {"drop", "clean"} /\ x \in f.df
  \/ f.step = "group" /\ x \in f.todo

\* or read the subscriptions of s, x among them.
OwesSub(f, s, x) ==
  \/ f.srv = s /\ f.step \in {"ships", "ship", "distributor"}
  \/ f.step = "read" /\ Dist[f.srv] = Dist[Pub[x]]
  \/ OwesRow(f, x)

\* Nothing has failed so far.
AllUp == up = Server /\ \A s \in Server : conn[s] # "dead"

\* Who has got beyond the connection is visited, who has got beyond the
\* distributor has one.
OpenOK ==
  \A f \in Open : /\ f.step # "connect" => visited[f.srv] # "no"
                  /\ f.step = "read" => Dist[f.srv] # None

\* What there is to follow from a visited server is shown, or a call owes it;
\* and a subscription that this run has dropped is shown, or owed by the call
\* that has read it.
ShipsOwed ==
  \A s \in Server : visited[s] # "no" => \A t \in Ship[s] :
    Shown(<<s, t>>, t) \/ \E f \in Open : OwesShip(f, s, t)
SubsOwed ==
  \A s \in Server : visited[s] # "no" => \A x \in SubsAt(s) :
    Shown(x, To[x]) \/ \E f \in Open : OwesSub(f, s, x)
DroppedOwed ==
  \A x \in start \ live : Shown(x, To[x]) \/ \E f \in Open : OwesRow(f, x)

Owed == OpenOK /\ ShipsOwed /\ SubsOwed /\ DroppedOwed
OwedInv == calm => AllUp /\ (PlainDistributors => Owed)

\* A step takes the frame in hand away and puts the frames N in its place: what
\* the frame owes, what a newly visited server has to be followed, and what is
\* dropped in the step, is then shown or owed by N.
Handover(U, N) ==
  /\ Open = U \cup {Top} /\ Open' = U \cup N
  /\ start' = start /\ drawn \subseteq drawn'
  /\ visited'[Top.srv] # "no"
  /\ \A s \in Server : visited[s] # "no" => visited'[s] # "no"
  /\ \A g \in N : /\ g.step # "connect" => visited'[g.srv] # "no"
                  /\ g.step = "read" => Dist[g.srv] # None
  /\ \A s \in Server : visited'[s] # "no" => visited[s] # "no"
       \/ /\ \A t \in Ship[s] : \E g \in N : OwesShip(g, s, t)
          /\ \A x \in SubsAt(s) : \E g \in N : OwesSub(g, s, x)
  /\ \A s \in Server : \A t \in Ship[s] : OwesShip(Top, s, t) =>
       Shown(<<s, t>>, t)' \/ \E g \in N : OwesShip(g, s, t)
  /\ \A s \in Server : \A x \in SubsAt(s) : OwesSub(Top, s, x) =>
       Shown(x, To[x])' \/ x \notin live \/ \E g \in N : OwesSub(g, s, x)
  /\ \A x \in start : OwesRow(Top, x) => Shown(x, To[x])' \/ \E g \in N : OwesRow(g, x)
  /\ \A x \in start \cap live : x \in live' \/ \E g \in N : OwesRow(g, x)

\* The frames of the stack are well formed.
LEMMA OpenType == TypeOK => Open \subseteq FrameSet
<1> SUFFICES ASSUME TypeOK PROVE Open \subseteq FrameSet
  OBVIOUS
<1> QED
  BY StackType, Elements DEF Open

\* What the steps of the script do to the set of open calls.
LEMMA OpenSteps ==
  ASSUME TypeOK, stack # <<>>
  PROVE  \E U : /\ U \subseteq FrameSet /\ Open = U \cup {Top}
                /\ \A g \in U : \E i \in 1 .. Len(stack) - 1 : g = stack[i]
                /\ \A f \in FrameSet : SetTop(f) => Open' = U \cup {f}
                /\ Return => Open' = U \cup {}
                /\ \A f \in FrameSet, t \in Server : Traverse(t, f) =>
                     Open' = U \cup (IF visited[t] = "no" THEN {f, Frame(t)} ELSE {f})
<1> DEFINE U == {stack[i] : i \in 1 .. Len(stack) - 1}
<1>1. PICK n \in Nat : n = Len(stack) /\ n # 0
  BY StackType, TopFacts
<1>2. DOMAIN stack = 1 .. n /\ Top = stack[n] /\ stack[n] \in FrameSet
  BY <1>1, StackType, TopFacts DEF Top
<1>3. Open = U \cup {Top}
  BY <1>1, <1>2 DEF Open
<1>4. U \subseteq FrameSet
  BY <1>3, OpenType
<1>5. ASSUME NEW f \in FrameSet, SetTop(f) PROVE Open' = U \cup {f}
  <2>1. DOMAIN stack' = 1 .. n /\ stack'[n] = f /\ \A i \in 1 .. n : i # n => stack'[i] = stack[i]
    BY <1>1, <1>5, StackType, Replaced DEF SetTop
  <2> QED
    BY <1>1, <2>1 DEF Open
<1>6. ASSUME Return PROVE Open' = U
  <2>1. DOMAIN stack' = 1 .. n - 1 /\ \A i \in 1 .. n - 1 : stack'[i] = stack[i]
    BY <1>1, <1>6, StackType, Popped DEF Return
  <2> QED
    BY <1>1, <2>1 DEF Open
<1>7. ASSUME NEW f \in FrameSet, NEW t \in Server, Traverse(t, f), visited[t] = "no"
      PROVE  Open' = U \cup {f, Frame(t)}
  <2>1. /\ Len(stack') = n + 1 /\ stack'[n + 1] = Frame(t) /\ stack'[n] = f
        /\ \A i \in 1 .. n - 1 : stack'[i] = stack[i]
        /\ stack' \in Seq(FrameSet)
    BY <1>1, <1>7, StackType, NewFrame, Pushed DEF Traverse
  <2>2. DOMAIN stack' = 1 .. n + 1
    BY <2>1
  <2> QED
    BY <1>1, <2>1, <2>2 DEF Open
<1>8. ASSUME NEW f \in FrameSet, NEW t \in Server, Traverse(t, f), visited[t] # "no"
      PROVE  Open' = U \cup {f}
  <2>1. /\ Len(stack') = n /\ stack'[n] = f /\ \A i \in 1 .. n - 1 : stack'[i] = stack[i]
        /\ stack' \in Seq(FrameSet)
    BY <1>1, <1>8, StackType, NewFrame, Pushed DEF Traverse
  <2>2. DOMAIN stack' = 1 .. n
    BY <2>1
  <2> QED
    BY <1>1, <2>1, <2>2 DEF Open
<1>0. \A g \in U : \E i \in 1 .. Len(stack) - 1 : g = stack[i]
  OBVIOUS
<1> HIDE DEF U
<1>9. WITNESS U
<1> QED
  BY <1>0, <1>3, <1>4, <1>5, <1>6, <1>7, <1>8

\* Such a step keeps everything that is owed accounted for.
LEMMA HandoverKeeps ==
  ASSUME TypeOK, Owed, NEW U, NEW N, Handover(U, N)
  PROVE  Owed'
<1> USE DEF Handover
<1>1. \A t \in Server : Known(t) => Known(t)'
  <2> SUFFICES ASSUME NEW t \in Server, Known(t) PROVE Known(t)'
    OBVIOUS
  <2>1. CASE visited[t] # "no"
    BY <2>1 DEF Known
  <2>2. CASE \E f \in U : f.srv = t
    BY <2>2 DEF Known
  <2>3. CASE Top.srv = t
    BY <2>3 DEF Known
  <2> QED
    BY <2>1, <2>2, <2>3 DEF Known
<1>2. \A e, t : t \in Server /\ Shown(e, t) => Shown(e, t)'
  BY <1>1 DEF Shown
<1>3. OpenOK'
  BY OpenType, <1>1 DEF Owed, OpenOK, FrameSet
<1>4. ShipsOwed'
  <2> SUFFICES ASSUME NEW s \in Server, visited'[s] # "no", NEW t \in Ship[s]
               PROVE  Shown(<<s, t>>, t)' \/ \E f \in Open' : OwesShip(f, s, t)
    BY DEF ShipsOwed
  <2>1. t \in Server
    BY LineageAssumption
  <2>2. CASE visited[s] = "no"
    BY <2>2
  <2>3. CASE visited[s] # "no" /\ Shown(<<s, t>>, t)
    BY <2>1, <2>3, <1>2
  <2>4. CASE \E f \in Open : OwesShip(f, s, t)
    BY <2>4
  <2> QED
    BY <2>2, <2>3, <2>4 DEF Owed, ShipsOwed
<1>5. ASSUME NEW x \in start, Shown(x, To[x]) \/ \E f \in Open : OwesRow(f, x)
      PROVE  Shown(x, To[x])' \/ \E f \in Open' : OwesRow(f, x)
  <2>1. To[x] \in Server
    BY LineageAssumption DEF TypeOK
  <2> QED
    BY <1>2, <1>5, <2>1
<1>6. SubsOwed'
  <2> SUFFICES ASSUME NEW s \in Server, visited'[s] # "no", NEW x \in SubsAt(s)
               PROVE  Shown(x, To[x])' \/ \E f \in Open' : OwesSub(f, s, x)
    BY DEF SubsOwed, SubsAt
  <2>1. x \in start /\ To[x] \in Server
    BY LineageAssumption DEF TypeOK, SubsAt
  <2>2. CASE visited[s] = "no"
    BY <2>2
  <2>3. CASE Shown(x, To[x])
    BY <2>1, <2>3, <1>2
  <2>4. CASE \E f \in U : OwesSub(f, s, x)
    BY <2>4
  <2>5. CASE OwesSub(Top, s, x) /\ x \in live
    BY <2>5
  <2>6. CASE x \notin live
    BY <2>1, <2>6, <1>5 DEF Owed, DroppedOwed, OwesSub
  <2> QED
    BY <2>2, <2>3, <2>4, <2>5, <2>6 DEF Owed, SubsOwed
<1>7. DroppedOwed'
  <2> SUFFICES ASSUME NEW x \in start, x \notin live'
               PROVE  Shown(x, To[x])' \/ \E f \in Open' : OwesRow(f, x)
    BY DEF DroppedOwed
  <2>1. CASE x \in live
    BY <2>1
  <2>2. CASE x \notin live
    BY <2>2, <1>5 DEF Owed, DroppedOwed
  <2> QED
    BY <2>1, <2>2
<1> QED
  BY <1>3, <1>4, <1>6, <1>7 DEF Owed

\* All queries of a run that is calm have been answered, by servers that were
\* up.
LEMMA CalmStep ==
  ASSUME TypeOK, calm => AllUp, Next, calm'
  PROVE  AllUp' /\ (StartRun \/ calm)
<1>1. CASE StartRun
  BY <1>1 DEF StartRun, AllUp, env
<1>2. CASE ~StartRun
  <2>1. calm /\ up' = up
    BY <1>2 DEF Next, Script, Enter, ReadShips, FollowShip, ShipsDone, FindDistributor, ReadSubs,
       Drop, NotListed, Clean, DropsDone, FollowSub, ServerDone, Crash, Down, Back, StatusChange,
       Answered, AllUp, hist, env
  <2>2. UNCHANGED conn \/ \E s \in Server : Pool(s)
    <3>1. stack # <<>> => Top.srv \in Server /\ Top.todo \subseteq Server \cup Sub /\ Top.cur \subseteq Sub
      BY TopType
    <3>2. CASE Enter
      BY <3>1, <3>2 DEF Enter
    <3>3. CASE FindDistributor
      <4>1. Dist[Top.srv] \in Server \cup {None}
        BY <3>1, <3>3, LineageAssumption DEF FindDistributor
      <4> QED
        BY <3>3, <4>1 DEF FindDistributor
    <3>4. CASE Drop
      BY <3>1, <3>4, TopType, LineageAssumption DEF Drop
    <3>5. CASE Clean
      BY <3>1, <3>5, LineageAssumption DEF Clean
    <3> QED
      BY <1>2, <2>1, <3>2, <3>3, <3>4, <3>5 DEF Next, Script, ReadShips, FollowShip, ShipsDone,
         ReadSubs, NotListed, DropsDone, FollowSub, ServerDone, Crash, Down, Back, StatusChange, env
  <2> QED
    BY <2>1, <2>2 DEF AllUp, Pool, TypeOK
<1> QED
  BY <1>1, <1>2

\* A step of the script in such a run keeps what is owed accounted for.
LEMMA OwedStep ==
  ASSUME TypeOK, FramesInv, calm, calm', AllUp, PlainDistributors, Owed, Script, ~StartRun
  PROVE  Owed'
<1> USE DEF Stages
<1>a. stack # <<>>
  BY DEF Script, Enter, ReadShips, FollowShip, ShipsDone, FindDistributor, ReadSubs, Drop, NotListed,
     Clean, DropsDone, FollowSub, ServerDone
<1>b. PICK U : /\ U \subseteq FrameSet /\ Open = U \cup {Top}
               /\ \A f \in FrameSet : SetTop(f) => Open' = U \cup {f}
               /\ Return => Open' = U \cup {}
               /\ \A f \in FrameSet, t \in Server : Traverse(t, f) =>
                    Open' = U \cup (IF visited[t] = "no" THEN {f, Frame(t)} ELSE {f})
  BY <1>a, OpenSteps
<1>c. /\ Top \in FrameSet /\ Top.srv \in Server
      /\ Top.step # "connect" => visited[Top.srv] # "no"
      /\ Top.step = "read" => Dist[Top.srv] # None
  BY <1>a, <1>b, TopType DEF Owed, OpenOK
\* Another frame on top, with nothing drawn and nobody visited.
<1>d. ASSUME NEW f \in FrameSet, SetTop(f), f.srv = Top.srv, Top.step # "connect", f.step # "connect",
             f.step = "read" => Dist[Top.srv] # None,
             UNCHANGED <<start, drawn, visited>>,
             \A s \in Server : \A t \in Ship[s] : OwesShip(Top, s, t) => OwesShip(f, s, t),
             \A s \in Server : \A x \in SubsAt(s) :
               OwesSub(Top, s, x) => x \notin live \/ OwesSub(f, s, x),
             \A x \in start : OwesRow(Top, x) => OwesRow(f, x),
             \A x \in start \cap live : x \in live' \/ OwesRow(f, x)
      PROVE  Owed'
  <2>1. Handover(U, {f})
    BY <1>b, <1>c, <1>d DEF Handover
  <2> QED
    BY <2>1, HandoverKeeps
\* The end of a call that owes nothing.
<1>e. ASSUME Return, Top.step # "connect", UNCHANGED <<start, drawn, live, visited>>,
             \A s \in Server : \A t \in Ship[s] : ~OwesShip(Top, s, t),
             \A s \in Server : \A x \in SubsAt(s) : OwesSub(Top, s, x) => x \notin live,
             \A x \in start : ~OwesRow(Top, x)
      PROVE  Owed'
  <2>1. Handover(U, {})
    BY <1>b, <1>c, <1>e DEF Handover
  <2> QED
    BY <2>1, HandoverKeeps
<1>1. CASE Enter
  <2> DEFINE f == [Top EXCEPT !.step = "ships"]
  <2>1. f \in FrameSet /\ f.srv = Top.srv /\ f.step = "ships"
    BY <1>1, <1>c DEF Enter, FrameSet
  <2>2. SetTop(f) /\ visited' = [visited EXCEPT ![Top.srv] = "conn"] /\ Top.step = "connect"
    BY <1>1, <1>c DEF Enter, AllUp, Connects
  <2>3. UNCHANGED <<start, drawn, live>>
    BY <1>1 DEF Enter, env
  <2> HIDE DEF f
  <2>4. Open' = U \cup {f}
    BY <1>b, <2>1, <2>2
  <2>5. visited'[Top.srv] = "conn" /\ \A s \in Server : s # Top.srv => visited'[s] = visited[s]
    BY <1>c, <2>2 DEF TypeOK
  <2>6. (\A s, t : ~OwesShip(Top, s, t)) /\ (\A s, x : ~OwesSub(Top, s, x)) /\ \A x : ~OwesRow(Top, x)
    BY <2>2 DEF OwesShip, OwesSub, OwesRow
  <2>7. \A t : OwesShip(f, Top.srv, t) /\ OwesSub(f, Top.srv, t)
    BY <2>1 DEF OwesShip, OwesSub
  <2>8. Handover(U, {f})
    BY <1>b, <1>c, <2>1, <2>3, <2>4, <2>5, <2>6, <2>7 DEF Handover
  <2> QED
    BY <2>8, HandoverKeeps
<1>2. CASE ReadShips
  <2> DEFINE f == [Top EXCEPT !.step = "ship", !.todo = Ship[Top.srv]]
  <2>1. f \in FrameSet /\ f.srv = Top.srv /\ f.step = "ship" /\ f.todo = Ship[Top.srv]
    BY <1>2, <1>c, TopType, LineageAssumption DEF ReadShips, FrameSet
  <2>2. SetTop(f) /\ Top.step = "ships"
    BY <1>2 DEF ReadShips, Answered
  <2>3. UNCHANGED <<start, drawn, visited, live>>
    BY <1>2 DEF ReadShips, env
  <2> HIDE DEF f
  <2> QED
    BY <1>d, <2>1, <2>2, <2>3 DEF OwesShip, OwesSub, OwesRow
<1>3. CASE ShipsDone
  <2> DEFINE f == [Top EXCEPT !.step = "distributor"]
  <2>1. f \in FrameSet /\ f.srv = Top.srv /\ f.step = "distributor"
    BY <1>3, TopType DEF ShipsDone, FrameSet
  <2>2. SetTop(f) /\ Top.step = "ship" /\ Top.todo = {} /\ UNCHANGED <<start, drawn, visited, live>>
    BY <1>3 DEF ShipsDone, env, hist
  <2> HIDE DEF f
  <2> QED
    BY <1>d, <2>1, <2>2 DEF OwesShip, OwesSub, OwesRow
<1>4. CASE DropsDone
  <2> DEFINE f == [Top EXCEPT !.step = "group", !.todo = Top.df]
  <2>1. f \in FrameSet /\ f.srv = Top.srv /\ f.step = "group" /\ f.todo = Top.df
    BY <1>4, TopType DEF DropsDone, FrameSet
  <2>2. SetTop(f) /\ Top.step = "drop" /\ UNCHANGED <<start, drawn, visited, live>>
    BY <1>4 DEF DropsDone, env, hist
  <2> HIDE DEF f
  <2> QED
    BY <1>d, <2>1, <2>2 DEF OwesShip, OwesSub, OwesRow
\* To pass over a subscription leaves the rows that were read alone.
<1>f. ASSUME NEW x, SetTop(PassOver(x)), Top.step \in {"drop", "clean"},
             UNCHANGED <<start, drawn, visited, live>>
      PROVE  Owed'
  <2>1. /\ PassOver(x) \in FrameSet /\ PassOver(x).srv = Top.srv /\ PassOver(x).step = "drop"
        /\ PassOver(x).df = Top.df
    BY <1>a, <1>f, <1>c, PassOverFacts DEF FrameSet, PassOver
  <2> QED
    BY <1>d, <1>f, <2>1 DEF OwesShip, OwesSub, OwesRow
<1>5. CASE NotListed
  BY <1>f, <1>5 DEF NotListed, env, hist
<1>6. CASE Clean
  BY <1>f, <1>6 DEF Clean
<1>7. CASE Drop
  <2>1. PICK x \in Top.todo, ok \in BOOLEAN :
          IF ok /\ x \in live \ Merge
          THEN live' = live \ {x} /\ SetTop([Top EXCEPT !.step = "clean", !.cur = {x}])
          ELSE UNCHANGED live /\ SetTop(PassOver(x))
    BY <1>7 DEF Drop
  <2>2. Top.step = "drop" /\ UNCHANGED <<start, drawn, visited>>
    BY <1>7 DEF Drop
  <2>3. CASE UNCHANGED live /\ SetTop(PassOver(x))
    BY <1>f, <2>2, <2>3
  <2>4. CASE live' = live \ {x} /\ SetTop([Top EXCEPT !.step = "clean", !.cur = {x}])
    <3> DEFINE f == [Top EXCEPT !.step = "clean", !.cur = {x}]
    <3>1. f \in FrameSet /\ f.srv = Top.srv /\ f.step = "clean" /\ f.df = Top.df /\ x \in f.df
      BY <1>a, <2>2, TopType DEF FrameSet
    <3>2. SetTop(f)
      BY <2>4
    <3> HIDE DEF f
    <3> QED
      BY <1>d, <2>2, <2>4, <3>1, <3>2 DEF OwesShip, OwesSub, OwesRow
  <2> QED
    BY <2>1, <2>3, <2>4
<1>8. CASE ServerDone
  <2>1. Return /\ Top.step = "group" /\ Top.todo = {} /\ UNCHANGED <<start, drawn, visited, live>>
    BY <1>8 DEF ServerDone, env, hist
  <2> QED
    BY <1>e, <2>1 DEF OwesShip, OwesSub, OwesRow
<1>9. CASE ReadSubs
  <2> DEFINE df == {x \in live : Dist[Pub[x]] = Dist[Top.srv]}
             f  == [Top EXCEPT !.step = "drop", !.df = df, !.todo = df \cap inactive]
  <2>1. /\ Top.step = "read" /\ UNCHANGED <<start, drawn, visited, live>>
        /\ IF df = {} THEN Return ELSE SetTop(f)
    BY <1>9 DEF ReadSubs, Answered, env
  <2>2. df \subseteq Sub /\ \A x \in live : Dist[Top.srv] = Dist[Pub[x]] => x \in df
    BY DEF TypeOK
  <2> HIDE DEF df
  <2>3. f \in FrameSet /\ f.srv = Top.srv /\ f.step = "drop" /\ f.df = df
    BY <1>a, <2>1, <2>2, TopType DEF FrameSet
  <2> HIDE DEF f
  <2>4. CASE df = {}
    BY <1>e, <2>1, <2>2, <2>4 DEF OwesShip, OwesSub, OwesRow
  <2>5. CASE df # {}
    BY <1>d, <2>1, <2>2, <2>3, <2>5 DEF OwesShip, OwesSub, OwesRow
  <2> QED
    BY <2>4, <2>5
<1>10. CASE FindDistributor
  <2> DEFINE d == Dist[Top.srv]
             f == [Top EXCEPT !.step = "read"]
  <2>1. /\ Top.step = "distributor" /\ UNCHANGED <<start, drawn, live>>
        /\ IF d # None /\ Connects(d)
           THEN SetTop(f) /\ visited' = [visited EXCEPT ![d] = "conn"]
           ELSE Return /\ visited' = IF d = None THEN visited ELSE [visited EXCEPT ![Top.srv] = "error"]
    BY <1>10 DEF FindDistributor, env
  <2>2. d \in Server \cup {None}
    BY <1>c, LineageAssumption
  <2>3. \A s \in Server : \A x \in SubsAt(s) : s = Top.srv => d # None /\ d = Dist[Pub[x]]
    BY DEF SubsAt
  <2>4. CASE d = None
    <3>1. Return /\ UNCHANGED visited
      BY <2>1, <2>4
    <3>2. (\A s, t : ~OwesShip(Top, s, t)) /\ \A x : ~OwesRow(Top, x)
      BY <2>1 DEF OwesShip, OwesRow
    <3>3. \A s \in Server : \A x \in SubsAt(s) : ~OwesSub(Top, s, x)
      BY <2>1, <2>3, <2>4 DEF OwesSub, OwesRow
    <3> QED
      BY <1>e, <2>1, <3>1, <3>2, <3>3
  <2>5. CASE d # None
    <3>1. SetTop(f) /\ visited' = [visited EXCEPT ![d] = "conn"] /\ d \in Server
      BY <2>1, <2>2, <2>5 DEF AllUp, Connects
    <3>2. f \in FrameSet /\ f.srv = Top.srv /\ f.step = "read"
      BY <1>a, <2>1, TopType DEF FrameSet
    <3>3. visited'[d] = "conn" /\ \A s \in Server : s # d => visited'[s] = visited[s]
      BY <3>1 DEF TypeOK
    <3>4. visited[d] = "no" => Ship[d] = {} /\ \A x \in SubsAt(d) : Dist[Pub[x]] = d
      <4>1. visited[d] = "no" => d # Top.srv
        BY <1>c, <2>1
      <4> QED
        BY <1>c, <2>5, <4>1 DEF PlainDistributors, SubsAt
    <3>5. (\A s, t : ~OwesShip(Top, s, t)) /\ \A x : ~OwesRow(Top, x)
      BY <2>1 DEF OwesShip, OwesRow
    <3>6. \A s \in Server : \A x \in SubsAt(s) : OwesSub(Top, s, x) => OwesSub(f, s, x)
      BY <2>1, <2>3, <3>2 DEF OwesSub, OwesRow
    <3>7. \A x \in SubsAt(d) : visited[d] = "no" => OwesSub(f, d, x)
      BY <3>2, <3>4 DEF OwesSub
    <3>8. Open' = U \cup {f}
      BY <1>b, <3>1, <3>2
    <3>9. f.step = "read" => Dist[f.srv] # None
      BY <2>5, <3>2
    <3>10. visited'[Top.srv] # "no" /\ visited'[f.srv] # "no"
      BY <1>c, <2>1, <3>2, <3>3
    <3> HIDE DEF f, d
    <3>11. Handover(U, {f})
      BY <1>b, <2>1, <3>1, <3>2, <3>3, <3>4, <3>5, <3>6, <3>7, <3>8, <3>9, <3>10 DEF Handover
    <3> QED
      BY <3>11, HandoverKeeps
  <2> QED
    BY <2>4, <2>5
<1>11. CASE FollowShip
  <2>1. PICK t \in Top.todo : Draw(<<Top.srv, t>>, t) /\ Traverse(t, [Top EXCEPT !.todo = @ \ {t}])
    BY <1>11 DEF FollowShip
  <2> DEFINE f == [Top EXCEPT !.todo = @ \ {t}]
             N == IF visited[t] = "no" THEN {f, Frame(t)} ELSE {f}
  <2>2. /\ t \in Server /\ f \in FrameSet /\ f.srv = Top.srv /\ f.step = "ship"
        /\ f.todo = Top.todo \ {t} /\ Top.step = "ship"
    BY <1>11, <1>a, <2>1, TopType DEF FollowShip, FrameSet
  <2>3. UNCHANGED <<start, live, visited>> /\ drawn' = drawn \cup {<<Top.srv, t>>}
    BY <1>11, <2>1 DEF FollowShip, Draw, env, hist
  <2>4. Open' = U \cup N
    BY <1>b, <2>1, <2>2
  <2>5. Frame(t).srv = t /\ Frame(t).step = "connect"
    BY DEF Frame
  <2>6. Known(t)'
    BY <2>3, <2>4, <2>5 DEF Known
  <2>7. \A s : s = Top.srv => Shown(<<s, t>>, t)'
    BY <2>3, <2>6 DEF Shown
  <2> HIDE DEF f
  <2>8. \A s, u : OwesShip(Top, s, u) => s = Top.srv /\ (u = t \/ OwesShip(f, s, u))
    BY <2>2 DEF OwesShip
  <2>9. (\A s, x : OwesSub(Top, s, x) => OwesSub(f, s, x)) /\ \A x : ~OwesRow(Top, x)
    BY <2>2 DEF OwesSub, OwesRow
  <2>10. f \in N /\ \A g \in N : g = f \/ g = Frame(t)
    OBVIOUS
  <2> HIDE DEF N
  <2>11. Handover(U, N)
    BY <1>b, <1>c, <2>2, <2>3, <2>4, <2>5, <2>7, <2>8, <2>9, <2>10 DEF Handover
  <2> QED
    BY <2>11, HandoverKeeps
<1>12. CASE FollowSub
  <2>1. PICK y \in Top.todo : Draw(y, To[y]) /\ Traverse(To[y], [Top EXCEPT !.todo = @ \ {y}])
    BY <1>12 DEF FollowSub
  <2> DEFINE t == To[y]
             f == [Top EXCEPT !.todo = @ \ {y}]
             N == IF visited[t] = "no" THEN {f, Frame(t)} ELSE {f}
  <2>2. /\ t \in Server /\ f \in FrameSet /\ f.srv = Top.srv /\ f.step = "group"
        /\ f.todo = Top.todo \ {y} /\ Top.step = "group"
    BY <1>12, <1>a, <2>1, TopType, LineageAssumption DEF FollowSub, FrameSet
  <2>3. UNCHANGED <<start, live, visited>> /\ drawn' = drawn \cup {y}
    BY <1>12, <2>1 DEF FollowSub, Draw, env, hist
  <2>4. Open' = U \cup N
    BY <1>b, <2>1, <2>2
  <2>5. Frame(t).srv = t /\ Frame(t).step = "connect"
    BY DEF Frame
  <2>6. Known(t)'
    BY <2>3, <2>4, <2>5 DEF Known
  <2>7. Shown(y, t)'
    BY <2>3, <2>6 DEF Shown
  <2> HIDE DEF f
  <2>8. \A x : OwesRow(Top, x) => x = y \/ OwesRow(f, x)
    BY <2>2 DEF OwesRow
  <2>9. (\A s, u : ~OwesShip(Top, s, u)) /\ \A s, x : OwesSub(Top, s, x) => x = y \/ OwesSub(f, s, x)
    BY <2>2 DEF OwesShip, OwesSub, OwesRow
  <2>10. f \in N /\ \A g \in N : g = f \/ g = Frame(t)
    OBVIOUS
  <2>12. Shown(y, To[y])'
    BY <2>7
  <2> HIDE DEF N, t
  <2>11. Handover(U, N)
    BY <1>b, <1>c, <2>2, <2>3, <2>4, <2>5, <2>12, <2>8, <2>9, <2>10 DEF Handover
  <2> QED
    BY <2>11, HandoverKeeps
<1> QED
  BY <1>1, <1>2, <1>3, <1>4, <1>5, <1>6, <1>7, <1>8, <1>9, <1>10, <1>11, <1>12 DEF Script

\* Every step keeps OwedInv.
LEMMA OwedInvStep == TypeOK /\ FramesInv /\ OwedInv /\ [Next]_vars => OwedInv'
<1> SUFFICES ASSUME TypeOK, FramesInv, OwedInv, [Next]_vars, calm'
             PROVE  AllUp' /\ (PlainDistributors => Owed')
  BY DEF OwedInv, PlainDistributors
<1>1. CASE UNCHANGED vars
  BY <1>1 DEF vars, env, hist, OwedInv, AllUp, Owed, OpenOK, ShipsOwed, SubsOwed, DroppedOwed, Open,
     SubsAt, Shown, Known
<1>2. CASE StartRun
  <2>1. AllUp'
    BY <1>2 DEF StartRun, AllUp, env
  <2>2. Open' = {Frame(Root)}
    <3>1. stack' = <<Frame(Root)>>
      BY <1>2 DEF StartRun
    <3>2. DOMAIN stack' = {1} /\ stack'[1] = Frame(Root)
      BY <3>1
    <3> QED
      BY <3>2 DEF Open
  <2>3. Frame(Root).step = "connect"
    BY DEF Frame
  <2> QED
    BY <1>2, <2>1, <2>2, <2>3 DEF StartRun, Owed, OpenOK, ShipsOwed, SubsOwed, DroppedOwed, env
<1>3. CASE Next /\ ~StartRun
  <2>1. AllUp' /\ calm /\ AllUp
    BY <1>3, CalmStep DEF OwedInv
  <2>2. CASE Script
    BY <1>3, <2>1, <2>2, OwedStep DEF OwedInv
  <2>3. CASE ~Script
    <3>1. UNCHANGED <<stack, visited, drawn, start, live>>
      BY <1>3, <2>1, <2>3 DEF Next, Crash, Down, Back, StatusChange, hist
    <3> QED
      BY <2>1, <3>1 DEF OwedInv, Owed, OpenOK, ShipsOwed, SubsOwed, DroppedOwed, Open, SubsAt, Shown, Known
  <2> QED
    BY <2>2, <2>3
<1> QED
  BY <1>1, <1>2, <1>3

\* Before the first run nothing is visited.
LEMMA OwedInit == Init => OwedInv
<1> SUFFICES ASSUME Init PROVE AllUp /\ Owed
  BY DEF OwedInv
<1>1. Open = {}
  BY DEF Init, Open
<1> QED
  BY <1>1 DEF Init, AllUp, Owed, OpenOK, ShipsOwed, SubsOwed, DroppedOwed

\* When nothing is owed any more, the drawing is complete.
LEMMA NothingOwed == TypeOK /\ OwedInv => Complete
<1> SUFFICES ASSUME TypeOK, Owed, stack = <<>>, visited[Root] # "no"
             PROVE  /\ {e \in Shipping : e[1] \in Reached} \subseteq drawn
                    /\ UNION {SubsAt(s) : s \in Reached} \subseteq drawn
  BY DEF OwedInv, Complete
<1> DEFINE V == {s \in Server : visited[s] # "no"}
<1>1. Open = {}
  BY DEF Open
<1>2. \A s \in V : \A t \in Ship[s] : <<s, t>> \in drawn /\ t \in V
  BY <1>1, LineageAssumption DEF Owed, ShipsOwed, Shown, Known
<1>3. \A s \in V : \A x \in SubsAt(s) : x \in drawn /\ To[x] \in V
  BY <1>1, LineageAssumption DEF Owed, SubsOwed, Shown, Known, SubsAt, TypeOK
<1>4. Root \in V /\ Closed(V) /\ V \in SUBSET Server
  BY <1>2, <1>3, LineageAssumption DEF Closed
<1> HIDE DEF V
<1>5. Reached \subseteq V
  BY <1>4 DEF Reached
<1>6. ASSUME NEW e \in Shipping, e[1] \in Reached PROVE e \in drawn
  <2>1. e = <<e[1], e[2]>> /\ e[2] \in Ship[e[1]]
    BY DEF Shipping
  <2> QED
    BY <1>2, <1>5, <1>6, <2>1
<1>7. ASSUME NEW s \in Reached, NEW x \in SubsAt(s) PROVE x \in drawn
  BY <1>3, <1>5
<1> QED
  BY <1>6, <1>7

\* A run that nothing disturbs draws every log shipping and every subscription
\* of the servers that can be reached from the first one, whatever the circles
\* of the topology and whatever it drops on its way.
THEOREM LineageComplete == Spec => []Complete
<1>1. Spec => []OwedInv
  BY OwedInit, OwedInvStep, TypeCorrect, Invariance, PTL DEF Spec, IInv
<1> QED
  BY <1>1, NothingOwed, TypeCorrect, PTL

(***************************************************************************)
(* A run ends: what is left of it dwindles.                                *)
(***************************************************************************)
\* The calls that have not returned are of different servers, which are visited
\* unless they are about to be; and the row being dropped is one of the loop's.
StackInv ==
  /\ \A i, j \in 1 .. Len(stack) : stack[i].srv = stack[j].srv => i = j
  /\ \A i \in 1 .. Len(stack) :
       /\ stack[i].step # "connect" => visited[stack[i].srv] # "no"
       /\ stack[i].cur \subseteq stack[i].todo
       /\ \A x, y \in stack[i].cur : x = y

\* Who has been visited stays so, and the server in hand is visited.
Onward == visited'[Top.srv] # "no" /\ \A s \in Server : visited[s] # "no" => visited'[s] # "no"

\* A frame the script may put in the place of the top one.
Next1(f) ==
  /\ f \in FrameSet /\ f.srv = Top.srv /\ f.step # "connect"
  /\ f.cur \subseteq f.todo /\ \A x, y \in f.cur : x = y

\* What a step does to the stack: the next stage of the call,
NextStage == \E f : Next1(f) /\ SetTop(f) /\ Onward /\ Rank[Top.step] < Rank[f.step]

\* the next row of its loop,
NextRow ==
  \E f : /\ Next1(f) /\ SetTop(f) /\ UNCHANGED visited
         /\ Top.step # "connect" /\ Rank[f.step] = Rank[Top.step]
         /\ f.todo \subseteq Top.todo /\ \A x \in f.todo : x \notin f.cur => x \notin Top.cur
         /\ \E x \in Top.todo : x \notin f.todo \/ (x \notin Top.cur /\ x \in f.cur)

\* the call for the next row,
NextCall ==
  \E f : \E t \in Server :
    /\ Next1(f) /\ Traverse(t, f) /\ UNCHANGED visited
    /\ f.step = Top.step /\ f.cur = {} /\ Top.cur = {}
    /\ \E x \in Top.todo : f.todo = Top.todo \ {x}

\* or its end.
CallEnds == Return /\ Onward

\* The ranks of the stages.
LEMMA Ranks ==
  /\ Rank["connect"] = 1 /\ Rank["ships"] = 2 /\ Rank["ship"] = 3 /\ Rank["distributor"] = 4
  /\ Rank["read"] = 5 /\ Rank["drop"] = 6 /\ Rank["clean"] = 6 /\ Rank["group"] = 7
  /\ \A k \in Stages : Rank[k] \in 1 .. 7
BY DEF Rank, Stages

\* Every step of a run is of one of these kinds.
LEMMA ScriptMoves ==
  ASSUME TypeOK, FramesInv, StackInv, Script, stack # <<>>
  PROVE  NextStage \/ NextRow \/ NextCall \/ CallEnds
<1> USE Ranks DEF Stages
<1>1. /\ Top \in FrameSet /\ Top.srv \in Server
      /\ Top.step # "connect" => visited[Top.srv] # "no"
      /\ Top.cur \subseteq Top.todo /\ \A x, y \in Top.cur : x = y
  <2>1. PICK n \in Nat : n = Len(stack) /\ n # 0
    BY StackType, TopFacts
  <2> QED
    BY <2>1, TopType DEF StackInv, Top
<1>2. Top.cur # {} <=> Top.step = "clean"
  BY TopType
<1>3. CASE Enter
  <2> DEFINE f == [Top EXCEPT !.step = "ships"]
  <2>1. f \in FrameSet /\ f.srv = Top.srv /\ f.step = "ships" /\ f.cur = {} /\ Top.step = "connect"
    BY <1>1, <1>2, <1>3 DEF Enter, FrameSet
  <2>2. Onward
    BY <1>1, <1>3 DEF Enter, Onward, TypeOK
  <2>3. SetTop(f) \/ Return
    BY <1>3 DEF Enter
  <2> HIDE DEF f
  <2> QED
    BY <2>1, <2>2, <2>3 DEF NextStage, CallEnds, Next1
<1>a. ASSUME NEW f \in FrameSet, SetTop(f), UNCHANGED visited, f.srv = Top.srv, f.cur = {},
             Top.step # "connect", f.step # "connect", Rank[Top.step] < Rank[f.step]
      PROVE  NextStage
  BY <1>1, <1>a DEF NextStage, Next1, Onward
<1>4. CASE ReadShips
  <2>1. PICK ok \in BOOLEAN :
          SetTop([Top EXCEPT !.step = "ship", !.todo = IF ok THEN Ship[Top.srv] ELSE {}])
    BY <1>4 DEF ReadShips
  <2> DEFINE f == [Top EXCEPT !.step = "ship", !.todo = IF ok THEN Ship[Top.srv] ELSE {}]
  <2>2. f \in FrameSet /\ f.srv = Top.srv /\ f.step = "ship" /\ f.cur = {} /\ Top.step = "ships"
    BY <1>1, <1>2, <1>4, TopType, LineageAssumption DEF ReadShips, FrameSet
  <2>3. SetTop(f) /\ UNCHANGED visited
    BY <1>4, <2>1 DEF ReadShips
  <2> HIDE DEF f
  <2> QED
    BY <1>a, <2>2, <2>3
<1>5. CASE ShipsDone
  <2> DEFINE f == [Top EXCEPT !.step = "distributor"]
  <2>1. f \in FrameSet /\ f.srv = Top.srv /\ f.step = "distributor" /\ f.cur = {} /\ Top.step = "ship"
    BY <1>1, <1>2, <1>5, TopType DEF ShipsDone, FrameSet
  <2>2. SetTop(f) /\ UNCHANGED visited
    BY <1>5 DEF ShipsDone
  <2> HIDE DEF f
  <2> QED
    BY <1>a, <2>1, <2>2
<1>6. CASE DropsDone
  <2> DEFINE f == [Top EXCEPT !.step = "group", !.todo = Top.df]
  <2>1. f \in FrameSet /\ f.srv = Top.srv /\ f.step = "group" /\ f.cur = {} /\ Top.step = "drop"
    BY <1>1, <1>2, <1>6, TopType DEF DropsDone, FrameSet
  <2>2. SetTop(f) /\ UNCHANGED visited
    BY <1>6 DEF DropsDone
  <2> HIDE DEF f
  <2> QED
    BY <1>a, <2>1, <2>2
<1>7. CASE FindDistributor
  <2> DEFINE f == [Top EXCEPT !.step = "read"]
  <2>1. /\ f \in FrameSet /\ f.srv = Top.srv /\ f.step = "read" /\ f.cur = {}
        /\ Top.step = "distributor"
    BY <1>1, <1>2, <1>7, TopType DEF FindDistributor, FrameSet
  <2>2. SetTop(f) \/ Return
    BY <1>7 DEF FindDistributor
  <2>3. \E d : visited' \in {visited, [visited EXCEPT ![d] = "conn"], [visited EXCEPT ![Top.srv] = "error"]}
    BY <1>7 DEF FindDistributor
  <2>4. Onward
    BY <1>1, <2>1, <2>3 DEF Onward, TypeOK
  <2> HIDE DEF f
  <2> QED
    BY <2>1, <2>2, <2>4 DEF NextStage, CallEnds, Next1
<1>8. CASE ReadSubs
  <2>1. PICK ok \in BOOLEAN :
          LET df == IF ok THEN {x \in live : Dist[Pub[x]] = Dist[Top.srv]} ELSE {} IN
          IF df = {} THEN Return
          ELSE SetTop([Top EXCEPT !.step = "drop", !.df = df, !.todo = df \cap inactive])
    BY <1>8 DEF ReadSubs
  <2> DEFINE df == IF ok THEN {x \in live : Dist[Pub[x]] = Dist[Top.srv]} ELSE {}
             f  == [Top EXCEPT !.step = "drop", !.df = df, !.todo = df \cap inactive]
  <2>2. df \subseteq Sub
    BY DEF TypeOK
  <2>3. UNCHANGED visited /\ Top.step = "read"
    BY <1>8 DEF ReadSubs
  <2>4. Return \/ SetTop(f)
    BY <2>1
  <2> HIDE DEF df
  <2>5. f \in FrameSet /\ f.srv = Top.srv /\ f.step = "drop" /\ f.cur = {}
    BY <1>1, <1>2, <2>2, <2>3, TopType DEF FrameSet
  <2> HIDE DEF f
  <2>6. CASE Return
    BY <1>1, <2>3, <2>6 DEF CallEnds, Onward
  <2>7. CASE SetTop(f)
    BY <1>a, <2>3, <2>5, <2>7
  <2> QED
    BY <2>4, <2>6, <2>7
<1>9. CASE ServerDone
  BY <1>1, <1>9 DEF ServerDone, CallEnds, Onward
\* A row is passed over.
<1>b. ASSUME NEW x, SetTop(PassOver(x)), UNCHANGED visited, Top.step \in {"drop", "clean"},
             x \in Top.todo, Top.cur \subseteq {x}
      PROVE  NextRow
  <2>1. /\ PassOver(x) \in FrameSet /\ PassOver(x).srv = Top.srv /\ PassOver(x).step = "drop"
        /\ PassOver(x).cur = {} /\ PassOver(x).todo = Top.todo \ {x}
    BY <1>1, <1>b, PassOverFacts DEF FrameSet, PassOver
  <2>2. Next1(PassOver(x))
    BY <2>1 DEF Next1
  <2> QED
    BY <1>b, <2>1, <2>2 DEF NextRow
<1>10. CASE NotListed
  BY <1>b, <1>2, <1>10 DEF NotListed
<1>11. CASE Clean
  BY <1>b, <1>1, <1>11 DEF Clean
<1>12. CASE Drop
  <2>1. PICK x \in Top.todo :
          SetTop([Top EXCEPT !.step = "clean", !.cur = {x}]) \/ SetTop(PassOver(x))
    BY <1>12 DEF Drop
  <2>2. Top.step = "drop" /\ UNCHANGED visited /\ Top.cur = {}
    BY <1>2, <1>12 DEF Drop
  <2>3. CASE SetTop([Top EXCEPT !.step = "clean", !.cur = {x}])
    <3> DEFINE f == [Top EXCEPT !.step = "clean", !.cur = {x}]
    <3>1. /\ f \in FrameSet /\ f.srv = Top.srv /\ f.step = "clean" /\ f.cur = {x}
          /\ f.todo = Top.todo
      BY <2>2, TopType DEF FrameSet
    <3>2. SetTop(f)
      BY <2>3
    <3> HIDE DEF f
    <3>3. Next1(f)
      BY <3>1 DEF Next1
    <3> QED
      BY <2>2, <3>1, <3>2, <3>3 DEF NextRow
  <2>4. CASE SetTop(PassOver(x))
    BY <1>b, <2>2, <2>4
  <2> QED
    BY <2>1, <2>3, <2>4
\* The call for a row.
<1>c. ASSUME NEW x \in Top.todo, NEW t \in Server, Traverse(t, [Top EXCEPT !.todo = @ \ {x}]),
             Top.step \in {"ship", "group"}, UNCHANGED visited
      PROVE  NextCall
  <2> DEFINE f == [Top EXCEPT !.todo = @ \ {x}]
  <2>1. /\ f \in FrameSet /\ f.srv = Top.srv /\ f.step = Top.step /\ f.cur = {} /\ Top.cur = {}
        /\ f.todo = Top.todo \ {x}
    BY <1>1, <1>2, <1>c, TopType DEF FrameSet
  <2>2. Traverse(t, f)
    BY <1>c
  <2> HIDE DEF f
  <2>3. Next1(f)
    BY <1>c, <2>1 DEF Next1
  <2> QED
    BY <1>c, <2>1, <2>2, <2>3 DEF NextCall
<1>13. CASE FollowShip
  BY <1>c, <1>13, TopType DEF FollowShip
<1>14. CASE FollowSub
  BY <1>c, <1>14, TopType, LineageAssumption DEF FollowSub
<1> QED
  BY <1>3, <1>4, <1>5, <1>6, <1>7, <1>8, <1>9, <1>10, <1>11, <1>12, <1>13, <1>14
  DEF Script, StartRun

\* Such a step keeps StackInv.
LEMMA StackMoves ==
  ASSUME TypeOK, FramesInv, StackInv, stack # <<>>, NextStage \/ NextRow \/ NextCall \/ CallEnds
  PROVE  StackInv'
<1>1. PICK n \in Nat : n = Len(stack) /\ n # 0
  BY StackType, TopFacts
<1>2. /\ Top = stack[n] /\ Top.srv \in Server
      /\ \A i \in 1 .. n : stack[i] \in FrameSet /\ stack[i].srv \in Server
  BY <1>1, StackType, Elements, TopType DEF Top, FrameSet
<1>3. /\ \A i \in 1 .. n - 1 : stack[i].step # "connect" /\ visited[stack[i].srv] # "no"
      /\ Top.step # "connect" => visited[Top.srv] # "no"
  BY <1>1, <1>2 DEF FramesInv, StackInv
<1>4. ASSUME NEW f, Next1(f), SetTop(f), Onward PROVE StackInv'
  <2>1. Len(stack') = n /\ stack'[n] = f /\ \A i \in 1 .. n - 1 : stack'[i] = stack[i]
    BY <1>1, <1>4, StackType, Replaced DEF SetTop, Next1
  <2>2. \A i, j \in 1 .. n : stack'[i].srv = stack'[j].srv => i = j
    BY <1>1, <1>2, <1>4, <2>1 DEF StackInv, Next1
  <2>3. \A i \in 1 .. n : /\ stack'[i].step # "connect" => visited'[stack'[i].srv] # "no"
                          /\ stack'[i].cur \subseteq stack'[i].todo
                          /\ \A x, y \in stack'[i].cur : x = y
    BY <1>1, <1>2, <1>3, <1>4, <2>1 DEF StackInv, Next1, Onward
  <2> QED
    BY <2>1, <2>2, <2>3 DEF StackInv
<1>5. CASE CallEnds
  <2>1. Len(stack') = n - 1 /\ \A i \in 1 .. n - 1 : stack'[i] = stack[i]
    BY <1>1, <1>5, StackType, Popped DEF Return, CallEnds
  <2> QED
    BY <1>1, <1>2, <1>5, <2>1 DEF StackInv, CallEnds, Onward
<1>6. CASE NextStage
  BY <1>4, <1>6 DEF NextStage
<1>7. CASE NextRow
  BY <1>3, <1>4, <1>7 DEF NextRow, Onward
<1>8. CASE NextCall
  <2>0. PICK f : \E t \in Server : /\ Next1(f) /\ Traverse(t, f) /\ UNCHANGED visited
                                   /\ f.step = Top.step
    BY <1>8 DEF NextCall
  <2>1. PICK t \in Server : /\ Next1(f) /\ Traverse(t, f) /\ UNCHANGED visited
                            /\ f.step = Top.step
    BY <2>0
  <2>2. CASE visited[t] = "no"
    <3>1. /\ Len(stack') = n + 1 /\ stack'[n + 1] = Frame(t) /\ stack'[n] = f
          /\ \A i \in 1 .. n - 1 : stack'[i] = stack[i]
      BY <1>1, <2>1, <2>2, StackType, NewFrame, Pushed DEF Traverse, Next1
    <3>2. Frame(t).srv = t /\ Frame(t).step = "connect" /\ Frame(t).cur = {} /\ Frame(t).todo = {}
      BY DEF Frame
    <3>3. f.srv = Top.srv /\ f.step # "connect" /\ visited[Top.srv] # "no"
      BY <1>3, <2>1 DEF Next1
    <3>4. \A i \in 1 .. n : visited[stack'[i].srv] # "no"
      BY <1>1, <1>3, <3>1, <3>3
    <3>5. \A i, j \in 1 .. n : stack'[i].srv = stack'[j].srv => i = j
      BY <1>1, <1>2, <3>1, <3>3 DEF StackInv
    <3>6. \A i, j \in 1 .. n + 1 : stack'[i].srv = stack'[j].srv => i = j
      BY <2>2, <3>1, <3>2, <3>4, <3>5
    <3>7. \A i \in 1 .. n : stack'[i].cur \subseteq stack'[i].todo /\ \A x, y \in stack'[i].cur : x = y
      BY <1>1, <2>1, <3>1 DEF StackInv, Next1
    <3> QED
      BY <2>1, <3>1, <3>2, <3>4, <3>6, <3>7 DEF StackInv
  <2>3. CASE visited[t] # "no"
    <3>1. Len(stack') = n /\ stack'[n] = f /\ \A i \in 1 .. n - 1 : stack'[i] = stack[i]
      BY <1>1, <2>1, <2>3, StackType, NewFrame, Pushed DEF Traverse, Next1
    <3>2. \A i, j \in 1 .. n : stack'[i].srv = stack'[j].srv => i = j
      BY <1>1, <1>2, <2>1, <3>1 DEF StackInv, Next1
    <3>3. \A i \in 1 .. n : /\ stack'[i].step # "connect" => visited'[stack'[i].srv] # "no"
                            /\ stack'[i].cur \subseteq stack'[i].todo
                            /\ \A x, y \in stack'[i].cur : x = y
      BY <1>1, <1>2, <1>3, <2>1, <3>1 DEF StackInv, Next1
    <3> QED
      BY <3>1, <3>2, <3>3 DEF StackInv
  <2> QED
    BY <2>2, <2>3
<1> QED
  BY <1>5, <1>6, <1>7, <1>8

\* Every step keeps StackInv.
LEMMA StackStep == TypeOK /\ FramesInv /\ StackInv /\ [Next]_vars => StackInv'
<1> SUFFICES ASSUME TypeOK, FramesInv, StackInv, [Next]_vars PROVE StackInv'
  OBVIOUS
<1>1. CASE UNCHANGED <<stack, visited>>
  BY <1>1 DEF StackInv
<1>2. CASE StartRun
  <2>1. stack' = <<Frame(Root)>>
    BY <1>2 DEF StartRun
  <2>2. Len(stack') = 1 /\ stack'[1] = Frame(Root)
    BY <2>1
  <2> QED
    BY <2>2 DEF StackInv, Frame
<1>3. CASE Script /\ ~StartRun
  <2>1. stack # <<>>
    BY <1>3 DEF Script, Enter, ReadShips, FollowShip, ShipsDone, FindDistributor, ReadSubs, Drop,
       NotListed, Clean, DropsDone, FollowSub, ServerDone
  <2> QED
    BY <1>3, <2>1, ScriptMoves, StackMoves
<1>4. CASE Crash
  BY <1>4 DEF Crash, StackInv
<1>5. CASE (\E s \in Server : Down(s) \/ Back(s)) \/ (\E x \in Sub : StatusChange(x))
  BY <1>1, <1>5 DEF Down, Back, StatusChange
<1> QED
  BY <1>1, <1>2, <1>3, <1>4, <1>5 DEF Next, vars

\* Every step of a run leaves less to do.
LEMMA MovesDwindle ==
  ASSUME TypeOK, FramesInv, StackInv, stack # <<>>, NextStage \/ NextRow \/ NextCall \/ CallEnds
  PROVE  \/ Fewer(StagesLeft', StagesLeft)
         \/ StagesLeft' = StagesLeft /\ Fewer(RowsLeft', RowsLeft)
<1>1. PICK U : /\ U \subseteq FrameSet /\ Open = U \cup {Top}
               /\ \A g \in U : \E i \in 1 .. Len(stack) - 1 : g = stack[i]
               /\ \A f \in FrameSet : SetTop(f) => Open' = U \cup {f}
               /\ Return => Open' = U \cup {}
               /\ \A f \in FrameSet, t \in Server : Traverse(t, f) =>
                    Open' = U \cup (IF visited[t] = "no" THEN {f, Frame(t)} ELSE {f})
  BY OpenSteps
<1>2. /\ Top \in FrameSet /\ Top.srv \in Server /\ Top.step \in Stages
      /\ Top.todo \subseteq Server \cup Sub
      /\ Top.step = "connect" => visited[Top.srv] = "no"
      /\ Top.step # "connect" => visited[Top.srv] # "no"
      /\ \A g \in U : g.srv \in Server /\ g.srv # Top.srv /\ g.step # "connect"
                      /\ visited[g.srv] # "no"
  <2>1. PICK n \in Nat : n = Len(stack) /\ n # 0
    BY StackType, TopFacts
  <2>2. Top = stack[n] /\ Top \in FrameSet /\ Top.srv \in Server /\ Top.todo \subseteq Server \cup Sub
    BY <2>1, TopType DEF Top
  <2>3. Top.step \in Stages
    BY <2>2 DEF FrameSet
  <2>4. \A i \in 1 .. n - 1 : /\ stack[i].srv # Top.srv /\ stack[i].step # "connect"
                              /\ visited[stack[i].srv] # "no"
    BY <2>1, <2>2 DEF FramesInv, StackInv
  <2>5. /\ Top.step = "connect" => visited[Top.srv] = "no"
        /\ Top.step # "connect" => visited[Top.srv] # "no"
    BY <2>1, <2>2 DEF FramesInv, StackInv
  <2>6. \A g \in U : g.srv \in Server
    BY <1>1 DEF FrameSet
  <2> QED
    BY <1>1, <2>1, <2>2, <2>3, <2>4, <2>5, <2>6
<1>3. ASSUME NEW N, Open' = U \cup N, Onward,
             \A g \in N : g.srv = Top.srv /\ Rank[Top.step] < Rank[g.step] /\ g.step \in Stages
      PROVE  Fewer(StagesLeft', StagesLeft)
  <2>1. PICK r \in 1 .. 7 : r = Rank[Top.step]
    BY <1>2, Ranks
  <2>2. \A g \in N : Rank[g.step] \in 1 .. 7 /\ r < Rank[g.step]
    BY <1>3, <2>1, Ranks
  <2>3. ASSUME NEW s \in Server, NEW k \in 1 .. 7, <<s, k>> \in StagesLeft'
        PROVE  <<s, k>> \in StagesLeft /\ <<s, k>> # <<Top.srv, r>>
    <3>1. visited'[s] = "no" \/ \E f \in Open' : f.srv = s /\ f.step # "connect" /\ Rank[f.step] <= k
      BY <2>3 DEF StagesLeft
    <3>2. CASE visited'[s] = "no"
      BY <1>3, <3>2 DEF Onward, StagesLeft
    <3>3. CASE \E f \in U : f.srv = s /\ f.step # "connect" /\ Rank[f.step] <= k
      BY <1>1, <1>2, <3>3 DEF StagesLeft
    <3>4. ASSUME NEW g \in N, g.srv = s, Rank[g.step] <= k
          PROVE  <<s, k>> \in StagesLeft /\ <<s, k>> # <<Top.srv, r>>
      <4>1. r <= k /\ r # k /\ s = Top.srv
        BY <1>3, <2>2, <3>4
      <4>2. visited[s] = "no" \/ (Top.step # "connect" /\ Rank[Top.step] <= k)
        BY <1>2, <2>1, <4>1
      <4> QED
        BY <1>1, <4>1, <4>2 DEF StagesLeft
    <3> QED
      BY <1>3, <3>1, <3>2, <3>3, <3>4
  <2>4. StagesLeft' \subseteq Server \X (1 .. 7)
    BY DEF StagesLeft
  <2>5. <<Top.srv, r>> \in StagesLeft
    BY <1>1, <1>2, <2>1 DEF StagesLeft
  <2>6. ASSUME NEW e \in StagesLeft' PROVE e \in StagesLeft /\ e # <<Top.srv, r>>
    <3>1. PICK s \in Server, k \in 1 .. 7 : e = <<s, k>>
      BY <2>4
    <3> QED
      BY <2>3, <3>1
  <2> QED
    BY <2>5, <2>6 DEF Fewer
<1>4. CASE NextStage
  <2>1. PICK f : Next1(f) /\ SetTop(f) /\ Onward /\ Rank[Top.step] < Rank[f.step]
    BY <1>4 DEF NextStage
  <2>2. f \in FrameSet /\ f.srv = Top.srv /\ f.step \in Stages
    BY <2>1 DEF Next1, FrameSet
  <2> DEFINE N == {f}
  <2>3. Open' = U \cup N
    BY <1>1, <2>1, <2>2
  <2>4. \A g \in N : g.srv = Top.srv /\ Rank[Top.step] < Rank[g.step] /\ g.step \in Stages
    BY <2>1, <2>2
  <2> HIDE DEF N
  <2> QED
    BY <1>3, <2>1, <2>3, <2>4
<1>5. CASE CallEnds
  <2>1. Open' = U \cup {} /\ Onward
    BY <1>1, <1>5 DEF CallEnds
  <2> QED
    BY <1>3, <2>1
\* A step within a loop.
<1>6. ASSUME NEW f, NEW N, Open' = U \cup {f} \cup N, UNCHANGED visited, Next1(f),
             \A g \in N : g.step = "connect" /\ g.todo = {},
             Top.step # "connect", Rank[f.step] = Rank[Top.step],
             f.todo \subseteq Top.todo, \A x \in f.todo : x \notin f.cur => x \notin Top.cur,
             NEW y \in Top.todo, y \notin f.todo \/ (y \notin Top.cur /\ y \in f.cur)
      PROVE  StagesLeft' = StagesLeft /\ Fewer(RowsLeft', RowsLeft)
  <2>1. f.srv = Top.srv /\ f.step # "connect"
    BY <1>6 DEF Next1
  <2>2. StagesLeft' = StagesLeft
    <3>1. \A s, k : (\E g \in Open' : g.srv = s /\ g.step # "connect" /\ Rank[g.step] <= k)
                      <=> (\E g \in Open : g.srv = s /\ g.step # "connect" /\ Rank[g.step] <= k)
      BY <1>1, <1>6, <2>1
    <3> QED
      BY <1>6, <3>1 DEF StagesLeft
  <2> DEFINE Has(g, e) == g.srv = e[1] /\ e[2] \in g.todo /\ (e[3] = "drop" => e[2] \notin g.cur)
             k == IF y \in f.todo THEN "drop" ELSE IF y \in Top.cur THEN "pass" ELSE "drop"
             d == <<Top.srv, y, k>>
  <2>3. \A e : Has(f, e) => Has(Top, e)
    BY <1>6, <2>1
  <2>4. \A g \in N : \A e : ~Has(g, e)
    BY <1>6
  <2>5. RowsLeft' \subseteq RowsLeft
    BY <1>1, <1>6, <2>3, <2>4 DEF RowsLeft
  <2>6. d[1] = Top.srv /\ d[2] = y /\ d[3] = k
    OBVIOUS
  <2>7. d \in RowsLeft
    BY <1>1, <1>2, <1>6, <2>6 DEF RowsLeft
  <2>8. ~Has(f, d) /\ \A g \in U : ~Has(g, d)
    BY <1>2, <1>6, <2>6
  <2> HIDE DEF d
  <2>9. d \notin RowsLeft'
    <3>1. \A g \in Open' : ~Has(g, d)
      BY <1>6, <2>4, <2>8
    <3> QED
      BY <3>1 DEF RowsLeft
  <2> QED
    BY <2>2, <2>5, <2>7, <2>9 DEF Fewer
<1>7. CASE NextRow
  <2>1. PICK f : /\ Next1(f) /\ SetTop(f) /\ UNCHANGED visited
                 /\ Top.step # "connect" /\ Rank[f.step] = Rank[Top.step]
                 /\ f.todo \subseteq Top.todo /\ \A x \in f.todo : x \notin f.cur => x \notin Top.cur
                 /\ \E x \in Top.todo : x \notin f.todo \/ (x \notin Top.cur /\ x \in f.cur)
    BY <1>7 DEF NextRow
  <2> DEFINE N == {}
  <2>2. Open' = U \cup {f} \cup N
    BY <1>1, <2>1 DEF Next1
  <2>3. \A g \in N : g.step = "connect" /\ g.todo = {}
    OBVIOUS
  <2> HIDE DEF N
  <2> QED
    BY <1>6, <2>1, <2>2, <2>3
<1>8. CASE NextCall
  <2>0. PICK f : \E t \in Server :
          /\ Next1(f) /\ Traverse(t, f) /\ UNCHANGED visited
          /\ f.step = Top.step /\ f.cur = {} /\ Top.cur = {}
          /\ \E x \in Top.todo : f.todo = Top.todo \ {x}
    BY <1>8 DEF NextCall
  <2>1. PICK t \in Server, x \in Top.todo :
          /\ Next1(f) /\ Traverse(t, f) /\ UNCHANGED visited
          /\ f.step = Top.step /\ f.cur = {} /\ Top.cur = {} /\ f.todo = Top.todo \ {x}
    BY <2>0
  <2> DEFINE N == IF visited[t] = "no" THEN {Frame(t)} ELSE {}
  <2>2. Open' = U \cup {f} \cup N
    BY <1>1, <2>1 DEF Next1
  <2>3. \A g \in N : g.step = "connect" /\ g.todo = {}
    BY DEF Frame
  <2>4. Top.step # "connect"
    BY <2>1 DEF Next1
  <2> HIDE DEF N
  <2> QED
    BY <1>6, <2>1, <2>2, <2>3, <2>4
<1> QED
  BY <1>4, <1>5, <1>7, <1>8

\* A run ends, whatever fails in it and in whatever circles the topology runs:
\* every step of the script leaves fewer stages, or fewer rows of the loops in
\* progress, and nothing else adds to them.
THEOREM RunsDwindle == Spec => Dwindles
<1>1. Spec => []StackInv
  <2>1. Init => StackInv
    BY DEF Init, StackInv
  <2> QED
    BY <2>1, StackStep, TypeCorrect, Invariance, PTL DEF Spec, IInv
<1>2. TypeOK /\ FramesInv /\ StackInv /\ [Next]_vars =>
        [stack # <<>> =>
           IF Script THEN \/ Fewer(StagesLeft', StagesLeft)
                          \/ StagesLeft' = StagesLeft /\ Fewer(RowsLeft', RowsLeft)
           ELSE stack' = <<>> \/ UNCHANGED <<StagesLeft, RowsLeft>>]_vars
  <2> SUFFICES ASSUME TypeOK, FramesInv, StackInv, Next, stack # <<>>
               PROVE  IF Script THEN \/ Fewer(StagesLeft', StagesLeft)
                                     \/ StagesLeft' = StagesLeft /\ Fewer(RowsLeft', RowsLeft)
                      ELSE stack' = <<>> \/ UNCHANGED <<StagesLeft, RowsLeft>>
    OBVIOUS
  <2>1. CASE Script
    BY <2>1, ScriptMoves, MovesDwindle
  <2>2. CASE ~Script
    <3>1. stack' = <<>> \/ UNCHANGED <<stack, visited>>
      BY <2>2 DEF Next, Crash, Down, Back, StatusChange
    <3> QED
      BY <2>2, <3>1 DEF StagesLeft, RowsLeft, Open
  <2> QED
    BY <2>1, <2>2
<1> QED
  BY <1>1, <1>2, TypeCorrect, Invariance, PTL DEF Spec, IInv, Dwindles

-----------------------------------------------------------------------------
(***************************************************************************)
(* How many steps a run may take.                                          *)
(***************************************************************************)
\* The rows there may be, the number of which bounds the steps within a stage.
Rows == Server \X (Server \cup Sub) \X {"drop", "pass"}

\* The steps that a run may still take: it may go through all rows for each stage.
StepsLeft == Cardinality(StagesLeft) * (Cardinality(Rows) + 1) + Cardinality(RowsLeft)

\* Every step of the script leaves fewer steps, and nothing else adds to them.
StepsDwindle ==
  [][stack # <<>> => IF Script THEN StepsLeft' < StepsLeft
                     ELSE stack' = <<>> \/ StepsLeft' = StepsLeft]_vars

\* There are finitely many stages and rows.
LEMMA FinitelyMany ==
  ASSUME IsFiniteSet(Server), IsFiniteSet(Sub)
  PROVE  IsFiniteSet(Server \X (1 .. 7)) /\ IsFiniteSet(Rows)
<1>1. IsFiniteSet(1 .. 7) /\ IsFiniteSet({"drop", "pass"})
  <2>1. IsFiniteSet({} \cup {"drop"} \cup {"pass"})
    BY FS_EmptySet, FS_AddElement
  <2>2. {} \cup {"drop"} \cup {"pass"} = {"drop", "pass"}
    OBVIOUS
  <2>3. IsFiniteSet({"drop", "pass"})
    BY <2>1, <2>2, Zenon
  <2>4. 1 \in Int /\ 7 \in Int
    OBVIOUS
  <2>5. IsFiniteSet(1 .. 7)
    BY <2>4, FS_Interval, Zenon
  <2> QED
    BY <2>3, <2>5
<1>2. IsFiniteSet(Server \X (1 .. 7))
  BY <1>1, FS_Product
<1> DEFINE Item == Server \cup Sub
           Pairs == (Server \X Item) \X {"drop", "pass"}
           flat == [p \in Pairs |-> <<p[1][1], p[1][2], p[2]>>]
<1>3. IsFiniteSet(Pairs)
  BY <1>1, FS_Union, FS_Product
<1>4. flat \in Surjection(Pairs, Rows)
  <2>1. flat \in [Pairs -> Rows]
    BY DEF Rows
  <2>2. ASSUME NEW e \in Rows PROVE \E p \in Pairs : flat[p] = e
    <3>1. PICK s \in Server, x \in Item, k \in {"drop", "pass"} : e = <<s, x, k>>
      BY DEF Rows
    <3>2. <<<<s, x>>, k>> \in Pairs
      OBVIOUS
    <3>3. flat[<<<<s, x>>, k>>] = <<s, x, k>>
      BY <3>2
    <3> QED
      BY <3>1, <3>2, <3>3
  <2> HIDE DEF flat, Pairs
  <2> QED
    BY <2>1, <2>2 DEF Surjection
<1>5. IsFiniteSet(Rows)
  BY <1>3, <1>4, FS_Surjection
<1> QED
  BY <1>2, <1>5

\* A smaller finite set has fewer elements.
LEMMA FewerElements ==
  ASSUME NEW S, IsFiniteSet(S), NEW old \in SUBSET S, NEW new, Fewer(new, old)
  PROVE  /\ Cardinality(new) \in Nat /\ Cardinality(old) \in Nat
         /\ Cardinality(new) + 1 <= Cardinality(old)
<1>1. IsFiniteSet(old)
  BY FS_Subset
<1>2. /\ IsFiniteSet(new) /\ Cardinality(new) <= Cardinality(old)
      /\ Cardinality(new) = Cardinality(old) => new = old
  BY <1>1, FS_Subset DEF Fewer
<1>3. Cardinality(new) \in Nat /\ Cardinality(old) \in Nat
  BY <1>1, <1>2, FS_CardinalityType
<1> QED
  BY <1>2, <1>3 DEF Fewer

\* One stage outweighs all rows.
LEMMA Outweighs ==
  ASSUME NEW a \in Nat, NEW b \in Nat, NEW k \in Nat, NEW m \in Nat, NEW n \in Nat,
         b + 1 <= a, n <= k
  PROVE  b * (k + 1) + n < a * (k + 1) + m
<1>1. PICK d \in Nat : a = b + 1 + d
  <2>1. a - b - 1 \in Nat /\ a = b + 1 + (a - b - 1)
    OBVIOUS
  <2> QED
    BY <2>1
<1>2. a * (k + 1) = b * (k + 1) + (k + 1) + d * (k + 1)
  BY <1>1
<1>3. d * (k + 1) \in Nat /\ b * (k + 1) \in Nat
  OBVIOUS
<1> QED
  BY <1>2, <1>3

\* In finite topologies a run takes no more steps than StepsLeft says when it
\* begins, whatever fails in it and in whatever circles the topology runs.
THEOREM RunsAreBounded ==
  ASSUME IsFiniteSet(Server), IsFiniteSet(Sub)
  PROVE  Spec => StepsDwindle /\ [](StepsLeft \in Nat)
<1> DEFINE k == Cardinality(Rows)
           Places == Server \X (1 .. 7)
<1>1. IsFiniteSet(Places) /\ IsFiniteSet(Rows) /\ k \in Nat
  BY FinitelyMany, FS_CardinalityType
<1>2. \A S \in SUBSET Places : Cardinality(S) \in Nat
  BY <1>1, FS_Subset, FS_CardinalityType
<1>3. \A R \in SUBSET Rows : Cardinality(R) \in Nat /\ Cardinality(R) <= k
  BY <1>1, FS_Subset, FS_CardinalityType
<1>4. /\ StagesLeft \subseteq Places /\ RowsLeft \subseteq Rows
      /\ StagesLeft' \subseteq Places /\ RowsLeft' \subseteq Rows
  BY DEF StagesLeft, RowsLeft, Rows
<1> DEFINE a == Cardinality(StagesLeft)
           m == Cardinality(RowsLeft)
<1>5. a \in Nat /\ m \in Nat /\ m <= k /\ a' \in Nat /\ m' \in Nat /\ m' <= k
  BY <1>2, <1>3, <1>4
<1>6. StepsLeft = a * (k + 1) + m /\ StepsLeft' = a' * (k + 1) + m'
  BY DEF StepsLeft, Rows
<1>7. Fewer(StagesLeft', StagesLeft) => a' + 1 <= a
  BY <1>1, <1>4, FewerElements
<1>8. Fewer(RowsLeft', RowsLeft) => m' + 1 <= m
  BY <1>1, <1>4, FewerElements
<1>9. StagesLeft' = StagesLeft => a' = a
  OBVIOUS
<1>10. RowsLeft' = RowsLeft => m' = m
  OBVIOUS
<1> HIDE DEF a, m, k
<1>11. StepsLeft \in Nat
  BY <1>1, <1>5, <1>6
<1>12. Fewer(StagesLeft', StagesLeft) => StepsLeft' < StepsLeft
  BY <1>1, <1>5, <1>6, <1>7, Outweighs
<1>13. StagesLeft' = StagesLeft /\ Fewer(RowsLeft', RowsLeft) => StepsLeft' < StepsLeft
  <2> SUFFICES ASSUME StagesLeft' = StagesLeft, Fewer(RowsLeft', RowsLeft)
               PROVE  StepsLeft' < StepsLeft
    OBVIOUS
  <2>1. a' = a /\ m' + 1 <= m
    BY <1>8, <1>9
  <2>2. StepsLeft' = a * (k + 1) + m'
    BY <1>6, <2>1, Zenon
  <2>3. \A p, i, j \in Nat : i + 1 <= j => p + i < p + j
    OBVIOUS
  <2>4. a * (k + 1) \in Nat
    BY <1>1, <1>5
  <2> QED
    BY <1>5, <1>6, <2>1, <2>2, <2>3, <2>4, Zenon
<1>14. UNCHANGED <<StagesLeft, RowsLeft>> => StepsLeft' = StepsLeft
  BY <1>6, <1>9, <1>10
<1>15. [stack # <<>> =>
          IF Script THEN \/ Fewer(StagesLeft', StagesLeft)
                         \/ StagesLeft' = StagesLeft /\ Fewer(RowsLeft', RowsLeft)
          ELSE stack' = <<>> \/ UNCHANGED <<StagesLeft, RowsLeft>>]_vars
       => [stack # <<>> => IF Script THEN StepsLeft' < StepsLeft
                           ELSE stack' = <<>> \/ StepsLeft' = StepsLeft]_vars
  BY <1>12, <1>13, <1>14
<1> QED
  BY <1>11, <1>15, RunsDwindle, PTL DEF Dwindles, StepsDwindle
=============================================================================
