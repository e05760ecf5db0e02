------------------------- MODULE ArchiveMoveProofs -------------------------
(***************************************************************************)
(* The archive scripts implement the abstract life of a row (RowLifecycle),*)
(* for any number of rows, partitions and failures.                        *)
(***************************************************************************)
EXTENDS ArchiveMove, TLAPS

\* A disturbance keeps the count within its bound.
LEMMA EventsType ==
  ASSUME TypeOK, Disturb
  PROVE  events' \in 0 .. MaxEvents
BY ArchiveMoveAssumption DEF Disturb, TypeOK

(***************************************************************************)
(* Types.                                                                  *)
(***************************************************************************)

\* The scripts begin well typed.
LEMMA InitType == Init => TypeOK
BY ArchiveMoveAssumption DEF Init, TypeOK, Part, Script, RowsOf

\* A run that ends forgets its own work and leaves the other script's alone.
LEMMA ExitType ==
  ASSUME TypeOK, NEW k \in Script, Exit(k)
  PROVE  /\ pc' \in [Script -> {"idle", "next", "copying", "drop"}]
         /\ todo' \in [Script -> SUBSET Part]
         /\ cur' \in [Script -> Part \cup {0}] /\ snap' \in [Script -> SUBSET Row]
         /\ exits' \in Nat
         /\ pc'[k] = "idle" /\ todo'[k] = {} /\ cur'[k] = 0 /\ snap'[k] = {}
         /\ \A j \in Script \ {k} : /\ pc'[j] = pc[j] /\ todo'[j] = todo[j]
                                    /\ cur'[j] = cur[j] /\ snap'[j] = snap[j]
BY DEF Exit, TypeOK

\* What a copy stores is well typed.
LEMMA StoreType ==
  ASSUME TypeOK, NEW k \in Script, NEW R \in SUBSET snap[k], pc[k] = "copying", Store(k, R)
  PROVE  /\ gp' \in [Row -> Nat] /\ dump' \in [Part -> SUBSET Row]
         /\ \A p \in Part : dump'[p] \subseteq RowsOf(p)
<1>1. cur[k] \in Part /\ R \subseteq RowsOf(cur[k]) /\ R \subseteq Row
  BY DEF TypeOK
<1>2. CASE k = "gp"
  BY <1>1, <1>2 DEF Store, TypeOK
<1>3. CASE k # "gp"
  BY <1>1, <1>3 DEF Store, TypeOK
<1> QED
  BY <1>2, <1>3

\* Every step keeps the types.
LEMMA TypeStep == TypeOK /\ [Next]_vars => TypeOK'
<1> SUFFICES ASSUME TypeOK, [Next]_vars PROVE TypeOK'
  OBVIOUS
<1>0. CASE UNCHANGED vars
  BY <1>0 DEF vars, base, run, TypeOK
<1>1. ASSUME NEW r \in Row, Insert(r) PROVE TypeOK'
  BY <1>1 DEF Insert, TypeOK, run
<1>2. ASSUME NEW p \in Part, Expire(p) PROVE TypeOK'
  BY <1>2 DEF Expire, TypeOK, run
<1>3. ASSUME NEW k \in Script, Start(k) PROVE TypeOK'
  BY <1>3 DEF Start, TypeOK, base
<1>4. ASSUME NEW k \in Script, NEW p \in Part, Take(k, p) PROVE TypeOK'
  <2>1. dump' \in [Part -> SUBSET Row] /\ \A q \in Part : dump'[q] \subseteq RowsOf(q)
    BY <1>4 DEF Take, TypeOK
  <2>2. CASE p \in parts
    <3>1. /\ pc' = [pc EXCEPT ![k] = "copying"] /\ todo' = [todo EXCEPT ![k] = @ \ {p}]
          /\ cur' = [cur EXCEPT ![k] = p] /\ snap' = [snap EXCEPT ![k] = src \cap RowsOf(p)]
          /\ UNCHANGED <<base, events, gp, exits>>
      BY <1>4, <2>2 DEF Take
    <3> QED
      BY <2>1, <3>1 DEF TypeOK, base
  <2>3. CASE p \notin parts
    BY <1>4, <2>1, <2>3, ExitType DEF Take, TypeOK, base
  <2> QED
    BY <2>2, <2>3
<1>5. ASSUME NEW k \in Script, CopyDone(k) PROVE TypeOK'
  <2>1. /\ gp' \in [Row -> Nat] /\ dump' \in [Part -> SUBSET Row]
        /\ \A p \in Part : dump'[p] \subseteq RowsOf(p)
    BY <1>5, StoreType DEF CopyDone
  <2> QED
    BY <1>5, <2>1 DEF CopyDone, TypeOK, base
<1>6. ASSUME NEW k \in Script, Drop(k) PROVE TypeOK'
  BY <1>6 DEF Drop, TypeOK, RowsOf
<1>7. ASSUME NEW k \in Script, End(k) PROVE TypeOK'
  BY <1>7 DEF End, TypeOK
<1>8. ASSUME NEW k \in Script, CopyFails(k) PROVE TypeOK'
  <2>1. /\ gp' \in [Row -> Nat] /\ dump' \in [Part -> SUBSET Row]
        /\ \A p \in Part : dump'[p] \subseteq RowsOf(p)
    BY <1>8, StoreType DEF CopyFails
  <2> QED
    BY <1>8, <2>1, ExitType, EventsType DEF CopyFails, TypeOK, base
<1>9. ASSUME NEW k \in Script, Crash(k) PROVE TypeOK'
  BY <1>9, ExitType, EventsType DEF Crash, TypeOK, base
<1> QED
  BY <1>0, <1>1, <1>2, <1>3, <1>4, <1>5, <1>6, <1>7, <1>8, <1>9 DEF Next, Step

\* The scripts and their data are well typed.
THEOREM TypeCorrect == Spec => []TypeOK
BY InitType, TypeStep, PTL DEF Spec

(***************************************************************************)
(* The inductive invariant.                                                *)
(***************************************************************************)
\* A script that does not run has no work.
Idle == \A k \in Script : pc[k] = "idle" => todo[k] = {}

\* The partitions end in the order of their ranges, there are no gaps but those
\* that the scripts have made, and the scripts touch expired partitions only.
Expiry ==
  /\ \A p \in expired : \A q \in Part : q < p => q \in expired
  /\ \A p \in parts : \A q \in Part : q < p => q \in parts \cup expired
  /\ \A k \in Script : todo[k] \subseteq expired /\ (cur[k] # 0 => cur[k] \in expired)
  /\ \A p \in Part : dump[p] # {} => p \in expired

\* The partitions from one that expired during the run of archive2file.sh on are
\* not part of the run and have no dump: the one it creates in the end has none,
\* even if that partition was there before and archive2gp.sh has dropped it.
Missed ==
  pc["file"] # "idle" =>
    \A q \in (parts \cap expired) \ (todo["file"] \cup {cur["file"]}) :
      \A p \in Part : p >= q => dump[p] = {} /\ p \notin todo["file"] /\ p # cur["file"]

\* Nobody drops the partition that a script reads.
Reading == \A k \in Script : pc[k] = "copying" => cur[k] \in parts /\ snap[k] \subseteq src

\* The dump of a partition that is still there holds nothing that is not in it.
FreshDump == \A p \in parts : dump[p] \subseteq src

\* What is about to be dropped has been stored.
Stored ==
  /\ pc["gp"] = "drop" => \A r \in snap["gp"] : gp[r] > 0
  /\ pc["file"] = "drop" => snap["file"] \subseteq dump[cur["file"]]

\* A row that can still be copied has been copied by runs that ended half-way,
\* except by the run in progress.
Copies ==
  \A r \in Row :
    /\ r \notin arrived => gp[r] = 0
    /\ r \in src /\ ~(pc["gp"] = "drop" /\ cur["gp"] = PartOf[r]) => gp[r] <= exits
    /\ gp[r] <= 1 + exits

IInv == Idle /\ Expiry /\ Missed /\ Reading /\ FreshDump /\ Stored /\ Copies

\* The invariant holds before the first run.
LEMMA InitInv == Init => IInv
BY ArchiveMoveAssumption DEF Init, IInv, Idle, Expiry, Missed, Reading, FreshDump, Stored,
   Copies, Part, Script

\* How a run that ends leaves the two scripts.
LEMMA ExitInv ==
  ASSUME TypeOK, Idle, Expiry, Missed, NEW k \in Script, Exit(k)
  PROVE  /\ Idle'
         /\ \A j \in Script : todo'[j] \subseteq expired /\ (cur'[j] # 0 => cur'[j] \in expired)
         /\ \A j \in Script : pc'[j] # "idle" => /\ j # k /\ pc'[j] = pc[j]
                                                 /\ todo'[j] = todo[j]
                                                 /\ cur'[j] = cur[j] /\ snap'[j] = snap[j]
BY ExitType DEF Idle, Expiry, Script

\* A row that arrives, perhaps behind a script's back, has no copy yet.
LEMMA InsertInv ==
  ASSUME TypeOK, IInv, NEW r \in Row, Insert(r)
  PROVE  IInv'
<1>1. /\ arrived' = arrived \cup {r} /\ src' = src \cup {r} /\ r \notin arrived
      /\ UNCHANGED <<parts, expired, events, gp, dump, pc, todo, cur, snap, exits>>
  BY DEF Insert, run
<1>2. (Idle /\ Expiry /\ Missed /\ Reading /\ FreshDump /\ Stored)'
  BY <1>1 DEF IInv, Idle, Expiry, Missed, Reading, FreshDump, Stored
<1>3. Copies'
  BY <1>1 DEF IInv, Copies, TypeOK
<1> QED
  BY <1>2, <1>3 DEF IInv

\* Partitions expire in the order of their ranges, also while a script runs.
LEMMA ExpireInv ==
  ASSUME TypeOK, IInv, NEW p \in Part, Expire(p)
  PROVE  IInv'
<1>1. /\ expired' = expired \cup {p} /\ p \in parts \ expired
      /\ \A q \in parts : q < p => q \in expired
      /\ UNCHANGED <<parts, arrived, src, events, gp, dump, pc, todo, cur, snap, exits>>
  BY DEF Expire, run
<1>2. (Idle /\ Reading /\ FreshDump /\ Stored /\ Copies)'
  BY <1>1 DEF IInv, Idle, Reading, FreshDump, Stored, Copies
<1>3. Expiry'
  BY <1>1 DEF IInv, Expiry, TypeOK
<1>4. Missed'
  <2>1. \A q \in Part : q >= p => q \notin expired
    BY <1>1 DEF IInv, Expiry, Part
  <2>2. \A q \in Part : q \notin expired => dump[q] = {} /\ q \notin todo["file"] /\ q # cur["file"]
    BY ArchiveMoveAssumption DEF IInv, Expiry, Part, Script
  <2> QED
    BY <1>1, <2>1, <2>2 DEF IInv, Missed
<1> QED
  BY <1>2, <1>3, <1>4 DEF IInv

\* A run begins with the partitions that have expired by then.
LEMMA StartInv ==
  ASSUME TypeOK, IInv, NEW k \in Script, Start(k)
  PROVE  IInv'
<1>1. /\ pc' = [pc EXCEPT ![k] = "next"] /\ todo' = [todo EXCEPT ![k] = parts \cap expired]
      /\ pc[k] = "idle"
      /\ UNCHANGED <<parts, expired, arrived, src, events, gp, dump, cur, snap, exits>>
  BY DEF Start, base
<1>2. (Idle /\ Expiry)'
  BY <1>1 DEF IInv, Idle, Expiry, TypeOK
<1>3. Missed'
  BY <1>1 DEF IInv, Missed, TypeOK, Script
<1>4. (Reading /\ FreshDump /\ Stored /\ Copies)'
  BY <1>1 DEF IInv, Reading, FreshDump, Stored, Copies, TypeOK, Script
<1> QED
  BY <1>2, <1>3, <1>4 DEF IInv

\* A script takes a partition, or fails because the other one has dropped it;
\* its dump has been emptied either way.
LEMMA TakeInv ==
  ASSUME TypeOK, IInv, NEW k \in Script, NEW p \in Part, Take(k, p)
  PROVE  IInv'
<1>1. /\ pc[k] = "next" /\ p \in todo[k]
      /\ UNCHANGED <<parts, expired, arrived, src, events, gp>>
      /\ dump' \in [Part -> SUBSET Row]
      /\ \A q \in Part : dump'[q] = IF k = "file" /\ q = p THEN {} ELSE dump[q]
  BY DEF Take, base, TypeOK
<1>2. FreshDump'
  BY <1>1 DEF IInv, FreshDump, TypeOK
<1>3. CASE p \in parts
  <2>1. /\ pc' = [pc EXCEPT ![k] = "copying"] /\ todo' = [todo EXCEPT ![k] = @ \ {p}]
        /\ cur' = [cur EXCEPT ![k] = p] /\ snap' = [snap EXCEPT ![k] = src \cap RowsOf(p)]
        /\ exits' = exits
    BY <1>3 DEF Take
  <2>2. Idle'
    BY <1>1, <2>1 DEF IInv, Idle, TypeOK
  <2>3. Expiry'
    BY <1>1, <2>1 DEF IInv, Expiry, TypeOK
  <2>4. Missed'
    <3>1. CASE k = "file"
      <4>1. todo'["file"] \cup {cur'["file"]} = todo["file"] \cup {p}
        BY <1>1, <2>1, <3>1 DEF TypeOK
      <4>2. \A q \in Part : q \notin todo["file"] => q \notin todo'["file"] /\ q # cur'["file"]
        BY <1>1, <2>1, <3>1 DEF TypeOK
      <4>3. cur["file"] = 0
        BY <1>1, <3>1 DEF TypeOK
      <4>4. \A q \in parts \cap expired : q # 0
        BY ArchiveMoveAssumption DEF TypeOK, Part
      <4> QED
        BY <1>1, <3>1, <4>1, <4>2, <4>3, <4>4 DEF IInv, Missed
    <3>2. CASE k # "file"
      BY <1>1, <2>1, <3>2 DEF IInv, Missed, TypeOK, Script
    <3> QED
      BY <3>1, <3>2
  <2>5. Reading'
    BY <1>1, <1>3, <2>1 DEF IInv, Reading, TypeOK
  <2>6. Stored'
    <3>1. pc'["file"] = "drop" => k # "file" /\ pc["file"] = "drop"
      BY <1>1, <2>1 DEF TypeOK, Script
    <3>2. pc'["gp"] = "drop" => k # "gp" /\ pc["gp"] = "drop"
      BY <1>1, <2>1 DEF TypeOK, Script
    <3>3. \A j \in Script : j # k => snap'[j] = snap[j] /\ cur'[j] = cur[j]
      BY <2>1 DEF TypeOK
    <3>4. pc["file"] = "drop" => cur["file"] \in Part
      BY DEF TypeOK, Script
    <3> QED
      BY <1>1, <3>1, <3>2, <3>3, <3>4 DEF IInv, Stored, Script
  <2>7. Copies'
    BY <1>1, <2>1 DEF IInv, Copies, TypeOK, Script
  <2> QED
    BY <1>2, <2>2, <2>3, <2>4, <2>5, <2>6, <2>7 DEF IInv
<1>4. CASE p \notin parts
  <2>1. Exit(k)
    BY <1>4 DEF Take
  <2>2. /\ Idle'
        /\ \A j \in Script : todo'[j] \subseteq expired /\ (cur'[j] # 0 => cur'[j] \in expired)
        /\ \A j \in Script : pc'[j] # "idle" => /\ j # k /\ pc'[j] = pc[j]
                                                /\ todo'[j] = todo[j]
                                                /\ cur'[j] = cur[j] /\ snap'[j] = snap[j]
    BY <2>1, ExitInv DEF IInv
  <2>3. Expiry'
    BY <1>1, <2>2 DEF IInv, Expiry, TypeOK
  <2>4. (Missed /\ Reading)'
    BY <1>1, <2>2 DEF IInv, Missed, Reading, Script
  <2>5. Stored'
    <3>1. pc["file"] = "drop" => cur["file"] \in Part
      BY DEF TypeOK, Script
    <3> QED
      BY <1>1, <2>2, <3>1 DEF IInv, Stored, Script
  <2>6. Copies'
    <3>1. exits' \in Nat /\ exits' >= exits /\ (pc["gp"] = "drop" => pc'["gp"] = "drop" /\ cur'["gp"] = cur["gp"])
      BY <1>1, <2>1 DEF Exit, TypeOK, Script
    <3> QED
      BY <1>1, <3>1 DEF IInv, Copies, TypeOK
  <2> QED
    BY <1>2, <2>2, <2>3, <2>4, <2>5, <2>6 DEF IInv
<1> QED
  BY <1>3, <1>4

\* What a copy, whole or not, may do to the destinations.
LEMMA StoreInv ==
  ASSUME TypeOK, IInv, NEW k \in Script, pc[k] = "copying", NEW R \in SUBSET snap[k], Store(k, R)
  PROVE  /\ cur[k] \in parts \cap expired /\ cur[k] \in Part /\ R \subseteq src
         /\ \A r \in R : r \in Row /\ PartOf[r] = cur[k]
         /\ gp' \in [Row -> Nat]
         /\ \A r \in Row : gp'[r] = IF k = "gp" /\ r \in R THEN gp[r] + 1 ELSE gp[r]
         /\ dump' \in [Part -> SUBSET Row]
         /\ \A q \in Part : dump'[q] = IF k = "file" /\ q = cur[k] THEN R ELSE dump[q]
         /\ FreshDump' \/ parts' # parts \/ src' # src
<1>1. cur[k] \in Part /\ cur[k] \in parts /\ R \subseteq src /\ R \subseteq RowsOf(cur[k])
  BY DEF IInv, Reading, TypeOK
<1>2. cur[k] \in expired
  BY <1>1, ArchiveMoveAssumption DEF IInv, Expiry, Part
<1>3. \A r \in R : r \in Row /\ PartOf[r] = cur[k]
  BY <1>1 DEF RowsOf
<1>4. gp' \in [Row -> Nat] /\ dump' \in [Part -> SUBSET Row]
  BY StoreType
<1>5. \A r \in Row : gp'[r] = IF k = "gp" /\ r \in R THEN gp[r] + 1 ELSE gp[r]
  BY DEF Store, TypeOK
<1>6. \A q \in Part : dump'[q] = IF k = "file" /\ q = cur[k] THEN R ELSE dump[q]
  BY <1>1 DEF Store, TypeOK, Script
<1>7. FreshDump' \/ parts' # parts \/ src' # src
  BY <1>1, <1>6 DEF IInv, FreshDump, TypeOK
<1> QED
  BY <1>1, <1>2, <1>3, <1>4, <1>5, <1>6, <1>7

\* A whole copy: what is about to be dropped has been stored.
LEMMA CopyDoneInv ==
  ASSUME TypeOK, IInv, NEW k \in Script, CopyDone(k)
  PROVE  IInv'
<1>1. /\ pc[k] = "copying" /\ pc' = [pc EXCEPT ![k] = "drop"] /\ Store(k, snap[k])
      /\ UNCHANGED <<parts, expired, arrived, src, events, todo, cur, snap, exits>>
  BY DEF CopyDone, base
<1>2. /\ cur[k] \in parts \cap expired /\ cur[k] \in Part /\ snap[k] \subseteq src
      /\ \A r \in snap[k] : r \in Row /\ PartOf[r] = cur[k]
      /\ gp' \in [Row -> Nat]
      /\ \A r \in Row : gp'[r] = IF k = "gp" /\ r \in snap[k] THEN gp[r] + 1 ELSE gp[r]
      /\ dump' \in [Part -> SUBSET Row]
      /\ \A q \in Part : dump'[q] = IF k = "file" /\ q = cur[k] THEN snap[k] ELSE dump[q]
      /\ FreshDump'
  BY <1>1, StoreInv
<1>3. (Idle /\ Reading)'
  BY <1>1 DEF IInv, Idle, Reading, TypeOK
<1>4. Expiry'
  BY <1>1, <1>2 DEF IInv, Expiry
<1>5. Missed'
  BY <1>1, <1>2 DEF IInv, Missed, TypeOK, Script
<1>6. Stored'
  <2>1. pc'["gp"] = "drop" => \A r \in snap'["gp"] : gp'[r] > 0
    <3>1. snap["gp"] \subseteq Row
      BY DEF TypeOK, Script
    <3>2. CASE k = "gp"
      BY <1>1, <1>2, <3>1, <3>2 DEF TypeOK
    <3>3. CASE k # "gp"
      BY <1>1, <1>2, <3>1, <3>3 DEF IInv, Stored, TypeOK, Script
    <3> QED
      BY <3>2, <3>3
  <2>2. pc'["file"] = "drop" => snap'["file"] \subseteq dump'[cur'["file"]]
    <3>1. CASE k = "file"
      BY <1>1, <1>2, <3>1
    <3>2. CASE k # "file"
      <4>1. pc["file"] = "drop" => cur["file"] \in Part
        BY DEF TypeOK, Script
      <4> QED
        BY <1>1, <1>2, <3>2, <4>1 DEF IInv, Stored, TypeOK, Script
    <3> QED
      BY <3>1, <3>2
  <2> QED
    BY <2>1, <2>2 DEF Stored
<1>7. Copies'
  <2> SUFFICES ASSUME NEW r \in Row
               PROVE  /\ r \notin arrived => gp'[r] = 0
                      /\ r \in src /\ ~(pc'["gp"] = "drop" /\ cur["gp"] = PartOf[r]) => gp'[r] <= exits
                      /\ gp'[r] <= 1 + exits
    BY <1>1 DEF Copies
  <2>1. CASE k = "gp" /\ r \in snap[k]
    BY <1>1, <1>2, <2>1 DEF IInv, Copies, TypeOK
  <2>2. CASE ~(k = "gp" /\ r \in snap[k])
    <3>1. gp'[r] = gp[r]
      BY <1>2, <2>2
    <3>2. pc["gp"] = "drop" => pc'["gp"] = "drop"
      BY <1>1 DEF TypeOK, Script
    <3> QED
      BY <3>1, <3>2 DEF IInv, Copies
  <2> QED
    BY <2>1, <2>2
<1> QED
  BY <1>2, <1>3, <1>4, <1>5, <1>6, <1>7 DEF IInv

\* A copy that fails ends the run, and may have stored some of the rows.
LEMMA CopyFailsInv ==
  ASSUME TypeOK, IInv, NEW k \in Script, CopyFails(k)
  PROVE  IInv'
<1>1. /\ pc[k] = "copying" /\ Exit(k)
      /\ UNCHANGED <<parts, expired, arrived, src>>
  BY DEF CopyFails, base
<1>2. PICK R \in SUBSET snap[k] : Store(k, R)
  BY DEF CopyFails
<1>3. /\ cur[k] \in parts \cap expired /\ cur[k] \in Part /\ R \subseteq src
      /\ \A r \in R : r \in Row /\ PartOf[r] = cur[k]
      /\ gp' \in [Row -> Nat]
      /\ \A r \in Row : gp'[r] = IF k = "gp" /\ r \in R THEN gp[r] + 1 ELSE gp[r]
      /\ dump' \in [Part -> SUBSET Row]
      /\ \A q \in Part : dump'[q] = IF k = "file" /\ q = cur[k] THEN R ELSE dump[q]
      /\ FreshDump'
  BY <1>1, <1>2, StoreInv
<1>4. /\ Idle'
      /\ \A j \in Script : todo'[j] \subseteq expired /\ (cur'[j] # 0 => cur'[j] \in expired)
      /\ \A j \in Script : pc'[j] # "idle" => /\ j # k /\ pc'[j] = pc[j]
                                              /\ todo'[j] = todo[j]
                                              /\ cur'[j] = cur[j] /\ snap'[j] = snap[j]
  BY <1>1, ExitInv DEF IInv
<1>5. Expiry'
  BY <1>1, <1>3, <1>4 DEF IInv, Expiry
<1>6. (Missed /\ Reading)'
  BY <1>1, <1>3, <1>4 DEF IInv, Missed, Reading, Script
<1>7. Stored'
  <2>1. snap["gp"] \subseteq Row /\ (pc["file"] = "drop" => cur["file"] \in Part)
    BY DEF TypeOK, Script
  <2> QED
    BY <1>1, <1>3, <1>4, <2>1 DEF IInv, Stored, TypeOK, Script
<1>8. Copies'
  <2>1. exits' = IF k = "gp" THEN exits + 1 ELSE exits
    BY <1>1 DEF Exit
  <2>2. k # "gp" => pc'["gp"] = pc["gp"] /\ cur'["gp"] = cur["gp"]
    BY <1>1, ExitType DEF Script
  <2> SUFFICES ASSUME NEW r \in Row
               PROVE  /\ r \notin arrived => gp'[r] = 0
                      /\ r \in src /\ ~(pc'["gp"] = "drop" /\ cur'["gp"] = PartOf[r]) => gp'[r] <= exits'
                      /\ gp'[r] <= 1 + exits'
    BY <1>1 DEF Copies
  <2>3. CASE k = "gp" /\ r \in R
    BY <1>1, <1>3, <2>1, <2>3 DEF IInv, Copies, TypeOK
  <2>4. CASE k = "gp" /\ r \notin R
    BY <1>1, <1>3, <2>1, <2>4 DEF IInv, Copies, TypeOK
  <2>5. CASE k # "gp"
    BY <1>1, <1>3, <2>1, <2>2, <2>5 DEF IInv, Copies
  <2> QED
    BY <2>3, <2>4, <2>5
<1> QED
  BY <1>3, <1>4, <1>5, <1>6, <1>7, <1>8 DEF IInv

\* A drop takes the partition, whoever else has it in hand or on the list.
LEMMA DropInv ==
  ASSUME TypeOK, IInv, NEW k \in Script, Drop(k)
  PROVE  IInv'
<1>1. /\ pc[k] = "drop" /\ cur[k] \in Part
      /\ \A j \in Script : ~(pc[j] = "copying" /\ cur[j] = cur[k])
      /\ parts' = parts \ {cur[k]} /\ src' = src \ RowsOf(cur[k])
      /\ pc' = [pc EXCEPT ![k] = "next"]
      /\ cur' = [cur EXCEPT ![k] = 0] /\ snap' = [snap EXCEPT ![k] = {}]
      /\ UNCHANGED <<expired, arrived, events, gp, dump, todo, exits>>
  BY DEF Drop, TypeOK
<1>2. Idle'
  BY <1>1 DEF IInv, Idle, TypeOK
<1>3. Expiry'
  <2>1. cur[k] \in expired
    BY <1>1, ArchiveMoveAssumption DEF IInv, Expiry, Part
  <2> QED
    BY <1>1, <2>1 DEF IInv, Expiry, TypeOK
<1>4. Missed'
  <2>1. \A q \in parts' : q \notin todo'["file"] \cup {cur'["file"]}
                          => q \in parts /\ q \notin todo["file"] \cup {cur["file"]}
    BY <1>1 DEF TypeOK, Script
  <2>2. \A q \in Part : q # cur["file"] => q # cur'["file"]
    BY <1>1, ArchiveMoveAssumption DEF TypeOK, Script, Part
  <2>3. pc'["file"] # "idle" => pc["file"] # "idle"
    BY <1>1 DEF TypeOK, Script
  <2> QED
    BY <1>1, <2>1, <2>2, <2>3 DEF IInv, Missed
<1>5. Reading'
  <2> SUFFICES ASSUME NEW j \in Script, pc'[j] = "copying" PROVE cur'[j] \in parts' /\ snap'[j] \subseteq src'
    BY DEF Reading
  <2>1. j # k /\ pc[j] = "copying" /\ cur'[j] = cur[j] /\ snap'[j] = snap[j]
    BY <1>1 DEF TypeOK
  <2>2. cur[j] # cur[k] /\ snap[j] \subseteq RowsOf(cur[j]) /\ cur[j] \in Part
    BY <1>1, <2>1 DEF TypeOK
  <2> QED
    BY <1>1, <2>1, <2>2 DEF IInv, Reading, RowsOf
<1>6. FreshDump'
  BY <1>1 DEF IInv, FreshDump, TypeOK, RowsOf
<1>7. Stored'
  BY <1>1 DEF IInv, Stored, TypeOK, Script
<1>8. Copies'
  <2> SUFFICES ASSUME NEW r \in Row
               PROVE  /\ r \notin arrived => gp[r] = 0
                      /\ r \in src' /\ ~(pc'["gp"] = "drop" /\ cur'["gp"] = PartOf[r]) => gp[r] <= exits
                      /\ gp[r] <= 1 + exits
    BY <1>1 DEF Copies
  <2>1. r \in src' => r \in src /\ PartOf[r] # cur[k]
    BY <1>1 DEF RowsOf
  <2>2. k # "gp" => pc'["gp"] = pc["gp"] /\ cur'["gp"] = cur["gp"]
    BY <1>1 DEF TypeOK, Script
  <2> QED
    BY <2>1, <2>2 DEF IInv, Copies
<1> QED
  BY <1>2, <1>3, <1>4, <1>5, <1>6, <1>7, <1>8 DEF IInv

\* A run that is killed leaves what it has stored.
LEMMA CrashInv ==
  ASSUME TypeOK, IInv, NEW k \in Script, Crash(k)
  PROVE  IInv'
<1>1. /\ Exit(k)
      /\ UNCHANGED <<parts, expired, arrived, src, gp, dump>>
  BY DEF Crash, base
<1>2. /\ Idle'
      /\ \A j \in Script : todo'[j] \subseteq expired /\ (cur'[j] # 0 => cur'[j] \in expired)
      /\ \A j \in Script : pc'[j] # "idle" => /\ j # k /\ pc'[j] = pc[j]
                                              /\ todo'[j] = todo[j]
                                              /\ cur'[j] = cur[j] /\ snap'[j] = snap[j]
  BY <1>1, ExitInv DEF IInv
<1>3. Expiry'
  BY <1>1, <1>2 DEF IInv, Expiry
<1>4. (Missed /\ Reading /\ FreshDump /\ Stored)'
  BY <1>1, <1>2 DEF IInv, Missed, Reading, FreshDump, Stored, Script
<1>5. Copies'
  <2>1. exits' = IF k = "gp" THEN exits + 1 ELSE exits
    BY <1>1 DEF Exit
  <2>2. k # "gp" => pc'["gp"] = pc["gp"] /\ cur'["gp"] = cur["gp"]
    BY <1>1, ExitType DEF Script
  <2> QED
    BY <1>1, <2>1, <2>2 DEF IInv, Copies, TypeOK
<1> QED
  BY <1>2, <1>3, <1>4, <1>5 DEF IInv

\* The end of a run, and the partition that archive2file.sh creates.
LEMMA EndInv ==
  ASSUME TypeOK, IInv, NEW k \in Script, End(k)
  PROVE  IInv'
<1>1. /\ pc[k] = "next" /\ todo[k] = {} /\ pc' = [pc EXCEPT ![k] = "idle"]
      /\ parts' = IF k = "file" THEN parts \cup {p \in Part : p - 1 \in parts /\ \A q \in parts : q < p}
                  ELSE parts
      /\ UNCHANGED <<expired, arrived, src, events, gp, dump, todo, cur, snap, exits>>
  BY DEF End
<1>2. (Idle /\ Reading /\ Stored /\ Copies)'
  BY <1>1 DEF IInv, Idle, Reading, Stored, Copies, TypeOK, Script
<1>3. CASE k = "file"
  <2>1. pc'["file"] = "idle"
    BY <1>1, <1>3 DEF TypeOK
  <2>2. Missed'
    BY <2>1 DEF Missed
  <2>3. Expiry'
    <3>1. ASSUME NEW p \in parts', NEW q \in Part, q < p PROVE q \in parts \cup expired
      <4>1. CASE p \in parts
        BY <3>1, <4>1 DEF IInv, Expiry
      <4>2. CASE p \notin parts
        <5>1. p - 1 \in parts /\ p \in Nat /\ q \in Nat
          BY <1>1, <1>3, <4>2, ArchiveMoveAssumption DEF Part
        <5>2. q = p - 1 \/ q < p - 1
          BY <3>1, <5>1
        <5> QED
          BY <5>1, <5>2 DEF IInv, Expiry
      <4> QED
        BY <4>1, <4>2
    <3>2. \A p \in parts' : \A q \in Part : q < p => q \in parts' \cup expired'
      BY <1>1, <1>3, <3>1
    <3> QED
      BY <1>1, <3>2 DEF IInv, Expiry
  <2>4. ASSUME NEW p \in Part, p - 1 \in parts, \A q \in parts : q < p
        PROVE  dump[p] = {}
    <3>1. CASE p \in expired
      <4>1. p - 1 \in expired /\ p - 1 \in Part /\ p >= p - 1 /\ p - 1 # 0
        BY <2>4, <3>1, ArchiveMoveAssumption DEF IInv, Expiry, Part, TypeOK
      <4>2. cur["file"] = 0
        BY <1>1, <1>3 DEF TypeOK
      <4> QED
        BY <1>1, <1>3, <2>4, <4>1, <4>2 DEF IInv, Missed
    <3>2. CASE p \notin expired
      BY <3>2 DEF IInv, Expiry
    <3> QED
      BY <3>1, <3>2
  <2>5. FreshDump'
    BY <1>1, <1>3, <2>4 DEF IInv, FreshDump
  <2> QED
    BY <1>2, <2>2, <2>3, <2>5 DEF IInv
<1>4. CASE k # "file"
  <2>1. (Expiry /\ FreshDump /\ Missed)'
    BY <1>1, <1>4 DEF IInv, Expiry, FreshDump, Missed, TypeOK, Script
  <2> QED
    BY <1>2, <2>1 DEF IInv
<1> QED
  BY <1>3, <1>4

\* Every step keeps the invariant.
LEMMA InvStep == TypeOK /\ IInv /\ [Next]_vars => IInv'
<1>1. TypeOK /\ IInv /\ UNCHANGED vars => IInv'
  BY DEF vars, base, run, IInv, Idle, Expiry, Missed, Reading, FreshDump, Stored, Copies
<1> QED
  BY <1>1, InsertInv, ExpireInv, StartInv, TakeInv, CopyDoneInv, DropInv, EndInv, CopyFailsInv,
     CrashInv DEF Next, Step

\* The inductive invariant holds in every reachable state.
THEOREM Invariance == Spec => [](TypeOK /\ IInv)
<1>1. Init => TypeOK /\ IInv
  BY InitType, InitInv
<1>2. TypeOK /\ IInv /\ [Next]_vars => (TypeOK /\ IInv)'
  BY TypeStep, InvStep
<1> QED
  BY <1>1, <1>2, PTL DEF Spec

\* A row is in Greenplum twice only as often as a run of archive2gp.sh ended
\* half-way.
THEOREM CopiesAreBounded == Spec => []CopiesBounded
<1>1. IInv => CopiesBounded
  BY DEF IInv, Copies, CopiesBounded
<1> QED
  BY <1>1, Invariance, PTL

(***************************************************************************)
(* The refinement.                                                         *)
(***************************************************************************)
Exposed(r) == \E k \in Script : TooLate(k, r)
Kept(r)    == gp[r] > 0 \/ r \in dump[PartOf[r]]

\* The cases of Fate, one by one.
Cases ==
  \A r \in Row :
    /\ Fate(r) \in Lifecycle!Fates
    /\ r \notin arrived <=> Fate(r) = "absent"
    /\ r \in src => Fate(r) = IF Exposed(r) THEN "exposed" ELSE "live"
    /\ r \in arrived \ src => Fate(r) = IF Overwritten(r) THEN "exposed"
                                        ELSE IF Kept(r) THEN "archived" ELSE "lost"

\* Fate is the case distinction it reads as.
LEMMA CasesHold == TypeOK => Cases
<1> SUFFICES ASSUME TypeOK, NEW r \in Row
             PROVE  /\ Fate(r) \in Lifecycle!Fates
                    /\ r \notin arrived <=> Fate(r) = "absent"
                    /\ r \in src => Fate(r) = IF Exposed(r) THEN "exposed" ELSE "live"
                    /\ r \in arrived \ src => Fate(r) = IF Overwritten(r) THEN "exposed"
                                                        ELSE IF Kept(r) THEN "archived" ELSE "lost"
  BY DEF Cases
<1>1. src \subseteq arrived
  BY DEF TypeOK
<1>2. CASE r \notin arrived
  BY <1>1, <1>2 DEF Fate, Lifecycle!Fates
<1>3. CASE r \in src
  <2>1. Fate(r) = IF Exposed(r) THEN "exposed" ELSE "live"
    BY <1>1, <1>3 DEF Fate, Exposed
  <2> QED
    BY <1>1, <1>3, <2>1 DEF Lifecycle!Fates
<1>4. CASE r \in arrived \ src
  <2>1. Fate(r) = IF Overwritten(r) THEN "exposed" ELSE IF Kept(r) THEN "archived" ELSE "lost"
    BY <1>4 DEF Fate, Kept
  <2> QED
    BY <1>1, <1>4, <2>1 DEF Lifecycle!Fates
<1> QED
  BY <1>2, <1>3, <1>4

\* And it is so after a step.
LEMMA CasesNext == TypeOK /\ [Next]_vars => Cases'
<1>1. TypeOK /\ [Next]_vars => TypeOK'
  BY TypeStep
<1> QED
  BY <1>1, CasesHold, PTL

\* At first every row is absent or live.
LEMMA InitRefines == Init => Lifecycle!Init
<1> SUFFICES ASSUME Init PROVE Lifecycle!Init
  OBVIOUS
<1>1. Cases
  BY InitType, CasesHold
<1>2. \A r \in Row : ~Exposed(r)
  BY ArchiveMoveAssumption DEF Init, Exposed, TooLate, Part
<1>3. \A r \in Row : Fate(r) \in {"absent", "live"}
  BY <1>1, <1>2 DEF Cases, Init
<1> QED
  BY <1>3 DEF Lifecycle!Init

\* A row arrives, in time or not.
LEMMA InsertRefines ==
  ASSUME TypeOK, Cases, Cases', NEW r \in Row, Insert(r)
  PROVE  Lifecycle!Arrive(r)
<1> DEFINE fate == [q \in Row |-> Fate(q)]
<1>1. /\ arrived' = arrived \cup {r} /\ src' = src \cup {r} /\ r \notin arrived
      /\ UNCHANGED <<gp, dump, todo, cur, snap>>
  BY DEF Insert, run
<1>2. fate[r] = "absent"
  BY <1>1 DEF Cases
<1>3. Fate(r)' \in {"live", "exposed"}
  <2>1. r \in src'
    BY <1>1
  <2>2. (r \in src => Fate(r) = IF Exposed(r) THEN "exposed" ELSE "live")'
    BY DEF Cases
  <2>3. Fate(r)' = IF Exposed(r)' THEN "exposed" ELSE "live"
    BY <2>1, <2>2
  <2> QED
    BY <2>3
<1>4. ASSUME NEW q \in Row, q # r PROVE Fate(q)' = Fate(q)
  <2>1. Exposed(q)' <=> Exposed(q)
    BY <1>1 DEF Exposed, TooLate
  <2>2. (Overwritten(q)' <=> Overwritten(q)) /\ (Kept(q)' <=> Kept(q))
    BY <1>1 DEF Overwritten, Kept
  <2>3. (q \in arrived' <=> q \in arrived) /\ (q \in src' <=> q \in src)
    BY <1>1, <1>4
  <2>4. /\ q \notin arrived' <=> Fate(q)' = "absent"
        /\ q \in src' => Fate(q)' = IF Exposed(q)' THEN "exposed" ELSE "live"
        /\ q \in arrived' \ src' => Fate(q)' = IF Overwritten(q)' THEN "exposed"
                                               ELSE IF Kept(q)' THEN "archived" ELSE "lost"
    BY DEF Cases
  <2>5. /\ q \notin arrived <=> Fate(q) = "absent"
        /\ q \in src => Fate(q) = IF Exposed(q) THEN "exposed" ELSE "live"
        /\ q \in arrived \ src => Fate(q) = IF Overwritten(q) THEN "exposed"
                                            ELSE IF Kept(q) THEN "archived" ELSE "lost"
    BY DEF Cases
  <2>6. CASE q \notin arrived
    BY <2>3, <2>4, <2>5, <2>6
  <2>7. CASE q \in src
    BY <2>1, <2>3, <2>4, <2>5, <2>7
  <2>8. CASE q \in arrived \ src
    BY <2>2, <2>3, <2>4, <2>5, <2>8
  <2> QED
    BY <2>6, <2>7, <2>8
<1>5. fate' = [fate EXCEPT ![r] = Fate(r)']
  BY <1>4
<1> QED
  BY <1>2, <1>3, <1>5 DEF Lifecycle!Arrive

\* What the step of a script, or the calendar, may do with a row.
MoveOf(r) ==
  /\ r \in arrived' <=> r \in arrived
  /\ r \in src' => r \in src /\ (Exposed(r)' => Exposed(r))
  /\ r \in src \ src' => Exposed(r) \/ (Kept(r)' /\ ~Overwritten(r)')
  /\ r \in arrived \ src /\ Kept(r) /\ ~Overwritten(r) => Kept(r)' /\ ~Overwritten(r)'
  /\ r \in arrived \ src /\ ~Kept(r) => ~Kept(r)'

\* A step that treats every row as MoveOf allows is a move of the abstract life.
LEMMA MoveRefines ==
  ASSUME TypeOK, TypeOK', Cases, Cases', \A r \in Row : MoveOf(r)
  PROVE  Lifecycle!Next
<1> DEFINE fate == [r \in Row |-> Fate(r)]
<1>1. ASSUME NEW r \in Row PROVE Fate(r)' \in Lifecycle!After(Fate(r)) /\ Fate(r)' \in Lifecycle!Fates
  <2>1. /\ Fate(r)' \in Lifecycle!Fates
        /\ r \notin arrived' <=> Fate(r)' = "absent"
        /\ r \in src' => Fate(r)' = IF Exposed(r)' THEN "exposed" ELSE "live"
        /\ r \in arrived' \ src' => Fate(r)' = IF Overwritten(r)' THEN "exposed"
                                               ELSE IF Kept(r)' THEN "archived" ELSE "lost"
    BY DEF Cases, Lifecycle!Fates
  <2>2. /\ r \notin arrived <=> Fate(r) = "absent"
        /\ r \in src => Fate(r) = IF Exposed(r) THEN "exposed" ELSE "live"
        /\ r \in arrived \ src => Fate(r) = IF Overwritten(r) THEN "exposed"
                                            ELSE IF Kept(r) THEN "archived" ELSE "lost"
    BY DEF Cases
  <2>3. MoveOf(r) /\ src \subseteq arrived /\ src' \subseteq arrived'
    BY DEF TypeOK
  <2>4. CASE r \notin arrived
    <3>1. Fate(r) = "absent" /\ Fate(r)' = "absent"
      BY <2>1, <2>2, <2>3, <2>4 DEF MoveOf
    <3> QED
      BY <2>1, <3>1 DEF Lifecycle!After
  <2>5. CASE Fate(r) = "exposed"
    <3>1. Fate(r)' # "absent"
      BY <2>1, <2>2, <2>3, <2>5 DEF MoveOf
    <3>2. Fate(r)' \in {"live", "exposed", "archived", "lost"}
      BY <2>1, <3>1 DEF Lifecycle!Fates
    <3> QED
      BY <2>1, <2>5, <3>2 DEF Lifecycle!After
  <2>6. CASE r \in src /\ ~Exposed(r)
    <3>1. Fate(r) = "live"
      BY <2>2, <2>6
    <3>2. CASE r \in src'
      <4>1. Fate(r)' = "live"
        BY <2>1, <2>3, <2>6, <3>2 DEF MoveOf
      <4> QED
        BY <2>1, <3>1, <4>1 DEF Lifecycle!After
    <3>3. CASE r \notin src'
      <4>1. Kept(r)' /\ ~Overwritten(r)' /\ r \in arrived' \ src'
        BY <2>3, <2>6, <3>3 DEF MoveOf
      <4>2. Fate(r)' = "archived"
        BY <2>1, <4>1
      <4> QED
        BY <2>1, <3>1, <4>2 DEF Lifecycle!After
    <3> QED
      BY <3>2, <3>3
  <2>7. CASE r \in arrived \ src /\ ~Overwritten(r)
    <3>1. r \in arrived' \ src'
      BY <2>3, <2>7 DEF MoveOf
    <3>2. CASE Kept(r)
      <4>1. Fate(r) = "archived"
        BY <2>2, <2>7, <3>2
      <4>2. Kept(r)' /\ ~Overwritten(r)'
        BY <2>3, <2>7, <3>2 DEF MoveOf
      <4>3. Fate(r)' = "archived"
        BY <2>1, <3>1, <4>2
      <4> QED
        BY <2>1, <4>1, <4>3 DEF Lifecycle!After
    <3>3. CASE ~Kept(r)
      <4>1. Fate(r) = "lost"
        BY <2>2, <2>7, <3>3
      <4>2. ~Kept(r)'
        BY <2>3, <2>7, <3>3 DEF MoveOf
      <4>3. ~Overwritten(r)'
        BY <4>2 DEF Kept, Overwritten
      <4>4. Fate(r)' = "lost"
        BY <2>1, <3>1, <4>2, <4>3
      <4> QED
        BY <2>1, <4>1, <4>4 DEF Lifecycle!After
    <3> QED
      BY <3>2, <3>3
  <2> QED
    BY <2>2, <2>3, <2>4, <2>5, <2>6, <2>7
<1>2. fate' = [r \in Row |-> Fate(r)']
  OBVIOUS
<1>3. fate' \in [Row -> Lifecycle!Fates]
  BY <1>1, <1>2
<1>4. \A r \in Row : fate'[r] \in Lifecycle!After(fate[r])
  BY <1>1, <1>2
<1> QED
  BY <1>3, <1>4 DEF Lifecycle!Next, Lifecycle!Move

\* Nothing happens to the rows and their copies, and archive2file.sh has no more
\* to do than before.
LEMMA StillRefines ==
  ASSUME TypeOK, UNCHANGED <<arrived, src, gp, dump>>, todo'["file"] \subseteq todo["file"],
         \A j \in Script : cur'[j] # 0 => cur'[j] = cur[j] /\ snap'[j] = snap[j],
         NEW r \in Row
  PROVE  MoveOf(r)
<1>1. Exposed(r)' => Exposed(r)
  <2>1. PartOf[r] # 0
    BY ArchiveMoveAssumption DEF Part
  <2> QED
    BY <2>1 DEF Exposed, TooLate
<1>2. (Kept(r)' <=> Kept(r)) /\ (Overwritten(r)' => Overwritten(r))
  BY DEF Kept, Overwritten
<1> QED
  BY <1>1, <1>2 DEF MoveOf

\* The calendar moves no row.
LEMMA ExpireRefines ==
  ASSUME TypeOK, NEW p \in Part, Expire(p), NEW r \in Row
  PROVE  MoveOf(r)
BY StillRefines DEF Expire, run

\* A run that begins exposes no row: the partitions it lists still hold what
\* their dumps hold.
LEMMA StartRefines ==
  ASSUME TypeOK, IInv, NEW k \in Script, Start(k), NEW r \in Row
  PROVE  MoveOf(r)
<1>1. /\ UNCHANGED <<parts, arrived, src, gp, dump, cur, snap>>
      /\ todo' = [todo EXCEPT ![k] = parts \cap expired]
  BY DEF Start, base
<1>2. Exposed(r)' <=> Exposed(r)
  BY <1>1 DEF Exposed, TooLate
<1>3. Kept(r)' <=> Kept(r)
  BY <1>1 DEF Kept
<1>4. r \notin src /\ Overwritten(r)' => Overwritten(r)
  <2>1. r \notin src /\ PartOf[r] \in parts => r \notin dump[PartOf[r]]
    BY DEF IInv, FreshDump
  <2> QED
    BY <1>1, <2>1 DEF Overwritten, TypeOK, Script
<1> QED
  BY <1>1, <1>2, <1>3, <1>4 DEF MoveOf

\* Taking a partition loses no row: the dump that is emptied holds rows that are
\* still there, or that were exposed.
LEMMA TakeRefines ==
  ASSUME TypeOK, IInv, NEW k \in Script, NEW p \in Part, Take(k, p), NEW r \in Row
  PROVE  MoveOf(r)
<1>1. /\ pc[k] = "next" /\ p \in todo[k] /\ UNCHANGED <<arrived, src, gp>>
      /\ PartOf[r] \in Part
      /\ \A q \in Part : dump'[q] = IF k = "file" /\ q = p THEN {} ELSE dump[q]
  BY ArchiveMoveAssumption DEF Take, base, TypeOK
<1>2. r \in src => (Exposed(r)' => Exposed(r))
  <2> SUFFICES ASSUME r \in src, NEW j \in Script, TooLate(j, r)' PROVE TooLate(j, r)
    BY DEF Exposed
  <2>1. CASE p \in parts
    <3>1. cur' = [cur EXCEPT ![k] = p] /\ snap' = [snap EXCEPT ![k] = src \cap RowsOf(p)]
      BY <2>1 DEF Take
    <3>2. CASE j = k
      BY <3>1, <3>2 DEF TooLate, TypeOK, RowsOf
    <3>3. CASE j # k
      BY <3>1, <3>3 DEF TooLate, TypeOK
    <3> QED
      BY <3>2, <3>3
  <2>2. CASE p \notin parts
    <3>1. Exit(k) /\ 0 \notin Part
      BY <2>2 DEF Take, Part
    <3> QED
      BY <1>1, <3>1, ExitType DEF TooLate
  <2> QED
    BY <2>1, <2>2
<1>3. todo'["file"] \subseteq todo["file"]
  <2>1. CASE p \in parts
    BY <2>1 DEF Take, TypeOK, Script
  <2>2. CASE p \notin parts
    BY <2>2, ExitType DEF Take, Script
  <2> QED
    BY <2>1, <2>2
<1>4. Kept(r)' => Kept(r)
  BY <1>1 DEF Kept
<1>5. r \notin src /\ Kept(r) /\ ~Overwritten(r) => Kept(r)' /\ ~Overwritten(r)'
  <2>1. CASE gp[r] > 0
    <3>1. gp[r] \in Nat
      BY DEF TypeOK
    <3> QED
      BY <1>1, <2>1, <3>1 DEF Kept, Overwritten
  <2>2. CASE gp[r] = 0 /\ r \in dump[PartOf[r]] /\ PartOf[r] \notin todo["file"]
    <3>1. dump'[PartOf[r]] = dump[PartOf[r]]
      BY <1>1, <2>2
    <3> QED
      BY <1>3, <2>2, <3>1 DEF Kept, Overwritten
  <2>3. gp[r] > 0 \/ gp[r] = 0
    BY DEF TypeOK
  <2> QED
    BY <2>1, <2>2, <2>3 DEF Kept, Overwritten
<1> QED
  BY <1>1, <1>2, <1>4, <1>5 DEF MoveOf

\* A copy, whole or not, touches the rows of partitions that are still there.
LEMMA StoreRefines ==
  ASSUME TypeOK, IInv, NEW k \in Script, pc[k] = "copying", NEW R \in SUBSET snap[k], Store(k, R),
         UNCHANGED <<parts, arrived, src>>, todo'["file"] \subseteq todo["file"],
         \A j \in Script : cur'[j] # 0 => cur'[j] = cur[j] /\ snap'[j] = snap[j],
         NEW r \in Row
  PROVE  MoveOf(r)
<1>1. /\ cur[k] \in parts /\ R \subseteq src
      /\ \A q \in Row : gp'[q] = IF k = "gp" /\ q \in R THEN gp[q] + 1 ELSE gp[q]
      /\ \A q \in Part : dump'[q] = IF k = "file" /\ q = cur[k] THEN R ELSE dump[q]
  BY StoreInv
<1>2. PartOf[r] \in Part /\ PartOf[r] # 0
  BY ArchiveMoveAssumption DEF Part
<1>3. Exposed(r)' => Exposed(r)
  BY <1>2 DEF Exposed, TooLate
<1>4. r \notin src => gp'[r] = gp[r]
  BY <1>1
<1>5. r \notin src => (r \in dump'[PartOf[r]] <=> r \in dump[PartOf[r]])
  <2>1. r \notin src /\ PartOf[r] = cur[k] => r \notin dump[PartOf[r]]
    BY <1>1 DEF IInv, FreshDump
  <2> QED
    BY <1>1, <1>2, <2>1
<1>6. r \notin src => (Kept(r)' <=> Kept(r)) /\ (Overwritten(r)' => Overwritten(r))
  BY <1>4, <1>5 DEF Kept, Overwritten
<1> QED
  BY <1>3, <1>6 DEF MoveOf

\* A whole copy archives no row yet and loses none.
LEMMA CopyDoneRefines ==
  ASSUME TypeOK, IInv, NEW k \in Script, CopyDone(k), NEW r \in Row
  PROVE  MoveOf(r)
<1>1. /\ pc[k] = "copying" /\ Store(k, snap[k])
      /\ UNCHANGED <<parts, arrived, src, todo, cur, snap>>
  BY DEF CopyDone, base
<1>2. PICK R \in SUBSET snap[k] : R = snap[k]
  OBVIOUS
<1>3. Store(k, R)
  BY <1>1, <1>2
<1> QED
  BY <1>1, <1>3, StoreRefines

\* What a script has in hand after another run has ended it had before.
LEMMA ExitFacts ==
  ASSUME TypeOK, NEW k \in Script, Exit(k)
  PROVE  /\ todo'["file"] \subseteq todo["file"]
         /\ \A j \in Script : cur'[j] # 0 => cur'[j] = cur[j] /\ snap'[j] = snap[j]
BY ExitType DEF Script

\* A copy that fails loses no row.
LEMMA CopyFailsRefines ==
  ASSUME TypeOK, IInv, NEW k \in Script, CopyFails(k), NEW r \in Row
  PROVE  MoveOf(r)
<1>1. pc[k] = "copying" /\ Exit(k) /\ UNCHANGED <<parts, arrived, src>>
  BY DEF CopyFails, base
<1>2. PICK R \in SUBSET snap[k] : Store(k, R)
  BY DEF CopyFails
<1> QED
  BY <1>1, <1>2, ExitFacts, StoreRefines

\* A drop archives the rows that were copied and loses those that came too late.
LEMMA DropRefines ==
  ASSUME TypeOK, IInv, NEW k \in Script, Drop(k), NEW r \in Row
  PROVE  MoveOf(r)
<1>1. /\ pc[k] = "drop" /\ src' = src \ RowsOf(cur[k])
      /\ cur' = [cur EXCEPT ![k] = 0] /\ snap' = [snap EXCEPT ![k] = {}]
      /\ UNCHANGED <<arrived, gp, dump, todo>>
  BY DEF Drop
<1>2. PartOf[r] # 0 /\ PartOf[r] \in Part
  BY ArchiveMoveAssumption DEF Part
<1>3. Exposed(r)' => Exposed(r)
  BY <1>1, <1>2 DEF Exposed, TooLate, TypeOK
<1>4. (Kept(r)' <=> Kept(r)) /\ (Overwritten(r)' <=> Overwritten(r))
  BY <1>1 DEF Kept, Overwritten
<1>5. ASSUME r \in src \ src', ~Exposed(r) PROVE Kept(r) /\ ~Overwritten(r)
  <2>1. PartOf[r] = cur[k]
    BY <1>1, <1>5 DEF RowsOf
  <2>2. r \in snap[k]
    BY <1>5, <2>1 DEF Exposed, TooLate
  <2>3. cur[k] \notin todo[k]
    BY <1>1 DEF TypeOK
  <2>4. CASE k = "gp"
    <3>1. gp[r] > 0 /\ gp[r] \in Nat
      BY <1>1, <2>2, <2>4 DEF IInv, Stored, TypeOK
    <3> QED
      BY <3>1 DEF Kept, Overwritten
  <2>5. CASE k = "file"
    <3>1. r \in dump[PartOf[r]]
      BY <1>1, <2>1, <2>2, <2>5 DEF IInv, Stored
    <3> QED
      BY <2>1, <2>3, <2>5, <3>1 DEF Kept, Overwritten
  <2> QED
    BY <2>4, <2>5 DEF Script
<1> QED
  BY <1>1, <1>3, <1>4, <1>5 DEF MoveOf

\* A kill moves no row.
LEMMA CrashRefines ==
  ASSUME TypeOK, NEW k \in Script, Crash(k), NEW r \in Row
  PROVE  MoveOf(r)
BY ExitFacts, StillRefines DEF Crash, base

\* The end of a run moves no row.
LEMMA EndRefines ==
  ASSUME TypeOK, NEW k \in Script, End(k), NEW r \in Row
  PROVE  MoveOf(r)
BY StillRefines DEF End

\* Every step is a step of the abstract life or leaves it alone.
LEMMA StepRefines ==
  ASSUME TypeOK, IInv, TypeOK', Cases, Cases', [Next]_vars
  PROVE  [Lifecycle!Next]_([r \in Row |-> Fate(r)])
<1>1. CASE UNCHANGED vars
  <2>1. \A r \in Row : Fate(r)' = Fate(r)
    BY <1>1 DEF vars, base, run, Fate, TooLate, Overwritten
  <2> QED
    BY <2>1
<1>2. CASE \E r \in Row : Insert(r)
  BY <1>2, InsertRefines DEF Lifecycle!Next
<1>3. CASE \E p \in Part : Expire(p)
  <2>1. \A r \in Row : MoveOf(r)
    BY <1>3, ExpireRefines
  <2> QED
    BY <2>1, MoveRefines
<1>4. ASSUME NEW k \in Script, Step(k) PROVE Lifecycle!Next
  <2>1. \A r \in Row : MoveOf(r)
    BY <1>4, StartRefines, TakeRefines, CopyDoneRefines, DropRefines, EndRefines DEF Step
  <2> QED
    BY <2>1, MoveRefines
<1>5. ASSUME NEW k \in Script, CopyFails(k) \/ Crash(k) PROVE Lifecycle!Next
  <2>1. \A r \in Row : MoveOf(r)
    BY <1>5, CopyFailsRefines, CrashRefines
  <2> QED
    BY <2>1, MoveRefines
<1> QED
  BY <1>1, <1>2, <1>3, <1>4, <1>5 DEF Next

\* The scripts implement RowLifecycle: a row is archived in the end of whatever
\* copies and drops there are, it stays so, and only a row that came while its
\* partition was being archived can be lost.
THEOREM Refinement == Spec => Archived
<1>1. Init => Lifecycle!Init
  BY InitRefines
<1>2. TypeOK /\ IInv /\ [Next]_vars => [Lifecycle!Next]_([r \in Row |-> Fate(r)])
  BY TypeStep, CasesHold, CasesNext, StepRefines
<1> QED
  BY <1>1, <1>2, Invariance, PTL DEF Spec, Archived, Lifecycle!Spec

-----------------------------------------------------------------------------
(***************************************************************************)
(* The steps of the argument for Drained: a run ends, and what it had on   *)
(* its list is gone by then, unless it ended half-way.                     *)
(***************************************************************************)

\* A run of a script has less to do with each of its steps, and neither the
\* applications nor the other script add to it.
RunsDwindle ==
  [][\A k \in Script : pc[k] # "idle" =>
       \/ pc'[k] = pc[k] /\ todo'[k] = todo[k] /\ cur'[k] = cur[k]
       \/ pc'[k] = "idle"
       \/ todo'[k] \subseteq todo[k] /\ todo'[k] # todo[k]
       \/ /\ todo'[k] = todo[k]
          /\ \/ pc[k] = "copying" /\ pc'[k] = "drop"
             \/ pc[k] = "drop" /\ pc'[k] = "next"]_vars

\* What a run has listed leaves its hands only when the partition is dropped, or
\* when the run ends half-way, which archive2gp.sh counts.
ListedGo ==
  [][\A k \in Script, p \in Part :
       pc[k] # "idle" /\ p \in todo[k] \cup {cur[k]} /\ p \notin todo'[k] \cup {cur'[k]}
         => p \notin parts' \/ (pc'[k] = "idle" /\ (k = "gp" => exits' = exits + 1))]_vars

\* The steps of a run: it goes on, ends, or ends half-way; all others leave it
\* alone.
RunMoves(k) ==
  \/ pc'[k] = pc[k] /\ todo'[k] = todo[k] /\ cur'[k] = cur[k]
  \/ pc'[k] = "idle" /\ todo[k] = {} /\ cur[k] = 0
  \/ pc'[k] = "idle" /\ (k = "gp" => exits' = exits + 1)
  \/ \E p \in todo[k] : cur[k] = 0 /\ cur'[k] = p /\ todo'[k] = todo[k] \ {p}
  \/ pc[k] = "copying" /\ pc'[k] = "drop" /\ todo'[k] = todo[k] /\ cur'[k] = cur[k]
  \/ /\ pc[k] = "drop" /\ pc'[k] = "next" /\ todo'[k] = todo[k]
     /\ parts' = parts \ {cur[k]}

\* Every step is one of these for a run in progress.
LEMMA RunStep ==
  ASSUME TypeOK, Next, NEW k \in Script, pc[k] # "idle"
  PROVE  RunMoves(k)
<1>1. /\ pc \in [Script -> {"idle", "next", "copying", "drop"}] /\ todo \in [Script -> SUBSET Part]
      /\ cur \in [Script -> Part \cup {0}]
      /\ pc[k] = "next" => cur[k] = 0
  BY DEF TypeOK
<1>2. (\E r \in Row : Insert(r)) \/ (\E p \in Part : Expire(p)) => RunMoves(k)
  BY DEF Insert, Expire, run, RunMoves
<1>3. ASSUME NEW j \in Script \ {k}, Step(j) \/ CopyFails(j) \/ Crash(j)
      PROVE  pc'[k] = pc[k] /\ todo'[k] = todo[k] /\ cur'[k] = cur[k]
  BY <1>1, <1>3 DEF Step, Start, Take, CopyDone, CopyFails, Drop, End, Crash, Exit
<1>4. ASSUME Exit(k) PROVE RunMoves(k)
  BY <1>1, <1>4 DEF Exit, RunMoves
<1>5. CopyFails(k) \/ Crash(k) => RunMoves(k)
  BY <1>4 DEF CopyFails, Crash
<1>6. ASSUME NEW p \in Part, Take(k, p) PROVE RunMoves(k)
  <2>1. CASE Exit(k)
    BY <2>1, <1>4
  <2>2. CASE ~Exit(k)
    <3>1. /\ pc[k] = "next" /\ p \in todo[k]
          /\ todo' = [todo EXCEPT ![k] = @ \ {p}] /\ cur' = [cur EXCEPT ![k] = p]
      BY <1>6, <2>2 DEF Take
    <3> QED
      BY <1>1, <3>1 DEF RunMoves
  <2> QED
    BY <2>1, <2>2
<1>7. CopyDone(k) => RunMoves(k)
  BY <1>1 DEF CopyDone, RunMoves
<1>8. Drop(k) => RunMoves(k)
  BY <1>1 DEF Drop, RunMoves
<1>9. End(k) => RunMoves(k)
  BY <1>1 DEF End, RunMoves
<1>10. ~Start(k)
  BY DEF Start
<1>11. (\E j \in Script \ {k} : Step(j) \/ CopyFails(j) \/ Crash(j)) => RunMoves(k)
  BY <1>3 DEF RunMoves
<1> QED
  BY <1>2, <1>5, <1>6, <1>7, <1>8, <1>9, <1>10, <1>11 DEF Next, Step

\* Runs of the scripts end.
THEOREM RunsEnd == Spec => RunsDwindle
<1>1. ASSUME NEW k \in Script, pc[k] # "idle", RunMoves(k)
      PROVE  \/ pc'[k] = pc[k] /\ todo'[k] = todo[k] /\ cur'[k] = cur[k]
             \/ pc'[k] = "idle"
             \/ todo'[k] \subseteq todo[k] /\ todo'[k] # todo[k]
             \/ /\ todo'[k] = todo[k]
                /\ \/ pc[k] = "copying" /\ pc'[k] = "drop"
                   \/ pc[k] = "drop" /\ pc'[k] = "next"
  BY <1>1 DEF RunMoves
<1>2. TypeOK /\ [Next]_vars =>
        [\A k \in Script : pc[k] # "idle" =>
           \/ pc'[k] = pc[k] /\ todo'[k] = todo[k] /\ cur'[k] = cur[k]
           \/ pc'[k] = "idle"
           \/ todo'[k] \subseteq todo[k] /\ todo'[k] # todo[k]
           \/ /\ todo'[k] = todo[k]
              /\ \/ pc[k] = "copying" /\ pc'[k] = "drop"
                 \/ pc[k] = "drop" /\ pc'[k] = "next"]_vars
  BY <1>1, RunStep
<1> QED
  BY <1>2, TypeCorrect, PTL DEF Spec, RunsDwindle

\* What a run has listed is dropped, unless the run ends half-way.
THEOREM ListedAreDropped == Spec => ListedGo
<1>1. ASSUME TypeOK, NEW k \in Script, NEW p \in Part, pc[k] # "idle", RunMoves(k),
             p \in todo[k] \cup {cur[k]}, p \notin todo'[k] \cup {cur'[k]}
      PROVE  p \notin parts' \/ (pc'[k] = "idle" /\ (k = "gp" => exits' = exits + 1))
  <2>1. p # 0
    BY DEF Part
  <2> QED
    BY <1>1, <2>1 DEF RunMoves
<1>2. TypeOK /\ [Next]_vars =>
        [\A k \in Script, p \in Part :
           pc[k] # "idle" /\ p \in todo[k] \cup {cur[k]} /\ p \notin todo'[k] \cup {cur'[k]}
             => p \notin parts' \/ (pc'[k] = "idle" /\ (k = "gp" => exits' = exits + 1))]_vars
  BY <1>1, RunStep
<1> QED
  BY <1>2, TypeCorrect, PTL DEF Spec, ListedGo
=============================================================================
