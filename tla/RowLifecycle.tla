---------------------------- MODULE RowLifecycle ----------------------------
(***************************************************************************)
(* What the archive scripts promise about a row: it is archived, in one    *)
(* step, however many copies and drops that takes, and then it stays       *)
(* archived.  The one row that may be lost is the exposed one: it arrived  *)
(* while its partition was being archived.                                 *)
(***************************************************************************)
CONSTANT Row

VARIABLE fate

Fates == {"absent", "live", "exposed", "archived", "lost"}

Init == fate \in [Row -> {"absent", "live"}]

\* Row r arrives, in time or not.
Arrive(r) ==
  /\ fate[r] = "absent"
  /\ \E f \in {"live", "exposed"} : fate' = [fate EXCEPT ![r] = f]

\* What a row may become when a partition is dropped or a run is over.
After(f) ==
  CASE f = "live"    -> {"live", "archived"}
    [] f = "exposed" -> {"live", "exposed", "archived", "lost"}
    [] OTHER         -> {f}

Move == \A r \in Row : fate'[r] \in After(fate[r])

Next ==
  \/ \E r \in Row : Arrive(r)
  \/ fate' \in [Row -> Fates] /\ Move

Spec == Init /\ [][Next]_fate
=============================================================================
