--------------------------- MODULE GrowOnlyStats ----------------------------
(***************************************************************************)
(* What the daily usage totals promise: every write adds exactly one       *)
(* usage record to the totals of its key, and nothing is ever subtracted.  *)
(* A total is represented by the set of the records counted in it.         *)
(***************************************************************************)
CONSTANTS Key, Usage

VARIABLE counted

Init == counted = [k \in Key |-> {}]

Count(k, u) ==
  /\ u \notin counted[k]
  /\ counted' = [counted EXCEPT ![k] = @ \cup {u}]

Next == \E k \in Key, u \in Usage : Count(k, u)

Spec == Init /\ [][Next]_counted

=============================================================================
