---------------------------- MODULE RecordMerge -----------------------------
(***************************************************************************)
(* Merging the versions of one record that several sources report, as the  *)
(* pages of the sources arrive.  Two merges exist side by side:            *)
(*                                                                         *)
(*  - a fold with shouldReplaceWithNextRecord: mergeAndDedupUserData,      *)
(*    pickBestSettledRemoteRecord and the message merge;                   *)
(*  - mergeHistoryItems of chat/web/sharedHistoryMerge.ts, which first     *)
(*    collects all evidence and then decides.                              *)
(***************************************************************************)
EXTENDS Tombstones, Sequences, SequencesExt, FiniteSetsExt

CONSTANTS
  MaxTime,   \* bound on the times in a version
  MaxPages,  \* bound on the number of versions that arrive
  Content    \* contents of a version, ordered: tieKey compares them

ASSUME MergeAssumption == MaxTime \in Nat /\ MaxPages \in Nat /\ Content \subseteq Nat

VARIABLES
  pages,   \* the versions that have arrived, in order
  merged   \* the result of the fold over them: a sequence of at most one

vars == <<pages, merged>>

\* The versions the client itself makes: a live one is restored no later than
\* it is updated, a tombstone is stamped by its deletion.
Live ==
  {[updatedAt |-> u, deletedAt |-> 0, restoredAt |-> r, content |-> c] :
     u \in 1 .. MaxTime, r \in 0 .. MaxTime, c \in Content}
Dead ==
  {[updatedAt |-> d, deletedAt |-> d, restoredAt |-> 0, content |-> c] :
     d \in 1 .. MaxTime, c \in Content}
Evidence == {v \in Live : v.restoredAt <= v.updatedAt} \cup Dead

Init == pages = <<>> /\ merged = <<>>

-----------------------------------------------------------------------------

\* addToMap of mergeAndDedupUserData, the reducer of pickBest, put of the
\* message merge.
AddToMap(acc, v) ==
  IF acc # <<>> /\ ~ShouldReplaceWithNextRecord(v, Head(acc)) THEN acc ELSE <<v>>

\* mergeHistoryItems takes the versions one by one: the tombstone it keeps of
\* them, and the live ones.
Tombstone(s) ==
  FoldLeft(LAMBDA acc, v : IF IsTombstoneRecord(v) THEN AddToMap(acc, v) ELSE acc, <<>>, s)
Actives(s) ==
  FoldLeft(LAMBDA active, v : IF IsTombstoneRecord(v) THEN active ELSE Append(active, v), <<>>, s)

\* The restoration it keeps: the last one.  (Mutant: the last to arrive.)
Restoration_Arrival(s) == IF s = <<>> THEN 0 ELSE Last(s).restoredAt
Restoration(s) == Max({0} \cup {GetRestoreTimestamp(s[i]) : i \in DOMAIN s})

\* The comparison by which it sorts the live versions: a before b.  Between the
\* two keys the code has a third, by which a cached version wins a tie; the
\* versions here are all cached or all not.  (Mutant: equal times are left in the order of
\* arrival.)
SortsBefore_TimeOnly(a, b) == GetRecordTimestamp(a) < GetRecordTimestamp(b)
SortsBefore(a, b) ==
  \/ GetRecordTimestamp(a) < GetRecordTimestamp(b)
  \/ /\ GetRecordTimestamp(a) = GetRecordTimestamp(b)
     /\ a.content < b.content

\* The last of the sorted versions; Array.sort is stable.
Winner(s) ==
  FoldLeft(LAMBDA best, v : IF SortsBefore(v, best) THEN best ELSE v, Head(s), Tail(s))

\* The winner, with the independently observed restoration.
CanonicalVersion(s) == [Winner(s) EXCEPT !.restoredAt = Restoration(s)]

\* The row shown for the record, a sequence of at most one.
MergeHistoryItems(s) ==
  LET active == Actives(s)
      tombstone == Tombstone(s)
  IN IF \/ active = <<>>
        \/ /\ tombstone # <<>>
           /\ ~ShouldReplaceWithNextRecord(CanonicalVersion(active), Head(tombstone))
     THEN <<>>
     ELSE <<CanonicalVersion(active)>>

\* A source reports a version.
Arrive(v) ==
  /\ Len(pages) < MaxPages
  /\ pages' = Append(pages, v)
  /\ merged' = AddToMap(merged, v)

Next == \E v \in Evidence : Arrive(v)

Spec == Init /\ [][Next]_vars

-----------------------------------------------------------------------------

Arrived == ToSet(pages)

LastDeletion == Max({0} \cup {v.deletedAt : v \in Arrived})
LastRestoration == Max({0} \cup {v.restoredAt : v \in Arrived})

\* "Page arrival order cannot change either the winner or its partial
\* metadata": the shown row is a function of the set of versions that arrived,
\* here defined without any order.
HistoryIgnoresOrder ==
  LET live == {v \in Arrived : ~IsTombstoneRecord(v)}
      newest == {v \in live : \A w \in live : w.updatedAt <= v.updatedAt}
      top == {v \in newest : \A w \in newest : w.content <= v.content}
  IN MergeHistoryItems(pages) \in
       IF live = {} \/ (LastDeletion > 0 /\ LastRestoration <= LastDeletion)
       THEN {<<>>}
       ELSE {<<[v EXCEPT !.restoredAt = LastRestoration]>> : v \in top}

\* The evidence of a deletion is kept by the fold whatever arrives around it:
\* without a later restoration the result is that deletion, also when a live
\* version with a later updatedAt comes after it.
DeletionSurvivesFold ==
  (LastDeletion > 0 /\ LastRestoration <= LastDeletion)
    => merged # <<>> /\ Head(merged).deletedAt = LastDeletion

\* Live versions carry restorations forward.
EvidenceCarried ==
  \A v, w \in Arrived :
    (~IsTombstoneRecord(v) /\ ~IsTombstoneRecord(w) /\ v.updatedAt >= w.updatedAt)
      => v.restoredAt >= w.restoredAt

\* Where every later version carries the restoration of the earlier ones the
\* fold agrees with mergeHistoryItems, in whatever order the pages arrive: the
\* two merges then show the same record.
FoldAgreesWhenCarried ==
  (EvidenceCarried /\ pages # <<>>) =>
     LET shown == MergeHistoryItems(pages) IN
     /\ IsTombstoneRecord(Head(merged)) <=> shown = <<>>
     /\ shown # <<>> => /\ Head(shown).updatedAt = Head(merged).updatedAt
                        /\ Head(shown).restoredAt = Head(merged).restoredAt

=============================================================================
