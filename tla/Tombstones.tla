----------------------------- MODULE Tombstones -----------------------------
(***************************************************************************)
(* The precedence between two versions of one record: database/            *)
(* tombstones.ts.  Every reader, cache and merge of the client compares    *)
(* versions with ShouldReplaceWithNextRecord.                              *)
(*                                                                         *)
(* A version is reduced to the three times the comparison reads; 0 stands  *)
(* for a field that is missing or does not parse.  updatedAt stands for    *)
(* the first usable one of updatedAt, created and createdAt.               *)
(***************************************************************************)
EXTENDS Naturals

\* The versions over a set of times.
Version(Time) == [updatedAt : Time, deletedAt : Time, restoredAt : Time]

GetRecordTimestamp(r) == r.updatedAt

IsTombstoneRecord(r) == r.deletedAt # 0

\* parseTimestamp(deletedAt) || getRecordTimestamp(record)
GetTombstoneTimestamp(r) == IF r.deletedAt # 0 THEN r.deletedAt ELSE GetRecordTimestamp(r)

GetRestoreTimestamp(r) == r.restoredAt

\* The restoration is strictly later than the deletion.  (Mutant: any later
\* update restores.)
RestoredAfter_ByUpdate(active, tombstone) ==
  /\ ~IsTombstoneRecord(active)
  /\ IsTombstoneRecord(tombstone)
  /\ GetRecordTimestamp(active) > GetTombstoneTimestamp(tombstone)
IsRestoredAfterTombstone(active, tombstone) ==
  /\ ~IsTombstoneRecord(active)
  /\ IsTombstoneRecord(tombstone)
  /\ GetRestoreTimestamp(active) > 0
  /\ GetTombstoneTimestamp(tombstone) > 0
  /\ GetRestoreTimestamp(active) > GetTombstoneTimestamp(tombstone)

Stamp(r) ==
  IF IsTombstoneRecord(r) THEN GetTombstoneTimestamp(r) ELSE GetRecordTimestamp(r)

\* Whether the version "next" takes the place of "current".
ShouldReplaceWithNextRecord(next, current) ==
  \/ /\ IsTombstoneRecord(current) /\ ~IsTombstoneRecord(next)
     /\ IsRestoredAfterTombstone(next, current)
  \/ /\ IsTombstoneRecord(next) /\ ~IsTombstoneRecord(current)
     /\ ~IsRestoredAfterTombstone(current, next)
  \/ /\ IsTombstoneRecord(next) <=> IsTombstoneRecord(current)
     /\ Stamp(next) > Stamp(current)

\* What removeAction stores: the evidence of an earlier restoration goes.
BuildTombstoneRecord(r, now) ==
  [r EXCEPT !.updatedAt = now, !.deletedAt = now, !.restoredAt = 0]

\* A record after the patch that restores it.
ApplyRestorePatch(r, now) ==
  [r EXCEPT !.updatedAt = now, !.deletedAt = 0, !.restoredAt = now]

=============================================================================
