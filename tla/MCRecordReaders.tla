-------------------------- MODULE MCRecordReaders ---------------------------
(* RecordReaders with two servers: who may do what, and from where.        *)
EXTENDS RecordReaders

CONSTANTS o1, o2, o3, s1, s2

Plan == <<s1, s2>>

At(u, d, r) ==
  [updatedAt |-> u, deletedAt |-> d, restoredAt |-> r, edits |-> {}, origin |-> FALSE]

Live == At(1, 0, 0)
Deleted == At(2, 2, 0)
Restored == At(3, 0, 3)
Readers == {"read", "cache", "messages"}
Own(k1, k2, k3) == [o \in Op |-> IF o = o1 THEN k1 ELSE IF o = o2 THEN k2 ELSE k3]

\* A deletion next to another change and a reader, one at a time.
Deletes ==
  [kinds |-> Own({"patch", "restore", "purge"}, {"remove"}, Readers), serial |-> TRUE,
   maxLost |-> 0, local |-> {NoRecord, Live, Deleted, Restored},
   remote |-> {NoRecord, Live, Deleted}]

\* Two edits and a reader, one at a time, requests may be lost.
Edits ==
  [kinds |-> Own({"write", "patch"}, {"write", "patch"}, Readers), serial |-> TRUE,
   maxLost |-> 1, local |-> {NoRecord, Live}, remote |-> {NoRecord, At(2, 0, 0)}]

\* Servers that disagree whether the record is deleted, next to a later edit.
Disagreement ==
  [kinds |-> Own({"patch"}, {}, Readers), serial |-> TRUE,
   maxLost |-> 0, local |-> {Live, At(3, 0, 0)}, remote |-> {At(1, 1, 0), At(2, 0, 2)}]

\* Any two operations at once.
Overlaps ==
  [kinds |-> Own(UserKind \cup ReaderKind, UserKind \cup ReaderKind, {}), serial |-> FALSE,
   maxLost |-> 0, local |-> {NoRecord, Live}, remote |-> {NoRecord, Live}]

\* A removal while a reader revalidates.
RemoveRace ==
  [kinds |-> Own({"remove"}, {"read"}, {}), serial |-> FALSE,
   maxLost |-> 0, local |-> {NoRecord, Live, At(2, 0, 0)}, remote |-> {NoRecord, Live, At(2, 0, 0)}]

AllScenarios == {Deletes, Edits, Disagreement, Overlaps}
OnlyRemoveRace == {RemoveRace}

ASSUME InTurnAssumption == ReadsAtOnce

=============================================================================
