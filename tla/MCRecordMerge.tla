--------------------------- MODULE MCRecordMerge ----------------------------
(* RecordMerge on three times and two contents.                            *)
EXTENDS RecordMerge

Contents == {1, 2}

=============================================================================
