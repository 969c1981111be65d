------------------------- MODULE MCDockerWorkloads -------------------------
(***************************************************************************)
(* Two runs of an account, in one process or in two, with rows and slots   *)
(* for one or for both.                                                    *)
(***************************************************************************)
EXTENDS DockerWorkloads

CONSTANTS r1, r2, p1, p2

TwoRuns == {r1, r2}
TwoProcesses == {p1, p2}
Together == [r \in TwoRuns |-> p1]
Apart == [r \in TwoRuns |-> IF r = r1 THEN p1 ELSE p2]

Placements == {
  [host |-> Together, limit |-> 2, slots |-> 2], [host |-> Apart, limit |-> 2, slots |-> 2],
  [host |-> Together, limit |-> 2, slots |-> 1], [host |-> Together, limit |-> 1, slots |-> 1],
  [host |-> Apart, limit |-> 1, slots |-> 1]}
=============================================================================
