--------------------------- MODULE MCRunRegistry ---------------------------
(***************************************************************************)
(* A child, the terminal that spawned it, and a second CLI that stops the  *)
(* run or waits for it.                                                    *)
(***************************************************************************)
EXTENDS RunRegistry

Sc(stops, waiters, crashing) == [stops |-> stops, waiters |-> waiters, crashing |-> crashing]

Stops == Sc(TRUE, {}, {Cli})
TwoWaits == Sc(FALSE, Waiter, {Cli})
ChildCrashes == Sc(FALSE, {Tui}, {Child})
StopsDead == Sc(TRUE, {}, {Child})
AllScenarios == {Stops, StopsDead, TwoWaits, ChildCrashes}
OneWait == {Sc(FALSE, {Tui}, {})}
=============================================================================
