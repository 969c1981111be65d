------------------------- MODULE RunRegistry_proofs -------------------------
(***************************************************************************)
(* Theorems about the run record, for any scenarios and bounds: the types, *)
(* the exclusion of lock holders, the safety of verdicts and of outcomes,  *)
(* one claim at a time, no wake after a wait, and one wake.  Every action  *)
(* is first classified by what it does to the record, the lock and the     *)
(* sections, or to the waits; the invariants are proved of the classes.    *)
(***************************************************************************)
EXTENDS RunRegistry, TLAPS

\* The part of the state the shared record depends on.
shared == <<record, lock, sec, alive, settled, torn, broken>>

\* A process begins a section; a verdict only on a child that is gone, a claim
\* only for a wait.
Starts ==
  \E p \in Proc, op \in Ops, why \in {"none", "poll", "wait", "stop"} :
    /\ Idle(p) /\ Begin(p, op, why)
    /\ op \in {"kill", "stale"} => Child \notin alive
    /\ op = "claim" => p \in Waiter
    /\ UNCHANGED <<record, lock, alive, settled, torn, broken>>

\* A process leaves the section it has been in.
Leaves ==
  \E p \in Proc :
    /\ p \in alive /\ sec[p].at = "finish"
    /\ lock' = Unlocked(p)
    /\ sec' = [sec EXCEPT ![p] = Outside]
    /\ UNCHANGED <<record, alive, settled, torn, broken>>

\* A process dies.
Dies ==
  /\ \E p \in Proc : alive' = alive \ {p}
  /\ UNCHANGED <<record, lock, sec, settled, torn, broken>>

Classes == (\E p \in Proc : Section(p)) \/ Starts \/ Leaves \/ Dies \/ UNCHANGED shared

\* The turns of the terminal's agent touch neither the run nor the waits.
Turns == TurnBegins \/ Injected \/ TurnEnds \/ WakeTurn

LEMMA TurnsAside == Turns => UNCHANGED outsideTurn
BY DEF Turns, TurnBegins, Injected, TurnEnds, WakeTurn

LEMMA ActionClasses == [Next]_vars => Classes
<1> SUFFICES ASSUME [Next]_vars PROVE Classes
  OBVIOUS
<1> USE DEF Classes, shared, Proc, Waiter, Child, Tui, Cli
<1>1. CASE \E p \in Proc : Section(p) \/ Die(p)
  BY <1>1 DEF Die, Dies, recordVars, childVars, ghostVars
<1>2. CASE ChildBegins
  BY <1>2 DEF ChildBegins, Starts, Ops, outsideChild, ghostVars
<1>3. CASE ChildGoesOn
  BY <1>3 DEF ChildGoesOn, Identified, Beaten, SettleEnds, Leave, Leaves, childVars, ghostVars
<1>4. CASE Exit
  BY <1>4 DEF Exit, Dies, recordVars, childVars, ghostVars
<1>5. CASE Poll \/ Retire \/ Turns
  BY <1>5, TurnsAside DEF Poll, Retire, outsideTurn, recordVars, outsideTui, childVars, ghostVars
<1>6. CASE Reconcile \/ Reconciled
  BY <1>6 DEF Reconcile, Reconciled, Free, Starts, Ops, Leave, Leaves, Stale, outsideTui, childVars, ghostVars
<1>7. CASE \E p \in Waiter : WaitBegins(p) \/ WaitCommits(p) \/ WaitGivesUp(p) \/ LeaseExpires(p)
  <2> PICK p \in Waiter : WaitBegins(p) \/ WaitCommits(p) \/ WaitGivesUp(p) \/ LeaseExpires(p)
    BY <1>7
  <2>1. CASE WaitBegins(p)
    BY <2>1 DEF WaitBegins, Starts, Ops, outsideWait, childVars, ghostVars
  <2>2. CASE WaitCommits(p)
    BY <2>2 DEF WaitCommits, Starts, Ops, outsideWait, childVars, ghostVars
  <2>3. CASE WaitGivesUp(p)
    BY <2>3 DEF WaitGivesUp, Starts, Ops, outsideWait, childVars, ghostVars
  <2>4. CASE LeaseExpires(p)
    BY <2>4 DEF LeaseExpires, recordVars, childVars, ghostVars
  <2> QED
    BY <2>1, <2>2, <2>3, <2>4
<1>8. CASE \E p \in Waiter : WaitReads(p)
  BY <1>8 DEF WaitReads, Starts, Ops, Stale, outsideWait, childVars, ghostVars
<1>9. CASE \E p \in Waiter : WaitClaimed(p) \/ WaitReconciled(p) \/ WaitReturns(p) \/ WaitReleased(p)
  BY <1>9 DEF WaitClaimed, WaitReconciled, WaitReturns, WaitReleased, Leave, Leaves, childVars, ghostVars
<1>10. CASE StopBegins \/ StopProbes
  BY <1>10 DEF StopBegins, StopProbes, Gone, Starts, Ops, Stale, outsideStop, childVars, ghostVars
<1>11. CASE StopReconciled \/ StopVerified \/ StopEnds
  BY <1>11 DEF StopReconciled, StopVerified, StopEnds, Leave, Leaves, childVars, ghostVars
<1>12. CASE UNCHANGED vars
  BY <1>12 DEF vars, recordVars, childVars, ghostVars
<1> QED
  BY <1>1, <1>2, <1>3, <1>4, <1>5, <1>6, <1>7, <1>8, <1>9, <1>10, <1>11, <1>12
     DEF Next, Turns, WaitGoesOn, StopGoesOn

-----------------------------------------------------------------------------
\* What a section makes of the record it has read.
LEMMA OutcomeTyped ==
  ASSUME NEW op \in Ops, NEW p \in Proc, NEW r \in Records, op = "claim" => p \in Waiter
  PROVE  Outcome(op, p, r) \in Records
<1> USE DEF Records, Outcome, Committed, Status
<1>1. CASE op \in {"identity", "beat", "verify", "settle", "kill", "stale"}
  BY <1>1
<1>2. CASE op = "claim"
  BY <1>2
<1>3. CASE op \in {"commit", "ack", "release"}
  BY <1>3
<1> QED
  BY <1>1, <1>2, <1>3 DEF Ops

\* A section under way has a name, and from its read on a copy of a record;
\* the verdicts are on a child that is gone, the claims those of waits.
SectionsOK ==
  \A p \in Proc :
    /\ sec[p].at # "out" => sec[p].op \in Ops
    /\ sec[p].op = "claim" => p \in Waiter
    /\ sec[p].op \in {"kill", "stale"} => Child \notin alive
    /\ sec[p].at = "write" => sec[p].copy \in Records

LEMMA SectionsStayOK == ASSUME SharedTypeOK, SectionsOK, Classes PROVE SectionsOK'
<1> USE DEF SharedTypeOK, SectionsOK
<1>1. CASE \E p \in Proc : Section(p)
  <2> PICK p \in Proc : Section(p)
    BY <1>1
  <2>1. CASE Take(p) \/ Unlink(p) \/ Create(p)
    <3>1. /\ UNCHANGED alive /\ sec[p].at # "out"
          /\ \/ \E h \in BOOLEAN : sec' = [sec EXCEPT ![p] = [@ EXCEPT !.at = "read", !.held = h]]
             \/ \E a \in {"unlink", "create", "finish"} : sec' = [sec EXCEPT ![p].at = a]
      BY <2>1 DEF Take, Unlink, Create, Enter, Refused, outsideLock
    <3>2. \A q \in Proc : /\ sec'[q].op = sec[q].op /\ sec'[q].copy = sec[q].copy
                          /\ q # p => sec'[q].at = sec[q].at
      <4>1. \A h \in BOOLEAN : LET n == [sec[p] EXCEPT !.at = "read", !.held = h]
                              IN  n.op = sec[p].op /\ n.copy = sec[p].copy
        BY DEF Sections
      <4>2. \A a \in {"unlink", "create", "finish"} : LET n == [sec[p] EXCEPT !.at = a]
                                                   IN  n.op = sec[p].op /\ n.copy = sec[p].copy
        BY DEF Sections
      <4> QED
        BY <3>1, <4>1, <4>2
    <3>3. sec'[p].at # "write"
      BY <3>1 DEF Sections
    <3> QED
      BY <3>1, <3>2, <3>3
  <2>2. CASE Read(p)
    BY <2>2 DEF Read, outsideLock, Sections
  <2>3. CASE Write(p)
    BY <2>3 DEF Write, Sections
  <2> QED
    BY <2>1, <2>2, <2>3 DEF Section
<1>2. CASE Starts
  BY <1>2 DEF Starts, Begin, Idle, Outside
<1>3. CASE Leaves
  BY <1>3 DEF Leaves, Outside
<1>4. CASE Dies
  BY <1>4 DEF Dies
<1>5. CASE UNCHANGED shared
  BY <1>5 DEF shared
<1> QED
  BY <1>1, <1>2, <1>3, <1>4, <1>5 DEF Classes

LEMMA SectionChanges ==
  ASSUME SharedTypeOK, NEW p \in Proc
  PROVE  /\ \A h \in BOOLEAN : Enter(p, h) => sec' \in [Proc -> Sections] /\ torn' \in BOOLEAN
         /\ \A a \in {"unlink", "create", "read", "write", "finish"} :
              sec' = [sec EXCEPT ![p].at = a] => sec' \in [Proc -> Sections]
<1>1. \A h \in BOOLEAN : Enter(p, h) => sec' \in [Proc -> Sections]
  <2> SUFFICES ASSUME NEW h \in BOOLEAN, Enter(p, h) PROVE sec' \in [Proc -> Sections]
    OBVIOUS
  <2>1. [sec[p] EXCEPT !.at = "read", !.held = h] \in Sections
    BY DEF SharedTypeOK, Sections
  <2> QED
    BY <2>1 DEF SharedTypeOK, Enter
<1>2. \A h \in BOOLEAN : Enter(p, h) => torn' \in BOOLEAN
  BY DEF SharedTypeOK, Enter
<1>3. \A a \in {"unlink", "create", "read", "write", "finish"} :
         sec' = [sec EXCEPT ![p].at = a] => sec' \in [Proc -> Sections]
  BY DEF SharedTypeOK, Sections
<1> QED
  BY <1>1, <1>2, <1>3

LEMMA SharedTypes == ASSUME SharedTypeOK, SectionsOK, Classes PROVE SharedTypeOK'
<1> USE DEF SharedTypeOK
<1>1. CASE \E p \in Proc : Section(p)
  <2> PICK p \in Proc : Section(p)
    BY <1>1
  <2>1. CASE Take(p)
    BY <2>1, SectionChanges DEF Take, Refused, outsideLock, childVars
  <2>2. CASE Unlink(p)
    BY <2>2, SectionChanges DEF Unlink, Refused, outsideLock, childVars
  <2>3. CASE Create(p)
    BY <2>3, SectionChanges DEF Create, Refused, outsideLock, childVars
  <2>4. CASE Read(p)
    <3>1. \A a \in {"write", "finish"} : [sec[p] EXCEPT !.copy = record, !.at = a] \in Sections
      BY DEF Sections
    <3> QED
      BY <2>4, <3>1 DEF Read, outsideLock, childVars, ghostVars
  <2>5. CASE Write(p)
    <3>1. Outcome(sec[p].op, p, sec[p].copy) \in Records
      BY <2>5, OutcomeTyped DEF Write, SectionsOK
    <3> QED
      BY <2>5, <3>1 DEF Write, Sections, ghostVars
  <2> QED
    BY <2>1, <2>2, <2>3, <2>4, <2>5 DEF Section
<1>2. CASE Starts
  <2>1. PICK p \in Proc, op \in Ops, why \in {"none", "poll", "wait", "stop"} : Begin(p, op, why)
    BY <1>2 DEF Starts
  <2>2. [Outside EXCEPT !.op = op, !.why = why, !.at = "take"] \in Sections
    BY DEF Outside, Sections
  <2> QED
    BY <1>2, <2>1, <2>2 DEF Starts, Begin
<1>3. CASE Leaves
  <2>1. sec' \in [Proc -> Sections]
    BY <1>3 DEF Leaves, Outside, Sections
  <2>2. lock' \in Proc \cup {Nobody}
    BY <1>3 DEF Leaves, Unlocked
  <2> QED
    BY <1>3, <2>1, <2>2 DEF Leaves
<1>4. CASE Dies
  BY <1>4 DEF Dies
<1>5. CASE UNCHANGED shared
  BY <1>5 DEF shared
<1> QED
  BY <1>1, <1>2, <1>3, <1>4, <1>5 DEF Classes

-----------------------------------------------------------------------------
\* Those that count their sections are where they have begun them.
Links ==
  /\ child \in {"start", "work"} => attempts = 0
  /\ sec[Child].at # "out" /\ sec[Child].op = "identity" => child = "start"
  /\ sec[Child].at # "out" /\ sec[Child].op = "settle" => child = "settle"
  /\ sec[Cli].at # "out" /\ sec[Cli].op = "verify" => stop = "verify"

\* A section goes on under its name.
LEMMA SectionsGoOn ==
  ASSUME SharedTypeOK, NEW p \in Proc, Section(p)
  PROVE  \A q \in Proc : /\ sec'[q].op = sec[q].op
                         /\ sec'[q].at # "out" => sec[q].at # "out"
<1> USE DEF SharedTypeOK
<1>1. sec[p] \in Sections /\ sec[p].at # "out"
  BY DEF Section, Take, Unlink, Create, Read, Write
<1>2. \E n : sec' = [sec EXCEPT ![p] = n] /\ n.op = sec[p].op
  <2>1. CASE Take(p) \/ Unlink(p) \/ Create(p)
    <3>1. \/ \E h \in BOOLEAN : sec' = [sec EXCEPT ![p] = [@ EXCEPT !.at = "read", !.held = h]]
          \/ \E a \in {"unlink", "create", "finish"} : sec' = [sec EXCEPT ![p].at = a]
      BY <2>1 DEF Take, Unlink, Create, Enter, Refused
    <3>2. \A h \in BOOLEAN : LET n == [sec[p] EXCEPT !.at = "read", !.held = h] IN n.op = sec[p].op
      BY <1>1 DEF Sections
    <3>3. \A a \in {"unlink", "create", "finish"} : LET n == [sec[p] EXCEPT !.at = a] IN n.op = sec[p].op
      BY <1>1 DEF Sections
    <3> QED
      BY <3>1, <3>2, <3>3
  <2>2. CASE Read(p)
    <3>1. \A a : LET n == [sec[p] EXCEPT !.copy = record, !.at = a] IN n.op = sec[p].op
      BY <1>1 DEF Sections
    <3> QED
      BY <2>2, <3>1 DEF Read
  <2>3. CASE Write(p)
    <3>1. \A c : LET n == [sec[p] EXCEPT !.copy = c, !.at = "finish"] IN n.op = sec[p].op
      BY <1>1 DEF Sections
    <3> QED
      BY <2>3, <3>1 DEF Write
  <2> QED
    BY <2>1, <2>2, <2>3 DEF Section
<1> QED
  BY <1>1, <1>2

\* What begins or ends a section changes only that one.
LEMMA BeginsAlone ==
  ASSUME SharedTypeOK, NEW p \in Proc, NEW op, NEW why, Begin(p, op, why)
  PROVE  sec'[p].op = op /\ \A q \in Proc \ {p} : sec'[q] = sec[q]
BY DEF SharedTypeOK, Begin, Outside

LEMMA LeavesAlone ==
  ASSUME SharedTypeOK, NEW p \in Proc, NEW op, NEW why, Leave(p, op, why)
  PROVE  /\ sec[p].at # "out" /\ sec[p].op = op
         /\ sec'[p].at = "out" /\ \A q \in Proc \ {p} : sec'[q] = sec[q]
BY DEF SharedTypeOK, Leave, Outside

LEMMA LinksStay ==
  ASSUME TypeOK, Links, [Next]_vars
  PROVE  Links'
<1> SUFFICES ASSUME SharedTypeOK PROVE Links'
  BY DEF TypeOK
<1> USE DEF Links, Child, Tui, Cli, Proc, Waiter
<1> USE DEF recordVars, childVars, stopVars, waitVars, tuiVars, ghostVars
<1>1. CASE \E p \in Proc : Section(p)
  <2> PICK p \in Proc : Section(p)
    BY <1>1
  <2>1. UNCHANGED <<child, attempts, stop>>
    BY DEF Section, Take, Unlink, Create, Read, Write, outsideLock
  <2> QED
    BY <2>1, SectionsGoOn
<1>2. CASE ChildBegins
  BY <1>2, BeginsAlone DEF ChildBegins, outsideChild, Idle
<1>3. CASE ChildGoesOn
  BY <1>3, LeavesAlone DEF ChildGoesOn, Identified, Beaten, SettleEnds
<1>4. CASE Exit \/ \E p \in Proc : Die(p)
  BY <1>4 DEF Exit, Die
<1>5. CASE Poll \/ Retire \/ Turns
  BY <1>5, TurnsAside DEF Poll, Retire, outsideTurn, outsideTui
<1>6. CASE Reconcile \/ Reconciled
  BY <1>6, BeginsAlone, LeavesAlone DEF Reconcile, Reconciled, outsideTui
<1>7. CASE \E p \in Waiter : WaitBegins(p) \/ WaitGoesOn(p) \/ WaitGivesUp(p) \/ LeaseExpires(p)
  <2> PICK p \in Waiter : WaitBegins(p) \/ WaitGoesOn(p) \/ WaitGivesUp(p) \/ LeaseExpires(p)
    BY <1>7
  <2>1. CASE WaitBegins(p) \/ WaitReads(p) \/ WaitCommits(p) \/ WaitGivesUp(p)
    <3>1. UNCHANGED <<child, attempts, stop>>
      BY <2>1 DEF WaitBegins, WaitReads, WaitCommits, WaitGivesUp, outsideWait
    <3>2. UNCHANGED sec \/ \E op \in {"claim", "stale", "commit", "ack", "release"} : Begin(p, op, "wait")
      BY <2>1 DEF WaitBegins, WaitReads, WaitCommits, WaitGivesUp
    <3> QED
      BY <3>1, <3>2, BeginsAlone
  <2>2. CASE WaitClaimed(p) \/ WaitReconciled(p) \/ WaitReturns(p) \/ WaitReleased(p)
    <3>1. UNCHANGED <<child, attempts, stop>>
      BY <2>2 DEF WaitClaimed, WaitReconciled, WaitReturns, WaitReleased
    <3>2. \E op : Leave(p, op, "wait")
      BY <2>2 DEF WaitClaimed, WaitReconciled, WaitReturns, WaitReleased
    <3> QED
      BY <3>1, <3>2, LeavesAlone
  <2>3. CASE LeaseExpires(p)
    BY <2>3 DEF LeaseExpires
  <2> QED
    BY <2>1, <2>2, <2>3 DEF WaitGoesOn
<1>8. CASE StopBegins \/ StopProbes
  BY <1>8, BeginsAlone DEF StopBegins, StopProbes, outsideStop, Idle
<1>9. CASE StopReconciled \/ StopVerified \/ StopEnds
  BY <1>9, LeavesAlone DEF StopReconciled, StopVerified, StopEnds
<1>10. CASE UNCHANGED vars
  BY <1>10 DEF vars
<1> QED
  BY <1>1, <1>2, <1>3, <1>4, <1>5, <1>6, <1>7, <1>8, <1>9, <1>10 DEF Next, Turns, StopGoesOn

LEMMA OwnTypes ==
  ASSUME TypeOK, Links, [Next]_vars, SharedTypeOK'
  PROVE  TypeOK'
<1> USE RunAssumption DEF TypeOK, Waiter
<1> USE DEF recordVars, childVars, stopVars, waitVars, tuiVars, ghostVars
<1>1. CASE \E p \in Proc : Section(p)
  <2> PICK p \in Proc : Section(p)
    BY <1>1
  <2>1. UNCHANGED <<child, attempts, stopVars, waitVars, tuiVars>> /\ expired' \subseteq Waiter
    BY DEF Section, Take, Unlink, Create, Read, Write, outsideLock
  <2> QED
    BY <2>1
<1>2. CASE Exit \/ \E p \in Proc : Die(p)
  <2>1. UNCHANGED <<childVars, stopVars, waitVars, expired, tuiVars>>
    BY <1>2 DEF Exit, Die
  <2> QED
    BY <2>1
<1>3. CASE ChildBegins
  BY <1>3 DEF ChildBegins, outsideChild, Links
<1>4. CASE Identified \/ Beaten
  <2>1. UNCHANGED <<attempts, settled, stopVars, waitVars, expired, tuiVars>> /\ child' \in {child, "work"}
    BY <1>4 DEF Identified, Beaten, Leave
  <2> QED
    BY <2>1
<1>5. CASE SettleEnds
  <2>1. Child \in Proc
    BY DEF Child, Proc
  <2>2. child = "settle"
    BY <1>5, <2>1, LeavesAlone DEF SettleEnds, Links
  <2> QED
    BY <1>5, <2>2 DEF SettleEnds, Leave, Retries
<1>6. CASE Poll \/ Retire \/ Turns
  <2>1. CASE Poll \/ Retire
    BY <2>1 DEF Poll, Observe, Handed, Retire, outsideTui
  <2>2. CASE Turns
    <3>1. UNCHANGED outsideTurn
      BY <2>2, TurnsAside
    <3>2. /\ busy' \in BOOLEAN /\ inbox' \in BOOLEAN /\ wake' \in BOOLEAN
          /\ told' \subseteq {"wake", "inbox", "wait", "read", "cli"}
      BY <2>2 DEF Turns, TurnBegins, Injected, TurnEnds, WakeTurn
    <3> QED
      BY <3>1, <3>2 DEF outsideTurn, outsideTui
  <2> QED
    BY <1>6, <2>1, <2>2
<1>7. CASE Reconcile \/ Reconciled
  <2>1. UNCHANGED <<childVars, stopVars, waitVars, expired, busy, told>>
    BY <1>7 DEF Reconcile, Reconciled, Observe, Leave, outsideTui
  <2>2. /\ dock' \in {"active", "terminal", "closed"}
        /\ notified' \in BOOLEAN /\ inbox' \in BOOLEAN /\ wake' \in BOOLEAN
    BY <1>7 DEF Reconcile, Reconciled, Observe, Handed
  <2> QED
    BY <2>1, <2>2
<1>8. CASE \E p \in Waiter : WaitBegins(p) \/ WaitGoesOn(p) \/ WaitGivesUp(p) \/ LeaseExpires(p)
  <2> PICK p \in Waiter : WaitBegins(p) \/ WaitGoesOn(p) \/ WaitGivesUp(p) \/ LeaseExpires(p)
    BY <1>8
  <2>1. CASE WaitBegins(p)
    BY <2>1 DEF WaitBegins, outsideWait
  <2>2. CASE WaitClaimed(p)
    <3> DEFINE b == Ran(p) /\ sec[p].copy.lease = p
    <3>1. b \in BOOLEAN
      BY Zenon
    <3>2. token' = [token EXCEPT ![p] = b]
      BY <2>2 DEF WaitClaimed
    <3> HIDE DEF b
    <3>3. token' \in [Waiter -> BOOLEAN]
      BY <3>1, <3>2
    <3> QED
      BY <2>2, <3>3 DEF WaitClaimed, Leave
  <2>3. CASE WaitReads(p)
    BY <2>3 DEF WaitReads, WaitSees, outsideWait
  <2>4. CASE WaitReconciled(p)
    BY <2>4 DEF WaitReconciled, WaitSees, Leave
  <2>5. CASE WaitCommits(p)
    BY <2>5 DEF WaitCommits, outsideWait
  <2>6. CASE WaitReturns(p)
    BY <2>6 DEF WaitReturns, Leave
  <2>7. CASE WaitReleased(p) \/ WaitGivesUp(p)
    <3>1. CASE WaitReleased(p)
      BY <2>7, <3>1 DEF WaitReleased, Leave
    <3>2. CASE WaitGivesUp(p)
      <4>1. \E w \in {"release", "idle"} : wait' = [wait EXCEPT ![p] = w]
        BY <3>2 DEF WaitGivesUp
      <4> QED
        BY <3>2, <4>1 DEF WaitGivesUp, outsideWait
    <3> QED
      BY <2>7, <3>1, <3>2
  <2>8. CASE LeaseExpires(p)
    BY <2>8 DEF LeaseExpires
  <2> QED
    BY <2>1, <2>2, <2>3, <2>4, <2>5, <2>6, <2>7, <2>8 DEF WaitGoesOn
<1>9. CASE StopBegins \/ StopProbes
  BY <1>9 DEF StopBegins, StopProbes, outsideStop
<1>10. CASE StopReconciled \/ StopEnds
  BY <1>10 DEF StopReconciled, StopEnds, Leave
<1>11. CASE StopVerified
  <2>1. Cli \in Proc
    BY DEF Cli, Proc
  <2>2. stop = "verify"
    BY <1>11, <2>1, LeavesAlone DEF StopVerified, Links
  <2> QED
    BY <1>11, <2>2 DEF StopVerified, Leave
<1>12. CASE UNCHANGED vars
  BY <1>12 DEF vars
<1> QED
  BY <1>1, <1>2, <1>3, <1>4, <1>5, <1>6, <1>7, <1>8, <1>9, <1>10, <1>11, <1>12
     DEF Next, Turns, ChildGoesOn, StopGoesOn

TypeInv == TypeOK /\ SectionsOK /\ Links

LEMMA TypeInvHolds == Spec => []TypeInv
<1> USE DEF TypeInv
<1>1. Init => TypeInv
  <2> SUFFICES ASSUME Init PROVE TypeInv
    OBVIOUS
  <2>1. SharedTypeOK
    BY DEF Init, SharedTypeOK, Records, Status, Sections, Outside
  <2>2. SectionsOK /\ Links
    BY DEF Init, SectionsOK, Links, Outside, Proc, Child, Cli
  <2>3. scenario \in Scenario /\ MaxAttempts \in Nat \ {0} /\ MaxWaits \in Nat
    BY RunAssumption DEF Init
  <2>4. 0 \in 0..MaxWaits /\ 0 \in 0..MaxAttempts /\ 0 \in 0..2
    BY <2>3
  <2>5. TypeOK
    BY <2>1, <2>3, <2>4 DEF Init, TypeOK
  <2> QED
    BY <2>2, <2>5
<1>2. TypeInv /\ [Next]_vars => TypeInv'
  BY ActionClasses, SectionsStayOK, SharedTypes, OwnTypes, LinksStay DEF TypeOK
<1> QED
  BY <1>1, <1>2, PTL DEF Spec

\* TypeOK: whatever scenarios and bounds, the variables have their types, and
\* the child has tried its settlement no more often than MaxAttempts says.
THEOREM TypeCorrect == Spec => []TypeOK
<1>1. TypeInv => TypeOK
  BY DEF TypeInv
<1> QED
  BY <1>1, TypeInvHolds, PTL

-----------------------------------------------------------------------------
\* The way into a section: the lock file is made, or the process goes on
\* without it, or it has removed a stale one.
LEMMA WayIn ==
  ASSUME SharedTypeOK, NEW p \in Proc, Take(p) \/ Unlink(p) \/ Create(p)
  PROVE  /\ \A q \in Proc \ {p} : sec'[q] = sec[q]
         /\ \/ lock = Nobody /\ lock' = p
            \/ lock' = lock /\ (sec'[p].held => sec[p].held)
            \/ broken'
         /\ sec'[p].at # "write"
         /\ ~torn' => ~torn
         /\ ~torn' /\ sec'[p].at = "read" => \A q \in alive \ {p} : sec[q].at \notin {"read", "write"}
         /\ (broken => broken') /\ UNCHANGED <<record, alive, settled>>
<1> USE DEF SharedTypeOK
<1>1. \A h : Enter(p, h) =>
        /\ \A q \in Proc \ {p} : sec'[q] = sec[q]
        /\ sec'[p].held = h /\ sec'[p].at = "read"
        /\ ~torn' => ~torn /\ \A q \in alive \ {p} : sec[q].at \notin {"read", "write"}
  <2> SUFFICES ASSUME NEW h, Enter(p, h)
        PROVE  /\ \A q \in Proc \ {p} : sec'[q] = sec[q]
               /\ sec'[p].held = h /\ sec'[p].at = "read"
               /\ ~torn' => ~torn /\ \A q \in alive \ {p} : sec[q].at \notin {"read", "write"}
    OBVIOUS
  <2>1. LET n == [sec[p] EXCEPT !.at = "read", !.held = h] IN n.held = h /\ n.at = "read"
    BY DEF Sections
  <2> QED
    BY <2>1 DEF Enter
<1>2. \A a : sec' = [sec EXCEPT ![p].at = a] =>
        (\A q \in Proc \ {p} : sec'[q] = sec[q]) /\ sec'[p].held = sec[p].held /\ sec'[p].at = a
  BY DEF Sections
<1>3. UNCHANGED <<record, alive, settled>>
  BY DEF Take, Unlink, Create, outsideLock, childVars
<1>4. CASE Take(p)
  <2>1. UNCHANGED broken
    BY <1>4 DEF Take
  <2>2. \/ lock = Nobody /\ lock' = p /\ Enter(p, TRUE)
        \/ lock' = lock /\ Enter(p, FALSE)
        \/ lock' = lock /\ torn' = torn /\ \E a \in {"unlink", "finish"} : sec' = [sec EXCEPT ![p].at = a]
    BY <1>4 DEF Take, Refused
  <2> QED
    BY <1>1, <1>2, <1>3, <2>1, <2>2
<1>5. CASE Unlink(p)
  BY <1>1, <1>2, <1>3, <1>5 DEF Unlink, Refused
<1>6. CASE Create(p)
  BY <1>1, <1>2, <1>3, <1>6 DEF Create, Refused
<1> QED
  BY <1>4, <1>5, <1>6

LEMMA ReadStep ==
  ASSUME SharedTypeOK, NEW p \in Proc, Read(p)
  PROVE  /\ \A q \in Proc \ {p} : sec'[q] = sec[q]
         /\ sec'[p].op = sec[p].op /\ sec'[p].copy = record /\ sec'[p].held = sec[p].held
         /\ sec'[p].at = "write" => Writes(sec[p].op, p, record)
         /\ p \in alive /\ sec[p].at = "read" /\ sec'[p].at \in {"write", "finish"}
         /\ UNCHANGED <<record, lock, alive, settled, torn, broken>>
<1> USE DEF SharedTypeOK
<1>1. \A a : LET n == [sec[p] EXCEPT !.copy = record, !.at = a]
            IN  n.op = sec[p].op /\ n.copy = record /\ n.held = sec[p].held /\ n.at = a
  BY DEF Sections
<1> QED
  BY <1>1 DEF Read, outsideLock, childVars, ghostVars

LEMMA WriteStep ==
  ASSUME SharedTypeOK, NEW p \in Proc, Write(p)
  PROVE  /\ \A q \in Proc \ {p} : sec'[q] = sec[q]
         /\ record' = Outcome(sec[p].op, p, sec[p].copy)
         /\ sec'[p].at = "finish" /\ sec'[p].held = sec[p].held
         /\ p \in alive /\ sec[p].at = "write"
         /\ settled' = (settled \/ sec[p].op = "settle")
         /\ UNCHANGED <<lock, alive, torn, broken>>
<1> USE DEF SharedTypeOK
<1>1. \A c : LET n == [sec[p] EXCEPT !.copy = c, !.at = "finish"]
            IN  n.held = sec[p].held /\ n.at = "finish"
  BY DEF Sections
<1> QED
  BY <1>1 DEF Write, ghostVars

LEMMA BoundaryStep ==
  ASSUME SharedTypeOK, Starts \/ Leaves
  PROVE  \E p \in Proc : /\ \A q \in Proc \ {p} : sec'[q] = sec[q]
                         /\ ~sec'[p].held /\ sec'[p].at \in {"out", "take"}
                         /\ lock' \in {lock, Unlocked(p)}
                         /\ UNCHANGED <<record, alive, settled, torn, broken>>
<1>1. CASE Starts
  <2> PICK p \in Proc, op \in Ops, why \in {"none", "poll", "wait", "stop"} :
         Begin(p, op, why) /\ UNCHANGED <<record, lock, alive, settled, torn, broken>>
    BY <1>1 DEF Starts
  <2> QED
    BY DEF SharedTypeOK, Begin, Outside
<1>2. CASE Leaves
  BY <1>2 DEF SharedTypeOK, Leaves, Outside
<1> QED
  BY <1>1, <1>2

-----------------------------------------------------------------------------
\* As long as no stale lock has been removed, the file there is the holder's.
HolderInv == ~broken => \A p \in Proc : sec[p].held => lock = p

LEMMA HolderStep == ASSUME SharedTypeOK, HolderInv, Classes PROVE HolderInv'
<1> USE DEF HolderInv
<1>0. \A p \in Proc : p # Nobody
  BY DEF Proc, Child, Tui, Cli, Nobody
<1>1. CASE \E p \in Proc : Section(p)
  <2> PICK p \in Proc : Section(p)
    BY <1>1
  <2>1. CASE Take(p) \/ Unlink(p) \/ Create(p)
    BY <1>0, <2>1, WayIn
  <2>2. CASE Read(p)
    BY <2>2, ReadStep
  <2>3. CASE Write(p)
    BY <2>3, WriteStep
  <2> QED
    BY <2>1, <2>2, <2>3 DEF Section
<1>2. CASE Starts \/ Leaves
  BY <1>2, BoundaryStep DEF Unlocked
<1>3. CASE Dies
  BY <1>3 DEF Dies
<1>4. CASE UNCHANGED shared
  BY <1>4 DEF shared
<1> QED
  BY <1>1, <1>2, <1>3, <1>4 DEF Classes

\* HolderExclusive: the exclusive create of the lock file ("wx") lets one
\* process at a time hold it, dead or alive, until someone removes a stale one.
THEOREM HoldersExclude == Spec => []HolderExclusive
<1>1. Init => HolderInv
  BY DEF Init, HolderInv, Outside
<1>2. TypeInv /\ HolderInv /\ [Next]_vars => HolderInv'
  BY ActionClasses, HolderStep DEF TypeInv, TypeOK
<1>3. HolderInv => HolderExclusive
  BY DEF HolderInv, HolderExclusive
<1> QED
  BY <1>1, <1>2, <1>3, TypeInvHolds, PTL DEF Spec

-----------------------------------------------------------------------------
Verdict(r) == r.status \in {"killed", "orphaned"}

\* No verdict is published, or about to be, on a child that runs.
VerdictInv ==
  Child \in alive => ~Verdict(record) /\ \A p \in Proc : sec[p].at = "write" => ~Verdict(sec[p].copy)

LEMMA OutcomeStatus ==
  ASSUME NEW op \in Ops, NEW p, NEW r \in Records
  PROVE  /\ op = "settle" => Outcome(op, p, r).status = "done"
         /\ op \notin {"settle", "kill", "stale"} => Outcome(op, p, r).status = r.status
<1> USE DEF Records, Outcome, Committed
<1>1. op = "settle" => Outcome(op, p, r).status = "done"
  OBVIOUS
<1>2. CASE op \in {"identity", "beat", "verify", "claim"}
  BY <1>1, <1>2
<1>3. CASE op \in {"commit", "ack", "release"}
  BY <1>1, <1>3
<1> QED
  BY <1>1, <1>2, <1>3 DEF Ops

LEMMA VerdictStep == ASSUME SharedTypeOK, SectionsOK, VerdictInv, Classes PROVE VerdictInv'
<1> USE DEF VerdictInv
<1>1. CASE \E p \in Proc : Section(p)
  <2> PICK p \in Proc : Section(p)
    BY <1>1
  <2>1. CASE Take(p) \/ Unlink(p) \/ Create(p)
    BY <2>1, WayIn
  <2>2. CASE Read(p)
    BY <2>2, ReadStep
  <2>3. CASE Write(p)
    <3> SUFFICES ASSUME Child \in alive PROVE ~Verdict(record')
      BY <2>3, WriteStep
    <3>1. sec[p].op \in Ops \ {"kill", "stale"} /\ sec[p].copy \in Records /\ ~Verdict(sec[p].copy)
      BY <2>3, WriteStep DEF SectionsOK
    <3> QED
      BY <2>3, <3>1, WriteStep, OutcomeStatus DEF Verdict
  <2> QED
    BY <2>1, <2>2, <2>3 DEF Section
<1>2. CASE Starts \/ Leaves
  BY <1>2, BoundaryStep
<1>3. CASE Dies
  BY <1>3 DEF Dies
<1>4. CASE UNCHANGED shared
  BY <1>4 DEF shared
<1> QED
  BY <1>1, <1>2, <1>3, <1>4 DEF Classes

\* VerdictMeansGone: whoever stops or reconciles the run, and whatever sections
\* overlap, a live child is never recorded as killed or orphaned.
THEOREM VerdictsAreTrue == Spec => []VerdictMeansGone
<1>1. Init => VerdictInv
  BY DEF Init, VerdictInv, Verdict, Outside
<1>2. TypeInv /\ VerdictInv /\ [Next]_vars => VerdictInv'
  BY ActionClasses, VerdictStep DEF TypeInv, TypeOK
<1>3. VerdictInv => VerdictMeansGone
  BY DEF VerdictInv, VerdictMeansGone, Verdict
<1> QED
  BY <1>1, <1>2, <1>3, TypeInvHolds, PTL DEF Spec

-----------------------------------------------------------------------------
Inside(p) == p \in alive /\ sec[p].at \in {"read", "write"}

\* While no two sections have overlapped, one process at most is inside, what
\* it is about to write over is what it has read, and it may write over that.
OutcomeInv ==
  ~torn =>
    /\ \A p, q \in Proc : Inside(p) /\ Inside(q) => p = q
    /\ \A p \in alive : sec[p].at = "write" => sec[p].copy = record /\ ~Final(sec[p].op, record)
    /\ settled => record.status = "done"

LEMMA OutcomeStep == ASSUME SharedTypeOK, SectionsOK, OutcomeInv, Classes PROVE OutcomeInv'
<1> USE DEF OutcomeInv, Inside
<1>0. alive \subseteq Proc
  BY DEF SharedTypeOK
<1>1. CASE \E p \in Proc : Section(p)
  <2> PICK p \in Proc : Section(p)
    BY <1>1
  <2>1. CASE Take(p) \/ Unlink(p) \/ Create(p)
    BY <1>0, <2>1, WayIn
  <2>2. CASE Read(p)
    BY <1>0, <2>2, ReadStep DEF Writes
  <2>3. CASE Write(p)
    <3> SUFFICES ASSUME ~torn PROVE settled' => record'.status = "done"
      BY <1>0, <2>3, WriteStep
    <3>1. sec[p].op \in Ops /\ sec[p].copy \in Records /\ sec[p].copy = record /\ ~Final(sec[p].op, record)
      BY <2>3, WriteStep DEF SectionsOK
    <3>2. CASE sec[p].op = "settle"
      <4>1. Outcome(sec[p].op, p, sec[p].copy).status = "done"
        BY <3>1, <3>2, OutcomeStatus
      <4> QED
        BY <2>3, <4>1, WriteStep
    <3>3. CASE sec[p].op # "settle"
      <4> SUFFICES ASSUME record.status = "done" PROVE record'.status = "done"
        BY <2>3, <3>3, WriteStep
      <4>1. sec[p].op \notin {"kill", "stale"}
        BY <3>1 DEF Final, Terminal
      <4>2. Outcome(sec[p].op, p, sec[p].copy).status = sec[p].copy.status
        BY <3>1, <3>3, <4>1, OutcomeStatus
      <4> QED
        BY <2>3, <3>1, <4>2, WriteStep
    <3> QED
      BY <3>2, <3>3
  <2> QED
    BY <2>1, <2>2, <2>3 DEF Section
<1>2. CASE Starts \/ Leaves
  BY <1>0, <1>2, BoundaryStep
<1>3. CASE Dies
  BY <1>3 DEF Dies
<1>4. CASE UNCHANGED shared
  BY <1>4 DEF shared
<1> QED
  BY <1>1, <1>2, <1>3, <1>4 DEF Classes

\* OutcomeKept: the outcome the child has published stays the record's, whoever
\* stops, reconciles, claims or releases the run, while no sections overlap.
THEOREM OutcomesStay == Spec => []OutcomeKept
<1>1. Init => OutcomeInv
  BY DEF Init, OutcomeInv, Inside, Outside
<1>2. TypeInv /\ OutcomeInv /\ [Next]_vars => OutcomeInv'
  BY ActionClasses, OutcomeStep DEF TypeInv, TypeOK
<1>3. OutcomeInv => OutcomeKept
  BY DEF OutcomeInv, OutcomeKept
<1> QED
  BY <1>1, <1>2, <1>3, TypeInvHolds, PTL DEF Spec

-----------------------------------------------------------------------------
(***************************************************************************)
(* The claim of a wait.  What a step does to the sections and the waits is *)
(* of one of five kinds; the invariant is proved of the kinds.             *)
(***************************************************************************)
WaitOps == {"claim", "release", "commit", "ack"}

\* Only process p moves, and neither the record nor the leases change.
Apart(p) ==
  /\ \A q \in Proc \ {p} : sec'[q] = sec[q]
  /\ \A q \in Waiter \ {p} : wait'[q] = wait[q] /\ token'[q] = token[q]
  /\ UNCHANGED <<record, alive, torn, expired>>

\* p begins a section: one of its wait, where the wait stands for it.
Begins(p) ==
  /\ Apart(p) /\ told' = told
  /\ sec[p].at = "out" /\ sec'[p].at = "take" /\ ~sec'[p].held
  /\ p \in Waiter =>
       /\ token'[p] = token[p]
       /\ \/ sec'[p].op \notin WaitOps /\ wait'[p] = wait[p]
          \/ sec'[p].op = "claim" /\ wait[p] = "idle" /\ wait'[p] = "first"
          \/ sec'[p].op = "commit" /\ wait[p] = "commit" /\ wait'[p] = "commit"
          \/ sec'[p].op = "ack" /\ ~token[p] /\ wait[p] = "commit" /\ wait'[p] = "commit"
          \/ sec'[p].op = "release" /\ wait'[p] = "release"

\* p leaves its section, with what it has brought its wait.
Ends(p) ==
  /\ Apart(p) /\ p \in alive
  /\ sec[p].at = "finish" /\ sec'[p] = Outside
  /\ "wait" \in told' => "wait" \in told \/ (p = Tui /\ token[p] /\ sec[p].op \in {"commit", "ack"})
  /\ p \in Waiter =>
       \/ /\ sec[p].op \notin WaitOps /\ token'[p] = token[p]
          /\ wait'[p] = wait[p] \/ wait'[p] \in {"commit", "read"}
       \/ sec[p].op = "claim" /\ wait'[p] = wait[p] /\ (token'[p] => Ran(p) /\ sec[p].copy.lease = p)
       \/ sec[p].op \in {"commit", "ack", "release"} /\ wait'[p] = "idle" /\ ~token'[p]

\* The wait of p goes on between sections.
Walks(p) ==
  /\ Apart(p) /\ sec' = sec /\ told' = told
  /\ sec[p].at = "out" /\ token'[p] = token[p]
  /\ wait'[p] \in {"commit", "read"} \/ (wait'[p] = "idle" /\ ~token[p])

\* No section and no wait moves; a process may die, a lease run out.
Rests ==
  /\ UNCHANGED <<record, sec, wait, token, torn>> /\ alive' \subseteq alive
  /\ "wait" \in told' => "wait" \in told
  /\ \/ expired' = expired
     \/ \E p \in Waiter : expired' = expired \cup {p} /\ (p \notin alive \/ wait[p] = "idle")

Kinds ==
  \/ \E p \in Proc : Section(p) \/ Begins(p) \/ Ends(p)
  \/ \E p \in Waiter : Walks(p)
  \/ Rests

\* A section that is begun or left, as a kind.
LEMMA BeginsFrom ==
  ASSUME SharedTypeOK, NEW p \in Proc, NEW op, NEW why, Idle(p), Begin(p, op, why)
  PROVE  /\ \A q \in Proc \ {p} : sec'[q] = sec[q]
         /\ sec[p].at = "out" /\ sec'[p].at = "take" /\ ~sec'[p].held /\ sec'[p].op = op
BY DEF SharedTypeOK, Begin, Idle, Outside

LEMMA EndsFrom ==
  ASSUME SharedTypeOK, NEW p \in Proc, NEW op, NEW why, Leave(p, op, why)
  PROVE  /\ \A q \in Proc \ {p} : sec'[q] = sec[q]
         /\ p \in alive /\ sec[p].at = "finish" /\ sec[p].op = op /\ sec'[p] = Outside
         /\ UNCHANGED <<record, alive, torn, expired>>
BY DEF SharedTypeOK, Leave, ghostVars

LEMMA WaitKinds == ASSUME TypeOK, [Next]_vars PROVE Kinds
<1> SUFFICES ASSUME SharedTypeOK PROVE Kinds
  BY DEF TypeOK
<1>0. /\ Child \in Proc /\ Tui \in Proc /\ Cli \in Proc /\ Waiter \subseteq Proc
      /\ Child \notin Waiter /\ Tui # Cli
  BY DEF Proc, Waiter, Child, Tui, Cli
<1>t. token \in [Waiter -> BOOLEAN] /\ wait \in [Waiter -> {"idle", "first", "read", "commit", "release"}]
  BY DEF TypeOK
<1> USE DEF Kinds, recordVars, childVars, stopVars, waitVars, tuiVars, ghostVars
<1>1. CASE \E p \in Proc : Section(p)
  BY <1>1
<1>2. CASE ChildBegins
  <2>1. UNCHANGED <<record, alive, torn, expired, wait, token, told>>
    BY <1>2 DEF ChildBegins, outsideChild
  <2>2. CASE sec' = sec
    BY <2>1, <2>2 DEF Rests
  <2>3. CASE Idle(Child) /\ \E op \in {"identity", "beat", "settle"} : Begin(Child, op, "none")
    <3>1. Begins(Child)
      BY <1>0, <2>1, <2>3, BeginsFrom DEF Begins, Apart
    <3> QED BY <1>0, <3>1
  <2> QED BY <1>2, <2>2, <2>3 DEF ChildBegins
<1>3. CASE ChildGoesOn
  <2>1. UNCHANGED <<wait, token, told>> /\ \E op \in {"identity", "beat", "settle"} : Leave(Child, op, "none")
    BY <1>3 DEF ChildGoesOn, Identified, Beaten, SettleEnds
  <2>2. Ends(Child)
    BY <1>0, <2>1, EndsFrom DEF Ends, Apart
  <2> QED BY <1>0, <2>2
<1>4. CASE Exit \/ (\E p \in Proc : Die(p)) \/ Poll \/ Retire \/ Turns \/ UNCHANGED vars
  <2>1. CASE Exit \/ (\E p \in Proc : Die(p)) \/ UNCHANGED vars
    BY <2>1 DEF Exit, Die, vars, Rests
  <2>2. CASE Poll \/ Retire
    BY <2>2 DEF Poll, Observe, Retire, outsideTui, Rests
  <2>3. CASE Turns
    <3>1. UNCHANGED outsideTurn /\ ("wait" \in told' => "wait" \in told)
      BY <2>3, TurnsAside DEF Turns, TurnBegins, Injected, TurnEnds, WakeTurn
    <3> QED BY <3>1 DEF outsideTurn, outsideTui, Rests
  <2> QED BY <1>4, <2>1, <2>2, <2>3
<1>5. CASE Reconcile
  <2>1. UNCHANGED <<record, alive, torn, expired, wait, token, told>> /\ Idle(Tui) /\ Begin(Tui, "stale", "poll")
    BY <1>5 DEF Reconcile, Free, outsideTui
  <2>2. Begins(Tui)
    BY <1>0, <2>1, BeginsFrom DEF Begins, Apart, WaitOps
  <2> QED BY <1>0, <2>2
<1>6. CASE Reconciled
  <2>1. UNCHANGED <<wait, token, told>> /\ Leave(Tui, "stale", "poll")
    BY <1>6 DEF Reconciled, Observe
  <2>2. Ends(Tui)
    BY <1>0, <2>1, EndsFrom DEF Ends, Apart, WaitOps
  <2> QED BY <1>0, <2>2
<1>7. CASE StopBegins \/ StopProbes
  <2>1. UNCHANGED <<record, alive, torn, expired, wait, token, told>> /\ Idle(Cli)
        /\ (UNCHANGED sec \/ \E op \in {"stale", "kill", "verify"} : Begin(Cli, op, "stop"))
    BY <1>7 DEF StopBegins, StopProbes, outsideStop
  <2>2. CASE UNCHANGED sec
    BY <2>1, <2>2 DEF Rests
  <2>3. CASE \E op \in {"stale", "kill", "verify"} : Begin(Cli, op, "stop")
    <3>1. Begins(Cli)
      BY <1>0, <2>1, <2>3, BeginsFrom DEF Begins, Apart, WaitOps
    <3> QED BY <1>0, <3>1
  <2> QED BY <2>1, <2>2, <2>3
<1>8. CASE StopReconciled \/ StopVerified \/ StopEnds
  <2>1. UNCHANGED <<wait, token, told>> /\ \E op \in {"stale", "kill", "verify"} : Leave(Cli, op, "stop")
    BY <1>8 DEF StopReconciled, StopVerified, StopEnds
  <2>2. Ends(Cli)
    BY <1>0, <2>1, EndsFrom DEF Ends, Apart, WaitOps
  <2> QED BY <1>0, <2>2
<1>9. ASSUME NEW p \in Waiter, WaitBegins(p) \/ WaitReads(p) \/ WaitCommits(p) \/ WaitGivesUp(p) PROVE Kinds
  <2>0. p \in Proc /\ UNCHANGED <<record, alive, torn, expired, told, token>> /\ Idle(p)
    BY <1>0, <1>9 DEF WaitBegins, WaitReads, WaitCommits, WaitGivesUp, outsideWait
  <2>1. CASE WaitBegins(p)
    <3>1. /\ Begin(p, "claim", "wait") /\ wait[p] = "idle" /\ wait'[p] = "first"
          /\ \A q \in Waiter \ {p} : wait'[q] = wait[q]
      BY <1>t, <2>1 DEF WaitBegins
    <3> QED BY <2>0, <3>1, BeginsFrom DEF Begins, Apart
  <2>2. CASE WaitSees(p, record) /\ UNCHANGED sec
    <3>1. sec[p].at = "out" /\ wait'[p] \in {"commit", "read"} /\ \A q \in Waiter \ {p} : wait'[q] = wait[q]
      BY <1>t, <2>0, <2>2 DEF WaitSees, Idle
    <3> QED BY <2>0, <2>2, <3>1 DEF Walks, Apart
  <2>3. CASE WaitReads(p) /\ Begin(p, "stale", "wait") /\ UNCHANGED wait
    BY <2>0, <2>3, BeginsFrom DEF Begins, Apart, WaitOps
  <2>4. CASE WaitCommits(p)
    <3>1. wait' = wait /\ wait[p] = "commit" /\ (Begin(p, "commit", "wait") \/ (~token[p] /\ Begin(p, "ack", "wait")))
      BY <2>4 DEF WaitCommits
    <3> QED BY <2>0, <3>1, BeginsFrom DEF Begins, Apart
  <2>5. CASE WaitGivesUp(p) /\ token[p]
    <3>1. Begin(p, "release", "wait") /\ wait'[p] = "release" /\ \A q \in Waiter \ {p} : wait'[q] = wait[q]
      BY <1>t, <2>5 DEF WaitGivesUp
    <3> QED BY <2>0, <3>1, BeginsFrom DEF Begins, Apart
  <2>6. CASE WaitGivesUp(p) /\ ~token[p]
    <3>1. sec' = sec /\ sec[p].at = "out" /\ wait'[p] = "idle" /\ \A q \in Waiter \ {p} : wait'[q] = wait[q]
      BY <1>t, <2>6 DEF WaitGivesUp, Idle
    <3> QED BY <2>0, <2>6, <3>1 DEF Walks, Apart
  <2> QED BY <1>9, <2>1, <2>2, <2>3, <2>4, <2>5, <2>6 DEF WaitReads
<1>10. ASSUME NEW p \in Waiter, WaitClaimed(p) \/ WaitReconciled(p) \/ WaitReturns(p) \/ WaitReleased(p) PROVE Kinds
  <2>0. p \in Proc
    BY <1>0
  <2>1. CASE WaitClaimed(p)
    <3>1. /\ Leave(p, "claim", "wait") /\ wait' = wait /\ told' = told
          /\ token'[p] => Ran(p) /\ sec[p].copy.lease = p
          /\ \A q \in Waiter \ {p} : token'[q] = token[q]
      BY <1>t, <2>1 DEF WaitClaimed
    <3> QED BY <2>0, <3>1, EndsFrom DEF Ends, Apart
  <2>2. CASE WaitReconciled(p)
    <3>1. /\ Leave(p, "stale", "wait") /\ token' = token /\ told' = told
          /\ wait'[p] \in {"commit", "read"} /\ \A q \in Waiter \ {p} : wait'[q] = wait[q]
      BY <1>t, <2>2 DEF WaitReconciled, WaitSees
    <3> QED BY <2>0, <3>1, EndsFrom DEF Ends, Apart, WaitOps
  <2>3. CASE WaitReturns(p)
    <3>1. /\ \E op \in {"commit", "ack"} : Leave(p, op, "wait")
          /\ wait'[p] = "idle" /\ ~token'[p]
          /\ \A q \in Waiter \ {p} : token'[q] = token[q] /\ wait'[q] = wait[q]
      BY <1>t, <2>3 DEF WaitReturns
    <3>2. "wait" \in told' => "wait" \in told \/ (p = Tui /\ token[p])
      BY <1>0, <2>3 DEF WaitReturns, Waiter
    <3> QED BY <2>0, <3>1, <3>2, EndsFrom DEF Ends, Apart
  <2>4. CASE WaitReleased(p)
    <3>1. /\ Leave(p, "release", "wait") /\ told' = told
          /\ wait'[p] = "idle" /\ ~token'[p]
          /\ \A q \in Waiter \ {p} : token'[q] = token[q] /\ wait'[q] = wait[q]
      BY <1>t, <2>4 DEF WaitReleased
    <3> QED BY <2>0, <3>1, EndsFrom DEF Ends, Apart
  <2> QED BY <1>10, <2>1, <2>2, <2>3, <2>4
<1>11. ASSUME NEW p \in Waiter, LeaseExpires(p) PROVE Kinds
  BY <1>11 DEF LeaseExpires, Rests
<1> QED
  BY <1>1, <1>2, <1>3, <1>4, <1>5, <1>6, <1>7, <1>8, <1>9, <1>10, <1>11 DEF Next, Turns, WaitGoesOn, StopGoesOn


-----------------------------------------------------------------------------
\* Where a wait stands, the section of it under way is.
In(p, op) == sec[p].at # "out" /\ sec[p].op = op
WaitLinks ==
  /\ \A p \in Proc : sec[p].at \in {"out", "take", "unlink", "create"} => ~sec[p].held
  /\ \A p \in Waiter :
       /\ wait[p] = "idle" => ~token[p]
       /\ In(p, "claim") => wait[p] = "first" /\ ~token[p]
       /\ In(p, "release") <=> wait[p] = "release"
       /\ In(p, "commit") => wait[p] = "commit"
       /\ In(p, "ack") => wait[p] = "commit" /\ ~token[p]

\* What the way into a section leaves, and where it leads.
LEMMA WayInSection ==
  ASSUME SharedTypeOK, NEW p \in Proc, Take(p) \/ Unlink(p) \/ Create(p)
  PROVE  /\ \A q \in Proc \ {p} : sec'[q] = sec[q]
         /\ sec[p].at \in {"take", "unlink", "create"} /\ sec'[p].op = sec[p].op
         /\ \/ sec'[p].at = "read"
            \/ sec'[p].at \in {"unlink", "create"} /\ sec'[p].held = sec[p].held
            \/ sec'[p].at = "finish" /\ sec'[p].held = sec[p].held /\ sec[p].op \in Strict
         /\ UNCHANGED <<record, alive, expired, wait, token, told>>
<1> USE DEF SharedTypeOK
<1>1. \A h : Enter(p, h) =>
        (\A q \in Proc \ {p} : sec'[q] = sec[q]) /\ sec'[p].op = sec[p].op /\ sec'[p].at = "read"
  <2> SUFFICES ASSUME NEW h, Enter(p, h)
        PROVE (\A q \in Proc \ {p} : sec'[q] = sec[q]) /\ sec'[p].op = sec[p].op /\ sec'[p].at = "read"
    OBVIOUS
  <2>1. LET n == [sec[p] EXCEPT !.at = "read", !.held = h] IN n.op = sec[p].op /\ n.at = "read"
    BY DEF Sections
  <2> QED BY <2>1 DEF Enter
<1>2. \A a : sec' = [sec EXCEPT ![p].at = a] =>
        /\ \A q \in Proc \ {p} : sec'[q] = sec[q]
        /\ sec'[p].op = sec[p].op /\ sec'[p].held = sec[p].held /\ sec'[p].at = a
  BY DEF Sections
<1>3. Refused(p) =>
        \/ sec[p].op \in Strict /\ sec' = [sec EXCEPT ![p].at = "finish"]
        \/ Enter(p, FALSE)
  BY DEF Refused
<1>4. UNCHANGED <<record, alive, expired, wait, token, told>>
  BY DEF Take, Unlink, Create, outsideLock, waitVars, tuiVars
<1>5. CASE Take(p)
  BY <1>1, <1>2, <1>3, <1>4, <1>5 DEF Take
<1>6. CASE Unlink(p)
  BY <1>1, <1>2, <1>3, <1>4, <1>6 DEF Unlink
<1>7. CASE Create(p)
  BY <1>1, <1>2, <1>3, <1>4, <1>7 DEF Create
<1> QED BY <1>5, <1>6, <1>7

LEMMA WriteKeepsName ==
  ASSUME SharedTypeOK, NEW p \in Proc, Write(p)
  PROVE  /\ sec'[p].op = sec[p].op /\ sec'[p].copy = Outcome(sec[p].op, p, sec[p].copy)
         /\ expired' = (IF sec[p].op = "claim" THEN expired \ {p} ELSE expired)
         /\ UNCHANGED <<wait, token, told>>
<1>1. \A c : LET n == [sec[p] EXCEPT !.copy = c, !.at = "finish"] IN n.op = sec[p].op /\ n.copy = c
  BY DEF SharedTypeOK, Sections
<1> QED BY <1>1 DEF SharedTypeOK, Write, waitVars, tuiVars

LEMMA ReadKeepsWait ==
  ASSUME NEW p \in Proc, Read(p)
  PROVE  /\ UNCHANGED <<expired, wait, token, told>>
BY DEF Read, outsideLock, waitVars, tuiVars

LEMMA WaitLinksStay == ASSUME SharedTypeOK, WaitLinks, Kinds PROVE WaitLinks'
<1> USE DEF WaitLinks, In
<1>0. Waiter \subseteq Proc
  BY DEF Waiter, Proc
<1>1. ASSUME NEW p \in Proc, Section(p) PROVE WaitLinks'
  <2>1. /\ \A q \in Proc \ {p} : sec'[q] = sec[q]
        /\ sec'[p].op = sec[p].op /\ sec[p].at # "out" /\ sec'[p].at # "out"
        /\ sec'[p].at \in {"take", "unlink", "create"} => ~sec'[p].held
        /\ UNCHANGED <<wait, token>>
    <3>1. CASE Take(p) \/ Unlink(p) \/ Create(p)
      BY <3>1, WayInSection
    <3>2. CASE Read(p)
      BY <3>2, ReadStep, ReadKeepsWait
    <3>3. CASE Write(p)
      BY <3>3, WriteStep, WriteKeepsName
    <3> QED BY <1>1, <3>1, <3>2, <3>3 DEF Section
  <2> QED BY <1>0, <2>1
<1>2. ASSUME NEW p \in Proc, Begins(p) PROVE WaitLinks'
  BY <1>0, <1>2 DEF Begins, Apart, WaitOps
<1>3. ASSUME NEW p \in Proc, Ends(p) PROVE WaitLinks'
  BY <1>0, <1>3 DEF Ends, Apart, WaitOps, Outside
<1>4. ASSUME NEW p \in Waiter, Walks(p) PROVE WaitLinks'
  BY <1>0, <1>4 DEF Walks, Apart
<1>5. CASE Rests
  BY <1>5 DEF Rests
<1> QED BY <1>1, <1>2, <1>3, <1>4, <1>5 DEF Kinds

-----------------------------------------------------------------------------
(***************************************************************************)
(* A process has the claim from the write of its lease, also before it     *)
(* knows, until it begins to release it or has returned the end.  While no *)
(* two sections have overlapped, the record shows it: its lease, which is  *)
(* not expired, and once its commit has been written the final ack, which  *)
(* nobody takes back.                                                      *)
(***************************************************************************)
Pending(p) == sec[p].op = "claim" /\ sec[p].at = "finish" /\ sec[p].held /\ sec[p].copy.lease = p
Has(p) == p \in alive /\ ((token[p] /\ wait[p] # "release") \/ Pending(p))
Committing(p) == sec[p].op = "commit" /\ sec[p].at = "finish"
Leased(p) == record.lease = p /\ p \notin expired
Sealed == record.ack /\ record.lease = Nobody
Shown(p) == (Committing(p) => Sealed) /\ (~Committing(p) => Leased(p))

ClaimInv ==
  ~torn =>
    /\ \A p \in alive : sec[p].at = "write" => Writes(sec[p].op, p, record)
    /\ record.lease # Nobody => record.ack
    /\ \A p \in Waiter : Has(p) => Shown(p)
    /\ \A p, q \in Waiter : Has(p) /\ Has(q) => p = q
    /\ "wait" \in told => Sealed

\* A step in which the record stays, nobody gets a claim, and what is told of
\* the end is told by one that has committed.
Quiet ==
  /\ record' = record /\ (torn => torn') /\ alive' \subseteq alive /\ expired \subseteq expired'
  /\ \A p \in Proc : sec'[p].at = "write" => sec[p].at = "write" /\ sec'[p].op = sec[p].op
  /\ \A p \in Waiter : Has(p)' => Has(p) /\ (Committing(p)' <=> Committing(p)) /\ (p \in expired' => p \in expired)
  /\ "wait" \in told' => "wait" \in told \/ \E p \in Waiter : Has(p) /\ Committing(p)

\* A section about to write may still write when a lease has run out since.
LEMMA WritesStill ==
  ASSUME NEW p, record' = record, expired \subseteq expired', sec'[p].op = sec[p].op,
         Writes(sec[p].op, p, record)
  PROVE  Writes(sec[p].op, p, record)'
BY DEF Writes, Final, Terminal, Claimable, Claimed

LEMMA QuietClaims ==
  ASSUME SharedTypeOK, ClaimInv, Quiet
  PROVE  ClaimInv'
<1> SUFFICES ASSUME ~torn' PROVE ClaimInv'
  BY DEF ClaimInv
<1>0. ~torn /\ alive' \subseteq Proc
  BY DEF Quiet, SharedTypeOK
<1>1. ASSUME NEW p \in alive', sec'[p].at = "write" PROVE Writes(sec[p].op, p, record)'
  BY <1>0, <1>1, WritesStill DEF ClaimInv, Quiet
<1>2. (record'.lease # Nobody => record'.ack) /\ (Sealed => Sealed')
  BY <1>0 DEF ClaimInv, Quiet, Sealed
<1>3. \A p \in Waiter : Has(p)' => Shown(p)'
  BY <1>0, <1>2 DEF ClaimInv, Quiet, Shown, Leased
<1>4. \A p, q \in Waiter : Has(p)' /\ Has(q)' => p = q
  BY <1>0 DEF ClaimInv, Quiet
<1>5. "wait" \in told' => Sealed'
  BY <1>0, <1>2 DEF ClaimInv, Quiet, Shown
<1> QED BY <1>1, <1>2, <1>3, <1>4, <1>5 DEF ClaimInv

\* Every step but those of sections inside is quiet.
LEMMA QuietKinds ==
  ASSUME SharedTypeOK, WaitLinks,
         \/ \E p \in Proc : Take(p) \/ Unlink(p) \/ Create(p) \/ Begins(p) \/ Ends(p)
         \/ \E p \in Waiter : Walks(p)
         \/ Rests
  PROVE  Quiet
<1>0. Waiter \subseteq Proc
  BY DEF Waiter, Proc
<1>1. ASSUME NEW p \in Proc, Take(p) \/ Unlink(p) \/ Create(p) PROVE Quiet
  <2>0. torn => torn'
    <3>1. ~torn' => ~torn
      BY <1>1, WayIn
    <3> QED BY <3>1
  <2>1. ~sec[p].held
    BY <1>1, WayInSection DEF WaitLinks
  <2>2. ASSUME NEW q \in Waiter, Has(q)' PROVE Has(q) /\ ~Committing(p) /\ (q = p => ~Committing(q)')
    <3>0. UNCHANGED <<alive, wait, token>> /\ ~Committing(p)
      BY <1>1, WayInSection DEF Committing
    <3>1. CASE q = p
      <4>1. ~Committing(p)' /\ ~Pending(p)'
        BY <1>1, <2>1, WayInSection DEF Committing, Pending, Strict
      <4> QED BY <2>2, <3>0, <3>1, <4>1 DEF Has
    <3>2. CASE q # p
      <4>1. sec'[q] = sec[q]
        BY <1>0, <1>1, <3>2, WayInSection
      <4> QED BY <2>2, <3>0, <3>2, <4>1 DEF Has, Pending
    <3> QED BY <3>1, <3>2
  <2>3. \A q \in Waiter \ {p} : Committing(q)' <=> Committing(q)
    BY <1>0, <1>1, WayInSection DEF Committing
  <2> QED BY <1>1, <2>0, <2>2, <2>3, WayInSection DEF Quiet
<1>2. ASSUME NEW p \in Proc, Begins(p) PROVE Quiet
  BY <1>0, <1>2 DEF Begins, Apart, WaitLinks, Quiet, Has, Pending, Committing
<1>3. ASSUME NEW p \in Proc, Ends(p) PROVE Quiet
  <2>1. ASSUME NEW q \in Waiter \ {p} PROVE (Has(q)' <=> Has(q)) /\ (Committing(q)' <=> Committing(q))
    BY <1>0, <1>3 DEF Ends, Apart, Has, Pending, Committing
  <2>2. ASSUME p \in Waiter, Has(p)' PROVE Has(p) /\ ~Committing(p) /\ ~Committing(p)'
    <3>1. token'[p] /\ wait'[p] # "release" /\ sec'[p] = Outside
      BY <1>3, <2>2 DEF Ends, Apart, Has, Pending, Outside
    <3>2. CASE sec[p].op \notin WaitOps
      <4>1. wait[p] # "release" /\ token[p] /\ p \in alive
        BY <1>3, <2>2, <3>1, <3>2 DEF Ends, WaitOps, WaitLinks, In
      <4> QED BY <3>1, <3>2, <4>1 DEF Has, Committing, Outside, WaitOps
    <3>3. CASE sec[p].op = "claim"
      <4>1. Ran(p) /\ sec[p].copy.lease = p /\ p \in alive /\ sec[p].at = "finish"
        BY <1>3, <2>2, <3>1, <3>3 DEF Ends, WaitOps
      <4> QED BY <3>1, <3>3, <4>1 DEF Has, Pending, Ran, Strict, Committing, Outside
    <3> QED BY <1>3, <2>2, <3>1, <3>2, <3>3 DEF Ends
  <2>3. ASSUME "wait" \in told' PROVE "wait" \in told \/ (p \in Waiter /\ Has(p) /\ Committing(p))
    <3> SUFFICES ASSUME "wait" \notin told PROVE p \in Waiter /\ Has(p) /\ Committing(p)
      OBVIOUS
    <3>1. p = Tui /\ p \in Waiter /\ p \in alive /\ token[p] /\ sec[p].at = "finish" /\ sec[p].op \in {"commit", "ack"}
      BY <1>3, <2>3 DEF Ends, Waiter
    <3> QED BY <3>1 DEF WaitLinks, In, Has, Committing
  <2>4. \A q \in Proc : sec'[q].at = "write" => sec[q].at = "write" /\ sec'[q].op = sec[q].op
    BY <1>3 DEF Ends, Apart, Outside
  <2> QED BY <1>3, <2>1, <2>2, <2>3, <2>4 DEF Ends, Apart, Quiet
<1>4. ASSUME NEW p \in Waiter, Walks(p) PROVE Quiet
  BY <1>0, <1>4 DEF Walks, Apart, WaitLinks, Quiet, Has, Pending, Committing, In
<1>5. CASE Rests
  <2>1. ASSUME NEW q \in Waiter, Has(q)' PROVE Has(q) /\ (Committing(q)' <=> Committing(q)) /\ (q \in expired' => q \in expired)
    BY <1>5, <2>1 DEF Rests, Has, Pending, Committing, WaitLinks, In
  <2> QED BY <1>5, <2>1 DEF Rests, Quiet
<1> QED BY <1>1, <1>2, <1>3, <1>4, <1>5


-----------------------------------------------------------------------------
\* A read finds what its section may write, and a claim that writes nothing
\* has the lease only if it had it before.
LEMMA ReadClaims ==
  ASSUME SharedTypeOK, SectionsOK, WaitLinks, ClaimInv, NEW p \in Proc, Read(p)
  PROVE  ClaimInv'
<1> SUFFICES ASSUME ~torn PROVE ClaimInv'
  BY ReadStep DEF ClaimInv
<1>0. Waiter \subseteq Proc /\ alive \subseteq Proc
  BY DEF Waiter, Proc, SharedTypeOK
<1>1. /\ \A q \in Proc \ {p} : sec'[q] = sec[q]
      /\ sec'[p].op = sec[p].op /\ sec'[p].copy = record /\ sec'[p].held = sec[p].held
      /\ sec'[p].at = "write" => Writes(sec[p].op, p, record)
      /\ sec'[p].at = "finish" => ~Writes(sec[p].op, p, record)
      /\ p \in alive /\ sec[p].at = "read" /\ sec'[p].at \in {"write", "finish"}
      /\ UNCHANGED <<record, alive, torn, expired, wait, token, told>>
  <2>1. sec'[p].at = IF Writes(sec[p].op, p, record) THEN "write" ELSE "finish"
    <3>1. \A a : LET n == [sec[p] EXCEPT !.copy = record, !.at = a] IN n.at = a
      BY DEF SharedTypeOK, Sections
    <3> QED BY <3>1 DEF Read, SharedTypeOK
  <2> QED BY <2>1, ReadStep, ReadKeepsWait
<1>2. ASSUME NEW q \in alive, sec'[q].at = "write" PROVE Writes(sec'[q].op, q, record)
  BY <1>0, <1>1, <1>2 DEF ClaimInv
<1>3. \A q \in Proc : Writes(sec'[q].op, q, record) => Writes(sec[q].op, q, record)'
  BY <1>1 DEF Writes, Final, Terminal, Claimable, Claimed
<1>4. ASSUME NEW q \in Waiter, q # p
      PROVE  (Has(q)' <=> Has(q)) /\ (Committing(q)' <=> Committing(q)) /\ (Leased(q)' <=> Leased(q))
  BY <1>0, <1>1, <1>4 DEF Has, Pending, Committing, Leased
<1>5. Sealed' <=> Sealed
  BY <1>1 DEF Sealed
\* It had the claim, or the lease it finds is its own from before.
<1>6. ASSUME p \in Waiter, Has(p)' PROVE Shown(p)' /\ (Has(p) \/ Leased(p))
  <2>1. CASE Pending(p)'
    <3>1. sec[p].op = "claim" /\ record.lease = p /\ ~Writes("claim", p, record)
      BY <1>1, <2>1 DEF Pending
    <3>2. Claimed(record)
      BY <3>1 DEF Writes, Final, Claimable
    <3>3. p # Nobody
      BY DEF Proc, Child, Tui, Cli, Nobody
    <3>4. Leased(p) /\ Leased(p)'
      BY <1>1, <3>1, <3>2, <3>3 DEF Claimed, Leased
    <3> QED BY <1>1, <3>1, <3>4 DEF Shown, Committing
  <2>2. CASE ~Pending(p)'
    <3>1. Has(p) /\ ~Committing(p)
      BY <1>1, <1>6, <2>2 DEF Has, Committing
    <3>2. Leased(p) /\ Leased(p)'
      BY <1>1, <1>6, <3>1 DEF ClaimInv, Shown, Leased
    <3>3. ~Committing(p)'
      <4> SUFFICES ASSUME sec[p].op = "commit" PROVE Writes("commit", p, record)
        BY <1>1 DEF Committing
      <4> QED BY <3>2 DEF Writes, Final, Leased
    <3> QED BY <3>1, <3>2, <3>3 DEF Shown
  <2> QED BY <2>1, <2>2
<1>7. \A q \in Waiter : Has(q)' => Shown(q)'
  BY <1>4, <1>5, <1>6 DEF ClaimInv, Shown
<1>8. ASSUME NEW q \in Waiter, Has(q), q # p, p \in Waiter, Leased(p) PROVE FALSE
  <2>1. Shown(q) /\ p # q /\ p # Nobody /\ q # Nobody
    BY <1>0, <1>8 DEF ClaimInv, Proc, Child, Tui, Cli, Nobody
  <2> QED BY <1>8, <2>1 DEF Shown, Sealed, Leased
<1>9. \A q, s \in Waiter : Has(q)' /\ Has(s)' => q = s
  BY <1>4, <1>6, <1>8 DEF ClaimInv
<1>10. \A q \in alive' : sec'[q].at = "write" => Writes(sec[q].op, q, record)'
  BY <1>0, <1>1, <1>2, <1>3
<1>11. (record'.lease # Nobody => record'.ack) /\ ("wait" \in told' => Sealed')
  BY <1>1, <1>5 DEF ClaimInv
<1> QED BY <1>7, <1>9, <1>10, <1>11 DEF ClaimInv

\* A write puts the copy, which is the record, back with its own change.
LEMMA OutcomeLease ==
  ASSUME NEW op \in Ops, NEW p, NEW r \in Records
  PROVE  /\ op \in {"identity", "beat", "verify", "settle", "kill", "stale"} =>
              Outcome(op, p, r).ack = r.ack /\ Outcome(op, p, r).lease = r.lease
         /\ op = "claim" => Outcome(op, p, r).ack /\ Outcome(op, p, r).lease = p
         /\ op \in {"commit", "ack"} => Outcome(op, p, r).ack /\ Outcome(op, p, r).lease = Nobody
         /\ op = "release" => Outcome(op, p, r).lease = Nobody
<1> USE DEF Records, Outcome, Committed
<1>1. op \in {"identity", "beat", "verify", "settle", "kill", "stale"} =>
        Outcome(op, p, r).ack = r.ack /\ Outcome(op, p, r).lease = r.lease
  OBVIOUS
<1>2. op = "claim" => Outcome(op, p, r).ack /\ Outcome(op, p, r).lease = p
  OBVIOUS
<1>3. op \in {"commit", "ack"} => Outcome(op, p, r).ack /\ Outcome(op, p, r).lease = Nobody
  OBVIOUS
<1>4. op = "release" => Outcome(op, p, r).lease = Nobody
  OBVIOUS
<1> QED BY <1>1, <1>2, <1>3, <1>4

LEMMA WriteClaims ==
  ASSUME SharedTypeOK, SectionsOK, WaitLinks, OutcomeInv, ClaimInv, NEW p \in Proc, Write(p)
  PROVE  ClaimInv'
<1> SUFFICES ASSUME ~torn PROVE ClaimInv'
  BY WriteStep DEF ClaimInv
<1> DEFINE op == sec[p].op
<1>0. Waiter \subseteq Proc /\ alive \subseteq Proc /\ \A q \in Proc : q # Nobody
  BY DEF Waiter, Proc, SharedTypeOK, Child, Tui, Cli, Nobody
<1>1. /\ \A q \in Proc \ {p} : sec'[q] = sec[q]
      /\ record' = Outcome(op, p, record)
      /\ sec'[p].copy = record' /\ sec'[p].op = op
      /\ sec'[p].at = "finish" /\ sec'[p].held = sec[p].held
      /\ p \in alive /\ sec[p].at = "write"
      /\ expired' = (IF op = "claim" THEN expired \ {p} ELSE expired)
      /\ UNCHANGED <<alive, torn, wait, token, told>>
  <2>1. sec[p].copy = record
    BY WriteStep DEF OutcomeInv
  <2> QED BY <2>1, WriteStep, WriteKeepsName
<1>2. Writes(op, p, record) /\ op \in Ops /\ record \in Records /\ (op = "claim" => p \in Waiter)
  BY <1>1 DEF ClaimInv, SectionsOK, SharedTypeOK
<1>3. \A q \in alive \ {p} : sec'[q].at # "write"
  BY <1>0, <1>1 DEF OutcomeInv, Inside
<1>4. ASSUME NEW q \in Waiter, q # p
      PROVE  (Has(q)' <=> Has(q)) /\ (Committing(q)' <=> Committing(q))
  BY <1>0, <1>1, <1>4 DEF Has, Pending, Committing
<1>5. /\ record.lease # Nobody => record.ack
      /\ \A q \in Waiter : Has(q) => Shown(q)
      /\ "wait" \in told => Sealed
  BY DEF ClaimInv
<1>6. (record'.lease # Nobody) => record'.ack
  BY <1>1, <1>2, <1>5, OutcomeLease DEF Ops
<1>7. Sealed => Sealed'
  <2> SUFFICES ASSUME Sealed PROVE Sealed'
    OBVIOUS
  <2>1. op \notin {"claim", "ack", "release"}
    BY <1>0, <1>2 DEF Sealed, Writes, Claimable, Claimed
  <2> QED BY <1>1, <1>2, <2>1, OutcomeLease DEF Sealed, Ops
\* The lease of another is in the way of every write that would end it.
<1>8. ASSUME NEW q \in Waiter, q # p, Leased(q) PROVE Leased(q)'
  <2>1. record.lease = q /\ q \notin expired /\ q # Nobody
    BY <1>0, <1>8 DEF Leased
  <2>2. record.ack
    BY <1>5, <2>1
  <2>3. op \notin {"claim", "commit", "ack", "release"}
    BY <1>2, <1>8, <2>1, <2>2 DEF Writes, Claimable, Claimed
  <2>4. record'.lease = record.lease
    BY <1>1, <1>2, <2>3, OutcomeLease DEF Ops
  <2> QED BY <1>1, <2>1, <2>3, <2>4 DEF Leased
<1>9. ASSUME NEW q \in Waiter, q # p, Has(q)' PROVE Shown(q)' /\ op # "claim"
  <2>1. Has(q) /\ Shown(q)
    BY <1>4, <1>5, <1>9
  <2>2. Claimed(record)
    BY <1>0, <2>1 DEF Shown, Sealed, Leased, Claimed
  <2>3. op # "claim"
    BY <1>2, <2>2 DEF Writes, Claimable
  <2> QED BY <1>4, <1>7, <1>8, <1>9, <2>1, <2>3 DEF Shown
<1>10. ASSUME p \in Waiter, Has(p)' PROVE Shown(p)' /\ (Has(p) \/ op = "claim")
  <2>1. CASE op = "claim"
    <3>1. record'.lease = p /\ p \notin expired'
      BY <1>1, <1>2, <2>1, OutcomeLease
    <3> QED BY <1>1, <2>1, <3>1 DEF Shown, Committing, Leased
  <2>2. CASE op # "claim"
    <3>1. Has(p) /\ token[p] /\ wait[p] # "release" /\ ~Committing(p)
      BY <1>1, <1>10, <2>2 DEF Has, Pending, Committing
    <3>2. Leased(p)
      BY <1>5, <1>10, <3>1 DEF Shown
    <3>3. op \notin {"ack", "release"}
      BY <1>1, <1>10, <3>1 DEF WaitLinks, In
    <3>4. CASE op = "commit"
      <4>1. Sealed'
        BY <1>1, <1>2, <3>4, OutcomeLease DEF Sealed
      <4>2. Committing(p)'
        BY <1>1, <3>4 DEF Committing
      <4> QED BY <3>1, <4>1, <4>2 DEF Shown
    <3>5. CASE op # "commit"
      <4>1. record'.lease = record.lease
        BY <1>1, <1>2, <2>2, <3>3, <3>5, OutcomeLease DEF Ops
      <4>2. Leased(p)' /\ ~Committing(p)'
        BY <1>1, <2>2, <3>2, <3>5, <4>1 DEF Leased, Committing
      <4> QED BY <3>1, <4>2 DEF Shown
    <3> QED BY <3>4, <3>5
  <2> QED BY <2>1, <2>2
<1>11. \A q, s \in Waiter : Has(q)' /\ Has(s)' => q = s
  BY <1>4, <1>9, <1>10 DEF ClaimInv
<1>12. \A q \in alive' : sec'[q].at # "write"
  BY <1>1, <1>3
<1>13. "wait" \in told' => Sealed'
  BY <1>1, <1>5, <1>7
<1>14. \A q \in Waiter : Has(q)' => Shown(q)'
  BY <1>9, <1>10
<1> QED BY <1>6, <1>11, <1>12, <1>13, <1>14 DEF ClaimInv

LEMMA ClaimSteps ==
  ASSUME SharedTypeOK, SectionsOK, WaitLinks, OutcomeInv, ClaimInv, Kinds
  PROVE  ClaimInv'
<1>1. ASSUME NEW p \in Proc, Read(p) \/ Write(p) PROVE ClaimInv'
  BY <1>1, ReadClaims, WriteClaims
<1>2. CASE \/ \E p \in Proc : Take(p) \/ Unlink(p) \/ Create(p) \/ Begins(p) \/ Ends(p)
           \/ \E p \in Waiter : Walks(p)
           \/ Rests
  BY <1>2, QuietKinds, QuietClaims
<1> QED BY <1>1, <1>2 DEF Kinds, Section

ClaimsInv == TypeInv /\ OutcomeInv /\ WaitLinks /\ ClaimInv

LEMMA ClaimsHold == Spec => []ClaimsInv
<1>1. Init => OutcomeInv /\ WaitLinks /\ ClaimInv
  <2> SUFFICES ASSUME Init PROVE OutcomeInv /\ WaitLinks /\ ClaimInv
    OBVIOUS
  <2>0. \A p \in Proc : sec[p] = Outside
    BY DEF Init
  <2>1. OutcomeInv
    BY DEF Init, OutcomeInv, Inside, Outside
  <2>2. WaitLinks
    BY <2>0 DEF Init, WaitLinks, In, Outside, Waiter, Proc
  <2>3. \A p \in Waiter : ~Has(p)
    BY <2>0 DEF Init, Has, Pending, Outside, Waiter, Proc
  <2>4. ClaimInv
    BY <2>0, <2>3 DEF Init, ClaimInv, Outside
  <2> QED BY <2>1, <2>2, <2>4
<1>2. TypeInv /\ OutcomeInv /\ [Next]_vars => OutcomeInv'
  BY ActionClasses, OutcomeStep DEF TypeInv, TypeOK
<1>3. TypeInv /\ OutcomeInv /\ WaitLinks /\ ClaimInv /\ [Next]_vars => WaitLinks' /\ ClaimInv'
  BY WaitKinds, WaitLinksStay, ClaimSteps DEF TypeInv, TypeOK
<1> QED BY <1>1, <1>2, <1>3, TypeInvHolds, PTL DEF Spec, ClaimsInv

\* OneClaim: of two waits that are under way at most one has the claim, while
\* no two sections overlap.
THEOREM ClaimsExclude == Spec => []OneClaim
<1>1. ClaimsInv => OneClaim
  BY DEF ClaimsInv, ClaimInv, OneClaim, Claims, Has
<1> QED BY <1>1, ClaimsHold, PTL

\* Only ticks, turns and waits that return have to do with wakes.
LEMMA Elsewhere ==
  ASSUME [Next]_vars, ~(Poll \/ Reconciled \/ Turns \/ \E p \in Waiter : WaitReturns(p))
  PROVE  UNCHANGED <<notified, inbox, wake, told>>
BY DEF Next, Turns, Section, Take, Unlink, Create, Read, Write, outsideLock, Die, ChildBegins, outsideChild,
     ChildGoesOn, Identified, Beaten, SettleEnds, Exit, Reconcile, Retire, outsideTui,
     WaitBegins, WaitGoesOn, WaitClaimed, WaitReads, WaitReconciled, WaitCommits, WaitReleased,
     WaitGivesUp, LeaseExpires, outsideWait, StopBegins, StopGoesOn, StopReconciled, StopProbes, StopVerified,
     StopEnds, outsideStop, tuiVars, vars

\* What the terminal's tick has read of the record since a wait has told the
\* agent shows the final ack.
TickInv ==
  ~torn /\ "wait" \in told /\ sec[Tui].op = "stale" /\ sec[Tui].at \in {"write", "finish"} =>
    sec[Tui].copy.ack /\ sec[Tui].copy.lease = Nobody

LEMMA TickStep ==
  ASSUME SharedTypeOK, SectionsOK, OutcomeInv, ClaimInv, TickInv, Kinds
  PROVE  TickInv'
<1> USE DEF TickInv
<1>0. Tui \in Proc /\ Waiter \subseteq Proc
  BY DEF Waiter, Proc
<1>1. ASSUME NEW p \in Proc, Take(p) \/ Unlink(p) \/ Create(p) PROVE TickInv'
  BY <1>0, <1>1, WayIn, WayInSection DEF Strict
<1>2. ASSUME NEW p \in Proc, Read(p) PROVE TickInv'
  BY <1>0, <1>2, ReadStep, ReadKeepsWait DEF ClaimInv, Sealed
<1>3. ASSUME NEW p \in Proc, Write(p) PROVE TickInv'
  <2>1. CASE p = Tui
    <3>1. sec[Tui].op = "stale" => Outcome(sec[Tui].op, Tui, sec[Tui].copy).ack = sec[Tui].copy.ack
                                /\ Outcome(sec[Tui].op, Tui, sec[Tui].copy).lease = sec[Tui].copy.lease
      BY <1>0, <1>3, <2>1, WriteStep, OutcomeLease DEF SectionsOK, Ops
    <3> QED BY <1>0, <1>3, <2>1, <3>1, WriteStep, WriteKeepsName
  <2> QED BY <1>0, <1>3, <2>1, WriteStep, WriteKeepsName
<1>4. ASSUME NEW p \in Proc, Begins(p) PROVE TickInv'
  BY <1>0, <1>4 DEF Begins, Apart
<1>5. ASSUME NEW p \in Proc, Ends(p) PROVE TickInv'
  BY <1>0, <1>5 DEF Ends, Apart, Outside
<1>6. ASSUME NEW p \in Waiter, Walks(p) PROVE TickInv'
  BY <1>6 DEF Walks, Apart
<1>7. CASE Rests
  BY <1>7 DEF Rests
<1> QED BY <1>1, <1>2, <1>3, <1>4, <1>5, <1>6, <1>7 DEF Kinds, Section

\* NoWakeAfterWait: what a wait with the claim has brought to the terminal's
\* agent raises no wake any more, and a queued wake starts no turn about it,
\* while no two sections overlap.
THEOREM NoSecondTelling == Spec => NoWakeAfterWait
<1>1. Init => TickInv
  BY DEF Init, TickInv
<1>2. ClaimsInv /\ TickInv /\ [Next]_vars => TickInv'
  BY WaitKinds, TickStep DEF ClaimsInv, TypeInv, TypeOK
<1>3. ClaimsInv /\ TickInv /\ [Next]_vars =>
        [~torn /\ "wait" \in told =>
           (notified' => notified) /\ ("wake" \in told' => "wake" \in told)]_vars
  <2> SUFFICES ASSUME ClaimsInv, TickInv, Next, ~torn, "wait" \in told
               PROVE  (notified' => notified) /\ ("wake" \in told' => "wake" \in told)
    OBVIOUS
  <2>1. Claimed(record)
    BY DEF ClaimsInv, ClaimInv, Sealed, Claimed
  <2>2. CASE Poll
    BY <2>1, <2>2 DEF Poll, Observe, Handed
  <2>3. CASE Reconciled
    <3>1. sec[Tui].at = "finish" /\ sec[Tui].op = "stale"
      BY <2>3 DEF Reconciled, Leave
    <3>2. Claimed(sec[Tui].copy)
      BY <3>1 DEF TickInv, Claimed
    <3> QED BY <2>3, <3>2 DEF Reconciled, Observe, Handed
  <2>4. CASE Turns
    <3>1. notified' = notified
      BY <2>4, TurnsAside DEF outsideTurn
    <3>2. "wake" \in told' => "wake" \in told
      BY <2>1, <2>4 DEF Turns, TurnBegins, Injected, TurnEnds, WakeTurn
    <3> QED BY <3>1, <3>2
  <2>5. CASE \E p \in Waiter : WaitReturns(p)
    BY <2>5 DEF WaitReturns
  <2>6. CASE ~(Poll \/ Reconciled \/ Turns \/ \E p \in Waiter : WaitReturns(p))
    BY <2>6, Elsewhere
  <2> QED BY <2>2, <2>3, <2>4, <2>5, <2>6
<1> QED BY <1>1, <1>2, <1>3, ClaimsHold, PTL DEF Spec, NoWakeAfterWait

-----------------------------------------------------------------------------
\* A wake that waits, or has been told, has been handed on by the watcher.
WakeInv == WokenOnce /\ (inbox \/ wake \/ told \cap {"inbox", "wake"} # {} => notified)

\* WokenOnce: the watcher hands an end on once, and inbox and queue together
\* keep it as one wake until a turn has been told of it.
THEOREM WakesOnce == Spec => []WokenOnce
<1>1. Init => WakeInv
  BY DEF Init, WakeInv, WokenOnce
<1>2. TypeInv /\ WakeInv /\ [Next]_vars => WakeInv'
  <2> SUFFICES ASSUME TypeInv, WakeInv, [Next]_vars PROVE WakeInv'
    OBVIOUS
  <2> USE DEF WakeInv, WokenOnce
  <2>0. notified \in BOOLEAN /\ inbox \in BOOLEAN /\ wake \in BOOLEAN
    BY DEF TypeInv, TypeOK
  <2>1. ASSUME NEW r, Observe(r) PROVE WakeInv'
    <3>1. UNCHANGED told
      BY <2>1 DEF Observe
    <3>2. CASE Handed(r)
      BY <2>1, <3>1, <3>2 DEF Observe, Handed
    <3>3. CASE ~Handed(r)
      BY <2>0, <2>1, <3>1, <3>3 DEF Observe
    <3> QED BY <3>2, <3>3
  <2>2. CASE Poll \/ Reconciled
    BY <2>1, <2>2 DEF Poll, Reconciled
  <2>3. CASE Turns
    <3>1. UNCHANGED notified
      BY <2>3, TurnsAside DEF outsideTurn
    <3>2. CASE TurnBegins \/ TurnEnds
      BY <2>0, <3>1, <3>2 DEF TurnBegins, TurnEnds
    <3>3. CASE Injected
      BY <2>0, <3>1, <3>3 DEF Injected
    <3>4. CASE WakeTurn
      BY <2>0, <3>1, <3>4 DEF WakeTurn
    <3> QED BY <2>3, <3>2, <3>3, <3>4 DEF Turns
  <2>4. CASE \E p \in Waiter : WaitReturns(p)
    <3>1. UNCHANGED <<notified, inbox, wake>> /\ told' \cap {"inbox", "wake"} = told \cap {"inbox", "wake"}
      BY <2>4 DEF WaitReturns
    <3> QED BY <3>1
  <2>5. CASE ~(Poll \/ Reconciled \/ Turns \/ \E p \in Waiter : WaitReturns(p))
    <3>1. UNCHANGED <<notified, inbox, wake, told>>
      BY <2>5, Elsewhere
    <3> QED BY <3>1
  <2> QED BY <2>2, <2>3, <2>4, <2>5
<1>3. WakeInv => WokenOnce
  BY DEF WakeInv
<1> QED BY <1>1, <1>2, <1>3, TypeInvHolds, PTL DEF Spec
=============================================================================
