------------------------ MODULE InstanceLock_proofs -------------------------
(***************************************************************************)
(* StartsExclude, FileHasOwner and AloneSucceeds for any number of         *)
(* processes, and for any of the three protocols.                          *)
(***************************************************************************)
EXTENDS InstanceLock, TLAPS

Files == [by : Process, written : BOOLEAN, old : BOOLEAN]

\* Nothing has gone wrong with a lock that has a grace period.
Calm == faults = {} /\ protocol # "desktop"

\* A process that has made the file still finds it in its place.
Owners ==
  \A p \in Process :
    pc[p] \in {"write", "held", "releasing"} => lock # NoFile /\ lock.by = p

\* Nobody has judged a file stale.
NoJudgement == \A p \in Process : pc[p] \notin {"move", "ended"}

\* A file without a pid is fresh, and its maker is about to fill it.
EmptyIsFresh ==
  lock # NoFile /\ ~lock.written => ~lock.old /\ pc[lock.by] = "write"

\* What a process is about to stat is not overdue.
StatsFresh == \A p \in Process : pc[p] = "stat" /\ lock # NoFile => ~lock.old

\* The inductive invariant: the last three say why nobody moves the file of
\* an owner, which Owners needs.
IInv ==
  /\ TypeOK
  /\ Calm => Owners /\ NoJudgement /\ EmptyIsFresh /\ StatsFresh

-----------------------------------------------------------------------------

\* Process p comes to one of the stages S, within its rounds.
Comes(p, S) ==
  /\ \E l \in S : pc' = [pc EXCEPT ![p] = l]
  /\ attempt' \in [Process -> Nat]
  /\ \A q \in Process : attempt'[q] < Attempts

\* The next call is such a stage.
LEMMA GoComes ==
  ASSUME TypeOK, NEW p \in Process, NEW S, NEW l \in S, Go(p, l)
  PROVE  Comes(p, S)
<1>1. Attempts \in {2, 3}
  BY DEF Attempts
<1>2. attempt' \in [Process -> Nat]
  BY DEF Go, TypeOK
<1>3. \A q \in Process : attempt'[q] < Attempts
  BY <1>1 DEF Go, TypeOK
<1> QED BY <1>2, <1>3 DEF Go, Comes

\* A round that is over leads to another open, or out of acquire.
LEMMA RetryComes ==
  ASSUME TypeOK, NEW p \in Process, Retry(p)
  PROVE  Comes(p, {"open", "out"})
<1>1. CASE attempt[p] + 1 < Attempts
  BY <1>1 DEF Retry, Comes, TypeOK, Attempts
<1>2. CASE ~(attempt[p] + 1 < Attempts)
  BY <1>2, GoComes DEF Retry
<1> QED BY <1>1, <1>2

\* The types hold again if a process came to a stage, and did not reach a
\* probe without the pid it is to probe.
LEMMA TypesFrom ==
  ASSUME TypeOK, NEW p \in Process, NEW S \in SUBSET Stage, Comes(p, S),
         protocol' = protocol, lock' \in Files \cup {NoFile},
         seen' \in [Process -> Process \cup {NoOne}],
         "probe" \in S => seen'[p] \in Process,
         \A q \in Process \ {p} : seen'[q] = seen[q],
         ends' \in 0 .. MaxEnds, solo' \in Process \cup {NoOne},
         faults' \subseteq {"ended", "failed", "overdue"}
  PROVE  TypeOK'
<1> PICK l \in S : pc' = [pc EXCEPT ![p] = l]
  BY DEF Comes
<1>1. pc' \in [Process -> Stage]
  BY DEF TypeOK
<1>2. attempt' \in [Process -> Nat] /\ \A q \in Process : attempt'[q] < Attempts'
  BY DEF Comes, Attempts
<1>3. \A q \in Process : pc'[q] = "probe" => seen'[q] \in Process
  BY DEF TypeOK
<1> QED BY <1>1, <1>2, <1>3 DEF TypeOK, Files

-----------------------------------------------------------------------------

\* Initially the file is not there and everybody is out.
LEMMA InitInv == Init => IInv
<1> SUFFICES ASSUME Init PROVE IInv
  OBVIOUS
<1>1. TypeOK
  BY LockAssumption DEF Init, TypeOK, Stage, Acquiring, Attempts
<1>2. Owners /\ NoJudgement /\ EmptyIsFresh /\ StatsFresh
  BY DEF Init, Owners, NoJudgement, EmptyIsFresh, StatsFresh
<1> QED BY <1>1, <1>2 DEF IInv

\* The same for a call that reads nothing and does not go to a probe.
LEMMA TypesFromCall ==
  ASSUME TypeOK, NEW p \in Process, NEW S \in SUBSET (Stage \ {"probe"}), Comes(p, S),
         UNCHANGED <<local, seen>>, lock' \in Files \cup {NoFile}, Beside(p)
  PROVE  TypeOK'
<1>1. S \in SUBSET Stage /\ "probe" \notin S
  OBVIOUS
<1>2. solo' \in Process \cup {NoOne}
  BY DEF Beside
<1> QED BY <1>1, <1>2, TypesFrom DEF TypeOK, local

-----------------------------------------------------------------------------

\* The system calls of acquire keep the types.
LEMMA CallTypes == ASSUME TypeOK, NEW p \in Process, Calls(p), Beside(p) PROVE TypeOK'
<1>0. {"open", "out", "read", "stat", "move", "write", "held"} \subseteq Stage \ {"probe"}
  BY DEF Stage, Acquiring
<1>f. lock \in Files \cup {NoFile}
  BY DEF TypeOK, Files
<1>1. CASE Open(p)
  <2>1. Comes(p, {"read", "write"})
    BY <1>1, GoComes DEF Open
  <2>2. lock' \in Files \cup {NoFile}
    <3>1. [by |-> p, written |-> FALSE, old |-> FALSE] \in Files
      BY DEF Files
    <3> QED BY <1>1, <1>f, <3>1 DEF Open
  <2>3. UNCHANGED <<local, seen>>
    BY <1>1 DEF Open
  <2> QED BY <1>0, <2>1, <2>2, <2>3, TypesFromCall
<1>2. CASE pc[p] = "read" /\ ReadPid(p) /\ UNCHANGED <<local, lock>>
  <2>1. Comes(p, {"probe"}) /\ "probe" \in Stage
    BY <1>2, GoComes DEF ReadPid, Stage, Acquiring
  <2>2. lock.by \in Process
    BY <1>2 DEF ReadPid, TypeOK
  <2>3. solo' \in Process \cup {NoOne}
    BY DEF Beside
  <2>4. /\ seen' \in [Process -> Process \cup {NoOne}] /\ seen'[p] \in Process
        /\ \A q \in Process \ {p} : seen'[q] = seen[q]
    BY <1>2, <2>2 DEF ReadPid, TypeOK
  <2>5. {"probe"} \in SUBSET Stage /\ lock' \in Files \cup {NoFile}
    BY <1>2, <2>1, <1>f
  <2>6. protocol' = protocol /\ ends' \in 0 .. MaxEnds
        /\ faults' \subseteq {"ended", "failed", "overdue"}
    BY <1>2 DEF TypeOK, local
  <2> QED BY <2>1, <2>3, <2>4, <2>5, <2>6, TypesFrom
<1>3. CASE AuthorityReads(p) \/ ConnectorReads(p) \/ DesktopReads(p)
  <2>1. CASE ReadPid(p)
    BY <1>2, <1>3, <2>1 DEF AuthorityReads, ConnectorReads, DesktopReads
  <2>2. CASE ~ReadPid(p)
    <3>1. Comes(p, {"stat"}) \/ Comes(p, {"move"}) \/ Comes(p, {"open", "out"})
      BY <1>3, <2>2, GoComes, RetryComes DEF AuthorityReads, ConnectorReads, DesktopReads
    <3>2. UNCHANGED <<local, lock, seen>>
      BY <1>3, <2>2 DEF AuthorityReads, ConnectorReads, DesktopReads
    <3> QED BY <1>0, <1>f, <3>1, <3>2, TypesFromCall
  <2> QED BY <2>1, <2>2
<1>4. CASE AuthorityStats(p) \/ ConnectorStats(p)
  <2>1. Comes(p, {"move", "out"}) \/ Comes(p, {"open", "out"})
    BY <1>4, GoComes, RetryComes DEF AuthorityStats, ConnectorStats
  <2>2. UNCHANGED <<local, lock, seen>>
    BY <1>4 DEF AuthorityStats, ConnectorStats
  <2> QED BY <1>0, <1>f, <2>1, <2>2, TypesFromCall
<1>5. CASE Probe(p)
  <2>1. Comes(p, {"move", "out"}) /\ {"move", "out"} \in SUBSET Stage
    BY <1>5, GoComes DEF Probe, Stage, Acquiring
  <2>2. solo' \in Process \cup {NoOne}
    BY DEF Beside
  <2> QED BY <1>5, <1>f, <2>1, <2>2, TypesFrom DEF Probe, TypeOK, local
<1>6. CASE Move(p)
  <2>1. Comes(p, {"open", "out"})
    BY <1>6, RetryComes DEF Move
  <2> QED BY <1>0, <1>6, <2>1, TypesFromCall DEF Move, Removed
<1>7. CASE Write(p)
  <2>1. Comes(p, {"held"})
    BY <1>7, GoComes DEF Write
  <2>2. lock' \in Files \cup {NoFile}
    BY <1>7, <1>f DEF Write, Files
  <2> QED BY <1>0, <1>7, <2>1, <2>2, TypesFromCall DEF Write
<1>8. CASE WriteFails(p)
  <2>1. Comes(p, {"out"}) /\ {"out"} \in SUBSET Stage
    BY <1>8, GoComes DEF WriteFails, Stage
  <2>2. lock' \in Files \cup {NoFile}
    BY <1>8, <1>f DEF WriteFails, LeftByFailure
  <2>3. solo' \in Process \cup {NoOne}
    BY DEF Beside
  <2> QED BY <1>8, <2>1, <2>2, <2>3, TypesFrom DEF WriteFails, TypeOK
<1> QED BY <1>1, <1>3, <1>4, <1>5, <1>6, <1>7, <1>8 DEF Calls

\* So does every step.
LEMMA TypeStep == TypeOK /\ [Next]_vars => TypeOK'
<1> SUFFICES ASSUME TypeOK, [Next]_vars PROVE TypeOK'
  OBVIOUS
<1>f. lock \in Files \cup {NoFile}
  BY DEF TypeOK, Files
<1>s. {"open", "out", "releasing", "ended"} \subseteq Stage \ {"probe"}
  BY DEF Stage, Acquiring
<1>1. CASE UNCHANGED vars
  BY <1>1 DEF vars, TypeOK, Attempts
<1>2. CASE Age
  BY <1>2 DEF Age, TypeOK, Attempts
<1>3. ASSUME NEW p \in Process, Acquire(p) PROVE TypeOK'
  <2>1. Comes(p, {"open"})
    BY <1>3, GoComes DEF Acquire
  <2>2. solo' \in Process \cup {NoOne}
    BY <1>3 DEF Acquire
  <2> QED BY <1>3, <1>f, <1>s, <2>1, <2>2, TypesFrom DEF Acquire, TypeOK, local
<1>4. ASSUME NEW p \in Process, Calls(p), Beside(p) PROVE TypeOK'
  BY <1>4, CallTypes
<1>5. ASSUME NEW p \in Process, Beside(p),
             Release(p) \/ ConnectorReleases(p) \/ ConnectorUnlinks(p)
      PROVE  TypeOK'
  <2>1. Comes(p, {"releasing", "out"})
    BY <1>5, GoComes DEF Release, ConnectorReleases, ConnectorUnlinks
  <2>2. lock' \in Files \cup {NoFile} /\ UNCHANGED <<local, seen>>
    BY <1>5, <1>f DEF Release, ConnectorReleases, ConnectorUnlinks
  <2> QED BY <1>5, <1>s, <2>1, <2>2, TypesFromCall
<1>6. ASSUME NEW p \in Process, Ends(p), Beside(p) PROVE TypeOK'
  <2>1. Comes(p, {"ended"})
    BY <1>6, GoComes DEF Ends
  <2>2. solo' \in Process \cup {NoOne} /\ ends' \in 0 .. MaxEnds
    BY <1>6, LockAssumption DEF Beside, Ends, TypeOK
  <2> QED BY <1>6, <1>f, <1>s, <2>1, <2>2, TypesFrom DEF Ends, TypeOK
<1> QED BY <1>1, <1>2, <1>3, <1>4, <1>5, <1>6 DEF Next

-----------------------------------------------------------------------------

Good == Owners /\ NoJudgement /\ EmptyIsFresh /\ StatsFresh

\* In the calm nobody moves a file, and who is inside keeps the file.
LEMMA CallCalm ==
  ASSUME TypeOK, Good, protocol \in {"authority", "connector"},
         NEW p \in Process, Calls(p), faults' = {}
  PROVE  Good'
<1>0. \A q \in Process : pc[q] \notin {"move", "ended"}
  BY DEF Good, NoJudgement
<1>1. CASE Open(p)
  <2>1. CASE lock = NoFile
    <3>1. lock' = [by |-> p, written |-> FALSE, old |-> FALSE] /\ pc' = [pc EXCEPT ![p] = "write"]
      BY <1>1, <2>1 DEF Open, Go
    <3>2. \A q \in Process : pc[q] \notin {"write", "held", "releasing"}
      BY <2>1 DEF Good, Owners
    <3>3. [by |-> p, written |-> FALSE, old |-> FALSE] \in Files /\ NoFile \notin Files
      BY LockAssumption DEF Files
    <3>4. lock' # NoFile /\ lock'.by = p /\ ~lock'.old
      BY <3>1, <3>3
    <3> QED BY <1>0, <3>1, <3>2, <3>4 DEF Good, Owners, NoJudgement, EmptyIsFresh, StatsFresh, TypeOK
  <2>2. CASE lock # NoFile
    <3>1. lock' = lock /\ pc' = [pc EXCEPT ![p] = "read"] /\ pc[p] = "open"
      BY <1>1, <2>2 DEF Open, Go
    <3> QED BY <3>1, <2>2 DEF Good, Owners, NoJudgement, EmptyIsFresh, StatsFresh, TypeOK
  <2> QED BY <2>1, <2>2
<1>2. CASE AuthorityReads(p)
  BY <1>2 DEF AuthorityReads, ReadPid, Retry, NoPid, Go, Good, Owners, NoJudgement, EmptyIsFresh, StatsFresh, TypeOK
<1>3. CASE ConnectorReads(p)
  BY <1>3 DEF ConnectorReads, ReadPid, NoPid, Go, Good, Owners, NoJudgement, EmptyIsFresh, StatsFresh, TypeOK
<1>4. CASE AuthorityStats(p)
  BY <1>4 DEF AuthorityStats, Overdue, Go, Good, Owners, NoJudgement, EmptyIsFresh, StatsFresh, TypeOK
<1>5. CASE ConnectorStats(p)
  BY <1>5 DEF ConnectorStats, Overdue, Retry, Go, Good, Owners, NoJudgement, EmptyIsFresh, StatsFresh, TypeOK
<1>6. CASE Probe(p)
  BY <1>6 DEF Probe, Alive, Go, Good, Owners, NoJudgement, EmptyIsFresh, StatsFresh, TypeOK
<1>7. CASE Write(p)
  <2>1. lock # NoFile /\ lock.by = p /\ lock \in Files
    BY <1>7 DEF Write, Good, Owners, TypeOK, Files
  <2>2. lock' = [lock EXCEPT !.written = TRUE, !.old = FALSE] /\ pc' = [pc EXCEPT ![p] = "held"]
    BY <1>7, <2>1 DEF Write, Go
  <2>3. lock' # NoFile /\ lock'.by = p /\ lock'.written /\ ~lock'.old
    BY <2>1, <2>2, LockAssumption DEF Files
  <2>4. pc[p] = "write"
    BY <1>7 DEF Write
  <2> QED BY <2>1, <2>2, <2>3, <2>4 DEF Good, Owners, NoJudgement, EmptyIsFresh, StatsFresh, TypeOK
<1>8. ~Move(p)
  BY <1>0 DEF Move
<1>9. ~WriteFails(p)
  <2>1. "failed" \in faults \cup {"failed"}
    OBVIOUS
  <2> QED BY <2>1 DEF WriteFails
<1>10. ~DesktopReads(p)
  BY DEF DesktopReads
<1> QED BY <1>1, <1>2, <1>3, <1>4, <1>5, <1>6, <1>7, <1>8, <1>9, <1>10 DEF Calls

\* So does every other step of these two protocols.
LEMMA StepCalm ==
  ASSUME TypeOK, Good, protocol \in {"authority", "connector"}, [Next]_vars, faults' = {}
  PROVE  Good'
<1>1. CASE UNCHANGED vars
  BY <1>1 DEF vars, Good, Owners, NoJudgement, EmptyIsFresh, StatsFresh
<1>2. CASE Age
  <2>1. \A p \in Process : pc[p] \notin {"write", "stat"}
    BY <1>2 DEF Age
  <2>2. lock # NoFile /\ lock.by \in Process
    BY <1>2 DEF Age, TypeOK
  <2>3. lock.written
    BY <2>1, <2>2 DEF Good, EmptyIsFresh
  <2>4. lock' = [lock EXCEPT !.old = TRUE] /\ pc' = pc /\ lock \in Files
    BY <1>2, <2>2 DEF Age, TypeOK, Files
  <2>5. lock' # NoFile /\ lock'.by = lock.by /\ lock'.written = lock.written
    BY <2>4, LockAssumption DEF Files
  <2> QED BY <2>1, <2>2, <2>3, <2>4, <2>5 DEF Good, Owners, NoJudgement, EmptyIsFresh, StatsFresh
<1>3. ASSUME NEW p \in Process, Acquire(p) PROVE Good'
  BY <1>3 DEF Acquire, Go, Good, Owners, NoJudgement, EmptyIsFresh, StatsFresh, TypeOK
<1>4. ASSUME NEW p \in Process, Calls(p) PROVE Good'
  BY <1>4, CallCalm
<1>5. ASSUME NEW p \in Process, Release(p) \/ ConnectorUnlinks(p) PROVE Good'
  <2>1. pc[p] \in {"held", "releasing"} /\ lock' = NoFile /\ pc' = [pc EXCEPT ![p] = "out"]
    BY <1>5 DEF Release, ConnectorUnlinks, Go
  <2>2. \A q \in Process \ {p} : pc[q] \notin {"write", "held", "releasing"}
    BY <2>1 DEF Good, Owners
  <2> QED BY <2>1, <2>2 DEF Good, Owners, NoJudgement, EmptyIsFresh, StatsFresh, TypeOK
<1>6. ASSUME NEW p \in Process, ConnectorReleases(p) PROVE Good'
  BY <1>6 DEF ConnectorReleases, Go, Good, Owners, NoJudgement, EmptyIsFresh, StatsFresh, TypeOK
<1>7. \A p \in Process : ~Ends(p)
  <2>1. "ended" \in faults \cup {"ended"}
    OBVIOUS
  <2> QED BY <2>1 DEF Ends
<1> QED BY <1>1, <1>2, <1>3, <1>4, <1>5, <1>6, <1>7 DEF Next

-----------------------------------------------------------------------------

\* What has gone wrong stays so, and a process never changes its protocol.
LEMMA CalmBackwards ==
  ASSUME TypeOK, [Next]_vars, Calm'
  PROVE  Calm /\ protocol \in {"authority", "connector"} /\ faults' = {}
<1>1. faults \subseteq faults' /\ protocol' = protocol
  BY DEF Next, vars, Age, Acquire, Calls, Open, AuthorityReads, ConnectorReads, DesktopReads,
         AuthorityStats, ConnectorStats, Probe, Move, Write, WriteFails, Release,
         ConnectorReleases, ConnectorUnlinks, Ends, local
<1> QED BY <1>1, LockAssumption DEF Calm, TypeOK

\* Every step preserves the inductive invariant.
LEMMA NextInv == IInv /\ [Next]_vars => IInv'
<1> SUFFICES ASSUME IInv, [Next]_vars PROVE IInv'
  OBVIOUS
<1>1. TypeOK'
  BY TypeStep DEF IInv
<1>2. ASSUME Calm' PROVE Good'
  BY <1>2, CalmBackwards, StepCalm DEF IInv, Good
<1> QED BY <1>1, <1>2 DEF IInv, Good

\* The inductive invariant holds in every reachable state.
THEOREM Invariance == Spec => []IInv
<1>1. IInv /\ [Next]_vars => IInv'
  BY NextInv
<1> QED BY InitInv, <1>1, PTL DEF Spec

\* The types hold in every reachable state.
THEOREM TypeCorrect == Spec => []TypeOK
<1>1. IInv => TypeOK
  BY DEF IInv
<1> QED BY <1>1, Invariance, PTL

\* The locks of the local database and of the connector: as long as no process
\* has ended, failed to write its pid or slept through the grace period, at
\* most one holds the lock, also while the file is there without its pid.
THEOREM StartsExcludeHolds == Spec => []StartsExclude
<1>1. IInv => StartsExclude
  BY DEF IInv, Calm, Owners, StartsExclude, OneHolder
<1> QED BY <1>1, Invariance, PTL

-----------------------------------------------------------------------------
\* FileHasOwner speaks of a maker that is done; what it needs of one that is
\* about to write is that the file it has just made is still empty.
OwnedInv ==
  /\ FileHasOwner
  /\ \A p \in Process : pc[p] = "write" /\ lock # NoFile /\ lock.by = p => ~lock.written

\* A process comes to the stage l, and did not go by its own file.
Passes(p, l) ==
  /\ pc' = [pc EXCEPT ![p] = l] /\ UNCHANGED <<lock, protocol>>
  /\ pc[p] \notin {"write", "held", "releasing", "ended"} /\ l # "write"

LEMMA PassesKeeps == ASSUME TypeOK, OwnedInv, NEW p \in Process, NEW l, Passes(p, l) PROVE OwnedInv'
BY DEF Passes, OwnedInv, FileHasOwner, TypeOK

LEMMA RetryPasses ==
  ASSUME NEW p \in Process, Retry(p), UNCHANGED <<lock, protocol>>, pc[p] \in {"read", "stat"}
  PROVE  Passes(p, "open") \/ Passes(p, "out")
BY DEF Retry, Go, Passes

\* A step that leaves no file leaves none without an owner.
LEMMA GoneKeeps == ASSUME lock' = NoFile PROVE OwnedInv'
BY DEF OwnedInv, FileHasOwner

LEMMA CallOwned == ASSUME TypeOK, OwnedInv, NEW p \in Process, Calls(p) PROVE OwnedInv'
<1>1. CASE Open(p)
  <2>1. CASE lock = NoFile
    <3>1. lock' = [by |-> p, written |-> FALSE, old |-> FALSE] /\ pc' = [pc EXCEPT ![p] = "write"]
      BY <1>1, <2>1 DEF Open, Go
    <3> QED BY <3>1 DEF OwnedInv, FileHasOwner, TypeOK
  <2>2. CASE lock # NoFile
    <3>1. Passes(p, "read")
      BY <1>1, <2>2 DEF Open, Go, Passes, local
    <3> QED BY <3>1, PassesKeeps
  <2> QED BY <2>1, <2>2
<1>2. CASE AuthorityReads(p) \/ ConnectorReads(p) \/ DesktopReads(p)
  <2>1. pc[p] = "read" /\ UNCHANGED <<lock, protocol>>
    BY <1>2 DEF AuthorityReads, ConnectorReads, DesktopReads, local
  <2>2. Passes(p, "probe") \/ Passes(p, "stat") \/ Passes(p, "move") \/ Retry(p)
    BY <1>2, <2>1 DEF AuthorityReads, ConnectorReads, DesktopReads, ReadPid, Go, Passes
  <2> QED BY <2>1, <2>2, PassesKeeps, RetryPasses
<1>3. CASE AuthorityStats(p) \/ ConnectorStats(p)
  <2>1. pc[p] = "stat" /\ UNCHANGED <<lock, protocol>>
    BY <1>3 DEF AuthorityStats, ConnectorStats, local
  <2>2. Passes(p, "move") \/ Passes(p, "out") \/ Retry(p)
    BY <1>3, <2>1 DEF AuthorityStats, ConnectorStats, Go, Passes
  <2> QED BY <2>1, <2>2, PassesKeeps, RetryPasses
<1>4. CASE Probe(p)
  <2>1. Passes(p, "move") \/ Passes(p, "out")
    BY <1>4 DEF Probe, Go, Passes, local
  <2> QED BY <2>1, PassesKeeps
<1>5. CASE Move(p)
  BY <1>5, GoneKeeps DEF Move, Removed
<1>6. CASE Write(p)
  <2>1. pc[p] = "write" /\ pc' = [pc EXCEPT ![p] = "held"] /\ UNCHANGED protocol
    BY <1>6 DEF Write, Go, local
  <2>2. CASE lock # NoFile /\ lock.by = p
    <3>1. lock' = [lock EXCEPT !.written = TRUE, !.old = FALSE] /\ lock \in Files
      BY <1>6, <2>2 DEF Write, TypeOK, Files
    <3>2. lock'.by = p
      BY <2>2, <3>1 DEF Files
    <3> QED BY <2>1, <3>2 DEF OwnedInv, FileHasOwner, TypeOK
  <2>3. CASE ~(lock # NoFile /\ lock.by = p)
    <3>1. lock' = lock
      BY <1>6, <2>3 DEF Write
    <3> QED BY <2>1, <2>3, <3>1 DEF OwnedInv, FileHasOwner, TypeOK
  <2> QED BY <2>2, <2>3
<1>7. CASE WriteFails(p)
  <2>1. pc[p] = "write" /\ pc' = [pc EXCEPT ![p] = "out"] /\ UNCHANGED protocol
    BY <1>7 DEF WriteFails, Go
  <2>2. CASE protocol = "authority"
    BY <1>7, <2>2, GoneKeeps DEF WriteFails, LeftByFailure
  <2>3. CASE protocol # "authority"
    <3>1. lock' = lock
      BY <1>7, <2>3 DEF WriteFails, LeftByFailure
    <3> QED BY <2>1, <2>3, <3>1 DEF OwnedInv, FileHasOwner, TypeOK
  <2> QED BY <2>2, <2>3
<1> QED BY <1>1, <1>2, <1>3, <1>4, <1>5, <1>6, <1>7 DEF Calls

LEMMA StepOwned == ASSUME TypeOK, OwnedInv, [Next]_vars PROVE OwnedInv'
<1>1. CASE UNCHANGED vars
  BY <1>1 DEF vars, OwnedInv, FileHasOwner
<1>2. CASE Age
  <2>1. lock' = [lock EXCEPT !.old = TRUE] /\ UNCHANGED <<pc, protocol>> /\ lock # NoFile /\ lock \in Files
    BY <1>2 DEF Age, TypeOK, Files
  <2>2. lock'.by = lock.by /\ lock'.written = lock.written
    BY <2>1 DEF Files
  <2> QED BY <2>1, <2>2 DEF OwnedInv, FileHasOwner
<1>3. ASSUME NEW p \in Process, Acquire(p) PROVE OwnedInv'
  <2>1. Passes(p, "open")
    BY <1>3 DEF Acquire, Go, Passes, local
  <2> QED BY <2>1, PassesKeeps
<1>4. ASSUME NEW p \in Process, Calls(p) PROVE OwnedInv'
  BY <1>4, CallOwned
<1>5. ASSUME NEW p \in Process, Release(p) \/ ConnectorUnlinks(p) PROVE OwnedInv'
  BY <1>5, GoneKeeps DEF Release, ConnectorUnlinks
<1>6. ASSUME NEW p \in Process, ConnectorReleases(p) PROVE OwnedInv'
  BY <1>6 DEF ConnectorReleases, Go, local, OwnedInv, FileHasOwner, TypeOK
<1>7. ASSUME NEW p \in Process, Ends(p) PROVE OwnedInv'
  BY <1>7 DEF Ends, Go, OwnedInv, FileHasOwner, TypeOK
<1> QED BY <1>1, <1>2, <1>3, <1>4, <1>5, <1>6, <1>7 DEF Next

\* No lock file is left behind by a process that goes on living without the
\* lock, save the empty one of a failed write.
THEOREM FilesAreOwned == Spec => []FileHasOwner
<1>1. Init => OwnedInv
  BY DEF Init, OwnedInv, FileHasOwner
<1>2. TypeOK /\ OwnedInv /\ [Next]_vars => OwnedInv'
  BY StepOwned
<1>3. OwnedInv => FileHasOwner
  BY DEF OwnedInv
<1> QED BY TypeCorrect, <1>1, <1>2, <1>3, PTL DEF Spec

-----------------------------------------------------------------------------
\* AloneSucceeds.  The loop variable is 0 outside the loop.
Fresh == \A p \in Process : pc[p] \notin Acquiring => attempt[p] = 0

\* What a process p that has been alone since it began finds: in its first round
\* the file is there to the end of the round; it names a process that has ended,
\* or none; and in a later round there is no file.
Alone(p) ==
  /\ \A q \in Process \ {p} : pc[q] \in {"out", "ended"}
  /\ pc[p] \in {"read", "stat", "probe", "move"} => attempt[p] = 0 /\ lock # NoFile
  /\ pc[p] = "open" => attempt[p] = 0 \/ lock = NoFile
  /\ pc[p] = "stat" => ~lock.written
  /\ pc[p] = "probe" => pc[seen[p]] = "ended"

AloneInv == Fresh /\ \A p \in Process : solo = p => Alone(p)

\* A process goes to its next call.
Moves(p) == (\E l \in Stage : Go(p, l)) \/ Retry(p)

\* The steps of a process that is not about to begin.
Acts(p) == Calls(p) \/ Release(p) \/ ConnectorReleases(p) \/ ConnectorUnlinks(p) \/ Ends(p)

LEMMA ActsMove == ASSUME NEW p \in Process, Acts(p) \/ Acquire(p) PROVE Moves(p)
<1>0. {"open", "read", "stat", "probe", "move", "out", "write", "held", "releasing", "ended"} \subseteq Stage
  BY DEF Stage, Acquiring
<1>1. CASE Calls(p)
  BY <1>0, <1>1 DEF Calls, Moves, Open, AuthorityReads, ConnectorReads, DesktopReads, ReadPid,
        AuthorityStats, ConnectorStats, Probe, Move, Write, WriteFails
<1>2. CASE ~Calls(p)
  BY <1>0, <1>2 DEF Acts, Moves, Acquire, Release, ConnectorReleases, ConnectorUnlinks, Ends
<1> QED BY <1>1, <1>2

\* Who leaves the loop leaves its variable behind.
LEMMA FreshStep == ASSUME TypeOK, Fresh, NEW p \in Process, Moves(p) PROVE Fresh'
<1>1. ASSUME NEW l \in Stage, Go(p, l) PROVE Fresh'
  BY <1>1 DEF Go, Fresh, TypeOK
<1>2. CASE attempt[p] + 1 < Attempts /\ Retry(p)
  BY <1>2 DEF Retry, Fresh, TypeOK, Acquiring
<1>3. CASE ~(attempt[p] + 1 < Attempts) /\ Retry(p)
  <2>1. "out" \in Stage /\ Go(p, "out")
    BY <1>3 DEF Retry, Stage
  <2> QED BY <2>1, <1>1
<1> QED BY <1>1, <1>2, <1>3 DEF Moves

\* A step of p moves nobody else.
LEMMA OthersStay ==
  ASSUME TypeOK, NEW p \in Process, Moves(p)
  PROVE  \A q \in Process \ {p} : pc'[q] = pc[q]
BY DEF Moves, Go, Retry, TypeOK

\* A process that gives up after it was alone has found a fresh file without pid.
GivesUp(p) == pc[p] \in Acquiring /\ pc'[p] = "out"
FreshEmpty == lock # NoFile /\ ~lock.written /\ ~lock.old

\* A call of acquire: the first round ends with the file gone, or at a fresh one.
LEMMA AloneCalls ==
  ASSUME TypeOK, FileHasOwner, Fresh, NEW p \in Process, Alone(p), Calls(p)
  PROVE  Alone(p)' /\ (GivesUp(p) => FreshEmpty)
<1> USE DEF TypeOK, Stage, Acquiring
<1>0. \A q \in Process \ {p} : pc'[q] \in {"out", "ended"}
  BY ActsMove, OthersStay DEF Acts, Alone
<1>1. CASE Open(p)
  <2>1. CASE lock = NoFile
    <3>1. pc'[p] = "write"
      BY <1>1, <2>1 DEF Open, Go
    <3> QED BY <1>0, <3>1 DEF Alone, GivesUp
  <2>2. CASE lock # NoFile
    <3>1. pc'[p] = "read" /\ attempt'[p] = attempt[p] /\ lock' = lock /\ pc[p] = "open"
      BY <1>1, <2>2 DEF Open, Go
    <3> QED BY <1>0, <2>2, <3>1 DEF Alone, GivesUp
  <2> QED BY <2>1, <2>2
<1>2. CASE pc[p] = "read" /\ ReadPid(p) /\ lock' = lock
  <2>1. pc'[p] = "probe" /\ attempt'[p] = attempt[p] /\ seen'[p] = lock.by /\ lock # NoFile /\ lock.written
    BY <1>2 DEF ReadPid, Go
  <2>2. lock.by # p /\ lock.by \in Process
    BY <1>2, <2>1 DEF FileHasOwner
  <2>3. pc[lock.by] = "ended" /\ pc'[lock.by] = "ended"
    BY <2>1, <2>2, <1>2, ActsMove, OthersStay DEF FileHasOwner, Alone, Acts
  <2> QED BY <1>0, <1>2, <2>1, <2>3 DEF Alone, GivesUp
<1>3. CASE (AuthorityReads(p) \/ ConnectorReads(p) \/ DesktopReads(p)) /\ ~ReadPid(p)
  <2>1. pc[p] = "read" /\ lock' = lock /\ lock # NoFile /\ attempt[p] = 0
    BY <1>3 DEF AuthorityReads, ConnectorReads, DesktopReads, local, Alone
  <2>2. (Go(p, "stat") \/ Go(p, "move")) /\ NoPid
    BY <1>3, <2>1 DEF AuthorityReads, ConnectorReads, DesktopReads
  <2>3. pc'[p] \in {"stat", "move"} /\ attempt'[p] = 0 /\ ~lock.written
    BY <2>1, <2>2 DEF Go, NoPid
  <2> QED BY <1>0, <2>1, <2>3 DEF Alone, GivesUp
<1>4. CASE AuthorityStats(p) \/ ConnectorStats(p)
  <2>1. pc[p] = "stat" /\ lock' = lock /\ lock # NoFile /\ attempt[p] = 0 /\ ~lock.written
    BY <1>4 DEF AuthorityStats, ConnectorStats, local, Alone
  <2>2. Go(p, IF lock.old THEN "move" ELSE "out")
    BY <1>4, <2>1 DEF AuthorityStats, ConnectorStats, Overdue
  <2>3. (lock.old /\ pc'[p] = "move" /\ attempt'[p] = 0) \/ (~lock.old /\ pc'[p] = "out")
    BY <2>1, <2>2 DEF Go
  <2> QED BY <1>0, <2>1, <2>3 DEF Alone, GivesUp, FreshEmpty
<1>5. CASE Probe(p)
  <2>1. pc[p] = "probe" /\ lock' = lock /\ lock # NoFile /\ attempt[p] = 0 /\ pc[seen[p]] = "ended"
    BY <1>5 DEF Probe, local, Alone
  <2>2. Go(p, "move")
    BY <1>5, <2>1 DEF Probe, Alive
  <2>3. pc'[p] = "move" /\ attempt'[p] = 0
    BY <2>1, <2>2 DEF Go
  <2> QED BY <1>0, <2>1, <2>3 DEF Alone, GivesUp
<1>6. CASE Move(p)
  <2>1. lock' = NoFile /\ attempt[p] + 1 < Attempts /\ Retry(p)
    BY <1>6 DEF Move, Removed, Attempts, Alone
  <2>2. pc'[p] = "open"
    BY <2>1 DEF Retry
  <2> QED BY <1>0, <2>1, <2>2 DEF Alone, GivesUp
<1>7. CASE Write(p) \/ WriteFails(p)
  <2>1. pc[p] = "write" /\ pc'[p] \in {"held", "out"}
    BY <1>7 DEF Write, WriteFails, Go
  <2> QED BY <1>0, <2>1 DEF Alone, GivesUp
<1>8. ReadPid(p) /\ (AuthorityReads(p) \/ ConnectorReads(p) \/ DesktopReads(p))
        => pc[p] = "read" /\ lock' = lock
  BY DEF AuthorityReads, ConnectorReads, DesktopReads, local
<1> QED BY <1>1, <1>2, <1>3, <1>4, <1>5, <1>6, <1>7, <1>8 DEF Calls

\* Releasing and ending lead out of what Alone speaks of.
LEMMA AloneActs ==
  ASSUME TypeOK, FileHasOwner, Fresh, NEW p \in Process, Alone(p), Acts(p)
  PROVE  Alone(p)' /\ (GivesUp(p) => FreshEmpty)
<1>1. CASE Calls(p)
  BY <1>1, AloneCalls
<1>2. CASE ~Calls(p)
  <2>1. \A q \in Process \ {p} : pc'[q] \in {"out", "ended"}
    BY ActsMove, OthersStay DEF Alone
  <2>2. pc'[p] \in {"out", "releasing", "ended"} /\ (pc'[p] = "out" => pc[p] \in {"held", "releasing"})
    BY <1>2 DEF Acts, Release, ConnectorReleases, ConnectorUnlinks, Ends, Go, TypeOK
  <2> QED BY <2>1, <2>2 DEF Alone, GivesUp, Acquiring
<1> QED BY <1>1, <1>2

LEMMA AloneKept == ASSUME TypeOK, OwnedInv, AloneInv, [Next]_vars PROVE AloneInv'
<1>0. TypeOK /\ FileHasOwner /\ Fresh
  BY DEF OwnedInv, AloneInv
<1>1. CASE UNCHANGED vars
  BY <1>1 DEF vars, AloneInv, Fresh, Alone
<1>2. CASE Age
  <2>1. lock' = [lock EXCEPT !.old = TRUE] /\ UNCHANGED <<pc, attempt, seen, solo>> /\ lock # NoFile /\ lock \in Files
    BY <1>2 DEF Age, TypeOK, Files
  <2>2. lock' # NoFile /\ lock'.written = lock.written
    BY <2>1, LockAssumption DEF Files
  <2> QED BY <2>1, <2>2 DEF AloneInv, Fresh, Alone
<1>3. ASSUME NEW p \in Process, Acquire(p) PROVE AloneInv'
  <2>1. Fresh'
    BY <1>0, <1>3, ActsMove, FreshStep
  <2>2. pc'[p] = "open" /\ attempt'[p] = 0
    BY <1>3 DEF Acquire, Go, TypeOK, AloneInv, Fresh, Acquiring
  <2>3. ASSUME NEW r \in Process, solo' = r PROVE Alone(r)'
    <3>1. r = p /\ \A q \in Process : pc[q] \in {"out", "ended"}
      BY <1>3, <2>3, LockAssumption DEF Acquire
    <3>2. \A q \in Process \ {p} : pc'[q] \in {"out", "ended"}
      BY <1>3, <3>1, ActsMove, OthersStay
    <3> QED BY <2>2, <3>1, <3>2 DEF Alone
  <2> QED BY <2>1, <2>3 DEF AloneInv
<1>4. ASSUME NEW p \in Process, Acts(p), Beside(p) PROVE AloneInv'
  <2>1. Fresh'
    BY <1>0, <1>4, ActsMove, FreshStep
  <2>2. ASSUME NEW r \in Process, solo' = r PROVE Alone(r)'
    <3>1. r = p /\ solo = p
      BY <1>4, <2>2, LockAssumption DEF Beside
    <3> QED BY <1>0, <1>4, <3>1, AloneActs DEF AloneInv
  <2> QED BY <2>1, <2>2 DEF AloneInv
<1> QED BY <1>1, <1>2, <1>3, <1>4 DEF Next, Acts

\* A process that nobody has moved beside since it began to acquire gives up
\* only at a file without pid that is within its grace period: what an earlier
\* process has left behind, its pid or an old empty file, is taken over in the
\* second round at the latest.
THEOREM AloneGetsIt == Spec => AloneSucceeds
<1>1. Init => AloneInv
  BY LockAssumption DEF Init, AloneInv, Fresh
<1>2. TypeOK /\ OwnedInv /\ AloneInv /\ [Next]_vars => AloneInv'
  BY AloneKept
<1>3. Init => OwnedInv
  BY DEF Init, OwnedInv, FileHasOwner
<1>4. TypeOK /\ OwnedInv /\ [Next]_vars => OwnedInv'
  BY StepOwned
<1>5. TypeOK /\ OwnedInv /\ AloneInv /\ [Next]_vars =>
        [\A p \in Process : (solo = p /\ pc[p] \in Acquiring /\ pc'[p] = "out")
            => lock # NoFile /\ ~lock.written /\ ~lock.old]_vars
  <2> SUFFICES ASSUME TypeOK, OwnedInv, AloneInv, Next, NEW p \in Process, solo = p, GivesUp(p)
               PROVE  FreshEmpty
    BY DEF GivesUp, FreshEmpty
  <2>1. CASE Age
    BY <2>1 DEF Age, GivesUp, Acquiring
  <2>2. ASSUME NEW q \in Process, Acquire(q) PROVE FreshEmpty
    BY <2>2, ActsMove, OthersStay DEF GivesUp, Acquiring, Acquire
  <2>3. ASSUME NEW q \in Process, Acts(q) PROVE FreshEmpty
    <3>1. q = p
      BY <2>3, ActsMove, OthersStay DEF GivesUp, Acquiring
    <3> QED BY <2>3, <3>1, AloneActs DEF AloneInv, OwnedInv
  <2> QED BY <2>1, <2>2, <2>3 DEF Next, Acts
<1> QED BY TypeCorrect, <1>1, <1>2, <1>3, <1>4, <1>5, PTL DEF Spec, AloneSucceeds

=============================================================================
