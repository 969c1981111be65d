----------------------- MODULE DockerWorkloads_proofs -----------------------
(***************************************************************************)
(* Theorems about the workloads of an account, for any runs, processes,    *)
(* limits and numbers of crashes: types, one run at a time within prepare, *)
(* and, if the cloud makes nothing of a creation it has given up, no       *)
(* released row with a live sandbox, never more of them than the limit,    *)
(* and, in one process, no two of them in one slot.                        *)
(***************************************************************************)
EXTENDS DockerWorkloads, FiniteSetTheorems, TLAPS

-----------------------------------------------------------------------------
(***************************************************************************)
(* The chain of a process: who is within prepare is in it, and who has     *)
(* begun to look at the slots is its head, also when it looks at the next  *)
(* slot with the listing it has got for one before.                        *)
(***************************************************************************)
Entered == {"list", "record", "create", "creating"}
Inside(r) == pc[r] \in Entered \/ (pc[r] = "scan" /\ seen[r] # Nothing)

Queued(r) == \E i \in 1..Len(gate[host[r]]) : gate[host[r]][i] = r
ChainInv ==
  \A r \in Runs :
    /\ pc[r] \in Entered \cup {"scan"} => Queued(r)
    /\ Inside(r) => gate[host[r]][1] = r
    /\ pc[r] \in {"idle", "quota"} => seen[r] = Nothing

TypeInv == TypeOK /\ ChainInv

\* What becomes of the chains.
Stays == gate' = gate
Joins(r) == gate' = [gate EXCEPT ![host[r]] = Append(@, r)]
Parts(r) == gate' = [gate EXCEPT ![host[r]] = Tail(@)]

\* A step that changes no other run's place keeps the chains in order, if the
\* run that parts is the head of its own.
LEMMA ChainStep ==
  ASSUME TypeOK, ChainInv, NEW r \in Runs, host' = host,
         \A q \in Runs \ {r} : pc'[q] = pc[q] /\ seen'[q] = seen[q],
         pc'[r] \in {"idle", "quota"} => seen'[r] = Nothing,
         \/ Stays /\ (pc'[r] \in Entered \cup {"scan"} => Queued(r)) /\ (Inside(r)' => gate[host[r]][1] = r)
         \/ Joins(r) /\ pc'[r] = "scan" /\ seen'[r] = Nothing
         \/ Parts(r) /\ Queued(r) /\ gate[host[r]][1] = r /\ pc'[r] \notin Entered \cup {"scan"}
  PROVE  gate' \in [Processes -> Seq(Runs)] /\ ChainInv'
<1>h. host \in [Runs -> Processes] /\ gate \in [Processes -> Seq(Runs)]
  BY DEF TypeOK
<1>1. CASE Stays /\ (pc'[r] \in Entered \cup {"scan"} => Queued(r)) /\ (Inside(r)' => gate[host[r]][1] = r)
  BY <1>1, <1>h DEF Stays, ChainInv, Queued, Inside
<1>2. CASE Joins(r) /\ pc'[r] = "scan" /\ seen'[r] = Nothing
  <2> DEFINE h == host[r]
             s == gate[h]
  <2>1. h \in Processes /\ s \in Seq(Runs) /\ gate'[h] = Append(s, r)
        /\ \A k \in Processes \ {h} : gate'[k] = gate[k]
    BY <1>2, <1>h DEF Joins
  <2>2. Len(gate'[h]) = Len(s) + 1 /\ gate'[h][Len(s) + 1] = r /\ \A i \in 1..Len(s) : gate'[h][i] = s[i]
    BY <2>1
  <2>3. gate' \in [Processes -> Seq(Runs)]
    BY <1>2, <1>h, <2>1 DEF Joins
  <2>4. ASSUME NEW q \in Runs PROVE /\ pc'[q] \in Entered \cup {"scan"} => Queued(q)'
                                    /\ Inside(q)' => gate'[host'[q]][1] = q
    <3>0. Len(s) \in Nat
      BY <2>1
    <3>1. CASE q = r
      BY <3>0, <3>1, <1>2, <2>1, <2>2 DEF Queued, Inside, Entered
    <3>2. CASE q # r /\ host[q] # h
      <4>1. host'[q] = host[q] /\ gate'[host[q]] = gate[host[q]] /\ pc'[q] = pc[q] /\ seen'[q] = seen[q]
        BY <3>2, <1>h, <2>1
      <4> QED BY <4>1 DEF Queued, Inside, ChainInv
    <3>3. CASE q # r /\ host[q] = h
      <4>1. /\ pc[q] \in Entered \cup {"scan"} => \E i \in 1..Len(s) : s[i] = q
            /\ Inside(q) => s[1] = q
        BY <3>3 DEF ChainInv, Queued
      <4>2. Inside(q) => 1 \in 1..Len(s)
        BY <3>0, <4>1 DEF Inside
      <4>3. pc'[q] = pc[q] /\ host'[q] = h /\ Inside(q)' = Inside(q)
        BY <3>3 DEF Inside
      <4>4. ASSUME pc[q] \in Entered \cup {"scan"} PROVE Queued(q)'
        <5>1. PICK i \in 1..Len(s) : s[i] = q
          BY <4>1, <4>4
        <5>2. i \in 1..Len(gate'[h]) /\ gate'[h][i] = q
          BY <3>0, <5>1, <2>2
        <5> QED BY <5>2, <4>3 DEF Queued
      <4>5. ASSUME Inside(q) PROVE gate'[h][1] = q
        BY <4>1, <4>2, <4>5, <2>2
      <4> QED BY <4>3, <4>4, <4>5
    <3> QED BY <3>1, <3>2, <3>3
  <2> QED BY <2>3, <2>4 DEF ChainInv
<1>3. CASE Parts(r) /\ Queued(r) /\ gate[host[r]][1] = r /\ pc'[r] \notin Entered \cup {"scan"}
  <2> DEFINE h == host[r]
             s == gate[h]
  <2>1. h \in Processes /\ s \in Seq(Runs) /\ gate'[h] = Tail(s)
        /\ \A k \in Processes \ {h} : gate'[k] = gate[k]
    BY <1>3, <1>h DEF Parts
  <2>2. s # <<>> /\ Len(s) \in Nat \ {0}
    BY <1>3, <2>1 DEF Queued
  <2>3. Tail(s) \in Seq(Runs) /\ Len(Tail(s)) = Len(s) - 1 /\ \A i \in 1..Len(s) - 1 : Tail(s)[i] = s[i + 1]
    BY <2>1, <2>2
  <2>4. gate' \in [Processes -> Seq(Runs)]
    BY <1>3, <1>h, <2>1, <2>3 DEF Parts
  <2>5. ASSUME NEW q \in Runs PROVE /\ pc'[q] \in Entered \cup {"scan"} => Queued(q)'
                                    /\ Inside(q)' => gate'[host'[q]][1] = q
    <3>1. CASE q = r
      BY <3>1, <1>3 DEF Inside
    <3>2. CASE q # r /\ host[q] # h
      <4>1. host'[q] = host[q] /\ gate'[host[q]] = gate[host[q]] /\ pc'[q] = pc[q] /\ seen'[q] = seen[q]
        BY <3>2, <1>h, <2>1
      <4> QED BY <4>1 DEF Queued, Inside, ChainInv
    <3>3. CASE q # r /\ host[q] = h
      <4>1. ~Inside(q) /\ ~Inside(q)' /\ pc[q] \notin Entered
        BY <3>3, <1>3 DEF ChainInv, Inside
      <4>2. ASSUME pc[q] = "scan" PROVE Queued(q)'
        <5>1. PICK i \in 1..Len(s) : s[i] = q
          BY <3>3, <4>2 DEF ChainInv, Queued
        <5>2. i # 1 /\ i - 1 \in 1..Len(s) - 1 /\ (i - 1) + 1 = i
          BY <5>1, <3>3, <1>3, <2>2
        <5>3. Tail(s)[i - 1] = q
          BY <5>1, <5>2, <2>3
        <5> QED BY <5>2, <5>3, <3>3, <2>1, <2>3 DEF Queued
      <4> QED BY <4>1, <4>2, <3>3
    <3> QED BY <3>1, <3>2, <3>3
  <2> QED BY <2>4, <2>5 DEF ChainInv
<1> QED BY <1>1, <1>2, <1>3

-----------------------------------------------------------------------------
\* Every action leaves the chains in order.
LEMMA ChainActions ==
  ASSUME TypeOK, ChainInv, [Next]_vars
  PROVE  gate' \in [Processes -> Seq(Runs)] /\ ChainInv'
<1>0. pc \in [Runs -> Stages] /\ seen \in [Runs -> (SUBSET Runs) \cup {Nothing}]
  BY DEF TypeOK
<1>1. CASE UNCHANGED <<host, pc, gate, seen>>
  BY <1>1 DEF ChainInv, Queued, Inside, TypeOK
<1> DEFINE Frame(r) == host' = host /\ \A q \in Runs \ {r} : pc'[q] = pc[q] /\ seen'[q] = seen[q]
<1>2. ASSUME NEW r \in Runs, Quota(r) PROVE gate' \in [Processes -> Seq(Runs)] /\ ChainInv'
  <2>1. Frame(r) /\ seen'[r] = Nothing /\ ((Stays /\ pc'[r] \in {"drop", "unwind"}) \/ (Joins(r) /\ pc'[r] = "scan"))
    BY <1>0, <1>2 DEF Quota, At, Go, Stays, Joins, ChainInv, settings, journalVars
  <2> QED BY <2>1, ChainStep DEF Entered, Inside
<1>3. ASSUME NEW r \in Runs, Scan(r) PROVE gate' \in [Processes -> Seq(Runs)] /\ ChainInv'
  <2>1. pc[r] = "scan" /\ Queued(r) /\ gate[host[r]][1] = r
    BY <1>3 DEF Scan, At, MyTurn, ChainInv
  <2>2. Frame(r) /\ ((Stays /\ pc'[r] \in {"record", "list"}) \/ (Parts(r) /\ pc'[r] = "drop"))
    BY <1>0, <1>3 DEF Scan, Fails, Unlocked, Go, Parts, Stays, settings, journalVars
  <2> QED BY <2>1, <2>2, ChainStep DEF Entered, Inside
<1>4. ASSUME NEW r \in Runs, List(r) \/ Record(r) \/ Create(r) \/ Created(r) \/ CreateFails(r)
      PROVE  gate' \in [Processes -> Seq(Runs)] /\ ChainInv'
  <2>1. pc[r] \in Entered /\ Queued(r) /\ gate[host[r]][1] = r
    BY <1>4 DEF List, Record, Create, Created, CreateFails, At, ChainInv, Entered, Inside
  <2> DEFINE Lands == /\ Frame(r)
                      /\ \/ Stays /\ pc'[r] \in {"record", "scan", "create", "creating"}
                         \/ Parts(r) /\ pc'[r] \in {"drop", "leased", "unwind"}
  <2>2. ASSUME List(r) PROVE Lands
    BY <1>0, <2>2 DEF List, Fails, Unlocked, Go, Parts, Stays, settings, journalVars
  <2>3. ASSUME Record(r) PROVE Lands
    BY <1>0, <2>3 DEF Record, Fails, Unlocked, Go, Parts, Stays, settings, journalVars
  <2>4. ASSUME Create(r) PROVE Lands
    BY <1>0, <2>4 DEF Create, Go, Stays, settings, journalVars, prepareVars
  <2>5. ASSUME Created(r) PROVE Lands
    BY <1>0, <2>5 DEF Created, Go, Unlocked, Parts, settings, journalVars
  <2>6. ASSUME CreateFails(r) PROVE Lands
    BY <1>0, <2>6 DEF CreateFails, Go, AfterFailure, Unlocked, Parts, settings, journalVars
  <2>7. Lands
    BY <1>4, <2>2, <2>3, <2>4, <2>5, <2>6
  <2> QED BY <2>1, <2>7, ChainStep DEF Entered
<1>5. ASSUME NEW r \in Runs, Admit(r) \/ Activate(r) \/ BodyEnds(r) \/ WayOut(r)
      PROVE  gate' \in [Processes -> Seq(Runs)] /\ ChainInv'
  <2>1. Frame(r) /\ Stays /\ pc'[r] \notin Entered \cup {"scan"}
    BY <1>0, <1>5 DEF Go, Admit, Activate, BodyEnds, WayOut, Drop, Unwind, Release, EndRecord, Stop, Confirm, Stays, Entered, settings, journalVars, prepareVars
  <2>2. pc'[r] \in {"idle", "quota"} => seen'[r] = Nothing
    BY <1>0, <1>5 DEF ChainInv, At, Go, Admit, Activate, BodyEnds, WayOut, Drop, Unwind, Release, EndRecord, Stop, Confirm, settings, journalVars, prepareVars
  <2> QED BY <2>1, <2>2, ChainStep DEF Inside
<1>6. ASSUME NEW r \in Runs, Recover(r) \/ Recovered(r) \/ Cloud(r) PROVE UNCHANGED <<host, pc, gate, seen>>
  BY <1>6 DEF Recover, Recovered, Cloud, settings, journalVars, prepareVars, runVars
<1>7. ASSUME NEW k \in Slots, Age(k) PROVE UNCHANGED <<host, pc, gate, seen>>
  BY <1>7 DEF Age, settings, journalVars, runVars
<1>8. ASSUME NEW h \in Processes, Crash(h) PROVE UNCHANGED <<host, pc, gate, seen>>
  BY <1>8 DEF Crash, settings, journalVars, prepareVars, runVars
<1>9. CASE UNCHANGED vars
  BY <1>1, <1>9 DEF vars, settings, journalVars, prepareVars, runVars
<1> QED BY <1>1, <1>2, <1>3, <1>4, <1>5, <1>6, <1>7, <1>8, <1>9 DEF Next, Prepare

\* The other variables keep their types.
LEMMA OtherTypes ==
  ASSUME TypeOK, [Next]_vars, gate' \in [Processes -> Seq(Runs)]
  PROVE  TypeOK'
<1> USE DEF TypeOK, settings, journalVars, prepareVars, runVars, Slots, Go, Fails
<1>1. ASSUME NEW r \in Runs, Admit(r) \/ Quota(r) PROVE TypeOK'
  BY <1>1 DEF Admit, Quota, Stages
<1>2. ASSUME NEW r \in Runs, Scan(r) PROVE TypeOK'
  BY <1>2 DEF Scan, Stages
<1>3. ASSUME NEW r \in Runs, List(r) PROVE TypeOK'
  <2>1. pc' \in [Runs -> Stages] /\ found' \in [Runs -> Runs \cup {Nothing}]
    BY <1>3 DEF List, Stages
  <2>2. Listed \subseteq Runs
    BY DEF Listed
  <2>3. mine' \in [Runs -> Slots]
    BY <1>3 DEF List, More
  <2>4. seen' \in [Runs -> (SUBSET Runs) \cup {Nothing}]
    <3> DEFINE names == IF seen[r] = Nothing THEN Listed ELSE seen[r]
    <3>1. names \in (SUBSET Runs) \cup {Nothing}
      BY <2>2
    <3>2. seen' = seen \/ seen' = [seen EXCEPT ![r] = names]
      BY <1>3 DEF List
    <3> HIDE DEF names
    <3> QED BY <3>1, <3>2
  <2> QED BY <1>3, <2>1, <2>3, <2>4 DEF List
<1>4. ASSUME NEW r \in Runs, Record(r) PROVE TypeOK'
  <2>1. Busy(r) \in [busy : BOOLEAN, run : Runs \cup {Nothing}, old : BOOLEAN]
    BY DEF Busy
  <2>2. slot' \in [Slots -> [busy : BOOLEAN, run : Runs \cup {Nothing}, old : BOOLEAN]]
    BY <1>4, <2>1 DEF Record
  <2> QED BY <1>4, <2>2 DEF Record, Stages
<1>5. ASSUME NEW r \in Runs, Create(r) \/ Created(r) PROVE TypeOK'
  BY <1>5 DEF Create, Created, Stages
<1>6. Free \in [busy : BOOLEAN, run : Runs \cup {Nothing}, old : BOOLEAN]
  BY DEF Free
<1>7. ASSUME NEW r \in Runs, CreateFails(r) PROVE TypeOK'
  BY <1>6, <1>7 DEF CreateFails, AfterFailure, Stages
<1>8. ASSUME NEW r \in Runs, Activate(r) \/ BodyEnds(r) PROVE TypeOK'
  BY <1>8 DEF Activate, BodyEnds, Stages
<1>9. ASSUME NEW r \in Runs, WayOut(r) PROVE TypeOK'
  <2>1. ASSUME Drop(r) \/ Unwind(r) \/ Confirm(r) PROVE TypeOK'
    BY <2>1 DEF Drop, Unwind, Confirm, Stages
  <2>2. ASSUME Release(r) \/ Stop(r) PROVE TypeOK'
    BY <2>2 DEF Release, Stop, Stopped, Pending, Stages
  <2>3. ASSUME EndRecord(r) PROVE TypeOK'
    BY <1>6, <2>3 DEF EndRecord, Stages
  <2> QED BY <1>9, <2>1, <2>2, <2>3 DEF WayOut
<1>10. ASSUME NEW r \in Runs, Recover(r) \/ Recovered(r) \/ Cloud(r) PROVE TypeOK'
  BY <1>10 DEF Recover, Recovered, Cloud, Stopped, Pending
<1>11. ASSUME NEW k \in Slots, Age(k) PROVE TypeOK'
  BY <1>11 DEF Age
<1>12. ASSUME NEW h \in Processes, Crash(h) PROVE TypeOK'
  BY <1>12 DEF Crash
<1>13. CASE UNCHANGED vars
  BY <1>13 DEF vars
<1> QED BY <1>1, <1>2, <1>3, <1>4, <1>5, <1>7, <1>8, <1>9, <1>10, <1>11, <1>12, <1>13 DEF Next, Prepare

LEMMA TypesAtFirst == Init => TypeInv
<1> SUFFICES ASSUME Init PROVE TypeInv
  OBVIOUS
<1>1. PICK s \in Scenarios : host = s.host /\ limit = s.limit /\ slots = s.slots
  BY DEF Init
<1>2. s.host \in [Runs -> Processes] /\ s.limit \in Nat /\ s.slots \in Nat \ {0}
  BY DockerAssumption DEF DockerAssumption
<1>3. slot \in [Slots -> [busy : BOOLEAN, run : Runs \cup {Nothing}, old : BOOLEAN]]
  BY DEF Init, Free
<1>4. 1 \in Slots
  BY <1>1, <1>2 DEF Slots
<1>5. TypeOK
  BY <1>1, <1>2, <1>3, <1>4 DEF Init, TypeOK, Stages
<1>6. ChainInv
  BY DEF Init, ChainInv, Entered, Inside
<1> QED BY <1>5, <1>6 DEF TypeInv

LEMMA TypesStay == TypeInv /\ [Next]_vars => TypeInv'
  BY ChainActions, OtherTypes DEF TypeInv

\* Every variable keeps its type, and the head that a run takes off its chain
\* is there to be taken.
THEOREM TypeCorrect == Spec => []TypeOK
<1>1. Spec => []TypeInv
  BY TypesAtFirst, TypesStay, PTL DEF Spec
<1>2. TypeInv => TypeOK
  BY DEF TypeInv
<1> QED BY <1>1, <1>2, PTL

\* Of the runs of one process, one at a time decides on a slot, takes it and
\* creates its sandbox: what runWithAccountLock is for.
OneEnters == \A r, q \in Runs : Inside(r) /\ Inside(q) /\ host[r] = host[q] => r = q

THEOREM OneAtATime == Spec => []OneEnters
<1>1. Spec => []TypeInv
  BY TypesAtFirst, TypesStay, PTL DEF Spec
<1>2. TypeInv => OneEnters
  BY DEF TypeInv, ChainInv, OneEnters
<1> QED BY <1>1, <1>2, PTL

-----------------------------------------------------------------------------
(***************************************************************************)
(* Rows and sandboxes.  A sandbox exists only from its creation on; a run  *)
(* without a row has none; a row is released, and confirmed gone by a      *)
(* recovery, only for a run that acts no more: nothing can revive it.      *)
(***************************************************************************)
Early == {"idle", "quota", "scan", "list", "record", "create", "drop"}

SafeRun(r) ==
  /\ cloud[r] = "requested" => pc[r] = "creating"
  /\ pc[r] \in Early => cloud[r] = "absent"
  /\ row[r] = "none" => pc[r] \in {"idle", "done"} /\ cloud[r] = "absent"
  /\ row[r] = "released" => Inactive(r) /\ (~Alive(r) \/ Orphaned(r))
  /\ keeper[r] = "confirm" => Inactive(r) /\ row[r] # "none"

\* The types a step's effect on one run is read from.
RunTypes ==
  /\ row \in [Runs -> {"none", "cleanup_pending", "active", "released"}]
  /\ cloud \in [Runs -> {"absent", "requested", "running", "stopping", "stopped"}]
  /\ pc \in [Runs -> Stages]
  /\ keeper \in [Runs -> {"idle", "confirm"}]

\* What another run's step changes nothing of.
Same(r) ==
  /\ row'[r] = row[r] /\ cloud'[r] = cloud[r] /\ pc'[r] = pc[r] /\ keeper'[r] = keeper[r]
  /\ host'[r] = host[r] /\ crashed' = crashed

LEMMA SameSafe == ASSUME NEW r \in Runs, SafeRun(r), Same(r) PROVE SafeRun(r)'
  BY DEF SafeRun, Same, Inactive, Alive, Orphaned

\* A step of a run leaves the others alone, keeps it safe, and gives no row a
\* place but by admission.
Good(r) ==
  /\ \A q \in Runs \ {r} : Same(q)
  /\ SafeRun(r)'
  /\ limit' = limit
  /\ row'[r] \notin {"none", "released"} => row[r] \notin {"none", "released"}

LEMMA PrepareGood ==
  ASSUME RunTypes, NEW r \in Runs, SafeRun(r), Prepare(r), ~AppearsLate
  PROVE  Good(r)
<1> USE DEF RunTypes, SafeRun, Inactive, Alive, Orphaned, Good, Same, At, Early, settings, journalVars, prepareVars, runVars
<1>1. ASSUME Quota(r) PROVE Good(r)
  BY <1>1 DEF Quota, Go
<1>2. ASSUME Scan(r) PROVE Good(r)
  BY <1>2 DEF Scan, Fails, Go
<1>3. ASSUME List(r) PROVE Good(r)
  <2>1. /\ pc[r] = "list" /\ host[r] \notin crashed
        /\ \E l \in {"drop", "record", "scan"} : pc' = [pc EXCEPT ![r] = l]
    BY <1>3 DEF List, Fails, Go
  <2> QED BY <1>3, <2>1 DEF List
<1>4. ASSUME Record(r) PROVE Good(r)
  <2>1. /\ pc[r] = "record" /\ host[r] \notin crashed
        /\ \E l \in {"drop", "create"} : pc' = [pc EXCEPT ![r] = l]
    BY <1>4 DEF Record, Fails, Go
  <2> QED BY <1>4, <2>1 DEF Record
<1>5. ASSUME Create(r) PROVE Good(r)
  BY <1>5 DEF Create, Go
<1>6. ASSUME Created(r) PROVE Good(r)
  BY <1>6 DEF Created, Go
<1>7. ASSUME CreateFails(r) PROVE Good(r)
  BY <1>7 DEF CreateFails, AfterFailure, Go
<1> QED BY <1>1, <1>2, <1>3, <1>4, <1>5, <1>6, <1>7 DEF Prepare

LEMMA RestGood ==
  ASSUME RunTypes, NEW r \in Runs, SafeRun(r), ~AppearsLate,
         Activate(r) \/ BodyEnds(r) \/ WayOut(r) \/ Recover(r) \/ Recovered(r) \/ Cloud(r)
  PROVE  Good(r)
<1> USE DEF RunTypes, SafeRun, Inactive, Alive, Orphaned, Good, Same, At, Early, settings, journalVars, prepareVars, runVars
<1>1. ASSUME Activate(r) \/ BodyEnds(r) PROVE Good(r)
  BY <1>1 DEF Activate, BodyEnds, Go
<1>2. ASSUME Drop(r) \/ Unwind(r) PROVE Good(r)
  BY <1>2 DEF Drop, Unwind, Go
<1>3. ASSUME Release(r) \/ EndRecord(r) PROVE Good(r)
  BY <1>3 DEF Release, EndRecord, Stopped, Go
<1>4. ASSUME Stop(r) PROVE Good(r)
  BY <1>4 DEF Stop, Stopped, Pending, Go
<1>5. ASSUME Confirm(r) PROVE Good(r)
  BY <1>5 DEF Confirm, Gone, Go
<1>6. ASSUME Recover(r) PROVE Good(r)
  BY <1>6 DEF Recover, Stopped, Pending
<1>7. ASSUME Recovered(r) PROVE Good(r)
  BY <1>7 DEF Recovered, Gone
<1>8. ASSUME Cloud(r) PROVE Good(r)
  BY <1>8 DEF Cloud
<1> QED BY <1>1, <1>2, <1>3, <1>4, <1>5, <1>6, <1>7, <1>8 DEF WayOut

-----------------------------------------------------------------------------
\* The rows that have a place, and the sandboxes that are alive, are finite in
\* number.
LEMMA PlacesFinite == IsFiniteSet(Occupied) /\ Cardinality(Occupied) \in Nat
<1>1. IsFiniteSet(Runs) /\ Occupied \subseteq Runs
  BY DockerAssumption DEF DockerAssumption, Occupied
<1> QED BY <1>1, FS_Subset, FS_CardinalityType

Places == Cardinality(Occupied) <= limit
SafeInv == (\A r \in Runs : SafeRun(r)) /\ Places

\* No row gets a place but by admission.
LEMMA PlacesStay ==
  ASSUME TypeOK, Places, limit' = limit, Occupied' \subseteq Occupied
  PROVE  Places'
<1>1. Cardinality(Occupied') <= Cardinality(Occupied) /\ Cardinality(Occupied') \in Nat
  BY PlacesFinite, FS_Subset, FS_CardinalityType
<1> QED BY <1>1, PlacesFinite DEF Places, TypeOK

LEMMA GoodSafe ==
  ASSUME TypeOK, SafeInv, NEW r \in Runs, Good(r)
  PROVE  SafeInv'
<1>1. ASSUME NEW q \in Runs PROVE SafeRun(q)'
  BY SameSafe DEF SafeInv, Good
<1>2. Occupied' \subseteq Occupied
  BY DEF Good, Same, Occupied
<1> QED BY <1>1, <1>2, PlacesStay DEF SafeInv, Good

LEMMA AdmitSafe ==
  ASSUME TypeOK, SafeInv, NEW r \in Runs, Admit(r)
  PROVE  SafeInv'
<1>0. RunTypes /\ limit \in Nat
  BY DEF TypeOK, RunTypes
<1>1. \A q \in Runs \ {r} : Same(q)
  BY <1>0 DEF Admit, Same, Go, RunTypes, settings, prepareVars
<1>2. SafeRun(r)'
  BY <1>0 DEF SafeInv, SafeRun, RunTypes, Admit, At, Go, Inactive, Alive, Orphaned, Early, settings, prepareVars
<1>3. \A q \in Runs : SafeRun(q)'
  BY <1>1, <1>2, SameSafe DEF SafeInv
<1>4. Places'
  <2>1. CASE Cardinality(Occupied) < limit
    <3>1. Occupied' \subseteq Occupied \cup {r}
      BY <1>1 DEF Occupied, Same
    <3>2. /\ IsFiniteSet(Occupied \cup {r})
          /\ Cardinality(Occupied \cup {r}) = Cardinality(Occupied)
             \/ Cardinality(Occupied \cup {r}) = Cardinality(Occupied) + 1
      BY PlacesFinite, FS_AddElement
    <3>3. Cardinality(Occupied') <= Cardinality(Occupied \cup {r}) /\ Cardinality(Occupied') \in Nat
      BY <3>1, <3>2, FS_Subset, FS_CardinalityType
    <3>4. limit' = limit
      BY DEF Admit, settings
    <3> QED BY <1>0, <2>1, <3>2, <3>3, <3>4, PlacesFinite DEF Places
  <2>2. CASE ~(Cardinality(Occupied) < limit)
    <3>1. Occupied' = Occupied /\ limit' = limit
      BY <2>2 DEF Admit, Occupied, settings
    <3> QED BY <3>1 DEF SafeInv, Places
  <2> QED BY <2>1, <2>2
<1> QED BY <1>3, <1>4 DEF SafeInv

LEMMA SafeSteps ==
  ASSUME TypeOK, SafeInv, [Next]_vars, ~AppearsLate
  PROVE  SafeInv'
<1>0. RunTypes
  BY DEF TypeOK, RunTypes
<1>1. ASSUME NEW r \in Runs, Prepare(r) PROVE SafeInv'
  BY <1>0, <1>1, PrepareGood, GoodSafe DEF SafeInv
<1>2. ASSUME NEW r \in Runs, Activate(r) \/ BodyEnds(r) \/ WayOut(r) \/ Recover(r) \/ Recovered(r) \/ Cloud(r)
      PROVE SafeInv'
  BY <1>0, <1>2, RestGood, GoodSafe DEF SafeInv
<1>3. ASSUME UNCHANGED <<row, cloud, pc, keeper, host, limit>>, crashed \subseteq crashed' PROVE SafeInv'
  <2>1. \A r \in Runs : SafeRun(r)'
    BY <1>3 DEF SafeInv, SafeRun, Inactive, Alive, Orphaned
  <2>2. Places'
    BY <1>3 DEF SafeInv, Places, Occupied
  <2> QED BY <2>1, <2>2 DEF SafeInv
<1>4. ASSUME NEW k \in Slots, Age(k) PROVE SafeInv'
  BY <1>3, <1>4 DEF Age, settings, journalVars, runVars
<1>5. ASSUME NEW h \in Processes, Crash(h) PROVE SafeInv'
  BY <1>3, <1>5 DEF Crash, settings, journalVars, prepareVars, runVars
<1>6. CASE UNCHANGED vars
  BY <1>3, <1>6 DEF vars, settings, journalVars, prepareVars, runVars
<1> QED BY <1>1, <1>2, <1>4, <1>5, <1>6, AdmitSafe DEF Next

LEMMA SafeAtFirst == Init => SafeInv
<1> SUFFICES ASSUME Init PROVE SafeInv
  OBVIOUS
<1>1. \A r \in Runs : SafeRun(r)
  BY DEF Init, SafeRun, Inactive, Alive, Orphaned
<1>2. Occupied = {}
  BY DEF Init, Occupied
<1>3. Places
  BY <1>2, TypesAtFirst, FS_EmptySet DEF Places, TypeInv, TypeOK
<1> QED BY <1>1, <1>3 DEF SafeInv

LEMMA SafeAlways == ASSUME ~AppearsLate PROVE Spec => []SafeInv
<1>1. TypeInv => TypeOK
  BY DEF TypeInv
<1>2. TypeInv /\ SafeInv /\ [Next]_vars => SafeInv'
  BY <1>1, SafeSteps
<1> QED BY TypesAtFirst, TypesStay, SafeAtFirst, <1>2, PTL DEF Spec

\* A released row has no sandbox, alive or about to be, unless its process died
\* during the creation, if the cloud makes nothing of a creation that it has
\* reported failed.
THEOREM ReleasedStaysGone == ASSUME ~AppearsLate PROVE Spec => []ReleasedIsGone
<1>1. SafeInv => ReleasedIsGone
  BY DEF SafeInv, SafeRun, ReleasedIsGone
<1> QED BY <1>1, SafeAlways, PTL

\* The account never has more live sandboxes than its limit, those aside whose
\* process died during the creation and whose row has been released: each has a
\* row with a place, and admission counts the places.
THEOREM CapHolds == ASSUME ~AppearsLate PROVE Spec => []AccountCap
<1>1. TypeInv /\ SafeInv => AccountCap
  <2> SUFFICES ASSUME TypeInv, SafeInv PROVE AccountCap
    OBVIOUS
  <2> DEFINE live == {r \in Runs : Alive(r) /\ (Orphaned(r) => row[r] # "released")}
  <2>1. live \subseteq Occupied
    BY DEF SafeInv, SafeRun, Occupied, Alive, Orphaned
  <2>2. Cardinality(live) <= Cardinality(Occupied) /\ Cardinality(live) \in Nat
    BY <2>1, PlacesFinite, FS_Subset, FS_CardinalityType
  <2>3. limit \in Nat
    BY DEF TypeInv, TypeOK
  <2> QED BY <2>2, <2>3, PlacesFinite DEF SafeInv, Places, AccountCap
<1>2. Spec => []TypeInv
  BY TypesAtFirst, TypesStay, PTL DEF Spec
<1> QED BY <1>1, <1>2, SafeAlways, PTL

-----------------------------------------------------------------------------
(***************************************************************************)
(* Slots, when one process carries all runs.  A leased run holds its slot  *)
(* while its sandbox costs, and until its final record is written: the     *)
(* record under the slot key is its own and is not old.  Who looks at a    *)
(* slot with a listing has every holder in the listing; who has read a     *)
(* record has read the holder's; who has decided has decided on a slot     *)
(* that nobody holds.                                                      *)
(***************************************************************************)
Single == \A q, r \in Runs : host[q] = host[r]

Kept == {"leased", "body", "unwind", "release", "endRecord"}
Holds(r) ==
  /\ r \in leased
  /\ cloud[r] \in {"running", "stopping"} \/ (cloud[r] = "stopped" /\ pc[r] \in Kept /\ host[r] \notin crashed)
Making(r) == pc[r] \in {"create", "creating"} /\ host[r] \notin crashed

SlotRun(r) ==
  /\ r \in leased => pc[r] \in Kept \cup {"stop", "confirm", "done"}
  /\ pc[r] \in {"release", "endRecord"} => r \in leased
  /\ pc[r] = "endRecord" => cloud[r] \in {"stopping", "stopped"}
  /\ pc[r] \in {"idle", "quota", "scan", "list", "record"} => \A k \in Slots : slot[k].run # r
  /\ Holds(r) \/ Making(r) => slot[mine[r]] = Busy(r)

SlotPair(q, r) ==
  Holds(r) =>
    /\ pc[q] \in {"scan", "list"} /\ seen[q] # Nothing => r \in seen[q]
    /\ pc[q] = "list" /\ mine[q] = mine[r] => found[q] = r
    /\ pc[q] \in {"record", "create", "creating"} => mine[q] # mine[r]

SlotInv == (\A r \in Runs : SlotRun(r)) /\ \A q, r \in Runs : q # r => SlotPair(q, r)

\* What a step of run a leaves of the others, and of the slots: it writes, if
\* any, the one it has decided on or holds, with its own name or none.
Others(a) ==
  /\ host' = host /\ slots' = slots /\ crashed' = crashed
  /\ \A q \in Runs \ {a} :
       /\ pc'[q] = pc[q] /\ mine'[q] = mine[q] /\ found'[q] = found[q] /\ seen'[q] = seen[q]
       /\ cloud'[q] = cloud[q] /\ (q \in leased' <=> q \in leased)
Writes(a) ==
  \/ slot' = slot
  \/ /\ pc[a] \in {"record", "creating"} \/ Holds(a)
     /\ slot' = [slot EXCEPT ![mine[a]] = Free] \/ slot' = [slot EXCEPT ![mine[a]] = Busy(a)]

LEMMA OthersKeepSlots ==
  ASSUME TypeInv, SlotInv, Single, NEW a \in Runs, Others(a), Writes(a), NEW q \in Runs \ {a}
  PROVE  SlotRun(q)'
<1>0. /\ slot \in [Slots -> [busy : BOOLEAN, run : Runs \cup {Nothing}, old : BOOLEAN]]
      /\ mine \in [Runs -> Slots] /\ Slots' = Slots /\ Nothing \notin Runs
  BY DockerAssumption DEF DockerAssumption, TypeInv, TypeOK, Others, Slots
<1>1. SlotRun(q) /\ SlotRun(a) /\ SlotPair(a, q)
  BY DEF SlotInv
<1>2. /\ pc'[q] = pc[q] /\ mine'[q] = mine[q] /\ cloud'[q] = cloud[q] /\ (q \in leased' <=> q \in leased)
      /\ host' = host /\ crashed' = crashed
      /\ Holds(q)' = Holds(q) /\ Making(q)' = Making(q) /\ Busy(q)' = Busy(q)
  BY DEF Others, Holds, Making, Busy
<1>3. ASSUME pc[q] \in {"idle", "quota", "scan", "list", "record"}, NEW k \in Slots PROVE slot'[k].run # q
  <2>1. Free.run # q /\ Busy(a).run # q
    BY <1>0 DEF Free, Busy
  <2> QED BY <1>0, <1>1, <1>3, <2>1 DEF Writes, SlotRun
<1>4. ASSUME Holds(q) \/ Making(q) PROVE slot'[mine[q]] = Busy(q)
  <2>1. slot[mine[q]] = Busy(q)
    BY <1>1, <1>4 DEF SlotRun
  <2>2. CASE slot' = slot
    BY <2>1, <2>2
  <2>3. CASE pc[a] \in {"record", "creating"} /\ Holds(q)
    BY <1>0, <1>1, <2>1, <2>3 DEF Writes, SlotPair
  <2>4. CASE pc[a] \in {"record", "creating"} /\ Making(q)
    BY <2>4 DEF Making, TypeInv, ChainInv, Inside, Entered, Single
  <2>5. CASE Holds(a)
    <3>1. slot[mine[a]] = Busy(a) /\ Busy(a) # Busy(q)
      BY <1>1, <2>5 DEF SlotRun, Busy
    <3> QED BY <1>0, <2>1, <3>1 DEF Writes
  <2> QED BY <1>4, <2>2, <2>3, <2>4, <2>5 DEF Writes
<1> QED BY <1>0, <1>1, <1>2, <1>3, <1>4 DEF SlotRun

\* A step of run a that is in order for a, and between it and the others, is
\* in order.
SlotGood(a) ==
  /\ Others(a) /\ Writes(a) /\ SlotRun(a)'
  /\ \A r \in Runs \ {a} : SlotPair(a, r)' /\ SlotPair(r, a)'

LEMMA GoodSlots ==
  ASSUME TypeInv, SlotInv, Single, NEW a \in Runs, SlotGood(a)
  PROVE  SlotInv'
<1>1. \A q \in Runs : SlotRun(q)'
  BY OthersKeepSlots DEF SlotGood
<1>2. ASSUME NEW q \in Runs \ {a}, NEW r \in Runs \ {a}, q # r PROVE SlotPair(q, r)'
  BY <1>2 DEF SlotInv, SlotGood, Others, SlotPair, Holds
<1> QED BY <1>1, <1>2 DEF SlotInv, SlotGood

\* A run that holds no more than before disturbs nobody.
LEMMA HoldsNoMore ==
  ASSUME SlotInv, NEW a \in Runs, Others(a), NEW r \in Runs \ {a},
         Holds(a)' => Holds(a) /\ mine'[a] = mine[a]
  PROVE  SlotPair(r, a)'
  BY DEF SlotInv, SlotPair, Others

\* A run that is not within prepare needs nothing of the others.
LEMMA NotWithin ==
  ASSUME NEW a \in Runs, NEW r \in Runs,
         pc'[a] \notin {"scan", "list", "record", "create", "creating"} \/ (pc'[a] = "scan" /\ seen'[a] = Nothing)
  PROVE  SlotPair(a, r)'
  BY DEF SlotPair

SlotTypes ==
  /\ cloud \in [Runs -> {"absent", "requested", "running", "stopping", "stopped"}]
  /\ slot \in [Slots -> [busy : BOOLEAN, run : Runs \cup {Nothing}, old : BOOLEAN]]
  /\ pc \in [Runs -> Stages] /\ mine \in [Runs -> Slots]
  /\ found \in [Runs -> Runs \cup {Nothing}]
  /\ seen \in [Runs -> (SUBSET Runs) \cup {Nothing}]
  /\ leased \subseteq Runs /\ Nothing \notin Runs

LEMMA SlotTypesHold == TypeInv => SlotTypes
  BY DockerAssumption DEF DockerAssumption, TypeInv, TypeOK, SlotTypes

\* Steps that neither write a slot nor look at one.
LEMMA IdleSlots ==
  ASSUME TypeInv, SlotInv, NEW a \in Runs, Admit(a) \/ Quota(a)
  PROVE  SlotGood(a)
<1>0. SlotTypes /\ SlotRun(a)
  BY SlotTypesHold DEF SlotInv
<1>1. Others(a) /\ slot' = slot /\ leased' = leased /\ mine' = mine /\ cloud' = cloud
  BY <1>0 DEF SlotTypes, Admit, Quota, Go, Others, settings, journalVars, prepareVars
<1>2. pc[a] \in {"idle", "quota"} /\ (pc'[a] \in {"quota", "drop", "unwind", "done"} \/ (pc'[a] = "scan" /\ seen'[a] = Nothing))
  BY <1>0 DEF SlotTypes, Admit, Quota, Go, At, TypeInv, ChainInv
<1>3. a \notin leased
  BY <1>0, <1>2 DEF SlotRun, Kept
<1>4. SlotRun(a)'
  BY <1>0, <1>1, <1>2, <1>3 DEF SlotRun, Holds, Making, Others, Slots
<1>5. \A r \in Runs \ {a} : SlotPair(a, r)' /\ SlotPair(r, a)'
  BY <1>1, <1>2, <1>3, HoldsNoMore, NotWithin DEF Holds
<1> QED BY <1>1, <1>4, <1>5 DEF SlotGood, Writes

\* A holder of the slot looked at is who is found there.
LEMMA ScanSlots ==
  ASSUME TypeInv, SlotInv, ~ReadFaults, NEW a \in Runs, Scan(a)
  PROVE  SlotGood(a)
<1>0. SlotTypes /\ SlotRun(a)
  BY SlotTypesHold DEF SlotInv
<1>1. Others(a) /\ slot' = slot /\ leased' = leased /\ mine' = mine /\ cloud' = cloud /\ seen' = seen
  BY <1>0 DEF SlotTypes, Scan, Fails, Go, Others, settings, journalVars
<1>2. /\ pc[a] = "scan"
      /\ \/ pc'[a] = "drop"
         \/ pc'[a] = "record" /\ (~slot[mine[a]].busy \/ slot[mine[a]].old)
         \/ pc'[a] = "list" /\ found'[a] = slot[mine[a]].run
  BY <1>0 DEF SlotTypes, Scan, Fails, Takeable, Go, At
<1>3. a \notin leased
  BY <1>0, <1>2 DEF SlotRun, Kept
<1>4. SlotRun(a)'
  BY <1>0, <1>1, <1>2, <1>3 DEF SlotRun, Holds, Making, Others, Slots
<1>5. ASSUME NEW r \in Runs \ {a} PROVE SlotPair(a, r)'
  <2>1. SlotRun(r) /\ SlotPair(a, r) /\ Holds(r)' = Holds(r)
    BY <1>1 DEF SlotInv, Holds, Others
  <2>2. Holds(r) => slot[mine[r]].busy /\ ~slot[mine[r]].old /\ slot[mine[r]].run = r
    BY <2>1 DEF SlotRun, Busy
  <2> QED BY <1>1, <1>2, <2>1, <2>2 DEF SlotPair
<1>6. \A r \in Runs \ {a} : SlotPair(r, a)'
  BY <1>1, <1>3, HoldsNoMore DEF Holds
<1> QED BY <1>1, <1>4, <1>5, <1>6 DEF SlotGood, Writes

\* The listing shows every holder: a run whose name it lacks holds no slot.
LEMMA ListSlots ==
  ASSUME TypeInv, SlotInv, NEW a \in Runs, List(a)
  PROVE  SlotGood(a)
<1>0. SlotTypes /\ SlotRun(a)
  BY SlotTypesHold DEF SlotInv
<1> DEFINE names == IF seen[a] = Nothing THEN Listed ELSE seen[a]
<1>1. Others(a) /\ slot' = slot /\ leased' = leased /\ cloud' = cloud
  BY <1>0 DEF SlotTypes, List, Fails, Go, Others, settings, journalVars
<1>2. /\ pc[a] = "list"
      /\ \/ pc'[a] = "drop"
         \/ pc'[a] = "record" /\ found[a] \notin names /\ mine' = mine
         \/ pc'[a] = "scan" /\ seen'[a] = names
  BY <1>0 DEF SlotTypes, List, Fails, Go, At
<1>3. a \notin leased
  BY <1>0, <1>2 DEF SlotRun, Kept
<1>4. SlotRun(a)'
  BY <1>0, <1>1, <1>2, <1>3 DEF SlotRun, Holds, Making, Others, Slots
<1>5. ASSUME NEW r \in Runs \ {a} PROVE SlotPair(a, r)'
  <2>1. SlotPair(a, r) /\ Holds(r)' = Holds(r)
    BY <1>1 DEF SlotInv, Holds, Others
  <2>2. Holds(r) => r \in names
    BY <1>2, <2>1 DEF SlotPair, Holds, Listed
  <2> HIDE DEF names
  <2> QED BY <1>1, <1>2, <2>1, <2>2 DEF SlotPair, Others
<1>6. \A r \in Runs \ {a} : SlotPair(r, a)'
  BY <1>1, <1>3, HoldsNoMore DEF Holds
<1> QED BY <1>1, <1>4, <1>5, <1>6 DEF SlotGood, Writes

\* The record written is read back: it counts only with the run's own name,
\* which stood nowhere before.
LEMMA RecordSlots ==
  ASSUME TypeInv, SlotInv, NEW a \in Runs, Record(a)
  PROVE  SlotGood(a)
<1>0. SlotTypes /\ SlotRun(a) /\ mine[a] \in Slots
  BY SlotTypesHold DEF SlotInv, SlotTypes
<1>1. Others(a) /\ leased' = leased /\ cloud' = cloud /\ mine' = mine
  BY <1>0 DEF SlotTypes, Record, Fails, Go, Others, settings, journalVars
<1>2. PICK record \in {Busy(a), slot[mine[a]]} :
        /\ slot' = [slot EXCEPT ![mine[a]] = record]
        /\ \/ Recorded(a, record) /\ pc'[a] = "create"
           \/ pc'[a] = "drop"
  BY <1>0 DEF SlotTypes, Record, Fails, Go
<1>3. pc[a] = "record" /\ a \notin leased
  BY <1>0 DEF Record, At, SlotRun, Kept
<1>4. slot[mine[a]].run # a
  BY <1>0, <1>3 DEF SlotRun
<1>5. pc'[a] = "create" => slot'[mine[a]] = Busy(a)
  BY <1>0, <1>2, <1>4 DEF Recorded, SlotTypes
<1>6. Writes(a)
  <2>1. CASE record = slot[mine[a]]
    BY <1>0, <1>2, <2>1 DEF Writes, SlotTypes
  <2>2. CASE record = Busy(a)
    BY <1>2, <1>3, <2>2 DEF Writes
  <2> QED BY <2>1, <2>2
<1>7. SlotRun(a)'
  BY <1>0, <1>1, <1>2, <1>3, <1>5 DEF SlotRun, Holds, Making, Others, Busy
<1>8. ASSUME NEW r \in Runs \ {a} PROVE SlotPair(a, r)'
  BY <1>1, <1>2, <1>3 DEF SlotInv, SlotPair, Holds, Others
<1>9. \A r \in Runs \ {a} : SlotPair(r, a)'
  BY <1>1, <1>3, HoldsNoMore DEF Holds
<1> QED BY <1>1, <1>6, <1>7, <1>8, <1>9 DEF SlotGood

LEMMA CreateSlots ==
  ASSUME TypeInv, SlotInv, NEW a \in Runs, Create(a)
  PROVE  SlotGood(a)
<1>0. SlotTypes /\ SlotRun(a)
  BY SlotTypesHold DEF SlotInv
<1>1. Others(a) /\ slot' = slot /\ leased' = leased /\ mine' = mine
  BY <1>0 DEF SlotTypes, Create, Go, Others, settings, journalVars, prepareVars
<1>2. pc[a] = "create" /\ pc'[a] = "creating" /\ a \notin leased
  BY <1>0 DEF SlotTypes, Create, Go, At, SlotRun, Kept
<1>3. SlotRun(a)'
  BY <1>0, <1>1, <1>2 DEF SlotRun, Holds, Making, Others, Busy
<1>4. ASSUME NEW r \in Runs \ {a} PROVE SlotPair(a, r)'
  BY <1>1, <1>2 DEF SlotInv, SlotPair, Holds, Others
<1>5. \A r \in Runs \ {a} : SlotPair(r, a)'
  BY <1>1, <1>2, HoldsNoMore DEF Holds
<1> QED BY <1>1, <1>3, <1>4, <1>5 DEF SlotGood, Writes

\* The sandbox is there: the run holds the slot it has recorded, and no other
\* run is within the critical section.
LEMMA CreatedSlots ==
  ASSUME TypeInv, SlotInv, Single, NEW a \in Runs, Created(a)
  PROVE  SlotGood(a)
<1>0. SlotTypes /\ SlotRun(a)
  BY SlotTypesHold DEF SlotInv
<1>1. Others(a) /\ slot' = slot /\ leased' = leased \cup {a} /\ mine' = mine /\ cloud' = cloud /\ pc' = [pc EXCEPT ![a] = "leased"]
  BY <1>0 DEF SlotTypes, Created, Go, Others, settings, journalVars
<1>2. Making(a) /\ pc[a] = "creating" /\ pc'[a] = "leased"
  BY <1>0, <1>1 DEF SlotTypes, Created, At, Making
<1>3. SlotRun(a)'
  BY <1>0, <1>1, <1>2 DEF SlotRun, Holds, Making, Kept, Others, Busy
<1>4. \A r \in Runs \ {a} : SlotPair(a, r)'
  BY <1>2, NotWithin
<1>5. ASSUME NEW r \in Runs \ {a} PROVE SlotPair(r, a)'
  <2>1. Inside(a) /\ ~Inside(r)
    BY <1>2 DEF TypeInv, ChainInv, Inside, Entered, Single
  <2> QED BY <1>1, <2>1 DEF Inside, Entered, SlotPair, Others
<1> QED BY <1>1, <1>3, <1>4, <1>5 DEF SlotGood, Writes

LEMMA CreateFailsSlots ==
  ASSUME TypeInv, SlotInv, NEW a \in Runs, CreateFails(a)
  PROVE  SlotGood(a)
<1>0. SlotTypes /\ SlotRun(a)
  BY SlotTypesHold DEF SlotInv
<1>1. Others(a) /\ leased' = leased /\ mine' = mine /\ slot' \in {slot, [slot EXCEPT ![mine[a]] = Free]}
  BY <1>0 DEF SlotTypes, CreateFails, Go, Others, settings, journalVars
<1>2. pc[a] = "creating" /\ pc'[a] = "unwind" /\ a \notin leased
  BY <1>0 DEF SlotTypes, CreateFails, AfterFailure, Go, At, SlotRun, Kept
<1>3. SlotRun(a)'
  BY <1>1, <1>2 DEF SlotRun, Holds, Making
<1>4. \A r \in Runs \ {a} : SlotPair(a, r)' /\ SlotPair(r, a)'
  BY <1>1, <1>2, NotWithin, HoldsNoMore DEF Holds
<1>5. Writes(a)
  BY <1>1, <1>2 DEF Writes
<1> QED BY <1>1, <1>3, <1>4, <1>5 DEF SlotGood

\* The way of a run after its preparation, the recovery of it, and the cloud:
\* only the final record writes, while the run holds the slot still.
LEMMA RestSlots ==
  ASSUME TypeInv, SlotInv, NEW a \in Runs, SafeRun(a), ~AppearsLate,
         Activate(a) \/ BodyEnds(a) \/ WayOut(a) \/ Recover(a) \/ Recovered(a) \/ Cloud(a)
  PROVE  SlotGood(a)
<1>0. SlotTypes /\ SlotRun(a)
  BY SlotTypesHold DEF SlotInv
<1> DEFINE Frame == Others(a) /\ leased' = leased /\ mine' = mine /\ found' = found /\ seen' = seen
           Later == Kept \cup {"stop", "confirm", "done"}
           \* The run has left prepare for good.
           Left == /\ Frame /\ pc'[a] \in Later
                   /\ pc'[a] \in {"release", "endRecord"} => a \in leased
                   /\ pc'[a] = "endRecord" => cloud'[a] \in {"stopping", "stopped"}
                   /\ Holds(a)' => Holds(a)
                   /\ slot' = slot \/ (Holds(a) /\ ~Holds(a)' /\ slot' = [slot EXCEPT ![mine[a]] = Free])
           \* Its sandbox alone goes on.
           Drifts == /\ Frame /\ slot' = slot /\ pc' = pc
                     /\ cloud[a] \in {"stopping", "stopped"} => cloud'[a] \in {"stopping", "stopped"}
                     /\ Holds(a)' => Holds(a)
<1> USE DEF settings, journalVars, prepareVars, runVars, At, Go
<1>1. ASSUME Activate(a) \/ BodyEnds(a) \/ Drop(a) \/ Unwind(a) \/ Confirm(a) PROVE Left
  <2>1. Frame /\ slot' = slot /\ cloud' = cloud
    BY <1>0, <1>1 DEF SlotTypes, Activate, BodyEnds, Drop, Unwind, Confirm, Others
  <2>2. /\ pc'[a] \in Later /\ pc'[a] # "endRecord"
        /\ pc'[a] = "release" => a \in leased
        /\ pc'[a] \in Kept => pc[a] \in Kept
    BY <1>0, <1>1 DEF SlotTypes, Activate, BodyEnds, Drop, Unwind, Confirm, Kept
  <2> QED BY <2>1, <2>2 DEF Others, Holds
<1>2. ASSUME Release(a) PROVE Left
  <2>1. Frame /\ slot' = slot
    BY <1>0, <1>2 DEF SlotTypes, Release, Stopped, Others
  <2>2. /\ pc[a] = "release" /\ pc'[a] \in {"endRecord", "stop"} /\ a \in leased
        /\ pc'[a] = "endRecord" => cloud'[a] \in {"stopping", "stopped"}
        /\ cloud'[a] = cloud[a] \/ (cloud[a] = "running" /\ cloud'[a] = "stopping")
    BY <1>0, <1>2 DEF SlotTypes, SlotRun, Release, Stopped, Listed
  <2> QED BY <2>1, <2>2 DEF Others, Holds, Kept
<1>3. ASSUME EndRecord(a) PROVE Left
  <2>1. Frame /\ cloud' = cloud
    BY <1>0, <1>3 DEF SlotTypes, EndRecord, Others
  <2>2. pc[a] = "endRecord" /\ pc'[a] = "stop" /\ Holds(a)
    BY <1>0, <1>3 DEF SlotTypes, SlotRun, EndRecord, Holds, Kept
  <2>3. slot' = slot \/ (Gone(a) /\ slot' = [slot EXCEPT ![mine[a]] = Free])
    BY <1>3 DEF EndRecord
  <2> QED BY <2>1, <2>2, <2>3 DEF Gone, Others, Holds, Kept
<1>4. ASSUME Stop(a) PROVE Left
  <2>1. Frame /\ slot' = slot
    BY <1>0, <1>4 DEF SlotTypes, Stop, Stopped, Others
  <2>2. /\ pc[a] = "stop" /\ pc'[a] = "confirm"
        /\ cloud'[a] = cloud[a] \/ (cloud[a] = "running" /\ cloud'[a] = "stopping")
    BY <1>0, <1>4 DEF SlotTypes, Stop, Stopped
  <2> QED BY <2>1, <2>2 DEF Others, Holds, Kept
<1>5. ASSUME Recover(a) \/ Recovered(a) PROVE Drifts
  <2>1. Frame /\ slot' = slot /\ pc' = pc
    BY <1>0, <1>5 DEF SlotTypes, Recover, Recovered, Stopped, Others
  <2>2. cloud'[a] = cloud[a] \/ (cloud[a] = "running" /\ cloud'[a] = "stopping")
    BY <1>0, <1>5 DEF SlotTypes, Recover, Recovered, Stopped
  <2> QED BY <2>1, <2>2 DEF Others, Holds
<1>6. ASSUME Cloud(a) PROVE Drifts
  <2>1. Frame /\ slot' = slot /\ pc' = pc
    BY <1>0, <1>6 DEF SlotTypes, Cloud, Others
  <2>2. \/ cloud[a] = "requested"
        \/ cloud[a] = "stopping" /\ cloud'[a] = "stopped"
        \/ cloud[a] = "running" /\ cloud'[a] = "absent"
    BY <1>0, <1>6 DEF SlotTypes, Cloud
  <2>3. cloud[a] = "requested" => a \notin leased
    BY <1>0 DEF SafeRun, SlotRun, Kept
  <2> QED BY <2>1, <2>2, <2>3 DEF Others, Holds
<1>7. Left \/ Drifts
  BY <1>1, <1>2, <1>3, <1>4, <1>5, <1>6 DEF WayOut
<1>8. Frame /\ (Holds(a)' => Holds(a) /\ mine'[a] = mine[a])
  BY <1>7
<1>9. \A r \in Runs \ {a} : SlotPair(r, a)'
  BY <1>8, HoldsNoMore
<1>10. CASE Left
  <2>1. Writes(a)
    BY <1>10 DEF Writes
  <2>2. SlotRun(a)'
    BY <1>0, <1>10 DEF SlotRun, Making, Busy, Kept
  <2>3. \A r \in Runs \ {a} : SlotPair(a, r)'
    BY <1>10, NotWithin DEF Kept
  <2> QED BY <1>8, <1>9, <2>1, <2>2, <2>3 DEF SlotGood
<1>11. CASE Drifts
  <2>1. SlotRun(a)'
    BY <1>0, <1>11 DEF SlotRun, Making, Busy, Others, Slots
  <2>2. \A r \in Runs \ {a} : SlotPair(a, r)'
    BY <1>11 DEF SlotInv, SlotPair, Holds, Others
  <2> QED BY <1>8, <1>9, <1>11, <2>1, <2>2 DEF SlotGood, Writes
<1> QED BY <1>7, <1>10, <1>11

\* A record ages only when its sandbox is beyond its time to live: never a
\* holder's.
LEMMA AgeSlots ==
  ASSUME TypeInv, SlotInv, NEW k \in Slots, Age(k)
  PROVE  SlotInv'
<1>0. SlotTypes
  BY SlotTypesHold
<1>1. /\ UNCHANGED <<host, slots, cloud, mine, found, seen, pc, leased, crashed>>
      /\ slot' = [slot EXCEPT ![k].old = TRUE] /\ Outlived(slot[k].run)
  BY DEF Age, settings, journalVars, runVars
<1>2. ASSUME NEW r \in Runs, Holds(r) \/ Making(r) PROVE mine[r] # k
  <2>1. slot[mine[r]].run = r
    <3>1. slot[mine[r]] = Busy(r)
      BY <1>2 DEF SlotInv, SlotRun
    <3> QED BY <3>1 DEF Busy
  <2>2. ~Outlived(r)
    BY <1>2 DEF Outlived, Inactive, Holds, Making, Kept
  <2> QED BY <1>1, <2>1, <2>2
<1>3. \A j \in Slots : slot'[j].run = slot[j].run /\ (j # k => slot'[j] = slot[j])
  BY <1>0, <1>1 DEF SlotTypes
<1>4. ASSUME NEW r \in Runs PROVE SlotRun(r)'
  <2>1. SlotRun(r) /\ mine[r] \in Slots
    BY <1>0 DEF SlotInv, SlotTypes
  <2>2. Holds(r)' = Holds(r) /\ Making(r)' = Making(r) /\ Slots' = Slots
    BY <1>1 DEF Holds, Making, Slots
  <2> QED BY <1>1, <1>2, <1>3, <2>1, <2>2 DEF SlotRun, Busy
<1>5. ASSUME NEW q \in Runs, NEW r \in Runs, q # r PROVE SlotPair(q, r)'
  BY <1>1, <1>5 DEF SlotInv, SlotPair, Holds
<1> QED BY <1>4, <1>5 DEF SlotInv

\* With the process gone, runs hold no more than before.
LEMMA CrashSlots ==
  ASSUME SlotInv, UNCHANGED <<host, slots, slot, cloud, mine, found, seen, pc, leased>>, crashed \subseteq crashed'
  PROVE  SlotInv'
<1>1. \A r \in Runs : (Holds(r)' => Holds(r)) /\ (Making(r)' => Making(r))
  BY DEF Holds, Making
<1>2. \A r \in Runs : SlotRun(r)'
  BY <1>1 DEF SlotInv, SlotRun, Slots, Busy
<1>3. \A q, r \in Runs : q # r => SlotPair(q, r)'
  BY <1>1 DEF SlotInv, SlotPair
<1> QED BY <1>2, <1>3 DEF SlotInv

LEMMA SlotSteps ==
  ASSUME TypeInv, SafeInv, SlotInv, Single, [Next]_vars, ~AppearsLate, ~ReadFaults
  PROVE  SlotInv'
<1>1. ASSUME NEW a \in Runs, Admit(a) \/ Prepare(a) PROVE SlotInv'
  BY <1>1, IdleSlots, ScanSlots, ListSlots, RecordSlots, CreateSlots, CreatedSlots, CreateFailsSlots, GoodSlots DEF Prepare
<1>2. ASSUME NEW a \in Runs, Activate(a) \/ BodyEnds(a) \/ WayOut(a) \/ Recover(a) \/ Recovered(a) \/ Cloud(a)
      PROVE  SlotInv'
  <2>1. SafeRun(a)
    BY DEF SafeInv
  <2> QED BY <1>2, <2>1, RestSlots, GoodSlots
<1>3. ASSUME NEW k \in Slots, Age(k) PROVE SlotInv'
  BY <1>3, AgeSlots
<1>4. ASSUME NEW h \in Processes, Crash(h) PROVE SlotInv'
  BY <1>4, CrashSlots DEF Crash, settings, journalVars, prepareVars, runVars
<1>5. CASE UNCHANGED vars
  BY <1>5, CrashSlots DEF vars, settings, journalVars, prepareVars, runVars
<1> QED BY <1>1, <1>2, <1>3, <1>4, <1>5 DEF Next

\* Nobody moves to another process.
LEMMA HostsStay == ASSUME [Next]_vars PROVE host' = host
<1>1. ASSUME NEW r \in Runs, Admit(r) \/ Prepare(r) \/ Activate(r) \/ BodyEnds(r) PROVE host' = host
  BY <1>1 DEF Admit, Prepare, Quota, Scan, List, Record, Create, Created, CreateFails, Activate, BodyEnds, settings, journalVars
<1>2. ASSUME NEW r \in Runs, WayOut(r) \/ Recover(r) \/ Recovered(r) \/ Cloud(r) PROVE host' = host
  BY <1>2 DEF WayOut, Drop, Unwind, Release, EndRecord, Stop, Confirm, Recover, Recovered, Cloud, settings, journalVars
<1> QED BY <1>1, <1>2 DEF Next, Age, Crash, vars, settings, journalVars

\* While one process carries all runs, no two runs with live sandboxes share a
\* slot, if the cloud makes nothing of a creation that it has reported failed
\* and the store does not pass off a record it cannot read as none.
THEOREM SlotsStayExclusive == ASSUME ~AppearsLate, ~ReadFaults PROVE Spec => []SlotsExclusive
<1>1. Init => (Single => SlotInv)
  BY DockerAssumption DEF DockerAssumption, Init, SlotInv, SlotRun, SlotPair, Holds, Making, Free, Slots
<1>2. TypeInv /\ SafeInv /\ (Single => SlotInv) /\ [Next]_vars => (Single => SlotInv)'
  BY HostsStay, SlotSteps DEF Single
<1>3. TypeInv /\ SafeInv /\ (Single => SlotInv) => SlotsExclusive
  <2> SUFFICES ASSUME TypeInv, SafeInv, Single => SlotInv, Cardinality({host[r] : r \in Runs}) = 1,
                      NEW r \in leased, NEW q \in leased, r # q, Alive(r), Alive(q), mine[r] = mine[q]
               PROVE  FALSE
    BY DEF SlotsExclusive
  <2>0. IsFiniteSet(Runs) /\ host \in [Runs -> Processes] /\ leased \subseteq Runs
    BY DockerAssumption DEF DockerAssumption, TypeInv, TypeOK
  <2>1. IsFiniteSet({host[p] : p \in Runs})
    <3>1. host \in Surjection(Runs, {host[p] : p \in Runs})
      BY <2>0 DEF Surjection
    <3> QED BY <2>0, <3>1, FS_Surjection
  <2>2. PICK h : {host[p] : p \in Runs} = {h}
    BY <2>1, FS_Singleton
  <2>3. Single
    BY <2>2 DEF Single
  <2>4. ASSUME NEW p \in leased, Alive(p) PROVE slot[mine[p]] = Busy(p)
    <3>1. p \in Runs /\ SafeRun(p) /\ SlotRun(p)
      BY <2>0, <2>3 DEF SafeInv, SlotInv
    <3>2. Holds(p)
      BY <2>4, <3>1 DEF SafeRun, SlotRun, Kept, Alive, Holds
    <3> QED BY <3>1, <3>2 DEF SlotRun
  <2>5. Busy(r) = Busy(q)
    BY <2>4
  <2> QED BY <2>5 DEF Busy
<1> QED BY <1>1, <1>2, <1>3, TypesAtFirst, TypesStay, SafeAlways, PTL DEF Spec
=============================================================================
