-------------------------- MODULE DockerWorkloads --------------------------
(***************************************************************************)
(* Runs whose tools execute in a cloud sandbox, one sandbox per run, all   *)
(* of one account: the journal of runs (a SQLite table of the host), the   *)
(* slot records of the sandbox backend (a key-value store without compare  *)
(* and swap), the promise chain that serialises the backend within one     *)
(* process, and the cloud, whose command line may give up on a sandbox     *)
(* that appears afterwards.                                                *)
(***************************************************************************)
EXTENDS Naturals, FiniteSets, Sequences

CONSTANTS
  Runs,       \* the runs
  Processes,  \* the CLI processes
  Scenarios,  \* a set of records of a host for every run and the limits of rows and slots
  MaxCrashes, \* bound on the processes that die
  AppearsLate, \* TRUE: the cloud may still make a sandbox whose creation was given up
  ReadFaults, \* TRUE: a record that cannot be read may count as none
  Nothing     \* no run, no listing

ASSUME DockerAssumption ==
  /\ IsFiniteSet(Runs) /\ Scenarios \subseteq [host : [Runs -> Processes], limit : Nat, slots : Nat \ {0}]
  /\ MaxCrashes \in Nat /\ AppearsLate \in BOOLEAN /\ ReadFaults \in BOOLEAN
  /\ Nothing \notin Runs

VARIABLES
  host,    \* host[r]: the process of run r
  limit,   \* the rows the account may occupy
  slots,   \* the slots of the account
  row,     \* row[r]: the run's row in docker_runs
  cloud,   \* cloud[r]: the run's sandbox
  slot,    \* slot[k]: the record under the k-th slot key
  gate,    \* gate[h]: the runs that wait for the account lock of process h
  pc,      \* pc[r]: where the run stands
  mine,    \* mine[r]: the slot it looks at, or has taken
  found,   \* found[r]: the run in the record it has just read
  seen,    \* seen[r]: the cloud listing of its reservation
  leased,  \* the runs whose prepare has returned
  keeper,  \* keeper[r]: where a recovery of the run stands
  crashed  \* the processes that have died

settings == <<host, limit, slots>>
journalVars == <<settings, row>>
prepareVars == <<slot, gate, mine, found, seen>>
runVars == <<pc, leased>>
vars == <<journalVars, cloud, prepareVars, runVars, keeper, crashed>>

Slots == 1..slots
Stages == {"idle", "quota", "scan", "list", "record", "create", "creating",
  "leased", "body", "drop", "unwind", "release", "endRecord", "stop", "confirm", "done"}
Free == [busy |-> FALSE, run |-> Nothing, old |-> FALSE]
Busy(r) == [busy |-> TRUE, run |-> r, old |-> FALSE]

Init ==
  /\ \E s \in Scenarios : host = s.host /\ limit = s.limit /\ slots = s.slots
  /\ row = [r \in Runs |-> "none"]
  /\ cloud = [r \in Runs |-> "absent"]
  /\ slot = [k \in Slots |-> Free]
  /\ gate = [h \in Processes |-> <<>>]
  /\ pc = [r \in Runs |-> "idle"]
  /\ mine = [r \in Runs |-> 1]
  /\ found = [r \in Runs |-> Nothing]
  /\ seen = [r \in Runs |-> Nothing]
  /\ leased = {} /\ keeper = [r \in Runs |-> "idle"]
  /\ crashed = {}

-----------------------------------------------------------------------------
At(r, l) == host[r] \notin crashed /\ pc[r] = l
Go(r, l) == pc' = [pc EXCEPT ![r] = l]

\* The rows that take a place of the account.  (Mutant: only runs that have
\* their sandbox.)
Occupied_Active == {r \in Runs : row[r] = "active"}
Occupied == {r \in Runs : row[r] \notin {"none", "released"}}

\* admitRun: one immediate transaction.
Admit(r) ==
  /\ At(r, "idle")
  /\ IF Cardinality(Occupied) < limit
     THEN row' = [row EXCEPT ![r] = "cleanup_pending"] /\ Go(r, "quota")
     ELSE Go(r, "done") /\ UNCHANGED row
  /\ UNCHANGED <<settings, cloud, prepareVars, leased, keeper, crashed>>

\* The end of the account's critical section.  (Mutant: a failure keeps it.)
Unlocked_OnSuccess(r, l) == IF l = "leased" THEN [gate EXCEPT ![host[r]] = Tail(@)] ELSE gate
Unlocked(r, l) == [gate EXCEPT ![host[r]] = Tail(@)]

\* The quota is read, unless the channel skips it: it does not suffice, or its
\* provider throws and nobody knows what is left, or the run joins the chain.
Quota(r) ==
  /\ At(r, "quota")
  /\ \/ Go(r, "drop") /\ UNCHANGED gate
     \/ Go(r, "unwind") /\ UNCHANGED gate
     \/ Go(r, "scan") /\ gate' = [gate EXCEPT ![host[r]] = Append(@, r)]
  /\ UNCHANGED <<journalVars, cloud, slot, mine, found, seen, leased, keeper, crashed>>

\* Its turn comes when those before it have settled.  (Mutant: no chain.)
MyTurn_Always(r) == TRUE
MyTurn(r) == Head(gate[host[r]]) = r

\* prepare fails before the creation of the sandbox.
Fails(r) == Go(r, "drop") /\ gate' = Unlocked(r, "drop")

\* reserveActiveSlot: a slot is free, or its record is so old that its sandbox
\* is beyond its time to live, or the cloud is asked.  The record replaced is
\* archived under a key of its own.  A failure to read rejects the run, if the
\* store lets it be seen: the stores of the file and of the server return null.
Takeable(k) == ~slot[k].busy \/ slot[k].old \/ ReadFaults

Scan(r) ==
  /\ At(r, "scan") /\ MyTurn(r)
  /\ \/ Fails(r) /\ UNCHANGED found
     \/ Takeable(mine[r]) /\ Go(r, "record") /\ UNCHANGED <<gate, found>>
     \/ /\ slot[mine[r]].busy /\ ~slot[mine[r]].old
        /\ found' = [found EXCEPT ![r] = slot[mine[r]].run]
        /\ Go(r, "list") /\ UNCHANGED gate
  /\ UNCHANGED <<journalVars, cloud, slot, mine, seen, leased, keeper, crashed>>

\* The sandboxes the cloud lists.
Listed == {r \in Runs : cloud[r] \in {"running", "stopping", "stopped"}}

\* There is one more slot to look at.
More(r) == mine[r] < slots

\* One listing serves the whole reservation.  A sandbox it shows holds its
\* slot; without a listing nothing is assumed.
List(r) ==
  /\ At(r, "list")
  /\ found' = [found EXCEPT ![r] = Nothing]
  /\ \/ seen[r] = Nothing /\ Fails(r) /\ UNCHANGED <<mine, seen>>
     \/ LET names == IF seen[r] = Nothing THEN Listed ELSE seen[r] IN
        \/ found[r] \notin names /\ Go(r, "record") /\ UNCHANGED <<gate, mine, seen>>
        \/ /\ found[r] \in names /\ More(r)
           /\ mine' = [mine EXCEPT ![r] = @ + 1] /\ seen' = [seen EXCEPT ![r] = names]
           /\ Go(r, "scan") /\ UNCHANGED gate
        \/ found[r] \in names /\ ~More(r) /\ Fails(r) /\ UNCHANGED <<mine, seen>>
  /\ UNCHANGED <<journalVars, cloud, slot, leased, keeper, crashed>>

\* The slot is taken; the store may fail, or swallow its failure, and only what
\* is read back counts.
Recorded(r, record) == record.busy /\ record.run = r

Record(r) ==
  /\ At(r, "record")
  /\ seen' = [seen EXCEPT ![r] = Nothing]
  /\ \E record \in {Busy(r), slot[mine[r]]} :
       /\ slot' = [slot EXCEPT ![mine[r]] = record]
       /\ \/ Recorded(r, record) /\ Go(r, "create") /\ UNCHANGED gate
          \/ Fails(r)
  /\ UNCHANGED <<journalVars, cloud, mine, found, leased, keeper, crashed>>

Create(r) ==
  /\ At(r, "create")
  /\ cloud' = [cloud EXCEPT ![r] = "requested"]
  /\ Go(r, "creating")
  /\ UNCHANGED <<journalVars, prepareVars, leased, keeper, crashed>>

Created(r) ==
  /\ At(r, "creating") /\ cloud[r] \notin {"requested", "absent"}
  /\ Go(r, "leased") /\ leased' = leased \cup {r} /\ gate' = Unlocked(r, "leased")
  /\ UNCHANGED <<journalVars, cloud, slot, mine, found, seen, keeper, crashed>>

\* prepareMayHaveLeftSandbox: a creation that has failed may have left a
\* sandbox.  (Mutant: it counts as a failure before the creation.)
AfterFailure_Drop == "drop"
AfterFailure == "unwind"

\* The command fails, or is killed at its time limit, whatever the cloud makes
\* of it; the slot is given back, unless the store fails.
CreateFails(r) ==
  /\ At(r, "creating")
  /\ cloud' = [cloud EXCEPT ![r] = IF @ = "requested" /\ ~AppearsLate THEN "absent" ELSE @]
  /\ slot' \in {slot, [slot EXCEPT ![mine[r]] = Free]}
  /\ Go(r, AfterFailure) /\ gate' = Unlocked(r, "unwind")
  /\ UNCHANGED <<journalVars, mine, found, seen, leased, keeper, crashed>>

Activate(r) ==
  /\ At(r, "leased")
  /\ row' = [row EXCEPT ![r] = "active"]
  /\ Go(r, "body")
  /\ UNCHANGED <<settings, cloud, prepareVars, leased, keeper, crashed>>

\* The body returns, throws or is aborted, and the execution under way ends.
BodyEnds(r) ==
  /\ At(r, "body")
  /\ Go(r, "unwind")
  /\ UNCHANGED <<journalVars, cloud, prepareVars, leased, keeper, crashed>>

-----------------------------------------------------------------------------
\* The way out: the finally of run.

\* No sandbox can have been made.
Drop(r) ==
  /\ At(r, "drop")
  /\ row' = [row EXCEPT ![r] = "released"]
  /\ Go(r, "done")
  /\ UNCHANGED <<settings, cloud, prepareVars, leased, keeper, crashed>>

Unwind(r) ==
  /\ At(r, "unwind")
  /\ row' = [row EXCEPT ![r] = "cleanup_pending"]
  /\ Go(r, IF r \in leased THEN "release" ELSE "stop")
  /\ UNCHANGED <<settings, cloud, prepareVars, leased, keeper, crashed>>

\* sbx stop: the sandbox begins to stop, or the command fails.
Stopped(r) == cloud' = [cloud EXCEPT ![r] = IF @ = "running" THEN "stopping" ELSE @]

\* confirmDockerSandboxStopped: the listing shows it stopped, or not at all.
Gone(r) == cloud[r] \notin {"running", "stopping"}

\* backend.release: the stop, its confirmation over several listings, and the
\* final record, which may fail.
Release(r) ==
  /\ At(r, "release")
  /\ \/ r \in Listed /\ Stopped(r) /\ Go(r, "endRecord")
     \/ UNCHANGED cloud /\ Go(r, "stop")
  /\ UNCHANGED <<journalVars, prepareVars, leased, keeper, crashed>>

EndRecord(r) ==
  /\ At(r, "endRecord")
  /\ \/ Gone(r) /\ slot' = [slot EXCEPT ![mine[r]] = Free]
     \/ UNCHANGED slot
  /\ Go(r, "stop")
  /\ UNCHANGED <<journalVars, cloud, gate, mine, found, seen, leased, keeper, crashed>>

\* stopAndConfirm: once more the stop, whose failure is ignored, and only a
\* confirmation releases the row.
Pending(r) == row' = [row EXCEPT ![r] = IF @ = "released" THEN @ ELSE "cleanup_pending"]

Stop(r) ==
  /\ At(r, "stop")
  /\ Pending(r)
  /\ Stopped(r) \/ UNCHANGED cloud
  /\ Go(r, "confirm")
  /\ UNCHANGED <<settings, prepareVars, leased, keeper, crashed>>

Confirm(r) ==
  /\ At(r, "confirm")
  /\ \/ Gone(r) /\ row' = [row EXCEPT ![r] = "released"]
     \/ UNCHANGED row
  /\ Go(r, "done")
  /\ UNCHANGED <<settings, cloud, prepareVars, leased, keeper, crashed>>

-----------------------------------------------------------------------------
\* recover, which a long-lived host calls: the rows of runs that are over.
Inactive(r) == pc[r] = "done" \/ host[r] \in crashed

Recover(r) ==
  /\ keeper[r] = "idle" /\ row[r] \notin {"none", "released"} /\ Inactive(r)
  /\ Pending(r)
  /\ Stopped(r) \/ UNCHANGED cloud
  /\ keeper' = [keeper EXCEPT ![r] = "confirm"]
  /\ UNCHANGED <<settings, prepareVars, runVars, crashed>>

Recovered(r) ==
  /\ keeper[r] = "confirm"
  /\ \/ Gone(r) /\ row' = [row EXCEPT ![r] = "released"]
     \/ UNCHANGED row
  /\ keeper' = [keeper EXCEPT ![r] = "idle"]
  /\ UNCHANGED <<settings, cloud, prepareVars, runVars, crashed>>

-----------------------------------------------------------------------------
\* The cloud: it makes what was requested, or not; what is stopping stops; a
\* sandbox ends at its time to live.
Cloud(r) ==
  /\ \/ cloud[r] = "requested" /\ cloud' = [cloud EXCEPT ![r] = "running"]
     \/ cloud[r] = "requested" /\ cloud' = [cloud EXCEPT ![r] = "absent"]
     \/ cloud[r] = "stopping" /\ cloud' = [cloud EXCEPT ![r] = "stopped"]
     \/ cloud[r] = "running" /\ cloud' = [cloud EXCEPT ![r] = "absent"]
  /\ UNCHANGED <<journalVars, prepareVars, runVars, keeper, crashed>>

\* A record ages beyond the time to live of its sandbox, and some more.
Outlived(r) ==
  \/ Inactive(r) /\ cloud[r] \in {"absent", "stopped"}
  \/ cloud[r] = "absent" /\ pc[r] \notin {"create", "creating"}

Age(k) ==
  /\ slot[k].busy /\ ~slot[k].old
  /\ Outlived(slot[k].run)
  /\ slot' = [slot EXCEPT ![k].old = TRUE]
  /\ UNCHANGED <<journalVars, cloud, gate, mine, found, seen, runVars, keeper, crashed>>

\* A process dies; the command it has started goes on.
Crash(h) ==
  /\ h \notin crashed /\ Cardinality(crashed) < MaxCrashes
  /\ crashed' = crashed \cup {h}
  /\ UNCHANGED <<journalVars, cloud, prepareVars, runVars, keeper>>

-----------------------------------------------------------------------------
Prepare(r) ==
  \/ Quota(r) \/ Scan(r) \/ List(r) \/ Record(r) \/ Create(r) \/ Created(r) \/ CreateFails(r)
WayOut(r) ==
  Drop(r) \/ Unwind(r) \/ Release(r) \/ EndRecord(r) \/ Stop(r) \/ Confirm(r)

Next ==
  \/ \E r \in Runs : \/ Admit(r) \/ Prepare(r) \/ Activate(r) \/ BodyEnds(r) \/ WayOut(r)
                     \/ Recover(r) \/ Recovered(r) \/ Cloud(r)
  \/ \E k \in Slots : Age(k)
  \/ \E h \in Processes : Crash(h)

\* A process runs what it has begun, and every command comes back within its
\* time limit.  Nobody need start a run, or come to the end of one.
Fairness == \A r \in Runs : WF_vars(Prepare(r)) /\ WF_vars(Activate(r) \/ WayOut(r))

Spec == Init /\ [][Next]_vars
FairSpec == Spec /\ Fairness

-----------------------------------------------------------------------------
\* The variables have their types.
TypeOK ==
  /\ host \in [Runs -> Processes] /\ limit \in Nat /\ slots \in Nat \ {0}
  /\ row \in [Runs -> {"none", "cleanup_pending", "active", "released"}]
  /\ cloud \in [Runs -> {"absent", "requested", "running", "stopping", "stopped"}]
  /\ slot \in [Slots -> [busy : BOOLEAN, run : Runs \cup {Nothing}, old : BOOLEAN]]
  /\ gate \in [Processes -> Seq(Runs)]
  /\ pc \in [Runs -> Stages]
  /\ mine \in [Runs -> Slots]
  /\ found \in [Runs -> Runs \cup {Nothing}]
  /\ seen \in [Runs -> (SUBSET Runs) \cup {Nothing}]
  /\ leased \subseteq Runs /\ keeper \in [Runs -> {"idle", "confirm"}]
  /\ crashed \subseteq Processes

\* A sandbox that costs, or is about to.
Alive(r) == cloud[r] \in {"requested", "running", "stopping"}

\* The run's process has died while the command that makes its sandbox was
\* under way: nobody hears how the command ends.
Orphaned(r) == host[r] \in crashed /\ pc[r] = "creating"

\* The account never has more sandboxes than its limit, whatever fails and
\* whichever process dies: a row keeps its place until its sandbox is gone.
\* Not counted is a sandbox whose creation was under way when its process died
\* and whose row a recovery has released since.
AccountCap ==
  Cardinality({r \in Runs : Alive(r) /\ (Orphaned(r) => row[r] # "released")}) <= limit

\* A row is released only when its sandbox is gone for good, unless its process
\* died during the creation: the comment in probeOnce, "name absent: nothing is
\* billing under that name".
ReleasedIsGone == \A r \in Runs : row[r] = "released" => ~Alive(r) \/ Orphaned(r)

\* While one process carries all runs, two runs with live sandboxes never
\* share a slot: the chain makes counting and taking one step, the records are
\* read back, and only a sandbox that is gone gives its slot away.
SlotsExclusive ==
  Cardinality({host[r] : r \in Runs}) = 1 =>
    \A r, q \in leased : r # q /\ Alive(r) /\ Alive(q) => mine[r] # mine[q]

\* A run admitted by a process that lives comes to its body or to its end: no
\* failure before it in the chain keeps the account locked.
RunsGoOn ==
  \A r \in Runs : pc[r] \notin {"idle", "body", "done"} ~> (pc[r] \in {"body", "done"} \/ host[r] \in crashed)

=============================================================================
