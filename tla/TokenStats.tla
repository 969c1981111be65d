----------------------------- MODULE TokenStats -----------------------------
(***************************************************************************)
(* The local token accounting of the CLI: one Call is one usage record     *)
(* handled by writeLocalTokenRecord (cli/client/localRuntimeDialog.ts),    *)
(* which stores the detail record of its provider call and then adds the   *)
(* usage to the day totals by a read-modify-write under runKeyed.          *)
(*                                                                         *)
(* The day totals are the set of the calls counted in them.  The process   *)
(* can be killed at any point and the turn saved again by a later one; the *)
(* database keeps what was written, the queue is lost.                     *)
(***************************************************************************)
EXTENDS KeyedTaskQueue

CONSTANTS
  Id,             \* provider call ids, the identity of a usage record
  MaxCrashes,     \* bound on the number of process kills
  ReadFaults      \* whether a local read may fail with an I/O error

ASSUME ReadFaultsAssumption == ReadFaults \in BOOLEAN
ASSUME MaxCrashesAssumption == MaxCrashes \in Nat

VARIABLES
  step,     \* step[c]: the await at which writeLocalTokenRecord stands
  id,       \* id[c]: the provider call id of its usage record
  snap,     \* snap[c]: the totals as its task read them
  details,  \* the ids whose detail record is in the database
  counted,  \* counted[k]: the calls counted in the totals stored under k
  added,    \* history: the calls whose totals write succeeded
  crashes   \* number of kills so far

recordVars == <<step, id, snap, details, counted, added, crashes>>
allVars == <<vars, recordVars>>

Step == {"start", "checked", "stored", "read", "write", "end", "skipped", "failed", "killed"}

TSInit ==
  /\ Init
  /\ step = [c \in Call |-> "start"]
  /\ id \in [Call -> Id]
  /\ snap = [c \in Call |-> {}]
  /\ details = {}
  /\ counted = [k \in Key |-> {}]
  /\ added = {}
  /\ crashes = 0

-----------------------------------------------------------------------------

Finished(c) == step[c] \in {"start", "end", "skipped", "failed", "killed"}

GoTo(c, s) == step' = [step EXCEPT ![c] = s]

\* The detail record exists.  (Mutant: a retry is not recognised.)
Recorded_Never(c) == FALSE
Recorded(c) == id[c] \in details

\* store.read(recordKey) returned.  A turn is saved again only after the
\* earlier attempt ended, so attempts at one id do not overlap.
CheckDetail(c) ==
  /\ step[c] = "start"
  /\ \A d \in Call : id[d] = id[c] => Finished(d)
  /\ \/ GoTo(c, IF Recorded(c) THEN "skipped" ELSE "checked")
     \/ ReadFaults /\ GoTo(c, "checked")       \* .catch(() => null)
  /\ UNCHANGED <<vars, id, snap, details, counted, added, crashes>>

\* The batch put.
WithDetail(c) == details \cup {id[c]}

\* store.batch of the detail record and its index entries, then the
\* synchronous part of runKeyed.
StoreDetail(c) ==
  /\ step[c] = "checked"
  /\ details' = WithDetail(c)
  /\ RunKeyed(c)
  /\ GoTo(c, "stored")
  /\ UNCHANGED <<id, snap, counted, added, crashes>>

StoreDetailFails(c) ==
  /\ step[c] = "checked"
  /\ GoTo(c, "failed")
  /\ UNCHANGED <<vars, id, snap, details, counted, added, crashes>>

\* Mutant: the task is not put behind the queue.
StartTask_Unqueued(c) ==
  /\ step[c] = "stored"
  /\ pc[c] = "waiting"
  /\ pc' = [pc EXCEPT ![c] = "running"]
  /\ GoTo(c, "read")
  /\ UNCHANGED <<queues, key, prev, ticket, calls, id, snap, details, counted, added, crashes>>

\* The queue begins the task, which asks for the totals.
StartTask(c) ==
  /\ step[c] = "stored"
  /\ Start(c)
  /\ GoTo(c, "read")
  /\ UNCHANGED <<id, snap, details, counted, added, crashes>>

\* store.read(statsKey) answers; an error is swallowed and leaves null, from
\* which applyTokenUsageToDayStats begins anew.
ReadTotals(c) ==
  /\ step[c] = "read"
  /\ \/ snap' = [snap EXCEPT ![c] = counted[key[c]]]
     \/ /\ ReadFaults
        /\ snap' = [snap EXCEPT ![c] = {}]
  /\ GoTo(c, "write")
  /\ UNCHANGED <<vars, id, details, counted, added, crashes>>

\* applyTokenUsageToDayStats.  (Mutant: the usage replaces the totals.)
Applied_Fresh(c) == {c}
Applied(c) == snap[c] \cup {c}

\* store.write(statsKey, newStats).
WriteTotals(c) ==
  /\ step[c] = "write"
  /\ counted' = [counted EXCEPT ![key[c]] = Applied(c)]
  /\ added' = added \cup {c}
  /\ Resolve(c)
  /\ GoTo(c, "end")
  /\ UNCHANGED <<id, snap, details, crashes>>

\* The write rejects, and with it the task.
WriteTotalsFails(c) ==
  /\ step[c] = "write"
  /\ Reject(c)
  /\ GoTo(c, "failed")
  /\ UNCHANGED <<id, snap, details, counted, added, crashes>>

ReturnTask(c) == Return(c) /\ UNCHANGED recordVars

\* The process dies: its calls and its queue are gone.
Kill ==
  /\ crashes < MaxCrashes
  /\ crashes' = crashes + 1
  /\ step' = [c \in Call |-> IF Finished(c) THEN step[c] ELSE "killed"]
  /\ pc' = [c \in Call |-> IF pc[c] = "idle" THEN "idle" ELSE "returned"]
  /\ queues' = [k \in Key |-> NoCall]
  /\ UNCHANGED <<key, prev, ticket, calls, id, snap, details, counted, added>>

Work(c) ==
  \/ CheckDetail(c) \/ StoreDetail(c) \/ StoreDetailFails(c) \/ StartTask(c)
  \/ ReadTotals(c) \/ WriteTotals(c) \/ WriteTotalsFails(c) \/ ReturnTask(c)

TSNext == Kill \/ \E c \in Call : Work(c)

\* Every await of a call that was begun is answered, one way or the other.
TSFairness ==
  \A c \in Call :
    /\ WF_allVars(StoreDetail(c) \/ StoreDetailFails(c))
    /\ WF_allVars(StartTask(c))
    /\ WF_allVars(ReadTotals(c))
    /\ WF_allVars(WriteTotals(c) \/ WriteTotalsFails(c))
    /\ WF_allVars(ReturnTask(c))

TSSpec == TSInit /\ [][TSNext]_allVars /\ TSFairness

-----------------------------------------------------------------------------

\* The totals hold every usage whose write succeeded, across interleaved
\* calls, failed tasks and kills: no read-modify-write loses another's
\* increment.
NothingLost == \A c \in added : c \in counted[key[c]]

\* A retried usage record is not counted twice: at most one of the attempts
\* at one provider call reaches the totals.
CountedOncePerId ==
  \A c, d \in added : id[c] = id[d] => c = d

\* Every attempt that was begun comes to an end.
EveryAttemptEnds == \A c \in Call : step[c] = "checked" ~> Finished(c)

\* Each step of the totals adds one usage record and removes none.
Totals == INSTANCE GrowOnlyStats WITH Usage <- Call
RefinesGrowOnly == Totals!Spec

=============================================================================
