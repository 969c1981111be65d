---------------------------- MODULE ClientRecord ----------------------------
(***************************************************************************)
(* One record (one dbKey) of the client database and its copies on the     *)
(* servers: the actions of database/actions that change it, split at their *)
(* awaits, and the requests by which they replicate it.                    *)
(*                                                                         *)
(* An operation is one element of Op.  Each reads the local copy, decides, *)
(* and puts its result when the database gets to it; other operations run  *)
(* in between unless Serial holds.  Nothing but the order of the awaits    *)
(* protects the record.                                                    *)
(***************************************************************************)
EXTENDS Tombstones, Sequences, SequencesExt

CONSTANTS
  Op,        \* the operations of the run
  Servers,   \* the planned servers, a sequence: the authority server first
  NoRecord,  \* a missing record, a failed or an unanswered request
  NoOp,      \* no operation
  Scenarios, \* what an execution starts from and how often requests are lost: records
  Start      \* the time at first, later than the initial versions

Server == ToSet(Servers)
Primary == Head(Servers)

ASSUME RecordAssumption ==
  /\ Servers # <<>> /\ IsInjective(Servers) /\ Servers \in Seq(Server)
  /\ Start \in Nat \ {0}
  /\ NoOp \notin Op

VARIABLES
  scenario, \* the scenario, fixed at the start
  local,    \* the copy in the client database
  remote,   \* remote[s]: the copy on server s
  now,      \* the clock: each stamp is a tick
  kind,     \* kind[o]: what operation o is
  pc,       \* pc[o]: the await at which it stands
  snap,     \* snap[o]: the version it holds on to
  outbox,   \* outbox[o]: its replication, as far as not delivered
  lost,     \* the number of requests that failed
  landed,   \* history: the last user operation whose put has landed
  edits     \* history: the edits the local copy should hold

recordVars == <<scenario, local, remote, now, kind, pc, snap, outbox, lost, landed, edits>>

\* A version, the edits it reflects and whether it names its serverOrigin.
Records ==
  [updatedAt : Nat, deletedAt : Nat, restoredAt : Nat, edits : SUBSET Op, origin : BOOLEAN]

UserKind == {"write", "patch", "restore", "remove", "purge"}
ReaderKind == {"read", "readAndWait", "cache", "messages"}

\* Every scenario starts from versions older than its clock.
ASSUME ScenarioAssumption ==
  /\ NoRecord \notin Records
  /\ \A c \in Scenarios :
       /\ c.maxLost \in Nat
       /\ c.kinds \in [Op -> SUBSET (UserKind \cup ReaderKind)]
       /\ \A r \in c.local \cup c.remote :
            r # NoRecord => r \in Records /\ r.updatedAt < Start /\ r.restoredAt < Start

NoRequest == [what |-> "none", left |-> {}, rec |-> NoRecord]

Init ==
  /\ scenario \in Scenarios
  /\ local \in scenario.local
  /\ remote \in [Server -> scenario.remote]
  /\ now = Start
  /\ kind = [o \in Op |-> "none"]
  /\ pc = [o \in Op |-> "idle"]
  /\ snap = [o \in Op |-> NoRecord]
  /\ outbox = [o \in Op |-> NoRequest]
  /\ lost = 0
  /\ landed = NoOp
  /\ edits = {}

-----------------------------------------------------------------------------

Ended(o) == pc[o] \in {"idle", "done", "failed"}

\* Operation o begins as one of kind k and goes to its first await.
Begins(o, k) ==
  /\ pc[o] = "idle"
  /\ k \in scenario.kinds[o]
  /\ scenario.serial => \A p \in Op : Ended(p)
  /\ kind' = [kind EXCEPT ![o] = k]

GoTo(o, l) == pc' = [pc EXCEPT ![o] = l]
Hold(o, r) == snap' = [snap EXCEPT ![o] = r]
Tick == now' = now + 1

\* scheduleWriteReplication, schedulePatchReplication and the deletes: what is
\* to be sent to all planned servers.
Schedule(o, what, r) ==
  outbox' = [outbox EXCEPT ![o] = [what |-> what, left |-> Server, rec |-> r]]

\* writeAction up to its local save.
WriteAction(o) ==
  /\ Begins(o, "write")
  /\ Hold(o, [updatedAt |-> now, deletedAt |-> 0, restoredAt |-> 0,
              edits |-> {o}, origin |-> FALSE])
  /\ Tick
  /\ GoTo(o, "put")
  /\ UNCHANGED <<scenario, local, remote, outbox, lost, landed, edits>>

Later(m, n) == IF m >= n THEN m ELSE n

\* deepMerge of the changes, stamped by inferNextUpdatedAt.  (Mutant: the
\* other edits of the merged record are lost.)
Merged_Alone(o, k, r) == [r EXCEPT !.updatedAt = now, !.edits = {o}]
Merged(o, k, r) ==
  IF k = "restore"
  THEN [ApplyRestorePatch(r, now) EXCEPT !.edits = r.edits \cup {o}]
  ELSE [r EXCEPT !.updatedAt = Later(now, r.updatedAt + 1), !.edits = r.edits \cup {o}]

\* patchAction up to the answer of its first db.get; a restore is a patch.
PatchAction(o, k) ==
  /\ k \in {"patch", "restore"}
  /\ Begins(o, k)
  /\ IF local # NoRecord
     THEN Hold(o, Merged(o, k, local)) /\ Tick /\ GoTo(o, "put")
     ELSE GoTo(o, "hydrate") /\ UNCHANGED <<snap, now>>
  /\ UNCHANGED <<scenario, local, remote, outbox, lost, landed, edits>>

\* The answer of the server the patch hydrates from; none ends the patch.
Hydrate(o) ==
  /\ pc[o] = "hydrate"
  /\ \/ /\ remote[Primary] # NoRecord
        /\ Hold(o, remote[Primary])
        /\ GoTo(o, "reread")
     \/ GoTo(o, "failed") /\ UNCHANGED snap
  /\ UNCHANGED <<scenario, local, remote, now, kind, outbox, lost, landed, edits>>

\* The local copy is read again; if it is there by now it is the base.
Reread(o) ==
  /\ pc[o] = "reread"
  /\ Hold(o, Merged(o, kind[o], IF local # NoRecord THEN local ELSE snap[o]))
  /\ Tick
  /\ GoTo(o, "put")
  /\ UNCHANGED <<scenario, local, remote, kind, outbox, lost, landed, edits>>

\* buildTombstoneRecord({ dbKey }, now): the record was not held locally.
Minimal == [updatedAt |-> now, deletedAt |-> 0, restoredAt |-> 0, edits |-> {}, origin |-> FALSE]

\* What removeAction is about to store.  (Mutant: the age of the deletion
\* in place of its time.)
Removed_Age(r) == [r EXCEPT !.updatedAt = now, !.deletedAt = Start - now - 1]
Removed(r) == BuildTombstoneRecord(r, now)

\* removeAction up to the answer of its db.get.
RemoveAction(o) ==
  /\ Begins(o, "remove")
  /\ Hold(o, Removed(IF local = NoRecord THEN Minimal ELSE local))
  /\ Tick
  /\ GoTo(o, "put")
  /\ UNCHANGED <<scenario, local, remote, outbox, lost, landed, edits>>

\* The defence of purgeAction.
MayPurge(r) == r # NoRecord => IsTombstoneRecord(r)

\* purgeAction up to the answer of its db.get: it refuses a live record.
PurgeAction(o) ==
  /\ Begins(o, "purge")
  /\ GoTo(o, IF MayPurge(local) THEN "del" ELSE "failed")
  /\ UNCHANGED <<scenario, local, remote, now, snap, outbox, lost, landed, edits>>

RequestOf(k) ==
  CASE k = "write" -> "write" [] k = "patch" -> "patch"
    [] k = "restore" -> "restore" [] k = "remove" -> "delete"

\* The put of a user operation lands and its replication is scheduled.
PutLands(o) ==
  /\ pc[o] = "put"
  /\ local' = snap[o]
  /\ Schedule(o, RequestOf(kind[o]), snap[o])
  /\ GoTo(o, "done")
  /\ landed' = o
  /\ edits' = CASE kind[o] = "remove" -> {}
                [] kind[o] = "write" -> {o}
                [] OTHER -> edits \cup {o}
  /\ UNCHANGED <<scenario, remote, now, kind, snap, lost>>

\* The del of purgeAction lands and the servers are told.
DelLands(o) ==
  /\ pc[o] = "del"
  /\ local' = NoRecord
  /\ Schedule(o, "force", NoRecord)
  /\ GoTo(o, "done")
  /\ landed' = o
  /\ edits' = {}
  /\ UNCHANGED <<scenario, remote, now, kind, snap, lost>>

-----------------------------------------------------------------------------

\* Writes and patches go to the authority first and to the others after its
\* answer; deletes go to all at once.
Due(o, s) ==
  /\ s \in outbox[o].left
  /\ outbox[o].what \in {"write", "patch", "restore"} /\ s # Primary =>
       Primary \notin outbox[o].left

\* What the copy r of a server can be after a request: a written version that
\* does not supersede may be kept out, a patch or delete of nothing is refused.
AfterRequest(o, r) ==
  LET m == outbox[o].rec IN
  CASE outbox[o].what = "write" ->
         {m} \cup (IF r # NoRecord /\ ~ShouldReplaceWithNextRecord(m, r) THEN {r} ELSE {})
    [] outbox[o].what = "force" -> {NoRecord}
    [] OTHER ->
         IF r = NoRecord THEN {NoRecord}
         ELSE CASE outbox[o].what = "delete" ->
                     {IF IsTombstoneRecord(r) THEN r ELSE BuildTombstoneRecord(r, now)}
                [] outbox[o].what = "patch" ->
                     {[r EXCEPT !.updatedAt = m.updatedAt, !.edits = @ \cup {o}]}
                [] outbox[o].what = "restore" ->
                     {[ApplyRestorePatch(r, m.restoredAt) EXCEPT !.edits = @ \cup {o}]}

Sent(o, s) == outbox' = [outbox EXCEPT ![o].left = @ \ {s}]

\* A request reaches its server and is applied there.
Deliver(o, s) ==
  /\ Due(o, s)
  /\ \E r \in AfterRequest(o, remote[s]) : remote' = [remote EXCEPT ![s] = r]
  /\ Sent(o, s)
  /\ IF outbox[o].what = "delete" THEN Tick ELSE UNCHANGED now
  /\ UNCHANGED <<scenario, local, kind, pc, snap, lost, landed, edits>>

\* A request fails, or its server is down: nothing sends it again.
Lose(o, s) ==
  /\ Due(o, s)
  /\ lost < scenario.maxLost
  /\ lost' = lost + 1
  /\ Sent(o, s)
  /\ UNCHANGED <<scenario, local, remote, now, kind, pc, snap, landed, edits>>

UserStep(o) ==
  \/ WriteAction(o) \/ PatchAction(o, "patch") \/ PatchAction(o, "restore")
  \/ RemoveAction(o) \/ PurgeAction(o)
  \/ Hydrate(o) \/ Reread(o) \/ PutLands(o) \/ DelLands(o)

ServerStep(o) == \E s \in Server : Deliver(o, s) \/ Lose(o, s)

-----------------------------------------------------------------------------

\* The shape of the state.
RecordTypeOK ==
  /\ local \in Records \cup {NoRecord}
  /\ remote \in [Server -> Records \cup {NoRecord}]
  /\ now \in Nat
  /\ kind \in [Op -> UserKind \cup ReaderKind \cup {"none"}]
  /\ snap \in [Op -> Records \cup {NoRecord}]
  /\ \A o \in Op : outbox[o].left \subseteq Server
  /\ lost \in 0 .. scenario.maxLost
  /\ landed \in Op \cup {NoOp}
  /\ edits \subseteq Op

=============================================================================
