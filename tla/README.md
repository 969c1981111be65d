# Formal model of nolo

TLA+ modules, TLC configurations and TLAPS proofs about the stateful core of
this repository.  Paths are relative to `src/packages/`.  `PROJECT.json` names,
for every definition, the lines of the source it stands for.

1. The system: its parts and what makes each correct
2. Modules, and how their state and actions correspond to the code
3. Runs: what is asked, with which bounds, and what came out
4. Fairness
5. Proofs
6. Where code and comments disagree, and other behaviour to know about
7. What is not modelled
8. Plan

## 1. The system

nolo is a local-first workspace for chats with agents: a terminal client
(`cli`), a web and native client (`app`, `chat`, `web`, `render`), a desktop
shell (`desktop*`) and the pieces they share (`core`, `database`,
`database-engine`, `agent-runtime`, `ai`).  Records live in a local database
(LevelDB, SQLite, IndexedDB) and are replicated to one or more servers over
HTTP.  There is no server code here beyond the authority modules, and there are
no test files; what the code promises is said in its comments.

### Components

**Keyed task queue** (`core/keyedTaskQueue.ts`).  State: a `Map` from a key to
the tail promise of a chain.  Operation: `runKeyed`.  Used by the token
accounting, among others.  Hard: map entries are replaced and deleted in
promise reactions, so an early deletion lets a later call overtake.  Correct if
tasks of one key exclude each other, run in call order, a failed task does not
block its successors, and the map has an entry exactly while calls are pending.

**Local token accounting** (`cli/client/localRuntimeDialog.ts`,
`writeLocalTokenRecord`).  State: one detail record per provider call, totals
per day.  Operations: check for the detail record, store it, read-modify-write
of the totals under `runKeyed`.  Hard: failed reads and writes, a kill between
the detail and the totals, retries of a turn.  Correct if no increment is lost,
none is counted twice, and whatever is counted has its detail.

**Version precedence and merges** (`database/tombstones.ts`,
`database/userDataMerge.ts`, `chat/web/sharedHistoryMerge.ts`).  Pure.  A record
has versions with `updatedAt`, `deletedAt`, `restoredAt`; a comparison says
which one supersedes, and two merges built on it decide what is shown and
cached.  Hard: versions arrive in any order, times tie, deletions meet later
updates.  Correct if a deletion wins unless restored later, and the result does
not depend on the order of arrival.

**Record actions** (`database/actions/{write,patch,remove,purge}.ts`).  State:
the client database.  Each reads the local copy, decides, puts, and schedules
replication, with an `await` between the steps and nothing that serialises two
operations on one key.  Correct if an edit that has landed is not lost and a
deletion is not undone by anybody but the user.

**Record readers** (`database/actions/{read,readAndWait,readResolution,
cacheMergedUserData}.ts`, `chat/messages/fetchAndCacheMessages.ts`, with the
bookkeeping of `readRequestManager.ts`).  They ask servers, compare the answers
with the local copy and store the winner in the client database: the reads are
writers too.  Hard: the local copy that was compared is stale by the time of
the put; callers share one promise per key.  Correct if a reader only ever
moves the local copy forward and callers are
answered.

**Replication** (`database/actions/replication.ts`, `database/requests.ts`).
State: requests under way.  Writes and patches go to the authority server first
and to the backups after its answer; deletes go to all servers at once; nothing
is retried.  Hard: requests overtake one another and get lost.

**Chat queue machine** (`core/chat/chatQueueMachine.ts`).  A reducer over
`{running, queue, lastError}`: turn-start, turn-end, enqueue, dequeue, clear.

**Terminal chat turns** (`cli/tui/{readlineWorkspace,chatQueueTuiBinding,
tuiTurnRunner,tuiSlashRouter,turnInjectionInbox,session}.ts`).  State: `busy`,
the abort controller of the turn that can be stopped, `forcedStop`, turn epochs,
the armed preemption, the inbox of the turn.  Operations: keys (Enter, Ctrl+S,
Esc, Ctrl+C), wakes of background runs, the end of a turn with its cascade of
drained requests, slash commands.  Hard: keys are handled without waiting for
each other, so everything interleaves at every `await`.  Correct if one turn
runs at a time, what is queued is given to the agent once and in order, a stop
keeps it, and the queue never stays in `running`.

**Lock files** (`database-engine/levelDbOwnershipLock.ts`,
`cli/connectorInstanceLock.ts`, `desktop/src/bun/singleInstanceLock.ts`).
State: a file with the pid of its owner.  Operations: acquire (create with
`O_EXCL`, read, `kill(pid, 0)`, move a stale file away, retry) and release.
Hard: processes interleave between any two system calls, end, fail to write, or
are suspended.  Correct if one process at a time holds the lock, a stale file
does not shut everybody out, and acquire ends.

**Background runs of the CLI** (`cli/agentRunControl.ts`,
`cli/tui/{runRegistryPoller,runCompletionWatcher}.ts`,
`agent-runtime/waitForRunTerminal.ts`,
`cli/client/cliAgentRunToolExecutors.ts`).  State: one JSON record per run,
next to it a lock file that is best effort (a section that is not strict goes on
without it), claim leases inside the record, and in the terminal what it knows
of the run and the wake it has queued.  Operations: heartbeats and settlement of
the child, reconciliation of a run whose process is gone, stop, wait with claim,
commit and release, poll and wake.  Hard: every write replaces the whole record,
stale locks are broken, processes die inside sections, a wait and a wake race to
deliver one end.  Correct if an outcome once published stays, only dead
processes are called dead, one wait claims a run, and its end reaches the agent
once.

**Docker workloads** (`agent-runtime/docker/workloadLifecycle.ts`,
`agent-runtime/{dockerSandboxExecutionBackend,dockerQuotaStore}.ts`).  State: a
journal of runs in SQLite, slot records in a key-value store without compare and
swap, a promise chain per account and process, and the sandboxes in the cloud.
Operations: admission, reservation of a slot, creation, activation, release,
confirmation and recovery.  Hard: a creation that failed may have left a
sandbox, a process dies with its sandbox running, several runs scan the same
slots.  Correct if the account never pays for more sandboxes than its limit, a
row is given back only when its sandbox is gone, live sandboxes do not share a
slot, and a failed run does not lock out the next.

**Web chat queue** (`chat/queue/chatQueueReduxAdapter.ts`,
`chat/web/useMessageInputSend.ts`, `chat/dialog/{dialogRuntimeStore,
dialogSlice}.ts`, `chat/dialog/actions/handleSendMessageAction.ts`,
`ai/agent/{streamAgentChatTurn,serverOwnedWebForegroundTurn}.ts`).  State: the
queue of waiting inputs in the dialog's runtime store, a second copy of it in
the adapter, the abort controllers of the dialog by key, the composer's lease.
Operations: send, queue, clear, stop, the loop of a turn that takes a waiting
input between two requests, the turn's one retry, and the adapter's drain at the
end of a turn.  Hard: three parties remove inputs from two copies of one queue,
and an abort leaves a turn in three different ways.  Correct if what waits is
stored once and in order, or given up by the user, and a stop ends the turn and
what waits behind it.

**Not modelled**, with the reason in section 7: write acknowledgements
(`database/actions/writeAck.ts`), the concurrency limiter
(`core/concurrencyLimiter.ts`), the web's dialog token totals, the projections
of the queue for the display, the move of a user to another authority, account
sync of local agents, LevelDB corruption recovery, the CLI's authority broker,
the record stores, the write authority, account sessions, the agent loop, the
process registry, agent tools and providers, the user interfaces, the desktop
shell and the connectors.

### How they interact

The composer calls `runOneAgentTurn`, which calls the agent loop; the loop pulls
from the turn's inbox by callback.  When the turn is over its outcome goes to
the queue binding, which starts the next request in the same call chain.  At
the end of a turn its usage goes through the token accounting, which uses the
keyed queue.  A background run is another process with the record file as the
only link: the terminal polls it and turns its end into a wake for the inbox or
the queue.  On the web the loop of the turn takes waiting inputs from the store
itself, and the adapter, told of the turn's end, may send the next one.  Everything durable goes through the record actions and readers to
a store; in the CLI several processes share that store, and the ownership lock
decides which one may open it (the others talk to its broker over HTTP).  The
clients' copies and the servers' meet in replication requests one way and in
reads the other.

## 2. Modules

| Module | Stands for | Uses |
| --- | --- | --- |
| `KeyedTaskQueue` | `core/keyedTaskQueue.ts` | |
| `TokenStats` | `writeLocalTokenRecord` | extends `KeyedTaskQueue` |
| `GrowOnlyStats` | abstract: what the day totals promise | refined by `TokenStats` |
| `Tombstones` | `database/tombstones.ts` | |
| `RecordMerge` | `mergeAndDedupUserData`, `mergeHistoryItems` | extends `Tombstones` |
| `ClientRecord` | record actions, replication | extends `Tombstones` |
| `RecordReaders` | the readers | extends `ClientRecord` |
| `ChatQueue` | `core/chat/chatQueueMachine.ts` | |
| `TuiChatQueue` | the terminal's turns | extends `ChatQueue` |
| `WebChatQueue` | a dialog of the web client | extends `ChatQueue` |
| `InstanceLock` | the three lock files | |
| `RunRegistry` | one background run of the CLI | |
| `DockerWorkloads` | the sandboxes of one account | |
| `MC*` | instances for TLC | extend the module they name |
| `*_proofs` | theorems | extend the module they name |

The theorems about `KeyedTaskQueue` are in `TokenStats_proofs` and those about
`Tombstones` in `RecordMerge_proofs`, where they are used.

**KeyedTaskQueue.**  A call of `runKeyed` is an element of `Call`; its promise
`cleanup` is identified with it.  `queues` is the map.  `RunKeyed` is the
synchronous part, `Start` the continuation that invokes the task, `Resolve` and
`Reject` the end of the task, `Return` the reactions of its promise: `cleanup`
is fulfilled and the entry deleted if it is still this call's.  The header of
the source leaves a task that never settles to outside monitoring, so tasks
settle.

**TokenStats.**  A call is one usage record with its provider call id; `step`
is the `await` at which `writeLocalTokenRecord` stands.  Totals are the set of
the calls counted in them, so an increment that is lost or counted twice
shows.  Attempts at one id are taken to follow one another, as a turn that is
saved again does; the code has nothing that keeps them apart.  Every store
operation can fail, where the constant `ReadFaults` admits
failing reads, and the process can be killed between any two steps: the
database stays, the queue is gone.  A later call with the same id is the turn
saved again.

**Tombstones, RecordMerge.**  A version is the three times the comparison
reads, 0 for a missing one, and a content where the tie key matters.
`RecordMerge` lets versions arrive in every order and keeps the fold's result
(`merged`) next to the pages, from which `MergeHistoryItems` is computed.  The
sort key between time and tie key, by which a cached version wins a tie
(`sharedHistoryMerge.ts:75`), is left out.

**ClientRecord, RecordReaders.**  One record, its local copy and one copy per
server.  An operation is an element of `Op` that becomes a write, patch,
restore, remove, purge, read, readAndWait, cache or messages; `pc` is its
`await`, `snap` the version it holds on to across it.  A version carries the
set of edits it reflects, so a lost edit shows.  Replication is an `outbox`
per operation: `Deliver` applies a request at a server, `Lose` is a failed one.
What the servers do is not in this repository: `AfterRequest` is external and
allows a server to apply a write always, or only when it supersedes.  With
`serial` operations run one at a time while their requests remain under way;
without it they overlap at every `await`.  `RecordReaders` adds the answers per
server, the in-flight map and the two cooldowns, whose expiry is a free choice.
`Answered` has one place per server of the plan, in its order, empty where the
server has no record; `Best` is the fold that takes the winner from it.
Who may do what, from which copies, one at a time or not, is a *scenario*, fixed
at the start of a behaviour.

**ChatQueue, TuiChatQueue.**  A request is the sequence of the inputs merged
into it.  `ChatQueue` has one operator per event of the reducer.  In
`TuiChatQueue` a *chain* is one pass of `handleInputToken` or
`runIdleTextTurn` through its awaits.  `Submit`, `EnqueueWhileBusy`,
`EnterWhileBusy`, `EnterWhileIdle`, `FlushWhileBusy`, `FlushWhileIdle`,
`StopTurn`, `ForceStop` are the keys; `WakeArrives` and `WakeRuns` a background
run that ends; `BeginDirect`, `OpenDrained`, `DrainInjections`, `TurnReturns`
what a chain does by itself, the last with the whole end of a turn: the rest
of the inbox put into the queue, `consumePreempt`, turn-end, and the next
request or the release of the composer; `CommandBegins`, `CommandEnds`,
`LearnTurn` the commands that overlap with turns.  A turn returns, returns as
aborted, or throws.

**InstanceLock.**  The three files follow one scheme and differ in details, so
one module has all three: `protocol` says which one is at work.  `lock` is the
file with its maker, whether the pid is in it and whether it is older than the
grace period; `pc` is the system call a process is about to make, `attempt` the
loop variable.  `Ends` is a process that exits or is killed anywhere, `Age` the
grace period passing.  Pids are not used again, and all processes are of one
user: the desktop's probe (`singleInstanceLock.ts:53-60`) would take the process
of another user for dead, the other two for alive.  `faults` and `solo` are
history: what has gone wrong, and who has been alone since it began.

**RunRegistry.**  The three processes are the child that runs, the terminal
that spawned it (`Tui`) and a second CLI.  `sec[p]` is the locked section a
process is in, with the operation, the copy of the record it has read, and
whether it holds the lock file: `Take`, `Unlink`, `Create`, `Read`, `Write` and
`Leave` are the file operations of `withRunRecordLock` and of the callback in
it.  `Writes`, `Outcome` and `Final` say what each operation does with the copy
it has read.  The child's life is `child`, the stop command's `stop`, a wait
call's `wait`; `dock` is the terminal's knowledge of the run.  `busy` says that
a turn of the terminal's agent is under way.  A wake then goes into the turn's
`inbox`, from where the loop takes it into the next request (`Injected`) and
the end of the turn moves it to the queue (`TurnEnds`); otherwise it starts a
turn, which alone looks at the claim again (`WakeTurn`).  `told` is history: by
what the agent has been told of the end.  `torn` and
`broken` are history: two processes were inside sections at once, a stale lock
was removed.  A scenario says who waits, who stops and who may die.

**DockerWorkloads.**  `row` is the journal, `slot` the slot records, `gate` the
promise chain of a process, `cloud` what really runs.  `Quota`, `Scan`, `List`,
`Record`, `Create`, `Created` and `CreateFails` are `prepare` from await to
await; `Activate`, `BodyEnds`, `Drop`, `Unwind`, `Release`, `EndRecord`, `Stop`
and `Confirm` the rest of the lifecycle with every way out of it; `Recover` and
`Recovered` the recovery by any process of a run that no process works on, also
of one whose process died during the creation.  The cloud is external: it
makes, loses and stops sandboxes at its own pace.  `Age` makes a slot record
older than its sandbox can live, and is enabled only when it has not lived on.

**WebChatQueue.**  A *turn* is `handleSendMessageAction` around
`streamAgentChatTurn` or around a turn that the server owns; `pc` is the await
it is at.  `shadow` is `pendingUserInputQueue`, `core` the adapter's copy, taken
once (`seeded`).  `loop` is the turn whose controller is registered for the
dialog, `aborted` the turns whose loop controller was aborted; `own` is the
request's controller of a turn, which is another one: a stop aborts the
requests and the registered loop.  So a turn whose registration was taken or
removed by another loses its request and goes on.  What is thrown then counts as
an abort when it is an `AbortError` (`ThrownAs`), whatever await it comes from.  `End` is the whole `finally` of
`streamAgentChatTurn` with the drain that the adapter starts in it.  `calm` is
history: no two turns at once, nothing sent by the adapter, no input cleared
while it is being stored.

## 3. Runs

Twelve runs.  "Violated" runs check one sentence of the repository's own
comments against the code and find a counterexample; see section 6.

| Run | Checks | Result |
| --- | --- | --- |
| `token_stats` | `MutualExclusion`, `FirstComeFirstServed`, `NothingLost`, `CountedOncePerId`, `EveryAttemptEnds`, `RefinesGrowOnly` | hold |
| `record_merge` | `HistoryIgnoresOrder`, `DeletionSurvivesFold`, `FoldAgreesWhenCarried` | hold |
| `records` | `TypeOK`, `DeletedStaysDeletedInTurn`, `EditsKeptInTurn`, `ReadersOnlyAdvance`, `OperationsEnd` | hold |
| `record_remove_race` | `DeletedStaysDeleted` with an overlapping read | violated |
| `tui_queue` | `TurnsAreAccountedFor`, `NothingTwice`, `QueueOrder`, `CleanEndDrains`, `StopKeepsQueue`, `OnlyAbortLoses`, `QueueNotStuck` | hold |
| `instance_lock` | `StartsExclude`, `FileHasOwner`, `AloneSucceeds`, `AcquireEnds` | hold |
| `lock_two_holders` | `TakenOverOnce` | violated |
| `run_registry` | `HolderExclusive`, `OutcomeKept`, `VerdictMeansGone`, `OneClaim`, `WokenOnce`, `NoWakeAfterWait`, `EndRecorded` | hold |
| `run_outcome_lost` | `TerminalStays` | violated |
| `docker_workloads` | `AccountCap`, `ReleasedIsGone`, `SlotsExclusive`, `RunsGoOn` | hold |
| `web_queue` | `KeptInTurn`, `OnceInTurn`, `LoopTakes`, `StopEnds` | hold |
| `web_stop_drains` | `StopGivesUp` | violated |

The type invariants of the locks, the background runs and the workloads are not
run: they are proved for every value of the constants.

Bounds, and why they are enough:

- `token_stats`: three calls, one key, three ids of which any may coincide, one
  kill.  Three calls on one key are the smallest case in which a deletion by
  the first can make the third overtake the second; keys are independent (the
  queue touches `queues[k]` only), which the proofs confirm for any number.
- `record_merge`: four versions over three times and two contents.  Three
  versions suffice to show that the comparison is not transitive in general;
  the fourth is one that arrives around them.
- `records`, `record_remove_race`: two servers (the authority and a backup),
  three operations one at a time, or two that overlap; one lost request.
  Initial copies are absent, live, deleted or restored, locally and remotely,
  in any combination; one scenario has a local edit of 3 next to servers that
  hold a deletion of 1 and a restoration of 2.  Requests of the first operation are still under way
  during the others, which is where they overtake.
- `tui_queue`: two chains, three lines, one wake, one command, one forced stop.
  Two chains are what it takes for turns to overlap; three lines let one be in
  the turn, one merged and one queued.  Three chains hold as well (twice the
  states) and add nothing new.
- `instance_lock`: three processes, one of which ends.  A stale file takes one
  process that has ended, and the race for it two more.  Two ends hold as well.

- `run_registry`: the child, the terminal and one more CLI; two attempts to
  settle and one wait each.  Four scenarios: a stop while the CLI may die, a
  stop of a child that dies, two waits of which one may die, and a child that
  dies while the terminal waits.  Two contenders are what a section can be torn
  by, and a third process is there to find out.  The terminal's turns begin and
  end as often as they like.
- `docker_workloads`: two runs, in one process or two, with room for one or
  both, and one crash.  The limit and the slots differ in two placements, since
  a run refused by the journal never meets the slots; and two processes also
  share room for one, so that a run is admitted, or not, after a crash.  Three runs in one
  process (run by hand) hold as well and add nothing new.
- `web_queue`: two turns and three inputs: one is sent and two wait, the least
  for an order.  Once turns have overlapped or the adapter has sent, a third
  input is left out by a constraint (`MaxRough` in the MC module), since the
  properties of order and loss speak of the calm part; a turn that a drain has
  started is covered with two.

The runs of `InstanceLock` check deadlock: a released lock can always be asked
for again.  The other configurations switch it off, because these systems
really stop: once every call has returned, every operation of the bounded
number has ended, or no line is left and every turn is over, nothing need
happen.  That they do not stop earlier is what `EveryAttemptEnds`,
`OperationsEnd` and `QueueNotStuck` say.

What they show, by component:

- *Keyed queue and accounting.*  The promise chain is a first-come-first-served
  lock per key whatever tasks fail; the totals implement the grow-only set of
  `GrowOnlyStats` (a refinement, checked as a property) across failures,
  retries and a kill.  The price of the order "detail first, totals after" is
  visible too: a kill in between leaves a usage uncounted for good, since the
  retry finds the detail (`CountedOncePerId` and not "counted exactly once").
- *Merges.*  The history merge is a function of the *set* of versions, as its
  comment promises.  The fold keeps a deletion, but it agrees with the history
  merge only where live versions carry restorations forward
  (`EvidenceCarried`); without that the comparison is not transitive, and a
  patch from a client that drops `restoredAt` makes the fold depend on order.
- *Records.*  One at a time, operations are safe: no answer and no late request
  undoes a deletion; none loses an edit where nothing is deleted; and a reader
  replaces the local copy only if some server has sent what supersedes it, by
  something that supersedes it itself where all agree whether the record is
  deleted.  The two conditions are needed (section 6).  Overlapping,
  they are not (section 6); what does hold then is that every operation ends,
  and with it that everybody who shares a read is answered.
- *Terminal.*  As long as neither a second Esc nor a command cuts into a turn,
  turns are one at a time, `running` and `busy` agree with what is under way,
  nothing is given to the agent twice or out of order, and the queue is lost
  only by an abort that was not a deliberate stop.
- *Locks.*  The window between creation and write is harmless for the
  database's and the connector's lock, files of failed writes shut nobody out
  beyond the grace period, and a process that is alone gets the lock.  Taking
  over the lock of a process that has ended is not exclusive.

- *Background runs.*  As long as no two sections overlap, a published outcome
  stays, one wait claims the run, and after it has told its agent no wake is
  raised or begins a turn; a wake is told once, from the inbox or the queue; a live child is
  never called dead, whatever overlaps; a child that dies silently is found out
  by the poll.  Sections do overlap where the lock is given up, and then the
  record can go back (section 6).
- *Docker workloads.*  Rows keep their place until the sandbox is known to be
  gone, through every failure and a crash, except that of a process in the middle
  of a creation (section 6); within one process the chain makes
  reservation exclusive; a run that fails lets the next one through.
- *Web queue.*  As long as turns follow each other and the adapter sends
  nothing, waiting inputs are stored once, in order, and lost only by a clear or
  an abort.  Stopping ends a turn at whichever await it is as long as no other has
  taken its registration, but not what waits.

Each property is also run against a mutant of a definition it depends on, a
plausible bug such as a dropped guard or a swapped order, and fails there.
Mutants stand next to the definition they replace, marked `(Mutant: ...)`.

## 4. Fairness

Weak fairness everywhere, and only for what the runtime or a timeout
guarantees:

- queue: due promise reactions run and tasks settle; nobody is obliged to call.
- accounting: every store operation is answered, well or badly.
- records: an operation that has begun goes on, since requests time out
  (`requests.ts`, 5 s) and then count as failed; a scheduled request is
  delivered or lost, the choice between them is free.
- terminal: `BeginDirect`, `OpenDrained` and `TurnReturns`: reading attachments
  ends, and turns end because provider requests time out and aborts are
  heeded.  Keys, wakes and commands are not obliged to happen.
- locks: a process inside acquire goes on; the function is synchronous and
  waits for nobody.  Releasing, ending and aging are free.

- background runs: the child works and settles, the terminal and the CLI go on
  with what they have begun, and the poll's timer fires.  Dying, stopping and
  waiting are free.
- workloads: a process that lives runs what it has begun, and commands have
  time limits.  The fetches of the remote store
  (`dockerQuotaStore.ts:203`, `246`) have none of their own: that they are
  answered rests on the limits of the runtime's `fetch`.  The cloud is not obliged to anything, nor is a body to end.
- web: every await of a turn comes back (requests have timeouts and abort
  signals).  The user and the composer are free.

## 5. Proofs

`*_proofs` hold for every value of the constants that satisfies the named
assumptions, and those say only what the values are (bounds are naturals, the
absent value is not an element, the servers are a sequence without repetition,
and the copies a scenario starts from are older than its clock:
`ScenarioAssumption`, `AnswerAssumption`).  Hypotheses of single theorems are
named with them below.

Every safety property that a passing run checks, action properties included, is
also a theorem.

**TokenStats_proofs**, the queue: `TypeCorrect`, `MutualExclusionHolds`,
`FirstComeFirstServedHolds`, `EntryIffPendingHolds`.  `MutualExclusion` is not
inductive: whether a call may start depends on the one promise it was chained
to.  `IInv` adds that tickets are unique (`Tickets`), that the map names the
latest pending call of its key (`TailIsLatest`), that everything before a
waiting call is its predecessor or before it (`WaitChain`), and that whoever
has begun has only returned calls before it (`Serial`).  `TailIsLatest` needs
the code's check that an entry is deleted only by the call that stored it.

**TokenStats_proofs**, the totals: `ExclusionAcrossKills`, `OrderAcrossKills`,
and, if reads do not fail (`~ReadFaults`), `NoUsageLost`, `CountedOnce` and the refinement
`ImplementsGrowOnly`, for any usage records, keys, ids and kills.  A kill keeps
the queue's `IInv` (`KillKeepsQueue`) and every other step is a step of the queue
or none, so the exclusion carries over.  `TSInv` uses it: whoever is between
read and write is the only one on its totals, so its snapshot is current
(`SnapIsCurrent`).  `CountedOnce` needs that attempts at one id follow one
another and that none begins once one was counted (`OneAttempt`).  Where a read
fails, `CheckDetail` and `ReadTotals` are the two actions whose step breaks.

**RecordMerge_proofs**, the comparison: it is asymmetric and decides all but
ties (`Asymmetric`, `DecidedUpToTies`), a deletion made by
`buildTombstoneRecord` beats every live version not restored later
(`DeletionPrevails`), the restore patch beats every earlier tombstone
(`RestorePrevails`), and the comparison is transitive where restorations are
carried forward (`TransitiveWhenCarried`).

**RecordMerge_proofs**, the merges: `HistoryOfAllOrders` (`HistoryIgnoresOrder`),
`FoldKeepsDeletion` (`DeletionSurvivesFold`) and `MergesAgree`
(`FoldAgreesWhenCarried`), for any number of versions, times and contents.  Both
merges are `FoldLeft`s.  `MergeInv` says what they hold in terms of the *set* of
versions that arrived: `FoldOf` for the running fold `merged`, which is one of
them, holds a deletion that nothing follows, and is the extreme of them where
restorations are carried forward; `Collected` for the tombstone, the live rows
and the winner of the history merge.  Each part is kept when one version more
arrives; the row shown follows from `Collected` alone.

**RecordReaders_proofs**: `TypeCorrect`, and, for operations in turn of which none is a
`readAndWait` (`ReadsAtOnce`), `RemovedStaysRemoved`
(`DeletedStaysDeletedInTurn`), `ReadersAdvance` (`ReadersOnlyAdvance`) and
`EditsAreKept` (`EditsKeptInTurn`), for any number of operations, servers, lost
requests and scenarios.  `ReadsAtOnce` is there because `readAndWait` compares
by `updatedAt` alone, and not with the local copy (section 6); the run's own
scenarios in turn satisfy it (`InTurnAssumption`).  The argument:

- `TypeInv`: what every version, request and answer is, and that whoever stands
  before a put holds a version.
- `Solo` and `KindInv`: in turn one operation at most is under way, and it stays
  what it began as.  Requests of the earlier ones still are, so the servers' copies
  remain arbitrary.
- `YoungInv`: no version, wherever it is, comes from the future.  Hence a new
  one is later than all others (`Before`, `Past`).
- `DoomedInv`, `GoneInv`: what a removal stores is deleted later than any copy or
  request says it was restored, and so is whatever a reader holds and may put
  over it.  A live version that a server still has, or that a late request brings
  back to it, therefore never wins.
- `AdvanceInv`: in turn, the copy a reader took before its requests is still the
  local one when it compares, which is just what `record_remove_race` shows to
  fail when operations overlap; what it decides to put has been justified by
  what the servers sent.
- `LandsInv`, `KeptInv`: where nothing is deleted, an edit about to land is made
  of all edits before it and is later than every other version, and from then
  on the local copy is as late as any, so that nothing a reader brings
  supersedes it.

**TuiChatQueue_proofs**, the turns: `TurnsAccountedFor`, for any number of
chains, lines, wakes, commands and forced stops.  `Inv` is the shape of the
state and, unless `disturbed`, `Account`: which chains may be under way in which
stage, and what `running` and `busy` are then.  One lemma per handler; the
cascade in `TurnReturns` is the long one.

**TuiChatQueue_proofs**, the queue: `NothingIsTwice` (`NothingTwice`),
`QueueStaysInOrder` (`QueueOrder`), `StopKeeps` (`StopKeepsQueue`),
`AbortsAloneLose` (`OnlyAbortLoses`) and `CleanEndsDrain` (`CleanEndDrains`).
`FlowInv` speaks of the *story*: what the agent was given, followed by the
flattened queue.  It has no repetition, and neither have the inboxes, which it
does not meet (`Apart`); it follows the order of arrival (`InOrder`); and every
turn has a number and an inbox of its own (`Epochs`), so that the rest of an
inbox goes into the queue once.  Each handler moves inputs along the story,
adds a new one at its end, or drops some, and there is a lemma for each of these.
`Heeds` adds, while nothing has cut into a turn, that a stop with something
queued stays armed until its turn ends, which is when the queue would be
cleared.

**InstanceLock_proofs**: `TypeCorrect`, `StartsExcludeHolds`, `FilesAreOwned`
and `AloneGetsIt`, for any number of processes.  `StartsExclude` alone says
nothing about a process between creation and write.  `IInv` adds, for the calm
case (nothing has gone wrong and the lock has a grace period): a process that has created the file finds it in
its place (`Owners`); nobody has judged a file stale (`NoJudgement`); a file
without pid is fresh and its maker is about to write (`EmptyIsFresh`); whoever
is about to stat finds it fresh (`StatsFresh`).  The last three are why nobody
moves the file that `Owners` talks about.  `CalmBackwards` (what has gone wrong
stays so) lets a step into a calm state start from one.  `FilesAreOwned`
(`FileHasOwner`) needs no calm, only that the file of a process about to write
its pid is still empty (`OwnedInv`).  `AloneGetsIt` (`AloneSucceeds`) rests on it:
a pid that a lone process reads is that of a process that has ended, so its first
round ends with the file gone, and its second finds none (`AloneInv`).

**RunRegistry_proofs**: `TypeCorrect`, `HoldersExclude`, `VerdictsAreTrue`,
`OutcomesStay`, `ClaimsExclude` (`OneClaim`), `NoSecondTelling`
(`NoWakeAfterWait`) and `WakesOnce` (`WokenOnce`), for any scenarios and bounds.  The many actions touch the
shared record in a few ways only, and `ActionClasses` says so: a file operation of a
section, the begin or the end of one, a death, or nothing.  The rest is about
these classes.  Types need that a section under way has a name, a copy to write
and a dead child for its verdict (`SectionsOK`), and that those who count their
sections are where they have begun them (`Links`).  Each property then has a
strengthening of its own: the file there is the holder's (`HolderInv`), no
verdict is about to be published on a child that runs (`VerdictInv`), and while
no two sections have overlapped, what a process is about to write over is what
it has read and may be written over (`OutcomeInv`).  `ClaimsExclude` and
`NoSecondTelling` follow from `ClaimInv`: a wait that has the claim, or has it in a section about to publish,
is the only one; the record shows its lease or, once it has committed, the
final acknowledgement, which nobody takes back; and a run whose end was told by
a wait is sealed, so the poll raises no wake for it, nor does a reconciliation
that the poll has begun (`TickInv`).  `WaitLinks` ties a wait's stage to the
section it has under way.  `WakesOnce` needs that a wake which waits anywhere,
or was told, was handed on (`WakeInv`).  Neither says anything of a wake that was
raised before the wait returned and lies in the inbox (section 6).

**DockerWorkloads_proofs**: `TypeCorrect`, `OneAtATime`, `ReleasedStaysGone`,
`CapHolds`, `SlotsStayExclusive` (`SlotsExclusive`), for any runs, processes and
limits.  `ChainInv`: a run that waits for the account or decides on a slot is in the chain of its process, and
whoever has begun to decide is its head; hence its head is well defined and
`OneAtATime` true.
`SafeInv` adds, per run, which sandbox is possible at which stage and which row
goes with it (`SafeRun`), and that the occupied rows are within the limit
(`Places`); a sandbox that is alive has an occupied row, or was made for a
process that had died (`Orphaned`), hence the cap.
`SlotInv` says that a leased run finds its own record in its slot as long as its sandbox costs and until its final
record is written, and that nobody who looks at a slot misses its holder: a
holder is in every listing, and in what was read of its slot, so what a run
decides on is held by nobody.  It needs `ChainInv`, since between the look and
the record there is no compare and swap.
The last three theorems assume that the cloud makes nothing of a creation it has
reported failed (`~AppearsLate`), the last also that a slot record that cannot
be read is not passed off as none (`~ReadFaults`); without these the properties
are false (section 6).  `SlotsExclusive` itself speaks of runs in one process.

**WebChatQueue_proofs**: `NoneLost` (`KeptInTurn`) and `StoredInOrder`
(`OnceInTurn`), for any number of turns and inputs.  Both speak of the calm part
of a behaviour, and `calm` is never regained, so `CalmInv` is silent after it.
Before, it says that the one turn under way was not started by the adapter and
that what it is storing is the head of the queue, or never waited (`OneTurn`);
that the queue is ascending and behind what was stored of it (`Ordered`); and
that what was queued waits, is stored or given up (`Kept`).  `KeptInTurn` alone
does not tell that the head which `Keep` removes is the input it has stored.
`StepKinds` sorts the steps by what they do to queue and log; one lemma per kind.

*On folds.*  `FoldLeft` and `FlattenSeq` are defined by recursive functions, and
the library's induction theorems take an operator, which the provers cannot
instantiate.  Induction is therefore stated over a *set* of numbers (`Climb`,
from `WFMin`): for a function given by its step, the set of lengths for which
the fold exists and returns what is claimed is shown to be all of `Nat`.  That is
enough for folds with a known step (`EndSteps`, `FoldStays`), and it is why
`Answered` and `QueueOrder` are written without `SelectSeq`, which the provers
have no definition of.  What a `RECURSIVE` operator computes stays out of reach.

Only model-checked: all liveness (`EveryAttemptEnds`, `OperationsEnd`,
`QueueNotStuck`, `AcquireEnds`, `EndRecorded`, `RunsGoOn`, `LoopTakes`,
`StopEnds`), since the prover has no rule for fairness and `ENABLED`.  Outside
the hypotheses named above (overlapping operations on a record, disturbed turns,
overlapping sections, lost calm) nothing is proved, and the violated runs show
why.

## 6. Disagreements and other behaviour

Found by runs, each with the comment it contradicts in `PROJECT.json`:

- **`record_remove_race`**: the background revalidation compares a server's
  answer with the local copy from before its requests; a removal in between is
  overwritten by the live record.
- **`lock_two_holders`**: two processes judge the lock of one that has ended.
  The first renames it away and creates its own; the second's rename then moves
  that one.  Both hold the lock, and the ended process need not have crashed:
  a clean release and exit between the other's read and its `kill(pid, 0)` do
  as well.  In the CLI the broker binds its port before it takes this lock
  (`database-engine/cliAuthorityBrokerServer.ts`), so it bites processes with
  different endpoints.

- **`run_outcome_lost`**: a wait that gives up releases its lease without the
  lock while the child settles, and puts its running copy over the published
  outcome.
- **`web_stop_drains`**: the user stops a turn while an input waits.  The
  request catches the abort and returns, the loop's top returns
  `{ aborted: true }`, and only an abort that is *thrown* counts as one at the
  end: the queue is kept, the adapter hears of a clean end and sends the head.

Seen in the models, not a run of their own:

- `token_stats` with `ReadFaults = TRUE` violates `NothingLost`: a failed read of
  the day totals (`localRuntimeDialog.ts:331`) is taken for "no totals yet", and
  the write replaces the day's usage.
- `readAndWait` (`readAndWait.ts:212`) stores the authority's answer without
  comparing it with the local copy: an edit whose replication is under way or
  failed is lost, against the comment at `:137`.
- The precedence of versions is not transitive, and with servers that disagree
  whether a record is deleted a reader can put it back, also in turn: a local
  edit of 3, one server with a deletion of 1, another with a version of 2 that
  was restored at 2.  The deletion beats the edit, the restored version beats
  the deletion, and the message reconciliation
  (`fetchAndCacheMessages.ts:170-256`) and the cache put the version of 2 over
  the edit of 3.  `ReadersOnlyAdvance` asks for precedence of what is stored only
  where the versions agree.  For the same reason an edit does not outlive a
  deletion that a server has stamped late, once the record is restored on top of
  it; hence `NothingDeleted` in `EditsKeptInTurn`.
- `/learn` runs a chat turn without setting `busy`, and a command that ends
  clears `busy` although a turn has begun since: a second turn starts beside the
  first (`readlineWorkspace.ts:2914`; `OneTurnAtATime` without exception).
- A background run whose end the watcher sees under another's lease is dropped
  by the poller when it retires the run (`runRegistryPoller.ts:338`); if that
  wait then gives up, nobody tells the agent.
- A wake raised while a turn is under way lies in the turn's inbox.  When a wait
  of that turn then claims the run and returns its end, the loop takes the wake
  in all the same before its next request (`tuiTurnRunner.ts:1527`,
  `localLoop.ts:1347-1376`): the agent is told twice, no sections overlapping,
  while `runCompletionWatcher.ts:16` says that a run consumed by a wait is never
  woken again.  Only a wake that starts a turn looks at the claim, and so
  `NoWakeAfterWait` speaks of those and of wakes not yet raised.
- `docker_workloads` with `ReadFaults = TRUE` violates `SlotsExclusive`: the
  comments in `dockerSandboxExecutionBackend.ts:512` and `:615` say that a slot
  record which cannot be read must not count as free, but both stores return
  null for it (`dockerQuotaStore.ts:83-86`, `210-224`), and a second run takes
  the slot of a live sandbox.
- A process that dies during a creation leaves the `sbx create` to the cloud.  A
  `recover()` before the sandbox is there finds none, takes it for gone and
  releases the row (`workloadLifecycle.ts:135-157`), since for an absent name
  "nothing is billing" (`dockerSandboxExecutionBackend.ts:996`); then the sandbox
  appears, holds no place and can take the account beyond its limit.  Both `AccountCap` and
  `ReleasedIsGone` except such a sandbox (`Orphaned`) and fail without that.
- With `AppearsLate = TRUE` it violates `ReleasedIsGone`: a sandbox that appears
  after its creation was given up is not in the listing that confirms it gone.
- A release that ends late writes its final record over whatever is in the slot
  by then; `Outlived` leaves out that its sandbox was stopped by its time to live
  and the slot reclaimed meanwhile.  `recover()` has no caller in this
  repository; the model lets any process recover any inactive run.
- The web adapter sends the head first and removes it after.  Meanwhile the loop
  of the new turn finds the same head in the store and stores it again, the end
  of that turn drains it a third time, and each removal then takes whatever is
  at the front: inputs are stored twice and lost.  A send that fails resolves
  (nobody unwraps it), so its head is removed too, although
  `chatQueueReduxAdapter.ts:93-96` keeps it for a retry.  A turn that ended in an
  error is reported as `ok: true` and drains, although
  `streamAgentChatTurn.ts:2894-2897` says the queue is preserved.
- The adapter copies the queue once per dialog: later inputs that a turn leaves
  behind are not drained.  Clearing the badge does not reach it.  A turn that the
  server owns neither takes waiting inputs nor tells the adapter of its end,
  although the composer promised to send them after the round.
- The check for a running turn (`streamAgentChatTurn.ts:524-539`) and the
  registration of the new one are separated by awaits, and a turn that leaves
  removes the loop key whoever has it: two turns of a dialog can run at once.
  A stop then aborts the request of both, but the loop of one only: the request
  of the other catches its abort and returns, the top of the loop looks at the
  loop's controller and the thunk's signal (`streamAgentChatTurn.ts:2569`), and
  the stopped turn goes on.  `StopEnds` speaks of the turns whose loop the stop
  has reached.
- An `AbortError` from any await of a turn counts as the user's abort
  (`streamAgentChatTurn.ts:506`), also one that a timeout has raised.

- Esc on an *empty* queue arms nothing (`readlineWorkspace.ts:2692`).  A wake
  still in the inbox of the stopped turn is put into the queue when the turn
  ends and cleared by the aborted turn-end in the same step, while
  `turnInjectionInbox.ts:15` says that wakes are never lost.  `OnlyAbortLoses`
  states what is left of that promise.
- After a forced stop the abandoned turn returns late: it clears `busy` and the
  controller of a newer turn, and its aborted turn-end empties the newer queue.
  `disturbed` excludes such runs from the properties.
- A drained request loses its attachments on a manual drain
  (`runIdleTextTurn` passes none).
- Where operations on a record overlap: two patches read
  the same version and the second put drops the first one's changes; a purge
  deletes a record that was restored after its check; a miss read stores a
  server's version over a record written meanwhile; a patch that hydrates from
  the server does the same.
- A delete request that fails is not sent again: the record stays live on that
  server.  A deletion stamped late by a server beats a record that the client
  has written again since.
- The desktop's lock has no grace period: an empty file, also one just created,
  is stale at once, and two apps that start together may both acquire.  Its
  comment says so; `StartsExclude` leaves this lock out.  A holder that has lost
  its lock removes the next owner's on release (database and desktop; the
  connector reads first).

## 7. Not modelled

- *Inside modelled components*: attachments, rendering, logging, toasts, the
  content of turns and slash commands; steer, recall-last and `drainPaused` of
  the queue machine (no adapter sends or sets them); a wake whose runs were
  all claimed by another session, which ends its turn at once; abort signals of
  reads and the eviction of the read cooldowns; file uploads and tenant
  placement in replication; compaction of old tombstones; the rest of
  `localRuntimeDialog.ts`, and two processes that add to one day's totals at once; the connector's alive signal; reuse of pids; errors
  other than EEXIST and ENOENT of the lock files' calls.  Of the background
  runs: spawning and its memory reservation, `backfillRunRecordParentDialog`, a
  stop without a pid, the message queue of a run, garbage collection, the remote
  control plane, a lease that outlives its crashed waiter and the poller, two
  processes that break one stale lock at once, a wake that Ctrl+S merges into a
  line of the user (`readlineWorkspace.ts:2442`), which then is not looked at
  again, and the terminal's own end.  Of the workloads: amounts of
  money (of `dockerBudgetAdmission` only an estimate is used), authorisation,
  the body, copies of files, lost updates of the file store across processes and
  a row update that fails.  Of the web queue: attachments, edits that replay, a
  dialog that disappears, and the other runtimes of `streamAgentChatTurn`.
- *Left for later*: see section 8.  `core/concurrencyLimiter.ts` is imported
  nowhere.
- *Pure or I/O*: display and send decision of the queue, write authority
  (stateless), record stores (their put and del are taken as atomic), broker
  (one request is one store operation), corruption recovery (its outcome is
  LevelDB's), agent tools and providers, user interfaces, desktop shell,
  connectors.  The web's dialog token totals use the same keyed queue with
  totals that a server owns.  Of the agent loop only its takeover of the inbox
  appears.

## 8. Plan

Done, in this order, the most consequential first: keyed queue and accounting,
precedence and merges, record actions and readers, the terminal's queue, the
lock files, background runs, workloads, the web's queue.  Abstract specification
so far: `GrowOnlyStats`.

Next:

1. One abstract turn queue that `TuiChatQueue` and the calm part of
   `WebChatQueue` implement.
2. `WriteAck`: a slot per key, settled by its own request, awaited with a
   timeout, swept by age and number; composed with `ClientRecord`'s writes.
3. The authority broker's client on `InstanceLock`: who opens the store, who
   talks to whom, and what a takeover does to clients.
4. The move of a user to another authority, then account sync: steps that fail
   in between and are resumed.
5. Proofs: that implementation, step by step, from the story of
   `TuiChatQueue_proofs` and `CalmInv` of `WebChatQueue_proofs`; a single
   precedence that is transitive for the versions of one record, and which of
   the readers would then advance without condition.
