---------------------------- MODULE RunRegistry ----------------------------
(***************************************************************************)
(* One background run of the CLI: the record file all processes share, the *)
(* best-effort lock around its read-modify-write sections, and those who   *)
(* write it: the child that runs, the terminal that spawned it, polls it   *)
(* and wakes its agent, and a second CLI that stops it or waits for it.    *)
(*                                                                         *)
(* A section runs synchronously, so a process is in one section at a time; *)
(* sections of different processes interleave between their file           *)
(* operations.  The model starts when the spawn has succeeded, that is,    *)
(* with the child's pid in the record.                                     *)
(***************************************************************************)
EXTENDS Naturals

CONSTANTS
  Scenarios,    \* what else goes on: a subset of Scenario
  MaxAttempts,  \* AUTHORITATIVE_SETTLE_MAX_ATTEMPTS
  MaxWaits,     \* bound on the waits of a process
  NoCopy        \* the copy of a section that has not read the record

Child == "child"
Tui == "tui"
Cli == "cli"
Proc == {Child, Tui, Cli}
Waiter == {Tui, Cli}
Nobody == "nobody"

\* Whether the second CLI stops the run, which agents wait for it, and which
\* processes may die at any moment.
Scenario == [stops : BOOLEAN, waiters : SUBSET Waiter, crashing : SUBSET {Child, Cli}]

ASSUME RunAssumption ==
  /\ Scenarios \subseteq Scenario
  /\ MaxAttempts \in Nat \ {0} /\ MaxWaits \in Nat

VARIABLES
  record,   \* the run record on disk
  lock,     \* the process whose lock file is there, or Nobody
  sec,      \* sec[p]: the section process p is in
  alive,    \* the processes that have not died
  child,    \* where the child stands
  attempts, \* how often its settlement has been tried
  scenario, \* what else goes on
  stop,     \* where the stop command stands
  signals,  \* how many signals it has sent
  wait,     \* wait[p]: where the wait call of process p stands
  waits,    \* waits[p]: how many it has begun
  token,    \* token[p]: whether it holds the claim
  expired,  \* the processes whose lease has outlived its ttl
  dock,     \* what the terminal's panel knows of the run
  busy,     \* a turn of the terminal's agent is under way
  notified, \* the watcher has handed the completion on
  inbox,    \* the wake lies in the inbox of the turn
  wake,     \* the wake is queued, or about to start a turn
  told,     \* history: how the terminal's agent has been told of the end
  settled,  \* history: the outcome of the child has been published
  torn,     \* history: two processes have been in their sections at once
  broken    \* history: a stale lock has been removed

recordVars == <<record, lock, sec>>
childVars == <<child, attempts, settled>>
stopVars == <<scenario, stop, signals>>
waitVars == <<wait, waits, token>>
tuiVars == <<dock, busy, notified, inbox, wake, told>>
ghostVars == <<torn, broken>>
vars == <<recordVars, alive, childVars, stopVars, waitVars, expired, tuiVars, ghostVars>>

Status == {"running", "done", "killed", "orphaned"}
Terminal(r) == r.status # "running"

Ops == {"identity", "beat", "settle", "stale", "verify", "kill",
        "claim", "commit", "ack", "release"}

\* The operations that run with { strict: true }: without the lock they do
\* nothing.
Strict == {"identity", "beat", "settle", "verify", "kill", "claim"}

Records ==
  [status : Status, pid : BOOLEAN, ack : BOOLEAN, lease : Waiter \cup {Nobody}]

Outside == [op |-> "none", why |-> "none", at |-> "out", held |-> FALSE, copy |-> NoCopy]

Init ==
  /\ record = [status |-> "running", pid |-> TRUE, ack |-> FALSE, lease |-> Nobody]
  /\ lock = Nobody
  /\ sec = [p \in Proc |-> Outside]
  /\ alive = Proc
  /\ child = "start" /\ attempts = 0 /\ settled = FALSE
  /\ scenario \in Scenarios /\ stop = "idle" /\ signals = 0
  /\ wait = [p \in Waiter |-> "idle"]
  /\ waits = [p \in Waiter |-> 0]
  /\ token = [p \in Waiter |-> FALSE]
  /\ expired = {}
  /\ dock = "active" /\ busy = TRUE
  /\ notified = FALSE /\ inbox = FALSE /\ wake = FALSE /\ told = {}
  /\ torn = FALSE /\ broken = FALSE

-----------------------------------------------------------------------------
\* The lock and the sections.

\* isRunRecordClaimed: a final ack, or a lease that has not expired.
Claimed(r) == IF r.lease = Nobody THEN r.ack ELSE r.lease \notin expired

\* A terminal record is authoritative: only the child's own settlement goes
\* over one, and only over a false "orphaned".  (Mutant: no check under the
\* lock.)
Final_Unchecked(op, r) == FALSE
Final(op, r) ==
  /\ op \in {"beat", "kill", "stale", "settle"}
  /\ Terminal(r)
  /\ ~(op = "settle" /\ r.status = "orphaned")

\* claimRunRecord: nobody else waits for the run.  (Mutant: the lease of
\* another is overwritten.)
Claimable_Always(r) == TRUE
Claimable(r) == ~Claimed(r)

\* Whether the section op of process p, having read r, writes.
Writes(op, p, r) ==
  /\ ~Final(op, r)
  /\ op = "verify" => r.pid
  /\ op = "claim" => Claimable(r)
  /\ op = "commit" => r.lease \in {Nobody, p}
  /\ op = "ack" => ~r.ack
  /\ op = "release" => r.lease = p

\* The final ack.  (Mutant: the commit leaves the lease, which then runs out.)
Committed_Leased(r) == r
Committed(r) == [r EXCEPT !.ack = TRUE, !.lease = Nobody]

\* What it writes: the record it read with its own change.
Outcome(op, p, r) ==
  CASE op = "identity" -> [r EXCEPT !.pid = TRUE]
    [] op \in {"beat", "verify"} -> r
    [] op = "settle" -> [r EXCEPT !.status = "done"]
    [] op = "kill" -> [r EXCEPT !.status = "killed"]
    [] op = "stale" -> [r EXCEPT !.status = "orphaned", !.pid = FALSE]
    [] op = "claim" -> [r EXCEPT !.ack = TRUE, !.lease = p]
    [] op \in {"commit", "ack"} -> Committed(r)
    [] op = "release" -> [r EXCEPT !.ack = FALSE, !.lease = Nobody]

\* A process of its own accord begins a section.
Idle(p) == p \in alive /\ sec[p].at = "out"
Begin(p, op, why) ==
  sec' = [sec EXCEPT ![p] = [Outside EXCEPT !.op = op, !.why = why, !.at = "take"]]

\* It gets into its section, with the lock or without.
Enter(p, held) ==
  /\ sec' = [sec EXCEPT ![p] = [@ EXCEPT !.at = "read", !.held = held]]
  /\ torn' = (torn \/ \E q \in alive \ {p} : sec[q].at \in {"read", "write"})

\* It has not got the lock: a strict section is left out, any other runs.
Refused(p) ==
  IF sec[p].op \in Strict
  THEN sec' = [sec EXCEPT ![p].at = "finish"] /\ UNCHANGED torn
  ELSE Enter(p, FALSE)

outsideLock == <<record, alive, childVars, stopVars, waitVars, expired, tuiVars>>

\* The exclusive create of the lock file.  A lock whose holder has died is
\* stale after LOCK_STALE_MS; a live holder needs far less.
Take(p) ==
  /\ p \in alive /\ sec[p].at = "take"
  /\ \/ lock = Nobody /\ lock' = p /\ Enter(p, TRUE)
     \/ lock # Nobody /\ Refused(p) /\ UNCHANGED lock
     \/ /\ lock # Nobody /\ lock \notin alive
        /\ sec' = [sec EXCEPT ![p].at = "unlink"]
        /\ UNCHANGED <<lock, torn>>
  /\ UNCHANGED <<outsideLock, broken>>

\* The removal of the stale lock, or of whatever has taken its place since.
Unlink(p) ==
  /\ p \in alive /\ sec[p].at = "unlink"
  /\ IF lock = Nobody
     THEN Refused(p) /\ UNCHANGED <<lock, broken>>
     ELSE /\ lock' = Nobody /\ broken' = TRUE
          /\ sec' = [sec EXCEPT ![p].at = "create"]
          /\ UNCHANGED torn
  /\ UNCHANGED outsideLock

Create(p) ==
  /\ p \in alive /\ sec[p].at = "create"
  /\ \/ lock = Nobody /\ lock' = p /\ Enter(p, TRUE)
     \/ lock # Nobody /\ Refused(p) /\ UNCHANGED lock
  /\ UNCHANGED <<outsideLock, broken>>

Read(p) ==
  /\ p \in alive /\ sec[p].at = "read"
  /\ LET next == IF Writes(sec[p].op, p, record) THEN "write" ELSE "finish" IN
     sec' = [sec EXCEPT ![p] = [@ EXCEPT !.copy = record, !.at = next]]
  /\ UNCHANGED <<outsideLock, lock, ghostVars>>

\* writeRunRecord: the rename puts the whole record in place.
Write(p) ==
  /\ p \in alive /\ sec[p].at = "write"
  /\ LET new == Outcome(sec[p].op, p, sec[p].copy) IN
     /\ record' = new
     /\ sec' = [sec EXCEPT ![p] = [@ EXCEPT !.copy = new, !.at = "finish"]]
  /\ settled' = (settled \/ sec[p].op = "settle")
  /\ expired' = IF sec[p].op = "claim" THEN expired \ {p} ELSE expired
  /\ UNCHANGED <<lock, alive, child, attempts, stopVars, waitVars, tuiVars, ghostVars>>

\* The lock file is removed at the end of a section that has it.  (Mutant: of
\* any section.)
Unlocked_Always(p) == Nobody
Unlocked(p) == IF sec[p].held THEN Nobody ELSE lock

\* The section op of p has ended.
Leave(p, op, why) ==
  /\ p \in alive /\ sec[p].at = "finish" /\ sec[p].op = op /\ sec[p].why = why
  /\ lock' = Unlocked(p)
  /\ sec' = [sec EXCEPT ![p] = Outside]
  /\ UNCHANGED <<record, alive, expired, ghostVars>>

\* The section has run.
Ran(p) == sec[p].held \/ sec[p].op \notin Strict

\* The child has died and the record does not say so: checkStaleRun writes.  It
\* looks at the heartbeat again under the lock, which a dead child leaves alone.
\* (Mutant: a probe that takes every pid for alive.)
Stale_Inert(r) == FALSE
Stale(r) == ~Terminal(r) /\ r.pid /\ Child \notin alive

-----------------------------------------------------------------------------
\* The child.

outsideChild == <<record, lock, stopVars, waitVars, expired, tuiVars, ghostVars>>

ChildBegins ==
  /\ Idle(Child)
  /\ \/ child = "start" /\ Begin(Child, "identity", "none") /\ UNCHANGED child
     \/ child = "work" /\ Begin(Child, "beat", "none") /\ UNCHANGED child
     \/ child = "work" /\ child' = "settle" /\ UNCHANGED sec
     \/ child = "settle" /\ Begin(Child, "settle", "none") /\ UNCHANGED child
  /\ UNCHANGED <<outsideChild, alive, attempts, settled>>

Identified ==
  /\ Leave(Child, "identity", "none")
  /\ child' = "work"
  /\ UNCHANGED <<attempts, settled, stopVars, waitVars, tuiVars>>

Beaten ==
  /\ Leave(Child, "beat", "none")
  /\ UNCHANGED <<childVars, stopVars, waitVars, tuiVars>>

\* settleRunTerminalAuthoritatively: it tries again while the lock is
\* contended and the record is not terminal.
Retries == ~Ran(Child) /\ ~Terminal(record) /\ attempts + 1 < MaxAttempts

SettleEnds ==
  /\ Leave(Child, "settle", "none")
  /\ attempts' = attempts + 1
  /\ child' = IF Retries THEN "settle" ELSE "ended"
  /\ UNCHANGED <<settled, stopVars, waitVars, tuiVars>>

\* The child exits, or a process dies wherever it stands: the child also of
\* the signals it is sent.
Exit ==
  /\ child = "ended" /\ Child \in alive
  /\ alive' = alive \ {Child}
  /\ UNCHANGED <<recordVars, childVars, stopVars, waitVars, expired, tuiVars, ghostVars>>

Die(p) ==
  /\ p \in alive
  /\ p \in scenario.crashing \/ (p = Child /\ signals > 0)
  /\ alive' = alive \ {p}
  /\ UNCHANGED <<recordVars, childVars, stopVars, waitVars, expired, tuiVars, ghostVars>>
-----------------------------------------------------------------------------
\* The terminal: runRegistryPoller, runCompletionWatcher, the turn it starts.

\* No section and no step of a wait is under way in the terminal.
Free == Idle(Tui) /\ wait[Tui] \in {"idle", "read"}

outsideTui == <<alive, childVars, stopVars, waitVars, expired>>

\* The watcher hands an end on once, unless somebody waits for it.  (Mutant: at
\* every tick that finds the run ended.)
Handed_Again(r) == Terminal(r) /\ ~Claimed(r)
Handed(r) == Terminal(r) /\ ~Claimed(r) /\ ~notified

\* A tick with the record r: the panel takes the status over.  A wake goes into
\* the inbox of the turn under way; without a turn it starts one, and without
\* an open inbox (the turn begins or ends, the input is paused) it is queued.
Observe(r) ==
  /\ dock' = IF Terminal(r) THEN "terminal" ELSE dock
  /\ notified' = (notified \/ Handed(r))
  /\ \/ busy /\ inbox' = (inbox \/ Handed(r)) /\ UNCHANGED wake
     \/ wake' = (wake \/ Handed(r)) /\ UNCHANGED inbox
  /\ UNCHANGED <<busy, told>>

\* A tick that asks no process, or whose inquiry the heartbeat's grace ends.
\* An end the panel shows is read again only until the discovery retires it.
Poll ==
  /\ Free /\ dock # "closed"
  /\ Observe(record)
  /\ UNCHANGED <<recordVars, outsideTui, ghostVars>>

\* A tick after a long silence.
Reconcile ==
  /\ Free /\ dock # "closed" /\ Stale(record)
  /\ Begin(Tui, "stale", "poll")
  /\ UNCHANGED <<record, lock, outsideTui, tuiVars, ghostVars>>

Reconciled ==
  /\ Leave(Tui, "stale", "poll")
  /\ Observe(sec[Tui].copy)
  /\ UNCHANGED <<childVars, stopVars, waitVars>>

\* The tick that finds the ended run listed while the panel still shows it
\* retires it; no later tick reads it.
Retire ==
  /\ dock = "terminal" /\ dock' = "closed"
  /\ UNCHANGED <<recordVars, outsideTui, ghostVars, busy, notified, inbox, wake, told>>

\* Between the calls of a turn, or between two turns.
AtRest == Idle(Tui) /\ wait[Tui] = "idle"

outsideTurn == <<recordVars, outsideTui, ghostVars, dock, notified>>

\* A turn for anything else than the wake.
TurnBegins ==
  /\ AtRest /\ ~busy /\ busy' = TRUE
  /\ UNCHANGED <<outsideTurn, inbox, wake, told>>

\* The loop takes what lies in the inbox into the next request of the turn,
\* and does not look at the claim.
Injected ==
  /\ AtRest /\ busy /\ inbox
  /\ inbox' = FALSE /\ told' = told \cup {"inbox"}
  /\ UNCHANGED <<outsideTurn, busy, wake>>

\* The turn ends, however it does; what the loop has not taken is queued.
TurnEnds ==
  /\ AtRest /\ busy
  /\ busy' = FALSE /\ inbox' = FALSE /\ wake' = (wake \/ inbox)
  /\ UNCHANGED <<outsideTurn, told>>

\* The turn of the wake looks at the claim once more, and is over before it
\* has begun if there is one.
WakeTurn ==
  /\ AtRest /\ ~busy /\ wake
  /\ wake' = FALSE
  /\ IF Claimed(record) THEN UNCHANGED <<busy, told>> ELSE busy' = TRUE /\ told' = told \cup {"wake"}
  /\ UNCHANGED <<outsideTurn, inbox>>

-----------------------------------------------------------------------------
\* The wait of an agent: waitForRunTerminal over claim, checkStaleRun, commit
\* and release.

outsideWait == <<alive, childVars, stopVars, expired, ghostVars>>

WaitBegins(p) ==
  /\ Idle(p) /\ p \in scenario.waiters /\ wait[p] = "idle" /\ waits[p] < MaxWaits
  /\ p = Tui => busy
  /\ wait' = [wait EXCEPT ![p] = "first"]
  /\ waits' = [waits EXCEPT ![p] = @ + 1]
  /\ Begin(p, "claim", "wait")
  /\ UNCHANGED <<record, lock, token, outsideWait, tuiVars>>

\* The token, if the section has written the lease.
WaitClaimed(p) ==
  /\ Leave(p, "claim", "wait")
  /\ token' = [token EXCEPT ![p] = Ran(p) /\ sec[p].copy.lease = p]
  /\ UNCHANGED <<wait, waits, childVars, stopVars, tuiVars>>

\* A state the wait has read: an end is committed, or acknowledged without a
\* token; otherwise it sleeps and reads again.
WaitSees(p, r) == wait' = [wait EXCEPT ![p] = IF Terminal(r) THEN "commit" ELSE "read"]

WaitReads(p) ==
  /\ Idle(p) /\ wait[p] \in {"first", "read"}
  /\ \/ WaitSees(p, record) /\ UNCHANGED sec
     \/ Stale(record) /\ Begin(p, "stale", "wait") /\ UNCHANGED wait
  /\ UNCHANGED <<record, lock, waits, token, outsideWait, tuiVars>>

WaitReconciled(p) ==
  /\ Leave(p, "stale", "wait")
  /\ WaitSees(p, sec[p].copy)
  /\ UNCHANGED <<waits, token, childVars, stopVars, tuiVars>>

WaitCommits(p) ==
  /\ Idle(p) /\ wait[p] = "commit"
  /\ Begin(p, IF token[p] THEN "commit" ELSE "ack", "wait")
  /\ UNCHANGED <<record, lock, wait, waits, token, outsideWait, tuiVars>>

\* The wait returns the end: to the terminal's agent, with the claim or
\* without, or to another's.
WaitReturns(p) ==
  /\ \E op \in {"commit", "ack"} : Leave(p, op, "wait")
  /\ wait' = [wait EXCEPT ![p] = "idle"]
  /\ token' = [token EXCEPT ![p] = FALSE]
  /\ told' = told \cup {IF p = Cli THEN "cli" ELSE IF token[p] THEN "wait" ELSE "read"}
  /\ UNCHANGED <<waits, childVars, stopVars, dock, busy, notified, inbox, wake>>

\* Its time is over, or the turn is aborted, while it sleeps.
WaitGivesUp(p) ==
  /\ Idle(p) /\ wait[p] = "read"
  /\ IF token[p]
     THEN wait' = [wait EXCEPT ![p] = "release"] /\ Begin(p, "release", "wait")
     ELSE wait' = [wait EXCEPT ![p] = "idle"] /\ UNCHANGED sec
  /\ UNCHANGED <<record, lock, waits, token, outsideWait, tuiVars>>

WaitReleased(p) ==
  /\ Leave(p, "release", "wait")
  /\ wait' = [wait EXCEPT ![p] = "idle"]
  /\ token' = [token EXCEPT ![p] = FALSE]
  /\ UNCHANGED <<waits, childVars, stopVars, tuiVars>>

\* A lease lives a minute longer than the wait it is for.
LeaseExpires(p) ==
  /\ record.lease = p /\ p \notin expired
  /\ p \notin alive \/ wait[p] = "idle"
  /\ expired' = expired \cup {p}
  /\ UNCHANGED <<recordVars, alive, childVars, stopVars, waitVars, tuiVars, ghostVars>>

-----------------------------------------------------------------------------
\* nolo agent stop: runSignalCommand and terminateRunProcess.

outsideStop == <<alive, childVars, scenario, waitVars, expired, tuiVars, ghostVars>>

\* isPidGone.  (Mutant: the signal is taken for the death.)
Gone_Signalled == signals > 0 \/ Child \notin alive
Gone == Child \notin alive

StopBegins ==
  /\ Idle(Cli) /\ scenario.stops /\ stop = "idle"
  /\ \/ Terminal(record) /\ stop' = "over" /\ UNCHANGED sec
     \/ ~Terminal(record) /\ stop' = "probe" /\ UNCHANGED sec
     \/ Stale(record) /\ stop' = "stale" /\ Begin(Cli, "stale", "stop")
  /\ UNCHANGED <<record, lock, signals, outsideStop>>

StopReconciled ==
  /\ Leave(Cli, "stale", "stop")
  /\ stop' = IF Terminal(sec[Cli].copy) \/ ~sec[Cli].copy.pid THEN "over" ELSE "probe"
  /\ UNCHANGED <<scenario, signals, childVars, waitVars, tuiVars>>

\* The process is gone, or the next signal is due once its identity is
\* persisted, or even SIGKILL has not helped.
StopProbes ==
  /\ Idle(Cli) /\ stop = "probe"
  /\ \/ Gone /\ stop' = "kill" /\ Begin(Cli, "kill", "stop")
     \/ ~Gone /\ signals < 2 /\ stop' = "verify" /\ Begin(Cli, "verify", "stop")
     \/ ~Gone /\ signals = 2 /\ stop' = "over" /\ UNCHANGED sec
  /\ UNCHANGED <<record, lock, signals, outsideStop>>

\* Without the lock, or on another record, nothing is signalled.
StopVerified ==
  /\ Leave(Cli, "verify", "stop")
  /\ IF Ran(Cli) /\ sec[Cli].copy.pid
     THEN signals' = signals + 1 /\ stop' = "probe"
     ELSE stop' = "over" /\ UNCHANGED signals
  /\ UNCHANGED <<scenario, childVars, waitVars, tuiVars>>

StopEnds ==
  /\ Leave(Cli, "kill", "stop")
  /\ stop' = "over"
  /\ UNCHANGED <<scenario, signals, childVars, waitVars, tuiVars>>

-----------------------------------------------------------------------------

\* A process goes on with what it is in.
Section(p) == Take(p) \/ Unlink(p) \/ Create(p) \/ Read(p) \/ Write(p)

ChildGoesOn == Identified \/ Beaten \/ SettleEnds
WaitGoesOn(p) ==
  WaitClaimed(p) \/ WaitReads(p) \/ WaitReconciled(p) \/ WaitCommits(p) \/ WaitReturns(p) \/ WaitReleased(p)
StopGoesOn == StopReconciled \/ StopProbes \/ StopVerified \/ StopEnds

Next ==
  \/ \E p \in Proc : Section(p) \/ Die(p)
  \/ ChildBegins \/ ChildGoesOn \/ Exit
  \/ Poll \/ Reconcile \/ Reconciled \/ Retire
  \/ TurnBegins \/ Injected \/ TurnEnds \/ WakeTurn
  \/ \E p \in Waiter :
       WaitBegins(p) \/ WaitGoesOn(p) \/ WaitGivesUp(p) \/ LeaseExpires(p)
  \/ StopBegins \/ StopGoesOn

\* The operating system runs the processes that are in the middle of something,
\* and the terminal's timer asks after a silent child.  Nobody need wait, stop
\* the run or come to the end of its work.
Fairness ==
  /\ WF_vars(Section(Child) \/ ChildGoesOn)
  /\ WF_vars(Section(Tui) \/ WaitGoesOn(Tui) \/ Reconciled)
  /\ WF_vars(Section(Cli) \/ WaitGoesOn(Cli) \/ StopGoesOn)
  /\ WF_vars(Reconcile)

Spec == Init /\ [][Next]_vars
FairSpec == Spec /\ Fairness

-----------------------------------------------------------------------------
\* The variables have their types; in particular the settlement is tried no
\* more often than AUTHORITATIVE_SETTLE_MAX_ATTEMPTS allows.
Sections ==
  [op : Ops \cup {"none"}, why : {"none", "poll", "wait", "stop"},
   at : {"out", "take", "unlink", "create", "read", "write", "finish"},
   held : BOOLEAN, copy : Records \cup {NoCopy}]
SharedTypeOK ==
  /\ record \in Records
  /\ lock \in Proc \cup {Nobody}
  /\ sec \in [Proc -> Sections]
  /\ alive \subseteq Proc
  /\ settled \in BOOLEAN /\ torn \in BOOLEAN /\ broken \in BOOLEAN
TypeOK ==
  /\ SharedTypeOK
  /\ child \in {"start", "work", "settle", "ended"}
  /\ attempts \in 0..MaxAttempts /\ (child = "settle" => attempts < MaxAttempts)
  /\ scenario \in Scenario /\ signals \in 0..2
  /\ stop \in {"idle", "stale", "probe", "verify", "kill", "over"}
  /\ stop = "verify" => signals < 2
  /\ wait \in [Waiter -> {"idle", "first", "read", "commit", "release"}]
  /\ waits \in [Waiter -> 0..MaxWaits]
  /\ token \in [Waiter -> BOOLEAN]
  /\ expired \subseteq Waiter
  /\ dock \in {"active", "terminal", "closed"}
  /\ told \subseteq {"wake", "inbox", "wait", "read", "cli"}
  /\ busy \in BOOLEAN /\ notified \in BOOLEAN /\ inbox \in BOOLEAN /\ wake \in BOOLEAN

\* As long as no stale lock has been removed, at most one process is in a
\* section with the lock file ("wx is atomic, so only one holder exists").
HolderExclusive ==
  ~broken => \A p, q \in Proc : sec[p].held /\ sec[q].held => p = q

\* The outcome the child has published stays in the record, whoever stops,
\* reconciles, claims or releases it, while no two sections overlap.
OutcomeKept == settled /\ ~torn => record.status = "done"

\* "killed" and "orphaned" are verdicts on a process that is gone: neither a
\* swallowed signal nor a slow child earns one.
VerdictMeansGone == record.status \in {"killed", "orphaned"} => Child \notin alive

\* Of two waits under way at most one has the claim, while no two sections
\* overlap.
Claims(p) == p \in alive /\ token[p] /\ wait[p] # "release"
OneClaim == ~torn => \A p, q \in Waiter : Claims(p) /\ Claims(q) => p = q

\* What a wait with the claim has brought to the terminal's agent raises no
\* wake any more, and a wake that is queued starts no turn about it, while no
\* two sections overlap.  (A wake that lies in the turn's inbox by then is
\* taken in all the same: nobody looks at the claim there.)
NoWakeAfterWait ==
  [][~torn /\ "wait" \in told =>
       (notified' => notified) /\ ("wake" \in told' => "wake" \in told)]_vars

\* The agent is woken for the run once: the wake waits in the inbox or in the
\* queue, never in both, and once a turn has been told by either it waits
\* nowhere, through ticks that see the ended run again, turns that end with the
\* wake in their inbox and waits that take the run over in between.
WokenOnce ==
  /\ ~(inbox /\ wake)
  /\ told \cap {"inbox", "wake"} # {} => ~inbox /\ ~wake

\* A child that has died without a word is found out: its record becomes
\* terminal, as long as the terminal lives and no two sections overlap.
EndRecorded == (Child \notin alive) ~> (Terminal(record) \/ torn)

\* The comment on transitionRunToTerminal: a terminal record is authoritative.
TerminalStays == [][Terminal(record) => Terminal(record')]_vars

=============================================================================
