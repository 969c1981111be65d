---------------------------- MODULE InstanceLock ----------------------------
(***************************************************************************)
(* The lock files by which one process at a time owns a resource of the    *)
(* machine.  Three files of the repository follow one scheme:              *)
(*                                                                         *)
(*   authority  database-engine/levelDbOwnershipLock.ts, the local database *)
(*   connector  cli/connectorInstanceLock.ts, the connector of a machine    *)
(*   desktop    desktop/src/bun/singleInstanceLock.ts, the desktop app      *)
(*                                                                         *)
(* The file is created with O_EXCL and then filled with the pid.  Who finds *)
(* it there reads the pid and asks whether that process is alive; a stale  *)
(* file is moved away and the creation tried again.  All calls are          *)
(* synchronous: processes interleave between any two file-system calls.    *)
(***************************************************************************)
EXTENDS Naturals

CONSTANTS
  Process,   \* the processes, by pid; a pid is not used again
  NoOne,     \* no process
  NoFile,    \* the lock file is not there
  Protocols, \* which of the three are looked at
  MaxEnds    \* bound on the processes that end

ASSUME LockAssumption ==
  /\ NoOne \notin Process
  /\ NoFile \notin [by : Process, written : BOOLEAN, old : BOOLEAN]
  /\ Protocols \subseteq {"authority", "connector", "desktop"}
  /\ MaxEnds \in Nat

VARIABLES
  protocol,  \* the one at work
  lock,      \* the file: who made it, whether the pid is in it, whether its
             \* mtime is older than the grace period
  pc,        \* pc[p]: the file-system call p is about to make
  attempt,   \* attempt[p]: rounds of the loop that are over
  seen,      \* seen[p]: the pid p has read
  ends,      \* number of processes that have ended
  solo,      \* history: a process that no other has moved beside since it began
  faults     \* history: what has gone wrong so far

vars == <<protocol, lock, pc, attempt, seen, ends, solo, faults>>
local == <<protocol, ends, faults>>

(***************************************************************************)
(* out: without the lock.  open, read, stat, probe, move, write: inside    *)
(* acquire, at that call.  held: acquired.  releasing: about to unlink.    *)
(* ended: the process is gone.                                             *)
(***************************************************************************)
Acquiring == {"open", "read", "stat", "probe", "move"}
Stage == Acquiring \cup {"out", "write", "held", "releasing", "ended"}

Init ==
  /\ protocol \in Protocols
  /\ lock = NoFile
  /\ pc = [p \in Process |-> "out"]
  /\ attempt = [p \in Process |-> 0]
  /\ seen = [p \in Process |-> NoOne]
  /\ ends = 0 /\ solo = NoOne /\ faults = {}

-----------------------------------------------------------------------------

\* The next call; the loop variable lives inside the loop.
Go(p, l) ==
  /\ pc' = [pc EXCEPT ![p] = l]
  /\ attempt' = [attempt EXCEPT ![p] = IF l \in Acquiring THEN @ ELSE 0]

NoPid == lock # NoFile => ~lock.written

\* for (attempt = 0; attempt < 3; attempt += 1); the connector tries twice.
\* (Mutant: one attempt.)
Attempts_One == 1
Attempts == IF protocol = "connector" THEN 2 ELSE 3

\* continue, or the end of the loop without the lock.  (Mutant: attempts do
\* not count.)
Retry_Uncounted(p) == Go(p, "open")
Retry(p) ==
  IF attempt[p] + 1 < Attempts
  THEN /\ pc' = [pc EXCEPT ![p] = "open"]
       /\ attempt' = [attempt EXCEPT ![p] = @ + 1]
  ELSE Go(p, "out")

\* A process sets out to acquire the lock.
Acquire(p) ==
  /\ pc[p] = "out"
  /\ Go(p, "open")
  /\ solo' = IF \A q \in Process : pc[q] \in {"out", "ended"} THEN p ELSE NoOne
  /\ UNCHANGED <<local, lock, seen>>

\* openSync(lockPath, "wx"): created, or EEXIST.
Open(p) ==
  /\ pc[p] = "open"
  /\ IF lock = NoFile
     THEN lock' = [by |-> p, written |-> FALSE, old |-> FALSE] /\ Go(p, "write")
     ELSE Go(p, "read") /\ UNCHANGED lock
  /\ UNCHANGED <<local, seen>>

\* readFileSync finds a pid.
ReadPid(p) ==
  /\ lock # NoFile /\ lock.written
  /\ seen' = [seen EXCEPT ![p] = lock.by]
  /\ Go(p, "probe")

\* readLockHolder: a file that is gone ends the round, one without a pid is
\* judged by its age.
AuthorityReads(p) ==
  /\ protocol = "authority" /\ pc[p] = "read"
  /\ \/ ReadPid(p)
     \/ lock = NoFile /\ Retry(p) /\ UNCHANGED seen
     \/ lock # NoFile /\ NoPid /\ Go(p, "stat") /\ UNCHANGED seen
  /\ UNCHANGED <<local, lock>>

\* readLockPid: whatever is not a pid is looked at by inspectCorruptLock.
ConnectorReads(p) ==
  /\ protocol = "connector" /\ pc[p] = "read"
  /\ \/ ReadPid(p)
     \/ NoPid /\ Go(p, "stat") /\ UNCHANGED seen
  /\ UNCHANGED <<local, lock>>

\* readLockRecord: whatever is not a pid is stale.
DesktopReads(p) ==
  /\ protocol = "desktop" /\ pc[p] = "read"
  /\ \/ ReadPid(p)
     \/ NoPid /\ Go(p, "move") /\ UNCHANGED seen
  /\ UNCHANGED <<local, lock>>

\* The age at which a file without a pid is stale.  (Mutant: no grace.)
Overdue_AtOnce == TRUE
Overdue == lock.old

\* statSync; a file that is gone counts as made this moment.
AuthorityStats(p) ==
  /\ protocol = "authority" /\ pc[p] = "stat"
  /\ Go(p, IF lock # NoFile /\ Overdue THEN "move" ELSE "out")
  /\ UNCHANGED <<local, lock, seen>>

\* inspectCorruptLock: gone, expired or fresh.
ConnectorStats(p) ==
  /\ protocol = "connector" /\ pc[p] = "stat"
  /\ \/ lock = NoFile /\ Retry(p)
     \/ lock # NoFile /\ Go(p, IF Overdue THEN "move" ELSE "out")
  /\ UNCHANGED <<local, lock, seen>>

\* isProcessAlive.
Alive(p) == pc[p] # "ended"

\* process.kill(pid, 0): refused while the owner is alive.  All processes are of
\* one user: of another's, the desktop's lock takes the EPERM for a death, the
\* other two for a life.
Probe(p) ==
  /\ pc[p] = "probe"
  /\ Go(p, IF Alive(seen[p]) THEN "out" ELSE "move")
  /\ seen' = [seen EXCEPT ![p] = NoOne]
  /\ UNCHANGED <<local, lock>>

\* What is left of the lock file once it was removed.
Removed == NoFile

\* renameSync and rmSync, or unlinkSync: whichever file is there by now.
Move(p) ==
  /\ pc[p] = "move"
  /\ lock' = Removed
  /\ Retry(p)
  /\ UNCHANGED <<local, seen>>

\* The pid is written through the descriptor: also into a file that was moved.
Write(p) ==
  /\ pc[p] = "write"
  /\ lock' = IF lock # NoFile /\ lock.by = p
             THEN [lock EXCEPT !.written = TRUE, !.old = FALSE] ELSE lock
  /\ Go(p, "held")
  /\ UNCHANGED <<local, seen>>

\* Writing fails.  Only the authority takes its file away.  (Mutant: it does
\* not.)
LeftByFailure_Always == lock
LeftByFailure == IF protocol = "authority" THEN NoFile ELSE lock

WriteFails(p) ==
  /\ pc[p] = "write"
  /\ lock' = LeftByFailure
  /\ faults' = faults \cup {"failed"}
  /\ Go(p, "out")
  /\ UNCHANGED <<protocol, ends, seen>>

\* release: the file is removed, whoever made it.
Release(p) ==
  /\ protocol # "connector" /\ pc[p] = "held"
  /\ lock' = NoFile
  /\ Go(p, "out")
  /\ UNCHANGED <<local, seen>>

\* releaseConnectorInstanceLock reads first and unlinks its own file only.
ConnectorReleases(p) ==
  /\ protocol = "connector" /\ pc[p] = "held"
  /\ Go(p, IF lock # NoFile /\ lock.written /\ lock.by = p THEN "releasing" ELSE "out")
  /\ UNCHANGED <<local, lock, seen>>

ConnectorUnlinks(p) ==
  /\ pc[p] = "releasing"
  /\ lock' = NoFile
  /\ Go(p, "out")
  /\ UNCHANGED <<local, seen>>

Calls(p) ==
  \/ Open(p) \/ AuthorityReads(p) \/ ConnectorReads(p) \/ DesktopReads(p)
  \/ AuthorityStats(p) \/ ConnectorStats(p) \/ Probe(p) \/ Move(p)
  \/ Write(p) \/ WriteFails(p)

\* The process ends: killed, or because its work is done.
Ends(p) ==
  /\ pc[p] # "ended" /\ ends < MaxEnds
  /\ ends' = ends + 1
  /\ faults' = faults \cup {"ended"}
  /\ Go(p, "ended")
  /\ seen' = [seen EXCEPT ![p] = NoOne]
  /\ UNCHANGED <<protocol, lock>>

\* The grace period passes.  A process that stands at its write or its stat
\* all that time is overdue.
Age ==
  /\ lock # NoFile /\ ~lock.old
  /\ lock' = [lock EXCEPT !.old = TRUE]
  /\ faults' = IF \E p \in Process : pc[p] \in {"write", "stat"}
               THEN faults \cup {"overdue"} ELSE faults
  /\ UNCHANGED <<protocol, pc, attempt, seen, ends, solo>>

Beside(p) == solo' = IF solo = p THEN p ELSE NoOne

Next ==
  \/ Age
  \/ \E p \in Process :
       \/ Acquire(p)
       \/ /\ \/ Calls(p) \/ Release(p) \/ ConnectorReleases(p) \/ ConnectorUnlinks(p)
             \/ Ends(p)
          /\ Beside(p)

\* A process inside acquire goes on: nothing in it waits for anybody.
Fairness == \A p \in Process : WF_vars(Calls(p) /\ Beside(p))

Spec == Init /\ [][Next]_vars /\ Fairness

-----------------------------------------------------------------------------

\* The shape of the state.
TypeOK ==
  /\ protocol \in Protocols
  /\ lock \in [by : Process, written : BOOLEAN, old : BOOLEAN] \cup {NoFile}
  /\ pc \in [Process -> Stage]
  /\ attempt \in [Process -> Nat] /\ \A p \in Process : attempt[p] < Attempts
  /\ seen \in [Process -> Process \cup {NoOne}]
  /\ \A p \in Process : pc[p] = "probe" => seen[p] \in Process
  /\ ends \in 0 .. MaxEnds /\ solo \in Process \cup {NoOne}
  /\ faults \subseteq {"ended", "failed", "overdue"}

\* At most one process has acquired the lock: what the lock is for.
OneHolder == \A p, q \in Process : pc[p] = "held" /\ pc[q] = "held" => p = q

\* Processes that start, stop and start again next to each other exclude one
\* another, also in the window in which the file is there and its pid is not,
\* as long as none of them ends, fails to write or sleeps through the grace
\* period.  The desktop's lock has no grace period and does not promise it.
StartsExclude == faults = {} /\ protocol # "desktop" => OneHolder

\* Processes that both find the lock of one that ended do not both take it
\* over: only one of them moves it away.
TakenOverOnce == faults \subseteq {"ended"} => OneHolder

\* No file is left behind: the lock file belongs to a process that is inside
\* or has ended, save for the empty one of a failed write.
FileHasOwner ==
  lock # NoFile =>
    \/ pc[lock.by] \in {"write", "held", "releasing", "ended"}
    \/ protocol # "authority" /\ ~lock.written

\* A process that tries alone gets the lock, whatever an earlier process left
\* behind, unless that is an empty file within its grace period.
AloneSucceeds ==
  [][\A p \in Process :
       (solo = p /\ pc[p] \in Acquiring /\ pc'[p] = "out")
         => lock # NoFile /\ ~lock.written /\ ~lock.old]_vars

\* Every acquire ends, however often others come and go meanwhile.
AcquireEnds == \A p \in Process : pc[p] = "open" ~> pc[p] \notin Acquiring \cup {"write"}

=============================================================================
