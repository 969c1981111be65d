--------------------------- MODULE KeyedTaskQueue ---------------------------
(***************************************************************************)
(* The per-key serial task queue of core/keyedTaskQueue.ts.                *)
(*                                                                         *)
(* runKeyed(key, task) chains the task behind the promise stored in the    *)
(* Map "queues" under its key, stores its own "cleanup" promise there, and *)
(* deletes the entry again when it is still its own.  A call is one        *)
(* element of Call; its promise "cleanup" is identified with the call.     *)
(***************************************************************************)
EXTENDS Naturals

CONSTANTS
  Call,    \* the calls of runKeyed made during the life of the process
  Key,     \* the keys they name
  NoCall   \* "no entry under this key": queues.get(key) is undefined

ASSUME NoCallAssumption == NoCall \notin Call

VARIABLES
  queues,  \* queues[k]: the call whose cleanup promise the Map holds under k
  pc,      \* pc[c]: how far call c has come
  key,     \* key[c]: the key c was called with
  prev,    \* prev[c]: the call whose cleanup is the "previous" of c
  ticket,  \* history: the position of c in the order of the calls
  calls    \* history: the number of calls made so far

vars == <<queues, pc, key, prev, ticket, calls>>

(***************************************************************************)
(* idle: not called.  waiting: chained behind prev, the task not begun.    *)
(* running: the task was invoked and its promise is pending.  resolved and *)
(* rejected: the promise "next" settled so, its reactions have not run.    *)
(* returned: they have: cleanup is fulfilled and the "finally" has run.    *)
(***************************************************************************)
Stage == {"idle", "waiting", "running", "resolved", "rejected", "returned"}

Init ==
  /\ queues = [k \in Key |-> NoCall]
  /\ pc = [c \in Call |-> "idle"]
  /\ key \in [Call -> Key]
  /\ prev = [c \in Call |-> NoCall]
  /\ ticket = [c \in Call |-> 0]
  /\ calls = 0

-----------------------------------------------------------------------------

\* A promise that is fulfilled: the default Promise.resolve(), or the cleanup
\* of a call.  cleanup and the continuation of "await next" are reactions of
\* the same promise, queued together; a successor begins two jobs later.
Fulfilled(c) == c # NoCall => pc[c] = "returned"

\* queues.set(key, cleanup).  (Mutant: the map is not told of the call.)
SetEntry_Missing(c) == queues
SetEntry(c) == [queues EXCEPT ![key[c]] = c]

\* The synchronous part of runKeyed, up to its await.
RunKeyed(c) ==
  /\ pc[c] = "idle"
  /\ pc' = [pc EXCEPT ![c] = "waiting"]
  /\ prev' = [prev EXCEPT ![c] = queues[key[c]]]
  /\ queues' = SetEntry(c)
  /\ ticket' = [ticket EXCEPT ![c] = calls + 1]
  /\ calls' = calls + 1
  /\ UNCHANGED key

\* previous.catch(...).then(task): a rejected predecessor starts it as well.
Start(c) ==
  /\ pc[c] = "waiting"
  /\ Fulfilled(prev[c])
  /\ pc' = [pc EXCEPT ![c] = "running"]
  /\ UNCHANGED <<queues, key, prev, ticket, calls>>

\* The task's promise settles: resolved, or rejected by an error of the task.
Settle(c, outcome) ==
  /\ pc[c] = "running"
  /\ pc' = [pc EXCEPT ![c] = outcome]
  /\ UNCHANGED <<queues, key, prev, ticket, calls>>

Resolve(c) == Settle(c, "resolved")
Reject(c) == Settle(c, "rejected")

\* The promise "next" is settled.  (Mutant: the cleanup follows a success only.)
Settled_OnSuccess(c) == pc[c] = "resolved"
Settled(c) == pc[c] \in {"resolved", "rejected"}

\* The entry is deleted if it is still this call's.  (Mutant: whosever it
\* is.)
DropEntry_Any(c) == [queues EXCEPT ![key[c]] = NoCall]
DropEntry(c) ==
  IF queues[key[c]] = c THEN [queues EXCEPT ![key[c]] = NoCall] ELSE queues

\* The reactions of "next": cleanup is fulfilled and the finally block runs.
Return(c) ==
  /\ Settled(c)
  /\ pc' = [pc EXCEPT ![c] = "returned"]
  /\ queues' = DropEntry(c)
  /\ UNCHANGED <<key, prev, ticket, calls>>

Next == \E c \in Call : RunKeyed(c) \/ Start(c) \/ Resolve(c) \/ Reject(c) \/ Return(c)

\* The runtime runs every due continuation, and the tasks end (the header of
\* the source leaves a stuck task to outside monitoring).
Fairness ==
  \A c \in Call :
    WF_vars(Start(c)) /\ WF_vars(Resolve(c) \/ Reject(c)) /\ WF_vars(Return(c))

Spec == Init /\ [][Next]_vars /\ Fairness

-----------------------------------------------------------------------------

\* The shape of the state.
TypeOK ==
  /\ queues \in [Key -> Call \cup {NoCall}]
  /\ pc \in [Call -> Stage]
  /\ key \in [Call -> Key]
  /\ prev \in [Call -> Call \cup {NoCall}]
  /\ ticket \in [Call -> Nat]
  /\ calls \in Nat

Called(c) == pc[c] # "idle"

Before(c, d) == Called(c) /\ Called(d) /\ key[c] = key[d] /\ ticket[c] < ticket[d]

\* At most one task of a key is in flight, whatever the other calls, failures
\* and map deletions do: the promise of the header ("serial per key").
MutualExclusion ==
  \A c, d \in Call :
    (c # d /\ key[c] = key[d]) => ~(pc[c] = "running" /\ pc[d] = "running")

\* Tasks of a key begin in the order of the calls, and each only when all
\* earlier ones have ended: no early deletion of the map entry lets a late
\* caller overtake the queue.
FirstComeFirstServed ==
  \A c, d \in Call :
    (Before(c, d) /\ pc[d] \in {"running", "resolved", "rejected", "returned"})
      => pc[c] = "returned"

\* The map entry of a key exists exactly while a call of that key has not
\* returned: nothing leaks, and no pending call is forgotten by the map.
EntryIffPending ==
  \A k \in Key :
    queues[k] = NoCall <=> \A c \in Call : key[c] = k => pc[c] \in {"idle", "returned"}

=============================================================================
