------------------------- MODULE TokenStats_proofs --------------------------
(***************************************************************************)
(* The per-key queue and the day totals, for any number of calls, keys,    *)
(* ids and kills.                                                          *)
(*                                                                         *)
(* The queue: the calls of a key form one chain through prev.  A call that *)
(* waits has, as its previous, the latest call before it (WaitChain), so   *)
(* once that one has returned every earlier one has (Serial), and the map  *)
(* always names the latest pending call of its key (TailIsLatest).         *)
(*                                                                         *)
(* The totals: the queue's own invariant survives kills; it makes the task *)
(* between its read and its write the only one that touches its totals.    *)
(***************************************************************************)
EXTENDS TokenStats, TLAPS

Pending(c) == pc[c] \in {"waiting", "running", "resolved", "rejected"}

Tickets ==
  /\ \A c \in Call : Called(c) => ticket[c] <= calls
  /\ \A c, d \in Call : (Called(c) /\ Called(d) /\ ticket[c] = ticket[d]) => c = d

TailIsLatest ==
  \A k \in Key :
    /\ queues[k] = NoCall => \A c \in Call : key[c] = k => ~Pending(c)
    /\ queues[k] # NoCall =>
         /\ key[queues[k]] = k
         /\ Pending(queues[k])
         /\ \A c \in Call : (Called(c) /\ key[c] = k) => ticket[c] <= ticket[queues[k]]

WaitChain ==
  \A d \in Call : pc[d] = "waiting" =>
    \A c \in Call : Before(c, d) =>
      /\ prev[d] = NoCall => pc[c] = "returned"
      /\ prev[d] # NoCall => (c = prev[d] \/ Before(c, prev[d]))

Serial ==
  \A c, d \in Call :
    (Before(c, d) /\ pc[d] \in {"running", "resolved", "rejected", "returned"})
      => pc[c] = "returned"

IInv == TypeOK /\ Tickets /\ TailIsLatest /\ WaitChain /\ Serial

-----------------------------------------------------------------------------

LEMMA InitIInv == Init => IInv
BY NoCallAssumption
   DEF Init, IInv, TypeOK, Tickets, TailIsLatest, WaitChain, Serial, Before, Called, Pending, Stage

LEMMA TypeStep == ASSUME TypeOK, [Next]_vars PROVE TypeOK'
<1>1. ASSUME NEW c \in Call, RunKeyed(c) PROVE TypeOK'
  BY <1>1 DEF RunKeyed, SetEntry, TypeOK, Stage
<1>2. ASSUME NEW c \in Call, Start(c) PROVE TypeOK'
  BY <1>2 DEF Start, TypeOK, Stage
<1>3. ASSUME NEW c \in Call, Resolve(c) \/ Reject(c) PROVE TypeOK'
  BY <1>3 DEF Resolve, Reject, Settle, TypeOK, Stage
<1>4. ASSUME NEW c \in Call, Return(c) PROVE TypeOK'
  BY <1>4 DEF Return, Settled, DropEntry, TypeOK, Stage
<1>5. CASE UNCHANGED vars
  BY <1>5 DEF vars, TypeOK
<1> QED BY <1>1, <1>2, <1>3, <1>4, <1>5 DEF Next

LEMMA RunKeyedStep == ASSUME IInv, NEW r \in Call, RunKeyed(r) PROVE IInv'
<1> USE NoCallAssumption DEF IInv
<1>1. TypeOK'
  BY TypeStep DEF Next
<1>2. Tickets'
  BY <1>1 DEF RunKeyed, SetEntry, TypeOK, Tickets, Called, Stage
<1>3. TailIsLatest'
  <2> SUFFICES ASSUME NEW k \in Key
               PROVE  /\ queues'[k] = NoCall => \A c \in Call : key'[c] = k => ~Pending(c)'
                      /\ queues'[k] # NoCall =>
                           /\ key'[queues'[k]] = k
                           /\ Pending(queues[k])'
                           /\ \A c \in Call : (Called(c)' /\ key'[c] = k) => ticket'[c] <= ticket'[queues'[k]]
    BY DEF TailIsLatest
  <2>1. CASE k = key[r]
    BY <2>1, <1>2 DEF RunKeyed, SetEntry, TypeOK, Tickets, Called, Pending, Stage
  <2>2. CASE k # key[r]
    BY <2>2 DEF RunKeyed, SetEntry, TypeOK, TailIsLatest, Called, Pending, Stage
  <2> QED BY <2>1, <2>2
<1>4. WaitChain'
  <2> SUFFICES ASSUME NEW c \in Call, NEW d \in Call, pc'[d] = "waiting", Before(c, d)'
               PROVE  /\ prev'[d] = NoCall => pc'[c] = "returned"
                      /\ prev'[d] # NoCall => (c = prev'[d] \/ Before(c, prev[d])')
    BY DEF WaitChain
  <2>1. CASE d = r
    <3>1. c # r /\ Called(c) /\ key[c] = key[r]
      BY <2>1 DEF RunKeyed, SetEntry, TypeOK, Before, Called, Stage
    <3>2. prev'[d] = queues[key[r]]
      BY <2>1 DEF RunKeyed, SetEntry, TypeOK
    <3>3. CASE queues[key[r]] = NoCall
      BY <3>1, <3>2, <3>3 DEF RunKeyed, SetEntry, TypeOK, TailIsLatest, Called, Pending, Stage
    <3>4. CASE queues[key[r]] # NoCall
      <4> DEFINE q == queues[key[r]]
      <4>1. q \in Call /\ key[q] = key[r] /\ Called(q) /\ ticket[c] <= ticket[q] /\ q # r
        BY <3>1, <3>4 DEF RunKeyed, SetEntry, TypeOK, TailIsLatest, Called, Pending
      <4>2. c = q \/ ticket[c] < ticket[q]
        BY <3>1, <4>1 DEF Tickets, TypeOK
      <4> QED BY <3>1, <3>2, <3>4, <4>1, <4>2 DEF RunKeyed, SetEntry, TypeOK, Before, Called
    <3> QED BY <3>3, <3>4
  <2>2. CASE d # r
    <3>1. c # r
      BY <2>2 DEF RunKeyed, SetEntry, TypeOK, Tickets, Before, Called
    <3>2. Before(c, d) /\ pc[d] = "waiting"
      BY <2>2, <3>1 DEF RunKeyed, SetEntry, TypeOK, Before, Called
    <3>3. /\ prev[d] = NoCall => pc[c] = "returned"
          /\ prev[d] # NoCall => (c = prev[d] \/ Before(c, prev[d]))
      BY <3>2 DEF WaitChain
    <3> QED BY <2>2, <3>1, <3>3 DEF RunKeyed, SetEntry, TypeOK, Before, Called
  <2> QED BY <2>1, <2>2
<1>5. Serial'
  BY DEF RunKeyed, SetEntry, TypeOK, Tickets, Serial, Before, Called, Stage
<1> QED BY <1>1, <1>2, <1>3, <1>4, <1>5

LEMMA StartStep == ASSUME IInv, NEW r \in Call, Start(r) PROVE IInv'
<1> USE NoCallAssumption DEF IInv
<1>1. TypeOK'
  BY TypeStep DEF Next
<1>2. Tickets'
  BY DEF Start, TypeOK, Tickets, Called
<1>3. TailIsLatest'
  BY DEF Start, TypeOK, TailIsLatest, Called, Pending
<1>4. WaitChain'
  BY DEF Start, TypeOK, WaitChain, Before, Called
<1>5. Serial'
  <2> SUFFICES ASSUME NEW c \in Call, NEW d \in Call, Before(c, d)',
                      pc'[d] \in {"running", "resolved", "rejected", "returned"}
               PROVE  pc'[c] = "returned"
    BY DEF Serial
  <2>0. Before(c, d)
    BY DEF Start, TypeOK, Before, Called
  <2>1. CASE d = r
    <3>1. c # r
      BY <2>0, <2>1 DEF Before, TypeOK
    <3>2. CASE prev[r] = NoCall
      BY <2>0, <2>1, <3>1, <3>2 DEF Start, TypeOK, WaitChain
    <3>3. CASE prev[r] # NoCall
      <4>1. prev[r] \in Call /\ pc[prev[r]] = "returned"
        BY <3>3 DEF Start, Fulfilled, TypeOK
      <4>2. c = prev[r] \/ Before(c, prev[r])
        BY <2>0, <2>1, <3>3 DEF Start, WaitChain
      <4> QED BY <3>1, <4>1, <4>2 DEF Start, TypeOK, Serial
    <3> QED BY <3>2, <3>3
  <2>2. CASE d # r
    BY <2>0, <2>2 DEF Start, TypeOK, Serial
  <2> QED BY <2>1, <2>2
<1> QED BY <1>1, <1>2, <1>3, <1>4, <1>5

LEMMA SettleStep ==
  ASSUME IInv, NEW r \in Call, Resolve(r) \/ Reject(r)
  PROVE  IInv'
<1> USE NoCallAssumption DEF IInv
<1>1. TypeOK'
  BY TypeStep DEF Next
<1>2. Tickets'
  BY DEF Resolve, Reject, Settle, TypeOK, Tickets, Called
<1>3. TailIsLatest'
  BY DEF Resolve, Reject, Settle, TypeOK, TailIsLatest, Called, Pending
<1>4. WaitChain'
  BY DEF Resolve, Reject, Settle, TypeOK, WaitChain, Before, Called
<1>5. Serial'
  BY DEF Resolve, Reject, Settle, TypeOK, Serial, Before, Called
<1> QED BY <1>1, <1>2, <1>3, <1>4, <1>5

LEMMA ReturnStep == ASSUME IInv, NEW r \in Call, Return(r) PROVE IInv'
<1> USE NoCallAssumption DEF IInv
<1>1. TypeOK'
  BY TypeStep DEF Next
<1>2. Tickets'
  BY DEF Return, Settled, DropEntry, TypeOK, Tickets, Called
<1>3. TailIsLatest'
  <2>1. CASE queues[key[r]] = r
    <3>1. \A c \in Call : (key[c] = key[r] /\ c # r) => ~Pending(c)
      <4> SUFFICES ASSUME NEW c \in Call, key[c] = key[r], c # r, Called(c)
                   PROVE  pc[c] = "returned"
        BY DEF Pending, Called
      <4>1. Called(r) /\ ticket[c] <= ticket[r]
        BY <2>1 DEF Return, Settled, DropEntry, TypeOK, TailIsLatest, Called
      <4>2. Before(c, r)
        BY <4>1 DEF Tickets, Before, TypeOK
      <4> QED BY <4>2 DEF Return, Settled, DropEntry, Serial
    <3> QED BY <2>1, <3>1 DEF Return, Settled, DropEntry, TypeOK, TailIsLatest, Called, Pending
  <2>2. CASE queues[key[r]] # r
    BY <2>2 DEF Return, Settled, DropEntry, TypeOK, TailIsLatest, Called, Pending
  <2> QED BY <2>1, <2>2
<1>4. WaitChain'
  BY DEF Return, Settled, DropEntry, TypeOK, WaitChain, Before, Called
<1>5. Serial'
  BY DEF Return, Settled, DropEntry, TypeOK, Serial, Before, Called
<1> QED BY <1>1, <1>2, <1>3, <1>4, <1>5

LEMMA IInvStep == ASSUME IInv, [Next]_vars PROVE IInv'
<1>1. CASE UNCHANGED vars
  BY <1>1 DEF vars, IInv, TypeOK, Tickets, TailIsLatest, WaitChain, Serial, Before, Called, Pending
<1> QED BY <1>1, RunKeyedStep, StartStep, SettleStep, ReturnStep DEF Next

-----------------------------------------------------------------------------

\* The inductive invariant holds in every behaviour of the queue.
THEOREM Inductive == Spec => []IInv
BY InitIInv, IInvStep, PTL DEF Spec

\* The types of the queue's state.
THEOREM TypeCorrect == Spec => []TypeOK
<1>1. IInv => TypeOK BY DEF IInv
<1> QED BY <1>1, Inductive, PTL

\* At most one task per key runs, for any number of calls and keys.
THEOREM MutualExclusionHolds == Spec => []MutualExclusion
<1>1. ASSUME IInv, NEW c \in Call, NEW d \in Call, c # d, key[c] = key[d],
             pc[c] = "running", pc[d] = "running"
      PROVE  FALSE
  <2>1. Called(c) /\ Called(d) /\ ticket[c] # ticket[d]
    BY <1>1 DEF IInv, Tickets, Called
  <2>2. Before(c, d) \/ Before(d, c)
    BY <1>1, <2>1 DEF IInv, TypeOK, Before
  <2> QED BY <1>1, <2>2 DEF IInv, Serial
<1>2. IInv => MutualExclusion
  BY <1>1 DEF MutualExclusion
<1> QED BY <1>2, Inductive, PTL

\* The tasks of a key begin in call order, each behind the end of the others.
THEOREM FirstComeFirstServedHolds == Spec => []FirstComeFirstServed
<1>1. IInv => FirstComeFirstServed
  BY DEF IInv, Serial, FirstComeFirstServed
<1> QED BY <1>1, Inductive, PTL

\* The map holds an entry for a key exactly while a call of it is pending.
THEOREM EntryIffPendingHolds == Spec => []EntryIffPending
<1>1. IInv => EntryIffPending
  BY DEF IInv, TypeOK, TailIsLatest, Pending, EntryIffPending, Stage
<1> QED BY <1>1, Inductive, PTL

-----------------------------------------------------------------------------

TSTypes ==
  /\ step \in [Call -> Step] /\ id \in [Call -> Id]
  /\ snap \in [Call -> SUBSET Call] /\ counted \in [Key -> SUBSET Call]
  /\ details \in SUBSET Id /\ added \in SUBSET Call

\* A usage record is between read and write exactly while its task runs.
TaskRuns == \A c \in Call : step[c] \in {"read", "write"} <=> pc[c] = "running"

\* What a task is about to add to is what the totals are.
SnapIsCurrent == \A c \in Call : step[c] = "write" => snap[c] = counted[key[c]]

\* The totals hold what was added, by an attempt that is over and has its detail.
AddedIsCounted ==
  /\ \A c \in added : step[c] = "end" /\ c \in counted[key[c]]
  /\ \A k \in Key : counted[k] \subseteq added

\* The attempts at one id follow one another; none begins once one was counted.
OneAttempt ==
  /\ \A c, d \in Call : id[c] = id[d] /\ ~Finished(c) /\ ~Finished(d) => c = d
  /\ \A c \in Call : step[c] \in {"stored", "read", "write", "end"} => id[c] \in details
  /\ \A c \in Call, d \in added : ~Finished(c) => id[c] # id[d]

Once == \A c, d \in added : id[c] = id[d] => c = d

TSInv == IInv /\ TSTypes /\ TaskRuns /\ SnapIsCurrent /\ AddedIsCounted /\ OneAttempt /\ Once

-----------------------------------------------------------------------------
\* A kill ends every call that was made and empties the map.
LEMMA KillKeepsQueue == ASSUME IInv, Kill PROVE IInv'
<1> USE DEF IInv
<1>1. /\ pc' \in [Call -> Stage] /\ queues' \in [Key -> Call \cup {NoCall}]
      /\ \A c \in Call : pc'[c] = IF pc[c] = "idle" THEN "idle" ELSE "returned"
      /\ \A k \in Key : queues'[k] = NoCall
      /\ UNCHANGED <<key, prev, ticket, calls>>
  BY DEF Kill, TypeOK, Stage
<1>2. \A c \in Call : Called(c)' <=> Called(c)
  BY <1>1 DEF Called
<1>3. TypeOK' /\ Tickets'
  BY <1>1, <1>2 DEF TypeOK, Tickets
<1>4. TailIsLatest' /\ WaitChain' /\ Serial'
  BY <1>1 DEF TailIsLatest, WaitChain, Serial, Pending, Before, Called
<1> QED BY <1>3, <1>4

\* Whatever else an attempt does, it makes one step of the queue, or none.
LEMMA QueueStep == ASSUME IInv, [TSNext]_allVars PROVE IInv'
<1>1. CASE Kill
  BY <1>1, KillKeepsQueue
<1>2. ASSUME NEW c \in Call, Work(c) PROVE [Next]_vars
  BY <1>2 DEF Work, CheckDetail, StoreDetail, StoreDetailFails, StartTask, ReadTotals, WriteTotals,
              WriteTotalsFails, ReturnTask, Next
<1>3. CASE UNCHANGED allVars
  BY <1>3, IInvStep DEF allVars
<1> QED BY <1>1, <1>2, <1>3, IInvStep DEF TSNext

LEMMA QueueHolds == TSSpec => []IInv
<1>1. TSInit => IInv
  BY InitIInv DEF TSInit
<1> QED BY <1>1, QueueStep, PTL DEF TSSpec

\* Two tasks of one key do not run at once.
LEMMA Exclusion ==
  ASSUME IInv, NEW c \in Call, NEW d \in Call, c # d, key[c] = key[d], pc[c] = "running"
  PROVE  pc[d] # "running"
<1> SUFFICES ASSUME pc[d] = "running" PROVE FALSE
  OBVIOUS
<1>1. Called(c) /\ Called(d) /\ ticket[c] # ticket[d]
  BY DEF IInv, Tickets, Called
<1>2. Before(c, d) \/ Before(d, c)
  BY <1>1 DEF IInv, TypeOK, Before
<1> QED BY <1>2 DEF IInv, Serial

-----------------------------------------------------------------------------
LEMMA InitKeepsAll == TSInit => TSInv
<1> SUFFICES ASSUME TSInit PROVE TSInv
  OBVIOUS
<1>1. IInv
  BY InitIInv DEF TSInit
<1>2. TSTypes
  BY DEF TSInit, TSTypes, Init, Step
<1>3. TaskRuns /\ SnapIsCurrent /\ AddedIsCounted /\ OneAttempt /\ Once
  BY DEF TSInit, Init, TaskRuns, SnapIsCurrent, AddedIsCounted, OneAttempt, Once, Finished
<1> QED BY <1>1, <1>2, <1>3 DEF TSInv

\* A step of c that adds nothing and leaves it at a stage l.
Onward(c, l) ==
  /\ step' = [step EXCEPT ![c] = l] /\ l \in Step \ {"end"}
  /\ UNCHANGED <<id, counted, added, key>> /\ details \subseteq details' /\ details' \in SUBSET Id
  /\ snap' \in [Call -> SUBSET Call]
  /\ \A d \in Call \ {c} : snap'[d] = snap[d] /\ (pc'[d] = "running" <=> pc[d] = "running")
  /\ pc'[c] = "running" <=> l \in {"read", "write"}
  /\ l = "write" => snap'[c] = counted[key[c]]
  /\ l \in {"stored", "read", "write"} => id[c] \in details'
  /\ step[c] # "end"

LEMMA OnwardKeeps ==
  ASSUME TSInv, NEW c \in Call, NEW l, Onward(c, l),
         ~Finished(c) \/ l = "skipped" \/
           ((\A d \in Call : id[d] = id[c] => Finished(d)) /\ id[c] \notin details)
  PROVE  (TSTypes /\ TaskRuns /\ SnapIsCurrent /\ AddedIsCounted /\ OneAttempt /\ Once)'
<1> USE DEF TSInv
<1>1. /\ \A d \in Call \ {c} : step'[d] = step[d] /\ (Finished(d)' <=> Finished(d))
      /\ step'[c] = l /\ step' \in [Call -> Step]
  BY DEF Onward, TSTypes, Finished
<1>2. TSTypes'
  BY <1>1 DEF Onward, TSTypes
<1>3. TaskRuns' /\ SnapIsCurrent'
  BY <1>1 DEF Onward, TaskRuns, SnapIsCurrent
<1>4. AddedIsCounted' /\ Once'
  BY <1>1 DEF Onward, AddedIsCounted, Once, TSTypes
<1>5. OneAttempt'
  <2>1. \A d, e \in Call : id[d] = id[e] /\ ~Finished(d)' /\ ~Finished(e)' => d = e
    BY <1>1 DEF OneAttempt, Finished
  <2>2. \A d \in Call : step'[d] \in {"stored", "read", "write", "end"} => id[d] \in details'
    BY <1>1 DEF OneAttempt, Onward
  <2>3. \A d \in Call, e \in added : ~Finished(d)' => id[d] # id[e]
    BY <1>1 DEF OneAttempt, AddedIsCounted, Finished, TSTypes
  <2> QED BY <2>1, <2>2, <2>3 DEF OneAttempt, Onward
<1> QED BY <1>2, <1>3, <1>4, <1>5

\* The write: nobody else is between read and write on the same totals.
LEMMA WriteKeeps ==
  ASSUME TSInv, NEW c \in Call, WriteTotals(c)
  PROVE  /\ (TSTypes /\ TaskRuns /\ SnapIsCurrent /\ AddedIsCounted /\ OneAttempt /\ Once)'
         /\ Totals!Count(key[c], c)
<1> USE DEF TSInv
<1>1. /\ step[c] = "write" /\ pc[c] = "running" /\ pc' = [pc EXCEPT ![c] = "resolved"]
      /\ step' = [step EXCEPT ![c] = "end"] /\ added' = added \cup {c}
      /\ counted' = [counted EXCEPT ![key[c]] = snap[c] \cup {c}]
      /\ UNCHANGED <<id, snap, details, key>>
  BY DEF WriteTotals, Resolve, Settle, GoTo, Applied
<1>2. snap[c] = counted[key[c]] /\ c \notin added /\ key[c] \in Key
  BY <1>1 DEF SnapIsCurrent, AddedIsCounted, IInv, TypeOK
<1>3. \A d \in Call \ {c} : step'[d] = step[d] /\ pc'[d] = pc[d] /\ (Finished(d)' <=> Finished(d))
  BY <1>1 DEF Finished, TSTypes, IInv, TypeOK
<1>4. step'[c] = "end" /\ pc'[c] = "resolved" /\ ~Finished(c) /\ Finished(c)'
  BY <1>1 DEF Finished, TSTypes, IInv, TypeOK
<1>5. \A d \in Call \ {c} : key[d] = key[c] => step[d] # "write"
  BY <1>1, Exclusion DEF TaskRuns
<1>6. /\ \A k \in Key : counted'[k] = IF k = key[c] THEN counted[k] \cup {c} ELSE counted[k]
      /\ counted' \in [Key -> SUBSET Call]
  BY <1>1, <1>2 DEF TSTypes
<1>7. TSTypes'
  BY <1>1, <1>6 DEF TSTypes, Step
<1>8. TaskRuns'
  BY <1>3, <1>4 DEF TaskRuns
<1>9. SnapIsCurrent'
  BY <1>1, <1>3, <1>4, <1>5, <1>6 DEF SnapIsCurrent, IInv, TypeOK
<1>10. AddedIsCounted'
  <2>1. \A d \in added' : step'[d] = "end" /\ d \in counted'[key[d]]
    BY <1>1, <1>2, <1>3, <1>4, <1>6 DEF AddedIsCounted, IInv, TypeOK, TSTypes
  <2>2. \A k \in Key : counted'[k] \subseteq added'
    BY <1>1, <1>6 DEF AddedIsCounted
  <2> QED BY <1>1, <2>1, <2>2 DEF AddedIsCounted
<1>11. Once' /\ OneAttempt'
  <2>1. \A d \in added : id[d] # id[c]
    BY <1>4 DEF OneAttempt
  <2>2. Once'
    BY <1>1, <2>1 DEF Once
  <2>3. \A d \in Call \ {c} : ~Finished(d) => id[d] # id[c]
    BY <1>4 DEF OneAttempt
  <2>4. \A d \in Call, e \in added' : ~Finished(d)' => id[d] # id[e]
    BY <1>1, <1>3, <1>4, <2>3 DEF OneAttempt
  <2>5. OneAttempt'
    BY <1>1, <1>3, <1>4, <2>4 DEF OneAttempt
  <2> QED BY <2>2, <2>5
<1>12. Totals!Count(key[c], c)
  BY <1>1, <1>2 DEF Totals!Count, AddedIsCounted
<1> QED BY <1>7, <1>8, <1>9, <1>10, <1>11, <1>12

LEMMA KillKeeps ==
  ASSUME TSInv, Kill
  PROVE  (TSTypes /\ TaskRuns /\ SnapIsCurrent /\ AddedIsCounted /\ OneAttempt /\ Once)'
<1> USE DEF TSInv
<1>1. /\ step' = [c \in Call |-> IF Finished(c) THEN step[c] ELSE "killed"]
      /\ pc' = [c \in Call |-> IF pc[c] = "idle" THEN "idle" ELSE "returned"]
      /\ UNCHANGED <<key, id, snap, details, counted, added>>
  BY DEF Kill
<1>2. \A c \in Call : Finished(c)' /\ step'[c] \notin {"stored", "read", "write"} /\ pc'[c] # "running"
  BY <1>1 DEF Finished
<1>3. \A c \in Call : step'[c] = "end" <=> step[c] = "end"
  BY <1>1 DEF Finished
<1>4. TSTypes'
  BY <1>1 DEF TSTypes, Step
<1>5. TaskRuns' /\ SnapIsCurrent'
  BY <1>1, <1>2 DEF TaskRuns, SnapIsCurrent
<1>6. AddedIsCounted' /\ OneAttempt' /\ Once'
  BY <1>1, <1>2, <1>3 DEF AddedIsCounted, OneAttempt, Once, TSTypes
<1> QED BY <1>4, <1>5, <1>6

LEMMA WorkKeeps ==
  ASSUME ~ReadFaults, TSInv, NEW c \in Call, Work(c)
  PROVE  /\ (TSTypes /\ TaskRuns /\ SnapIsCurrent /\ AddedIsCounted /\ OneAttempt /\ Once)'
         /\ UNCHANGED counted \/ Totals!Count(key[c], c)
<1> USE DEF TSInv
<1> USE DEF Onward, GoTo, Step
<1>0. /\ details \in SUBSET Id /\ snap \in [Call -> SUBSET Call] /\ id[c] \in Id
      /\ key[c] \in Key /\ counted[key[c]] \in SUBSET Call
      /\ pc \in [Call -> Stage]
  BY DEF TSTypes, IInv, TypeOK
<1>1. CASE CheckDetail(c)
  <2>1. step[c] = "start" /\ pc[c] # "running"
    BY <1>1 DEF CheckDetail, TaskRuns
  <2>2. CASE Recorded(c)
    BY <1>0, <1>1, <2>1, <2>2, OnwardKeeps DEF CheckDetail, vars
  <2>3. CASE ~Recorded(c)
    <3>1. Onward(c, "checked")
      BY <1>0, <1>1, <2>1, <2>3 DEF CheckDetail, vars
    <3> QED BY <1>1, <2>3, <3>1, OnwardKeeps DEF CheckDetail, Recorded
  <2> QED BY <2>2, <2>3
<1>2. CASE StoreDetail(c)
  <2>1. Onward(c, "stored")
    BY <1>0, <1>2 DEF StoreDetail, WithDetail, RunKeyed
  <2> QED BY <1>2, <2>1, OnwardKeeps DEF StoreDetail, Finished
<1>3. CASE StoreDetailFails(c)
  <2>1. Onward(c, "failed")
    BY <1>0, <1>3 DEF StoreDetailFails, vars, TaskRuns
  <2> QED BY <1>3, <2>1, OnwardKeeps DEF StoreDetailFails, Finished
<1>4. CASE StartTask(c)
  <2>1. Onward(c, "read")
    BY <1>0, <1>4 DEF StartTask, Start, OneAttempt
  <2> QED BY <1>4, <2>1, OnwardKeeps DEF StartTask, Finished
<1>5. CASE ReadTotals(c)
  <2>1. snap' = [snap EXCEPT ![c] = counted[key[c]]] /\ step[c] = "read" /\ pc[c] = "running"
    BY <1>5 DEF ReadTotals, TaskRuns
  <2>2. Onward(c, "write")
    BY <1>0, <1>5, <2>1 DEF ReadTotals, vars, OneAttempt
  <2> QED BY <2>1, <2>2, OnwardKeeps DEF Finished
<1>6. CASE WriteTotals(c)
  BY <1>6, WriteKeeps
<1>7. CASE WriteTotalsFails(c)
  <2>1. Onward(c, "failed")
    BY <1>0, <1>7 DEF WriteTotalsFails, Reject, Settle
  <2> QED BY <1>7, <2>1, OnwardKeeps DEF WriteTotalsFails, Finished
<1>8. CASE ReturnTask(c)
  <2>1. /\ UNCHANGED <<key, step, id, snap, details, counted, added>>
        /\ pc' = [pc EXCEPT ![c] = "returned"] /\ pc[c] # "running"
    BY <1>8 DEF ReturnTask, Return, Settled, recordVars
  <2>2. TaskRuns'
    BY <1>0, <2>1 DEF TaskRuns
  <2> QED BY <2>1, <2>2 DEF TSTypes, SnapIsCurrent, AddedIsCounted, OneAttempt, Once, Finished
<1> QED BY <1>1, <1>2, <1>3, <1>4, <1>5, <1>6, <1>7, <1>8 DEF Work

\* A step of the accounting is a step of the abstract totals, or none.
LEMMA StepKeeps ==
  ASSUME ~ReadFaults, TSInv, [TSNext]_allVars
  PROVE  TSInv' /\ [Totals!Next]_counted
<1>1. IInv'
  BY QueueStep DEF TSInv
<1>2. CASE Kill
  BY <1>1, <1>2, KillKeeps DEF TSInv, Kill
<1>3. ASSUME NEW c \in Call, Work(c) PROVE TSInv' /\ [Totals!Next]_counted
  <2>1. key[c] \in Key
    BY DEF TSInv, IInv, TypeOK
  <2> QED BY <1>1, <1>3, <2>1, WorkKeeps DEF TSInv, Totals!Next
<1>4. CASE UNCHANGED allVars
  BY <1>1, <1>4 DEF allVars, vars, recordVars, TSInv, TSTypes, TaskRuns, SnapIsCurrent, AddedIsCounted,
                    OneAttempt, Once, Finished
<1> QED BY <1>2, <1>3, <1>4 DEF TSNext

LEMMA TSInvHolds == ASSUME ~ReadFaults PROVE TSSpec => []TSInv
BY InitKeepsAll, StepKeeps, PTL DEF TSSpec

-----------------------------------------------------------------------------
\* At most one task of a key runs, across kills and failed writes: runKeyed as
\* the accounting uses it.
THEOREM ExclusionAcrossKills == TSSpec => []MutualExclusion
<1>1. IInv => MutualExclusion
  BY Exclusion DEF MutualExclusion
<1> QED BY QueueHolds, <1>1, PTL

\* And the tasks of a key begin in call order.
THEOREM OrderAcrossKills == TSSpec => []FirstComeFirstServed
<1>1. IInv => FirstComeFirstServed
  BY DEF IInv, Serial, FirstComeFirstServed
<1> QED BY QueueHolds, <1>1, PTL

\* No usage whose write succeeded is lost, if reads do not fail.
THEOREM NoUsageLost == ASSUME ~ReadFaults PROVE TSSpec => []NothingLost
<1>1. TSInv => NothingLost
  BY DEF TSInv, AddedIsCounted, NothingLost
<1> QED BY TSInvHolds, <1>1, PTL

\* No provider call is counted twice, however often its turn is saved.
THEOREM CountedOnce == ASSUME ~ReadFaults PROVE TSSpec => []CountedOncePerId
<1>1. TSInv => CountedOncePerId
  BY DEF TSInv, Once, CountedOncePerId
<1> QED BY TSInvHolds, <1>1, PTL

\* The accounting implements totals that only grow, by one record at a time.
THEOREM ImplementsGrowOnly == ASSUME ~ReadFaults PROVE TSSpec => RefinesGrowOnly
<1>1. TSInit => Totals!Init
  BY DEF TSInit, Totals!Init
<1>2. TSInv /\ [TSNext]_allVars => [Totals!Next]_counted
  BY StepKeeps
<1> QED BY TSInvHolds, <1>1, <1>2, PTL DEF TSSpec, RefinesGrowOnly, Totals!Spec

=============================================================================
