---------------------------- MODULE WebChatQueue ----------------------------
(***************************************************************************)
(* One dialog of the web client: what the user types while a turn runs     *)
(* waits in the runtime store of the dialog, the loop of the turn takes it *)
(* from there between two requests, and when a turn ends the adapter of    *)
(* ChatQueue, which has copied that queue once, may send its head again.   *)
(* A turn is handleSendMessageAction around streamAgentChatTurn, or around *)
(* a turn that the server owns.                                            *)
(***************************************************************************)
EXTENDS ChatQueue, Naturals, FiniteSets, SequencesExt

CONSTANTS
  MaxInputs,  \* bound on the inputs typed, which are numbered
  Turns,      \* the turns that may be under way at once
  NoTurn      \* no turn

ASSUME WebAssumption == MaxInputs \in Nat /\ IsFiniteSet(Turns) /\ NoTurn \notin Turns

VARIABLES
  typed,     \* the number of inputs typed
  shadow,    \* pendingUserInputQueue of the dialog
  core,      \* the adapter's queue
  seeded,    \* whether the adapter has one
  log,       \* the user messages stored in the dialog
  pc,        \* pc[t]: where the turn stands
  text,      \* text[t]: the input it stores, or has stored last
  drained,   \* the turns that the adapter has started
  retried,   \* the turns in their second attempt
  loop,      \* the turn whose controller has the dialog's loop key
  aborted,   \* the turns whose loop controller is aborted
  own,       \* own[t]: the controller of the request, service or wait t is in
  lease,     \* the turn whose send the composer waits for
  given,     \* the inputs given up, by the user or with an abort
  stopped,   \* the inputs that waited when the user stopped the dialog
  queued,    \* the inputs that were queued
  calm       \* no drain, no two turns at once, no input removed while it is stored

queueVars == <<shadow, core, seeded>>
controlVars == <<loop, aborted, own>>
turnVars == <<pc, text, drained, retried>>
historyVars == <<given, stopped, queued, calm>>
vars == <<typed, queueVars, log, turnVars, controlVars, lease, historyVars>>

Init ==
  /\ typed = 0 /\ shadow = <<>> /\ core = EmptyQueue /\ seeded = FALSE /\ log = <<>>
  /\ pc = [t \in Turns |-> "idle"] /\ text = [t \in Turns |-> 0]
  /\ drained = {} /\ retried = {}
  /\ loop = NoTurn /\ aborted = {} /\ own = [t \in Turns |-> "none"] /\ lease = NoTurn
  /\ given = {} /\ stopped = {} /\ queued = {} /\ calm = TRUE

-----------------------------------------------------------------------------
Go(t, l) == pc' = [pc EXCEPT ![t] = l]
InUse == {t \in Turns : pc[t] # "idle"}

\* The dialog has an active controller: the composer queues, and shows Stop.
Running == loop # NoTurn \/ \E t \in Turns : own[t] = "live"

\* A send.
Begin(t, input) ==
  /\ pc' = [pc EXCEPT ![t] = "persist"] /\ text' = [text EXCEPT ![t] = input]
  /\ aborted' = aborted \ {t} /\ retried' = retried \ {t}

Send(t) ==
  /\ ~Running /\ lease = NoTurn /\ typed < MaxInputs /\ pc[t] = "idle"
  /\ typed' = typed + 1 /\ Begin(t, typed + 1)
  /\ drained' = drained \ {t} /\ lease' = t
  /\ calm' = (calm /\ InUse = {})
  /\ UNCHANGED <<queueVars, log, loop, own, given, stopped, queued>>

\* stale-send: the lease is old and nothing seems to run.
StaleSend ==
  /\ ~Running /\ lease # NoTurn
  /\ lease' = NoTurn
  /\ UNCHANGED <<typed, queueVars, log, turnVars, controlVars, historyVars>>

\* queue-text.
Queue ==
  /\ Running /\ typed < MaxInputs
  /\ typed' = typed + 1
  /\ shadow' = Append(shadow, typed + 1) /\ queued' = queued \cup {typed + 1}
  /\ UNCHANGED <<core, seeded, log, turnVars, controlVars, lease, given, stopped, calm>>

\* The badge clears the queue of the store; the adapter does not hear of it.
GiveUp ==
  /\ shadow # <<>>
  /\ shadow' = <<>> /\ given' = given \cup ToSet(shadow)
  /\ calm' = (calm /\ \A t \in Turns : pc[t] # "keep")
  /\ UNCHANGED <<typed, core, seeded, log, turnVars, controlVars, lease, stopped, queued>>

\* abortAllMessages: every controller registered for the dialog is aborted and
\* removed.  A turn has one for its loop and another for what it waits in; if a
\* second turn has taken or removed the loop's key, only the latter is aborted.
Stop ==
  /\ Running
  /\ aborted' = aborted \cup ({loop} \cap Turns) /\ loop' = NoTurn
  /\ own' = [t \in Turns |-> IF own[t] = "live" THEN "aborted" ELSE own[t]]
  /\ stopped' = stopped \cup (ToSet(shadow) \ ({text[t] : t \in InUse} \cup ToSet(log)))
  /\ UNCHANGED <<typed, queueVars, log, turnVars, lease, given, queued, calm>>

-----------------------------------------------------------------------------
\* The user message is stored, or the send fails.
Persist(t) ==
  /\ pc[t] = "persist"
  /\ \/ log' = Append(log, text[t]) /\ Go(t, "enter")
     \/ UNCHANGED log /\ Go(t, "resolve")
  /\ UNCHANGED <<typed, queueVars, text, drained, retried, controlVars, lease, historyVars>>

\* A turn owned by the server: it has a controller, but neither looks at the
\* queue nor tells the adapter of its end.
Serve(t) ==
  /\ pc[t] = "enter" /\ t \notin retried
  /\ own' = [own EXCEPT ![t] = "live"] /\ Go(t, "served")
  /\ UNCHANGED <<typed, queueVars, log, text, drained, retried, loop, aborted, lease, historyVars>>

Served(t) ==
  /\ pc[t] = "served"
  /\ own' = [own EXCEPT ![t] = "none"] /\ Go(t, "resolve")
  /\ UNCHANGED <<typed, queueVars, log, text, drained, retried, loop, aborted, lease, historyVars>>

\* A turn of the browser's own, unless the dialog has one already.
Enter(t) ==
  /\ pc[t] = "enter"
  /\ Go(t, IF loop = NoTurn THEN "setup" ELSE "resolve")
  /\ UNCHANGED <<typed, queueVars, log, text, drained, retried, controlVars, lease, historyVars>>

\* The controller is registered after the agent and its tools have been read.
Register(t) ==
  /\ pc[t] = "setup"
  /\ loop' = t /\ Go(t, "top")
  /\ UNCHANGED <<typed, queueVars, log, text, drained, retried, own, aborted, lease, historyVars>>

\* The inputs that the end of an aborted turn gives up.
Left(byAbort) == IF byAbort THEN <<>> ELSE shadow

\* The queue that the adapter has from its first turn end on.
Copied(q) == IF seeded THEN core ELSE [EmptyQueue EXCEPT !.queue = q]

\* The waits for a second attempt share one key of the dialog: a turn that comes
\* to its wait, or leaves it, takes the key from any other.
Unkeyed(t) ==
  [u \in Turns |-> IF u = t \/ (pc[u] = "backoff" /\ own[u] = "live") THEN "none" ELSE own[u]]

\* The finally of streamAgentChatTurn: the adapter hears that the turn ended
\* well unless an abort was thrown, and starts the head of its queue, while there
\* are turns left.  The turn goes on at l.
Drains(q, byAbort) == ShouldDrain(q, ~byAbort) /\ InUse # Turns

End(t, byAbort, l) ==
  LET next == TurnEnd(Copied(Left(byAbort)), ~byAbort, byAbort) IN
  /\ shadow' = Left(byAbort) /\ core' = next /\ seeded' = TRUE
  /\ given' = IF byAbort THEN given \cup ToSet(shadow) ELSE given
  /\ own' = IF l = "backoff" THEN [Unkeyed(t) EXCEPT ![t] = "live"] ELSE [own EXCEPT ![t] = "none"]
  /\ \/ /\ Drains(next, byAbort)
        /\ \E u \in Turns \ InUse :
             /\ pc' = [pc EXCEPT ![t] = l, ![u] = "persist"]
             /\ text' = [text EXCEPT ![u] = Head(next.queue)]
             /\ drained' = drained \cup {u}
             /\ aborted' = aborted \ {u} /\ retried' = retried \ {u}
        /\ calm' = FALSE
     \/ /\ ~Drains(next, byAbort)
        /\ Go(t, l) /\ UNCHANGED <<text, drained, retried, aborted, calm>>
  /\ UNCHANGED <<typed, log, lease, stopped, queued>>

\* The dialog's loop key is given up, whoever has it.
Leave(t, byAbort, l) == loop' = NoTurn /\ End(t, byAbort, l)

\* What is thrown is an AbortError, or another error of a turn whose controller is
\* aborted, or an error after which handleSendMessageAction may try once more.
ThrownAs(t) == IF t \in aborted THEN {TRUE} ELSE BOOLEAN
AfterError(t, byAbort) == IF byAbort \/ t \in retried THEN {"resolve"} ELSE {"resolve", "backoff"}

SetupFails(t) ==
  /\ pc[t] = "setup"
  /\ \E byAbort \in ThrownAs(t) : \E l \in AfterError(t, byAbort) : UNCHANGED loop /\ End(t, byAbort, l)

\* What the top of the loop looks at.  (Mutant: the signal of the thunk, which no
\* Stop reaches.)
Halted_Thunk(t) == FALSE
Halted(t) == t \in aborted

\* The top of the loop: an abort is returned, not thrown.
Top(t) ==
  /\ pc[t] = "top"
  /\ \/ Halted(t) /\ Leave(t, FALSE, "resolve")
     \/ /\ ~Halted(t)
        /\ own' = [own EXCEPT ![t] = "live"] /\ Go(t, "request")
        /\ UNCHANGED <<typed, queueVars, log, text, drained, retried, loop, aborted, lease, historyVars>>

\* What stays queued when the loop takes an input: all of it, until the input has
\* been stored.  (Mutant: the head is removed before.)
Taken_Before == Tail(shadow)
Taken == shadow

\* The queue that the loop looks at.  (Mutant: the adapter's.)
Polled_Core == core.queue
Polled == shadow

\* A request has returned, also after its own abort, which it catches.  The turn
\* is handed off or waits for the user, or goes on with a queued input or with
\* the results of its tools, or is done.
Requested(t) ==
  /\ pc[t] = "request"
  /\ \/ Leave(t, FALSE, "resolve")
     \/ /\ Polled # <<>>
        /\ text' = [text EXCEPT ![t] = Head(Polled)] /\ shadow' = Taken
        /\ own' = [own EXCEPT ![t] = "none"] /\ Go(t, "keep")
        /\ UNCHANGED <<typed, core, seeded, log, drained, retried, loop, aborted, lease, historyVars>>
     \/ /\ Polled = <<>>
        /\ own' = [own EXCEPT ![t] = "none"] /\ Go(t, "top")
        /\ UNCHANGED <<typed, queueVars, log, text, drained, retried, loop, aborted, lease, historyVars>>

\* An error, or an abort, is thrown in the loop.
Throws(t) ==
  /\ pc[t] \in {"request", "keep"}
  /\ \E byAbort \in ThrownAs(t) : \E l \in AfterError(t, byAbort) : Leave(t, byAbort, l)

\* What the head's removal leaves.  (Mutant: the head stays.)
Rest_Same == shadow
Rest == IF shadow = <<>> THEN <<>> ELSE Tail(shadow)

Keep(t) ==
  /\ pc[t] = "keep"
  /\ log' = Append(log, text[t]) /\ shadow' = Rest
  /\ Go(t, "top")
  /\ UNCHANGED <<typed, core, seeded, text, drained, retried, controlVars, lease, historyVars>>

\* The second attempt, or the user has stopped the wait for it.
Retry(t) ==
  /\ pc[t] = "backoff"
  /\ own' = Unkeyed(t)
  /\ IF own[t] = "aborted" THEN Go(t, "resolve") /\ UNCHANGED retried
     ELSE Go(t, "enter") /\ retried' = retried \cup {t}
  /\ UNCHANGED <<typed, queueVars, log, text, drained, loop, aborted, lease, historyVars>>

\* The dispatch of handleSendMessage resolves, also when the send has failed:
\* the adapter removes the heads of both queues, the composer its lease.
Resolve(t) ==
  /\ pc[t] = "resolve"
  /\ Go(t, "idle")
  /\ lease' = IF lease = t THEN NoTurn ELSE lease
  /\ IF t \in drained THEN core' = Dequeue(core) /\ shadow' = Rest ELSE UNCHANGED <<core, shadow>>
  /\ UNCHANGED <<typed, seeded, log, text, drained, retried, controlVars, historyVars>>

-----------------------------------------------------------------------------
Goes(t) ==
  \/ Persist(t) \/ Serve(t) \/ Served(t) \/ Enter(t) \/ Register(t) \/ SetupFails(t)
  \/ Top(t) \/ Requested(t) \/ Throws(t) \/ Keep(t) \/ Retry(t) \/ Resolve(t)

Next ==
  \/ \E t \in Turns : Send(t) \/ Goes(t)
  \/ StaleSend \/ Queue \/ GiveUp \/ Stop

\* Every await of a turn comes back.
Fairness == \A t \in Turns : WF_vars(Goes(t))

Spec == Init /\ [][Next]_vars
FairSpec == Spec /\ Fairness

-----------------------------------------------------------------------------
\* As long as turns come one after the other and nothing is sent by the
\* adapter, no queued input is lost: it waits, is being stored, is stored, or was
\* given up, by the user or with an abort ("dequeued only after it has been
\* persisted, so that a failure does not lose it", says the loop).
Storing == {text[t] : t \in {u \in Turns : pc[u] \in {"persist", "keep"}}}
KeptInTurn == calm => queued \subseteq ToSet(shadow) \cup Storing \cup ToSet(log) \cup given

\* And queued inputs are stored once and in the order they were typed.
OnceInTurn ==
  calm => \A i, j \in DOMAIN log : i < j /\ log[i] \in queued /\ log[j] \in queued => log[i] < log[j]

\* A loop that runs takes what waits: the composer tells the user that it will
\* be sent when the current round has ended.
LoopTakes == \A i \in 1..MaxInputs : i \in ToSet(shadow) /\ loop # NoTurn ~> i \notin ToSet(shadow) \/ loop = NoTurn

\* A turn whose loop controller a stop has aborted ends, whichever of its awaits
\* the stop meets; and as long as turns come one after the other so does a turn
\* of which it has met any controller.  (A turn whose loop key another turn has
\* taken goes on after a stop.)
Hit(t) == t \in aborted \/ (calm /\ own[t] = "aborted")
StopEnds == \A t \in Turns : Hit(t) ~> pc[t] \in {"idle", "resolve"}

\* The comment on the end of streamAgentChatTurn: what waited when the user
\* stopped the dialog is not sent any more.
StopGivesUp == [][\A i \in stopped : i \in ToSet(log') => i \in ToSet(log)]_vars
=============================================================================
