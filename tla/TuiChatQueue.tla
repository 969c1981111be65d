---------------------------- MODULE TuiChatQueue ----------------------------
(***************************************************************************)
(* How the terminal workspace of the CLI runs chat turns: the composer     *)
(* (cli/tui/readlineWorkspace.ts), the binding that drains the chat queue  *)
(* (chatQueueTuiBinding.ts), the turn itself (runOneAgentTurn of           *)
(* tuiTurnRunner.ts) and the inbox that takes wakes into a running turn    *)
(* (turnInjectionInbox.ts).                                                *)
(*                                                                         *)
(* A Chain is one pass of handleInputToken or runIdleTextTurn through its  *)
(* awaits: it runs a turn and then those the queue hands it.  Keys and     *)
(* wakes arrive between any two awaits and nothing else serialises them.   *)
(***************************************************************************)
EXTENDS ChatQueue, Naturals, SequencesExt

CONSTANTS
  Chains,       \* bound on the passes through the event loop at one time
  Lines,        \* bound on the lines the user sends as chat
  Wake,         \* ends of background runs, which wake the agent
  MaxCommands,  \* bound on the slash and shell commands
  MaxForced     \* bound on the forced stops

ASSUME BoundsAssumption == {Chains, Lines, MaxCommands, MaxForced} \subseteq Nat

Chain == 1 .. Chains
Input == {<<"line", n>> : n \in 1 .. Lines}

VARIABLES
  core,         \* the chat queue
  preempt,      \* preemptArmed
  busy,         \* the composer is occupied
  activeAbort,  \* epoch of the turn whose AbortController can be reached, or 0
  signal,       \* that controller was aborted
  stopping,     \* isStopping() of the activity line
  inbox,        \* epoch of the turn whose injection inbox is offered, or 0
  turnEpoch,    \* number of turns begun
  forcedEpoch,  \* epoch of the last turn that was stopped by force, or 0
  chain,        \* chain[c]: where c stands, its request, its turn and inbox
  bounds,       \* commands and forced stops so far
  queued,       \* history: the inputs in the order they were put in the queue
  started,      \* history: the inputs in the order they were given to the agent
  kept,         \* history: what the queue held when the turn was stopped
  disturbed     \* history: a command or a forced stop has cut into a turn

binding == <<core, preempt>>
turn == <<activeAbort, signal, stopping, inbox, turnEpoch, forcedEpoch>>
history == <<queued, started, kept, disturbed>>
vars == <<binding, turn, history, busy, chain, bounds>>

(***************************************************************************)
(* off: not under way.  submitted: a line was sent, attachments are being  *)
(* read.  opening: the head was drained, its attachments are being read.   *)
(* agent: inside runAgentChat.  command: a slash or shell command runs.    *)
(***************************************************************************)
Idle == [at |-> "off", req |-> <<>>, epoch |-> 0, pending |-> <<>>]

Init ==
  /\ core = EmptyQueue /\ preempt = "none" /\ busy = FALSE
  /\ activeAbort = 0 /\ signal = FALSE /\ stopping = FALSE /\ inbox = 0
  /\ turnEpoch = 0 /\ forcedEpoch = 0
  /\ chain = [c \in Chain |-> Idle]
  /\ bounds = [commands |-> 0, forced |-> 0]
  /\ queued = <<>> /\ started = <<>> /\ kept = {} /\ disturbed = FALSE

-----------------------------------------------------------------------------

InQueue == ToSet(FlattenSeq(core.queue))
InInbox == UNION {ToSet(chain[c].pending) : c \in Chain}

\* Not sent yet; lines are sent in the order of their numbers.
Fresh(x) == x \notin ToSet(queued) \cup ToSet(started) \cup InInbox \cup InQueue
NextLine == {x \in Input : Fresh(x) /\ \A y \in Input : Fresh(y) => x[2] <= y[2]}

\* The first chain that is not under way.
Off(c) == chain[c].at = "off" /\ \A d \in Chain : chain[d].at = "off" => c <= d

\* A turn with an empty inbox, awaited by the chain that has begun it.
InFlight(request) ==
  [at |-> "agent", req |-> request, epoch |-> turnEpoch + 1, pending |-> <<>>]

\* runOneAgentTurn up to its await of runAgentChat.
BeginTurn(c, request) ==
  /\ turnEpoch' = turnEpoch + 1
  /\ activeAbort' = turnEpoch + 1
  /\ inbox' = turnEpoch + 1
  /\ chain' = [chain EXCEPT ![c] = InFlight(request)]
  /\ signal' = FALSE
  /\ UNCHANGED <<stopping, forcedEpoch>>

\* recoverStaleRunning: a clean turn-end when the core still says running.
Recovered(q) == IF q.running THEN TurnEnd(q, TRUE, FALSE) ELSE q

\* Enter with a text while idle.
Submit(c, x) ==
  /\ ~busy /\ Off(c)
  /\ core' = Recovered(core)
  /\ busy' = TRUE
  /\ chain' = [chain EXCEPT ![c] = [Idle EXCEPT !.at = "submitted", !.req = <<x>>]]
  /\ started' = Append(started, x)
  /\ UNCHANGED <<preempt, turn, bounds, queued, kept, disturbed>>

\* The submitted line reaches the agent.
BeginDirect(c) ==
  /\ chain[c].at = "submitted"
  /\ core' = TurnStart(core)
  /\ BeginTurn(c, chain[c].req)
  /\ UNCHANGED <<preempt, busy, history, bounds>>

\* Enter with a text while busy.
EnqueueWhileBusy(x) ==
  /\ busy
  /\ core' = Enqueue(core, <<x>>)
  /\ queued' = Append(queued, x)
  /\ UNCHANGED <<preempt, turn, busy, chain, bounds, started, kept, disturbed>>

\* preemptAndAbortForDrain on the queue q, which is not empty.
PreemptForDrain(q) ==
  /\ preempt' = IF q.running THEN "drain" ELSE preempt
  /\ signal' = (signal \/ (q.running /\ activeAbort # 0))

\* Enter without a text while busy.
EnterWhileBusy ==
  /\ busy /\ core.queue # <<>>
  /\ PreemptForDrain(core)
  /\ UNCHANGED <<core, busy, activeAbort, stopping, inbox, turnEpoch, forcedEpoch, chain, bounds, history>>

\* snapshotAndClearQueue and the merged request put back, the draft before
\* it.
Flushed(q, draft) == Enqueue(Clear(q), draft \o FlattenSeq(q.queue))

\* Ctrl+S while busy.
FlushWhileBusy ==
  /\ busy /\ core.queue # <<>>
  /\ core' = Flushed(core, <<>>)
  /\ PreemptForDrain(core')
  /\ UNCHANGED <<busy, activeAbort, stopping, inbox, turnEpoch, forcedEpoch, chain, bounds, history>>

\* Enter without a text while idle, on the queue q: drainHeadForManualTurn
\* and runIdleTextTurn, or the recovery of a queue that says running.
ManualDrain(c, q) ==
  IF q.running
  THEN /\ core' = Recovered(q)
       /\ UNCHANGED <<turn, busy, chain, started>>
  ELSE /\ core' = Dequeue(TurnStart(q))
       /\ busy' = TRUE
       /\ BeginTurn(c, Head(q.queue))
       /\ started' = started \o Head(q.queue)

EnterWhileIdle(c) ==
  /\ ~busy /\ Off(c) /\ core.queue # <<>>
  /\ ManualDrain(c, core)
  /\ UNCHANGED <<preempt, bounds, queued, kept, disturbed>>

\* Ctrl+S while idle takes the draft along.
FlushWhileIdle(c) ==
  /\ ~busy /\ Off(c) /\ core.queue # <<>>
  /\ \E draft \in {<<>>} \cup {<<x>> : x \in NextLine} :
       ManualDrain(c, Flushed(core, draft))
  /\ UNCHANGED <<preempt, bounds, queued, kept, disturbed>>

\* The first Esc, and every Ctrl+C: stop the turn and keep what is queued.
\* (Mutant: the stop is not armed.)
Armed_Never == preempt
Armed == IF core.running /\ core.queue # <<>> THEN "stop" ELSE preempt

StopTurn ==
  /\ busy /\ activeAbort # 0
  /\ preempt' = Armed
  /\ signal' = TRUE
  /\ stopping' = TRUE
  /\ kept' = InQueue
  /\ UNCHANGED <<core, busy, activeAbort, inbox, turnEpoch, forcedEpoch, chain, bounds,
                 queued, started, disturbed>>

\* The second Esc hands the composer back without waiting for the turn.
ForceStop ==
  /\ busy /\ activeAbort # 0 /\ stopping
  /\ bounds.forced < MaxForced
  /\ bounds' = [bounds EXCEPT !.forced = @ + 1]
  /\ forcedEpoch' = activeAbort
  /\ signal' = FALSE
  /\ activeAbort' = 0
  /\ stopping' = FALSE
  /\ busy' = FALSE
  /\ disturbed' = TRUE
  /\ UNCHANGED <<binding, inbox, turnEpoch, chain, queued, started, kept>>

\* push: the inbox of the turn that is offered takes a wake.
Pushed(c, w) ==
  IF chain[c].at = "agent" /\ chain[c].epoch = inbox
  THEN [chain[c] EXCEPT !.pending = Append(@, w)] ELSE chain[c]

\* drain: everything in the inbox of c's turn is taken out.
Drained(c) == [chain[c] EXCEPT !.pending = <<>>]

\* runWakeHandler while the composer is busy or a dialog has the screen: into
\* the inbox of the turn, else into the queue.
WakeArrives(w) ==
  /\ Fresh(w)
  /\ IF inbox # 0
     THEN /\ chain' = [c \in Chain |-> Pushed(c, w)]
          /\ UNCHANGED <<core, queued>>
     ELSE /\ core' = Enqueue(core, <<w>>)
          /\ queued' = Append(queued, w)
          /\ UNCHANGED chain
  /\ UNCHANGED <<preempt, turn, busy, bounds, started, kept, disturbed>>

\* runWakeHandler while idle: the wake is a turn of its own.
WakeRuns(c, w) ==
  /\ ~busy /\ Off(c) /\ Fresh(w)
  /\ core' = TurnStart(core)
  /\ busy' = TRUE
  /\ BeginTurn(c, <<w>>)
  /\ started' = Append(started, w)
  /\ UNCHANGED <<preempt, bounds, queued, kept, disturbed>>

\* The agent loop takes over the inbox of its turn between two rounds.
DrainInjections(c) ==
  /\ chain[c].at = "agent" /\ chain[c].pending # <<>>
  /\ started' = started \o chain[c].pending
  /\ chain' = [chain EXCEPT ![c] = Drained(c)]
  /\ UNCHANGED <<binding, turn, busy, bounds, queued, kept, disturbed>>

-----------------------------------------------------------------------------

\* What runOneAgentTurn answers for a runAgentChat that returned.  A turn
\* stopped by force is taken for aborted; one whose controller another turn
\* took away ends in a TypeError.
Returned(c) ==
  IF chain[c].epoch = forcedEpoch THEN [ok |-> FALSE, aborted |-> TRUE]
  ELSE [ok |-> activeAbort # 0 /\ ~signal, aborted |-> signal]

\* And for one that threw.
Threw == [ok |-> FALSE, aborted |-> signal]

\* consumePreempt.
Effective(raw) ==
  IF preempt = "none" \/ ~raw.aborted THEN raw
  ELSE [ok |-> preempt = "drain", aborted |-> FALSE]

\* The finally of runOneAgentTurn puts what the loop left in the inbox into
\* the queue.  (Mutant: it is thrown away.)
WithLeftover_None(c) == core
WithLeftover(c) == FoldLeft(LAMBDA q, w : Enqueue(q, <<w>>), core, chain[c].pending)

\* notifyTurnEnd on the outcome: turn-end, and no error after a deliberate stop.
Ended(c, raw) ==
  LET out == Effective(raw)
      q == TurnEnd(WithLeftover(c), out.ok, out.aborted)
  IN  IF preempt = "stop" /\ raw.aborted THEN NoError(q) ELSE q

\* The rest of the chain after notifyTurnEnd found nothing to drain: the
\* finally releases the composer.  (Mutant: only after a success.)
Released_OnSuccess(ok) == IF ok THEN FALSE ELSE busy
Released(ok) == FALSE

\* runAgentChat settles: the end of runOneAgentTurn, notifyTurnEnd, and the
\* cascade up to the next await or the end of the chain.
TurnReturns(c) ==
  /\ chain[c].at = "agent"
  /\ \E raw \in {Returned(c), Threw} :
       LET out == Effective(raw)
           q == Ended(c, raw)
       IN  IF ShouldDrain(q, out.ok /\ ~out.aborted)
           THEN /\ core' = Dequeue(TurnStart(q))
                /\ chain' = [chain EXCEPT ![c] = [Idle EXCEPT !.at = "opening", !.req = Head(q.queue)]]
                /\ started' = started \o Head(q.queue)
                /\ UNCHANGED busy
           ELSE /\ core' = q
                /\ chain' = [chain EXCEPT ![c] = Idle]
                /\ busy' = Released(out.ok)
                /\ UNCHANGED started
  /\ preempt' = "none"
  /\ activeAbort' = 0
  /\ signal' = FALSE
  /\ stopping' = FALSE
  /\ kept' = {}
  /\ inbox' = IF inbox = chain[c].epoch THEN 0 ELSE inbox
  /\ queued' = queued \o chain[c].pending
  /\ UNCHANGED <<turnEpoch, forcedEpoch, bounds, disturbed>>

\* runDrainedQueueTurn has read the attachments.
OpenDrained(c) ==
  /\ chain[c].at = "opening"
  /\ BeginTurn(c, chain[c].req)
  /\ UNCHANGED <<binding, busy, history, bounds>>

\* A slash or shell command: busy stays false and keys go on arriving.
CommandBegins(c) ==
  /\ ~busy /\ Off(c)
  /\ bounds.commands < MaxCommands
  /\ bounds' = [bounds EXCEPT !.commands = @ + 1]
  /\ core' = Recovered(core)
  /\ chain' = [chain EXCEPT ![c] = [Idle EXCEPT !.at = "command"]]
  /\ UNCHANGED <<preempt, turn, busy, history>>

\* Its finally clears busy, whoever set it.
CommandEnds(c) ==
  /\ chain[c].at = "command"
  /\ chain' = [chain EXCEPT ![c] = Idle]
  /\ busy' = FALSE
  /\ disturbed' = (disturbed \/ busy)
  /\ UNCHANGED <<binding, turn, bounds, queued, started, kept>>

\* /learn is a command whose action is a chat turn.
LearnTurn(c, x) ==
  /\ chain[c].at = "command"
  /\ core' = TurnStart(core)
  /\ BeginTurn(c, <<x>>)
  /\ started' = Append(started, x)
  /\ disturbed' = TRUE
  /\ UNCHANGED <<preempt, busy, bounds, queued, kept>>

Key ==
  \/ \E x \in NextLine : EnqueueWhileBusy(x)
  \/ EnterWhileBusy \/ FlushWhileBusy \/ StopTurn \/ ForceStop
  \/ \E c \in Chain :
       \/ EnterWhileIdle(c) \/ FlushWhileIdle(c) \/ CommandBegins(c)
       \/ \E x \in NextLine : Submit(c, x)

Background == \E w \in Wake : WakeArrives(w) \/ \E c \in Chain : WakeRuns(c, w)

Continues(c) ==
  \/ BeginDirect(c) \/ OpenDrained(c) \/ DrainInjections(c) \/ TurnReturns(c) \/ CommandEnds(c)
  \/ \E x \in NextLine : LearnTurn(c, x)

Next == Key \/ Background \/ \E c \in Chain : Continues(c)

\* Every turn comes to an end (requests time out, aborts are heeded) and the
\* runtime runs what is due; the user and the wakes may stay away.
Fairness ==
  \A c \in Chain :
    WF_vars(BeginDirect(c)) /\ WF_vars(OpenDrained(c)) /\ WF_vars(TurnReturns(c))

Spec == Init /\ [][Next]_vars /\ Fairness

-----------------------------------------------------------------------------

InTurn(c) == chain[c].at \in {"opening", "agent"}
Live(c) == InTurn(c) \/ chain[c].at = "submitted"
Surviving == ToSet(started) \cup InInbox \cup InQueue

\* No second turn races the one in flight: what the composer promises where it
\* gates submission on busy.
OneTurnAtATime == \A c, d \in Chain : Live(c) /\ Live(d) => c = d

\* As long as neither a forced stop nor a command has cut into a turn, there
\* is one turn at a time, the queue says running exactly during a turn, and the
\* composer is busy exactly while a chain is under way: a lost notification
\* would leave every later line in a queue that nobody drains.
TurnsAreAccountedFor ==
  disturbed \/
    /\ OneTurnAtATime
    /\ core.running <=> \E c \in Chain : InTurn(c)
    /\ busy <=> \E c \in Chain : Live(c)

\* Whatever was in the queue when the user stopped a turn is still there, or
\* has been given to the agent: Esc stops the reply, not the follow-ups.
StopKeepsQueue == [][disturbed' \/ (kept \subseteq Surviving')]_vars

\* No input is given to the agent twice, or waits again after it was: a
\* drained head is consumed, whatever becomes of its turn.
NothingTwice ==
  LET everywhere == started \o FlattenSeq(core.queue)
  IN  /\ IsInjective(everywhere)
      /\ ToSet(everywhere) \cap InInbox = {}

\* Inputs leave the queue in the order they entered it, through merges,
\* aborts, manual drains and turns that overlap.
QueueOrder ==
  \A i, j \in DOMAIN started, a, b \in DOMAIN queued :
    started[i] = queued[a] /\ started[j] = queued[b] => (i <= j <=> a <= b)

\* A chain that gives the composer back leaves a queue behind only after a
\* failed or a stopped turn: after a clean end everything is drained.
CleanEndDrains ==
  [][(busy /\ ~busy' /\ core'.queue # <<>> /\ ~disturbed')
       => (core'.error \/ preempt = "stop")]_vars

\* The queue does not stay in running for ever: the turn in flight is always
\* followed by a turn-end.
QueueNotStuck == core.running ~> ~core.running

\* What waits in the queue or in the inbox of a turn disappears only when the
\* user aborts the turn: a turn that ends by itself, well or badly, hands on
\* whatever it did not get to.
OnlyAbortLoses == [][disturbed' \/ signal \/ (Surviving \subseteq Surviving')]_vars

=============================================================================
