------------------------ MODULE TuiChatQueue_proofs ------------------------
(***************************************************************************)
(* What is proved of the terminal's chat queue, for every number of        *)
(* chains, lines, wakes, commands and forced stops:                        *)
(*                                                                         *)
(*  - TurnsAreAccountedFor, inductive by itself once the state has its     *)
(*    shape (Inv);                                                         *)
(*  - NothingTwice and QueueOrder, from FlowInv: what was given to the     *)
(*    agent, followed by what waits in the queue, holds nothing twice and  *)
(*    is in the order of the queue, and every turn has its own number;     *)
(*  - StopKeepsQueue and OnlyAbortLoses, which need Heeds as well: a stop  *)
(*    stays armed until its turn has ended;                                *)
(*  - CleanEndDrains, of every step by itself.                             *)
(*                                                                         *)
(* The sections between are facts about FlattenSeq and FoldLeft, by        *)
(* induction on the length, and about order in concatenations.             *)
(***************************************************************************)
EXTENDS TuiChatQueue, SequenceTheorems, WellFoundedInduction, TLAPS

Stage == {"off", "submitted", "opening", "agent", "command"}

\* The parts of the state the argument is about have their shape; what the
\* queue, the requests and the inboxes hold does not matter to it.
QueueShape(q) == q \in [running : BOOLEAN, queue : {q.queue}, error : {q.error}]
ChainShape(r) == r \in [at : Stage, req : {r.req}, epoch : {r.epoch}, pending : {r.pending}]
Shape ==
  /\ QueueShape(core)
  /\ DOMAIN chain = Chain /\ chain = [c \in Chain |-> chain[c]]
  /\ \A c \in Chain : ChainShape(chain[c])
  /\ busy \in BOOLEAN /\ disturbed \in BOOLEAN

\* What the events of the queue do to running.
LEMMA QueueEvents ==
  ASSUME NEW q, QueueShape(q), NEW r
  PROVE  /\ QueueShape(TurnStart(q)) /\ TurnStart(q).running = TRUE
         /\ QueueShape(Enqueue(q, r)) /\ Enqueue(q, r).running = q.running
         /\ QueueShape(Dequeue(q)) /\ Dequeue(q).running = q.running
         /\ QueueShape(Clear(q)) /\ Clear(q).running = q.running
         /\ QueueShape(NoError(q)) /\ NoError(q).running = q.running
         /\ QueueShape(Recovered(q)) /\ Recovered(q).running = FALSE
<1>1. QueueShape(TurnStart(q)) /\ TurnStart(q).running = TRUE
  BY DEF QueueShape, TurnStart
<1>2. QueueShape(Enqueue(q, r)) /\ Enqueue(q, r).running = q.running
  BY DEF QueueShape, Enqueue
<1>3. QueueShape(Dequeue(q)) /\ Dequeue(q).running = q.running
  BY DEF QueueShape, Dequeue
<1>4. QueueShape(Clear(q)) /\ Clear(q).running = q.running
  BY DEF QueueShape, Clear
<1>5. QueueShape(NoError(q)) /\ NoError(q).running = q.running
  BY DEF QueueShape, NoError
<1>6. QueueShape(Recovered(q)) /\ Recovered(q).running = FALSE
  BY DEF QueueShape, Recovered, TurnEnd
<1> QED BY <1>1, <1>2, <1>3, <1>4, <1>5, <1>6

\* Merging the queue into one request does not touch running.
LEMMA FlushedShape ==
  ASSUME NEW q, QueueShape(q), NEW draft
  PROVE  QueueShape(Flushed(q, draft)) /\ Flushed(q, draft).running = q.running
<1> DEFINE p == Clear(q)
           m == draft \o FlattenSeq(q.queue)
<1>1. QueueShape(p) /\ p.running = q.running
  BY QueueEvents
<1>2. Flushed(q, draft) = Enqueue(p, m)
  BY DEF Flushed
<1> HIDE DEF p, m
<1>3. QueueShape(Enqueue(p, m)) /\ Enqueue(p, m).running = p.running
  BY <1>1, QueueEvents
<1> QED BY <1>1, <1>2, <1>3

\* A turn-end leaves running, whatever the queue was before.
LEMMA TurnEndStops ==
  ASSUME NEW q, NEW ok, NEW aborted
  PROVE  QueueShape(TurnEnd(q, ok, aborted)) /\ TurnEnd(q, ok, aborted).running = FALSE
BY DEF QueueShape, TurnEnd

-----------------------------------------------------------------------------

Account ==
  /\ OneTurnAtATime
  /\ core.running <=> \E c \in Chain : InTurn(c)
  /\ busy <=> \E c \in Chain : Live(c)

\* The inductive invariant: the property is inductive by itself once the
\* state has its shape.
Inv == Shape /\ (disturbed \/ Account)

\* The invariant holds when the workspace starts.
LEMMA InitInv == Init => Inv
<1> SUFFICES ASSUME Init PROVE Inv
  OBVIOUS
<1>1. Shape
  BY DEF Init, Shape, QueueShape, ChainShape, EmptyQueue, Idle, Stage
<1>2. Account
  BY DEF Init, Account, OneTurnAtATime, InTurn, Live, EmptyQueue, Idle
<1> QED BY <1>1, <1>2 DEF Inv

\* A new record in the place of one chain.
LEMMA ChainUpdate ==
  ASSUME Shape, NEW c \in Chain, NEW r, ChainShape(r), chain' = [chain EXCEPT ![c] = r]
  PROVE  /\ DOMAIN chain' = Chain /\ chain' = [d \in Chain |-> chain'[d]]
         /\ \A d \in Chain : ChainShape(chain'[d])
         /\ chain'[c] = r
         /\ \A d \in Chain : d # c => chain'[d] = chain[d]
BY DEF Shape

\* Records as the actions build them.
LEMMA IdleShape ==
  ASSUME NEW s \in Stage, NEW request
  PROVE  /\ ChainShape([Idle EXCEPT !.at = s, !.req = request])
         /\ [Idle EXCEPT !.at = s, !.req = request].at = s
         /\ ChainShape([Idle EXCEPT !.at = s])
         /\ [Idle EXCEPT !.at = s].at = s
         /\ ChainShape(Idle) /\ Idle.at = "off"
BY DEF Idle, ChainShape, Stage

\* What runOneAgentTurn does to the chains when it begins a turn: one of them
\* is with the agent, the others stay where they are.
LEMMA BeginTurnChain ==
  ASSUME Shape, NEW c \in Chain, NEW request, BeginTurn(c, request)
  PROVE  /\ DOMAIN chain' = Chain /\ chain' = [d \in Chain |-> chain'[d]]
         /\ \A d \in Chain : ChainShape(chain'[d])
         /\ chain'[c].at = "agent"
         /\ \A d \in Chain : d # c => chain'[d] = chain[d]
<1> DEFINE r == [at |-> "agent", req |-> request, epoch |-> turnEpoch + 1, pending |-> <<>>]
<1>1. ChainShape(r) /\ r.at = "agent"
  BY DEF ChainShape, Stage
<1>2. chain' = [chain EXCEPT ![c] = r]
  BY DEF BeginTurn, InFlight
<1> HIDE DEF r
<1> QED BY <1>1, <1>2, ChainUpdate

-----------------------------------------------------------------------------

\* One lemma for every action; most follow from what it does to one chain, to
\* running and to busy.
LEMMA SubmitInv == ASSUME Inv, NEW c \in Chain, NEW x, Submit(c, x) PROVE Inv'
<1> DEFINE r == [Idle EXCEPT !.at = "submitted", !.req = <<x>>]
<1>1. ChainShape(r) /\ r.at = "submitted"
  BY IdleShape DEF Stage
<1>2. chain' = [chain EXCEPT ![c] = r] /\ core' = Recovered(core) /\ busy' = TRUE /\ ~busy
      /\ disturbed' = disturbed
  BY DEF Submit
<1> HIDE DEF r
<1>3. Shape /\ QueueShape(core)
  BY DEF Inv, Shape
<1>4. QueueShape(core') /\ core'.running = FALSE
  BY <1>2, <1>3, QueueEvents
<1>5. /\ DOMAIN chain' = Chain /\ chain' = [d \in Chain |-> chain'[d]]
      /\ \A d \in Chain : ChainShape(chain'[d])
      /\ chain'[c] = r /\ \A d \in Chain : d # c => chain'[d] = chain[d]
  BY <1>1, <1>2, <1>3, ChainUpdate
<1>6. Shape'
  BY <1>2, <1>3, <1>4, <1>5 DEF Shape
<1>7. ASSUME ~disturbed PROVE Account'
  <2>1. \A d \in Chain : ~Live(d)
    BY <1>2, <1>7 DEF Inv, Account
  <2>2. \A d \in Chain : ~InTurn(d)'  /\ (Live(d)' <=> d = c)
    BY <1>1, <1>5, <2>1 DEF Live, InTurn
  <2> QED BY <1>2, <1>4, <2>2 DEF Account, OneTurnAtATime
<1> QED BY <1>2, <1>6, <1>7, <1>3 DEF Inv, Shape

\* The submitted line becomes the turn: its chain was the only one.
LEMMA BeginDirectInv == ASSUME Inv, NEW c \in Chain, BeginDirect(c) PROVE Inv'
<1>1. Shape /\ QueueShape(core)
  BY DEF Inv, Shape
<1>2. core' = TurnStart(core) /\ busy' = busy /\ disturbed' = disturbed
      /\ chain[c].at = "submitted" /\ BeginTurn(c, chain[c].req)
  BY DEF BeginDirect, history
<1>3. QueueShape(core') /\ core'.running = TRUE
  BY <1>1, <1>2, QueueEvents
<1>4. /\ DOMAIN chain' = Chain /\ chain' = [d \in Chain |-> chain'[d]]
      /\ \A d \in Chain : ChainShape(chain'[d])
      /\ chain'[c].at = "agent" /\ \A d \in Chain : d # c => chain'[d] = chain[d]
  BY <1>1, <1>2, BeginTurnChain
<1>5. Shape'
  BY <1>1, <1>2, <1>3, <1>4 DEF Shape
<1>6. ASSUME ~disturbed PROVE Account'
  <2>1. Account /\ Live(c)
    BY <1>2, <1>6 DEF Inv, Live
  <2>2. \A d \in Chain : Live(d) <=> d = c
    BY <2>1 DEF Account, OneTurnAtATime
  <2>3. InTurn(c)' /\ \A d \in Chain : Live(d)' <=> d = c
    BY <1>4, <2>2 DEF Live, InTurn
  <2> QED BY <1>2, <1>3, <2>1, <2>2, <2>3 DEF Account, OneTurnAtATime
<1> QED BY <1>1, <1>2, <1>5, <1>6 DEF Inv, Shape

\* A step that leaves running, busy and every chain's stage alone.
LEMMA NothingMoves ==
  ASSUME Inv, QueueShape(core'), core'.running = core.running, busy' = busy,
         disturbed' = disturbed, DOMAIN chain' = Chain, chain' = [d \in Chain |-> chain'[d]],
         \A d \in Chain : ChainShape(chain'[d]) /\ chain'[d].at = chain[d].at
  PROVE  Inv'
BY DEF Inv, Shape, Account, OneTurnAtATime, InTurn, Live

\* What the keys do while the composer is busy stays inside the queue.
LEMMA ComposerInv ==
  ASSUME Inv, \/ EnterWhileBusy \/ FlushWhileBusy \/ StopTurn
              \/ \E x \in NextLine : EnqueueWhileBusy(x)
  PROVE  Inv'
<1>1. Shape /\ QueueShape(core)
  BY DEF Inv, Shape
<1>2. chain' = chain /\ busy' = busy /\ disturbed' = disturbed
  BY DEF EnterWhileBusy, FlushWhileBusy, StopTurn, EnqueueWhileBusy, history, turn
<1>3. QueueShape(core') /\ core'.running = core.running
  <2>1. CASE EnterWhileBusy \/ StopTurn
    BY <1>1, <2>1 DEF EnterWhileBusy, StopTurn
  <2>2. CASE FlushWhileBusy
    BY <1>1, <2>2, FlushedShape DEF FlushWhileBusy
  <2>3. ASSUME NEW x \in NextLine, EnqueueWhileBusy(x) PROVE QueueShape(core') /\ core'.running = core.running
    BY <1>1, <2>3, QueueEvents DEF EnqueueWhileBusy
  <2> QED BY <2>1, <2>2, <2>3
<1> QED BY <1>1, <1>2, <1>3, NothingMoves DEF Shape

\* A wake goes to an inbox or to the queue, and no turn begins or ends.
LEMMA WakeArrivesInv == ASSUME Inv, NEW w, WakeArrives(w) PROVE Inv'
<1>1. Shape /\ QueueShape(core)
  BY DEF Inv, Shape
<1>2. busy' = busy /\ disturbed' = disturbed
  BY DEF WakeArrives
<1>3. CASE inbox # 0
  <2>1. core' = core
    BY <1>3 DEF WakeArrives
  <2>2. \A d \in Chain : chain'[d] = chain[d] \/ chain'[d] = [chain[d] EXCEPT !.pending = Append(@, w)]
    BY <1>3 DEF WakeArrives, Pushed
  <2>3. DOMAIN chain' = Chain /\ chain' = [d \in Chain |-> chain'[d]]
    BY <1>3 DEF WakeArrives
  <2>4. \A d \in Chain : ChainShape(chain'[d]) /\ chain'[d].at = chain[d].at
    BY <1>1, <2>2 DEF Shape, ChainShape
  <2> QED BY <1>1, <1>2, <2>1, <2>3, <2>4, NothingMoves
<1>4. CASE inbox = 0
  <2>1. core' = Enqueue(core, <<w>>) /\ chain' = chain
    BY <1>4 DEF WakeArrives
  <2>2. QueueShape(core') /\ core'.running = core.running
    BY <1>1, <2>1, QueueEvents
  <2> QED BY <1>1, <1>2, <2>1, <2>2, NothingMoves DEF Shape
<1> QED BY <1>3, <1>4

\* The loop takes its inbox over within the turn.
LEMMA DrainInjectionsInv == ASSUME Inv, NEW c \in Chain, DrainInjections(c) PROVE Inv'
<1> DEFINE r == [chain[c] EXCEPT !.pending = <<>>]
<1>1. Shape /\ QueueShape(core)
  BY DEF Inv, Shape
<1>2. ChainShape(r) /\ r.at = chain[c].at
  BY <1>1 DEF Shape, ChainShape
<1>3. chain' = [chain EXCEPT ![c] = r] /\ core' = core /\ busy' = busy /\ disturbed' = disturbed
  BY DEF DrainInjections, Drained, binding
<1> HIDE DEF r
<1>4. /\ DOMAIN chain' = Chain /\ chain' = [d \in Chain |-> chain'[d]]
      /\ \A d \in Chain : ChainShape(chain'[d])
      /\ chain'[c] = r /\ \A d \in Chain : d # c => chain'[d] = chain[d]
  BY <1>1, <1>2, <1>3, ChainUpdate
<1> QED BY <1>1, <1>2, <1>3, <1>4, NothingMoves

\* A turn that begins on an idle composer is the only one.
LEMMA TurnBegins ==
  ASSUME Inv, NEW c \in Chain, NEW request, ~busy, BeginTurn(c, request),
         QueueShape(core'), core'.running = TRUE, busy' = TRUE, disturbed' = disturbed
  PROVE  Inv'
<1>1. Shape
  BY DEF Inv
<1>2. /\ DOMAIN chain' = Chain /\ chain' = [d \in Chain |-> chain'[d]]
      /\ \A d \in Chain : ChainShape(chain'[d])
      /\ chain'[c].at = "agent" /\ \A d \in Chain : d # c => chain'[d] = chain[d]
  BY <1>1, BeginTurnChain
<1>3. Shape'
  BY <1>1, <1>2 DEF Shape
<1>4. ASSUME ~disturbed PROVE Account'
  <2>1. \A d \in Chain : ~Live(d)
    BY <1>4 DEF Inv, Account
  <2>2. InTurn(c)' /\ \A d \in Chain : Live(d)' <=> d = c
    BY <1>2, <2>1 DEF Live, InTurn
  <2> QED BY <2>2 DEF Account, OneTurnAtATime, Live
<1> QED BY <1>1, <1>3, <1>4 DEF Inv, Shape

\* A wake on an idle composer begins a turn.
LEMMA WakeRunsInv == ASSUME Inv, NEW c \in Chain, NEW w, WakeRuns(c, w) PROVE Inv'
<1>1. QueueShape(core)
  BY DEF Inv, Shape
<1>2. ~busy /\ BeginTurn(c, <<w>>) /\ core' = TurnStart(core) /\ busy' = TRUE /\ disturbed' = disturbed
  BY DEF WakeRuns
<1>3. QueueShape(core') /\ core'.running = TRUE
  BY <1>1, <1>2, QueueEvents
<1> QED BY <1>2, <1>3, TurnBegins

\* The manual drain of a queue that is as running as the core is.
LEMMA ManualDrainInv ==
  ASSUME Inv, NEW c \in Chain, NEW q, QueueShape(q), q.running = core.running, ~busy,
         disturbed' = disturbed, ManualDrain(c, q)
  PROVE  Inv'
<1>1. Shape
  BY DEF Inv
<1>2. CASE q.running
  <2>1. disturbed
    BY <1>2 DEF Inv, Account, InTurn, Live
  <2>2. core' = Recovered(q) /\ busy' = busy /\ chain' = chain
    BY <1>2 DEF ManualDrain
  <2>3. QueueShape(core')
    BY <2>2, QueueEvents
  <2> QED BY <1>1, <2>1, <2>2, <2>3 DEF Inv, Shape
<1>3. CASE ~q.running
  <2>1. core' = Dequeue(TurnStart(q)) /\ busy' = TRUE /\ BeginTurn(c, Head(q.queue))
    BY <1>3 DEF ManualDrain
  <2>2. QueueShape(TurnStart(q)) /\ TurnStart(q).running = TRUE
    BY QueueEvents
  <2>3. QueueShape(core') /\ core'.running = TRUE
    BY <2>1, <2>2, QueueEvents
  <2> QED BY <2>1, <2>3, TurnBegins
<1> QED BY <1>2, <1>3

\* Enter and Ctrl+S on an idle composer.
LEMMA IdleKeysInv ==
  ASSUME Inv, NEW c \in Chain, EnterWhileIdle(c) \/ FlushWhileIdle(c)
  PROVE  Inv'
<1>1. QueueShape(core)
  BY DEF Inv, Shape
<1>2. ~busy /\ disturbed' = disturbed
  BY DEF EnterWhileIdle, FlushWhileIdle
<1>3. CASE EnterWhileIdle(c)
  BY <1>1, <1>2, <1>3, ManualDrainInv DEF EnterWhileIdle
<1>4. CASE FlushWhileIdle(c)
  <2>1. PICK draft \in {<<>>} \cup {<<x>> : x \in NextLine} : ManualDrain(c, Flushed(core, draft))
    BY <1>4 DEF FlushWhileIdle
  <2>2. QueueShape(Flushed(core, draft)) /\ Flushed(core, draft).running = core.running
    BY <1>1, FlushedShape
  <2> QED BY <1>2, <2>1, <2>2, ManualDrainInv
<1> QED BY <1>3, <1>4

\* The drained head goes on to the agent: the same chain, still in its turn.
LEMMA OpenDrainedInv == ASSUME Inv, NEW c \in Chain, OpenDrained(c) PROVE Inv'
<1>1. Shape
  BY DEF Inv
<1>2. core' = core /\ busy' = busy /\ disturbed' = disturbed
      /\ chain[c].at = "opening" /\ BeginTurn(c, chain[c].req)
  BY DEF OpenDrained, binding, history
<1>3. /\ DOMAIN chain' = Chain /\ chain' = [d \in Chain |-> chain'[d]]
      /\ \A d \in Chain : ChainShape(chain'[d])
      /\ chain'[c].at = "agent" /\ \A d \in Chain : d # c => chain'[d] = chain[d]
  BY <1>1, <1>2, BeginTurnChain
<1>4. Shape'
  BY <1>1, <1>2, <1>3 DEF Shape
<1>5. \A d \in Chain : (InTurn(d)' <=> InTurn(d)) /\ (Live(d)' <=> Live(d))
  BY <1>2, <1>3 DEF Live, InTurn
<1> QED BY <1>2, <1>4, <1>5 DEF Inv, Account, OneTurnAtATime

\* A command begins on an idle composer, where no chain is in a turn.
LEMMA CommandBeginsInv == ASSUME Inv, NEW c \in Chain, CommandBegins(c) PROVE Inv'
<1> DEFINE r == [Idle EXCEPT !.at = "command"]
<1>1. Shape /\ QueueShape(core)
  BY DEF Inv, Shape
<1>2. ChainShape(r) /\ r.at = "command"
  BY IdleShape DEF Stage
<1>3. /\ chain' = [chain EXCEPT ![c] = r] /\ core' = Recovered(core) /\ ~busy /\ busy' = busy
      /\ disturbed' = disturbed /\ chain[c].at = "off"
  BY DEF CommandBegins, history, Off
<1> HIDE DEF r
<1>4. /\ DOMAIN chain' = Chain /\ chain' = [d \in Chain |-> chain'[d]]
      /\ \A d \in Chain : ChainShape(chain'[d])
      /\ chain'[c] = r /\ \A d \in Chain : d # c => chain'[d] = chain[d]
  BY <1>1, <1>2, <1>3, ChainUpdate
<1>5. QueueShape(core') /\ core'.running = FALSE
  BY <1>1, <1>3, QueueEvents
<1>6. Shape'
  BY <1>1, <1>3, <1>4, <1>5 DEF Shape
<1>7. \A d \in Chain : (InTurn(d)' <=> InTurn(d)) /\ (Live(d)' <=> Live(d))
  BY <1>2, <1>3, <1>4 DEF Live, InTurn
<1> QED BY <1>3, <1>5, <1>6, <1>7 DEF Inv, Account, OneTurnAtATime, Live

\* A command that ends while the composer is busy has cut into a turn.
LEMMA CommandEndsInv == ASSUME Inv, NEW c \in Chain, CommandEnds(c) PROVE Inv'
<1>1. Shape /\ ChainShape(Idle) /\ Idle.at = "off"
  BY IdleShape DEF Inv, Stage
<1>2. /\ chain' = [chain EXCEPT ![c] = Idle] /\ core' = core /\ busy' = FALSE
      /\ disturbed' = (disturbed \/ busy) /\ chain[c].at = "command"
  BY DEF CommandEnds, binding
<1>3. /\ DOMAIN chain' = Chain /\ chain' = [d \in Chain |-> chain'[d]]
      /\ \A d \in Chain : ChainShape(chain'[d])
      /\ chain'[c] = Idle /\ \A d \in Chain : d # c => chain'[d] = chain[d]
  BY <1>1, <1>2, ChainUpdate
<1>4. (disturbed \/ busy) \in BOOLEAN
  BY <1>1 DEF Shape
<1>5. Shape'
  BY <1>1, <1>2, <1>3, <1>4 DEF Shape
<1>6. \A d \in Chain : (InTurn(d)' <=> InTurn(d)) /\ (Live(d)' <=> Live(d))
  BY <1>1, <1>2, <1>3 DEF Live, InTurn
<1>7. ASSUME ~disturbed, ~busy PROVE Account'
  BY <1>2, <1>6, <1>7 DEF Inv, Account, OneTurnAtATime
<1> QED BY <1>2, <1>5, <1>7 DEF Inv

\* A turn of /learn is a disturbance: the account is given up, the shape kept.
LEMMA LearnTurnInv == ASSUME Inv, NEW c \in Chain, NEW x, LearnTurn(c, x) PROVE Inv'
<1>1. Shape /\ QueueShape(core)
  BY DEF Inv, Shape
<1>2. core' = TurnStart(core) /\ BeginTurn(c, <<x>>) /\ busy' = busy /\ disturbed' = TRUE
  BY DEF LearnTurn
<1>3. QueueShape(core')
  BY <1>1, <1>2, QueueEvents
<1>4. /\ DOMAIN chain' = Chain /\ chain' = [d \in Chain |-> chain'[d]]
      /\ \A d \in Chain : ChainShape(chain'[d])
  BY <1>1, <1>2, BeginTurnChain
<1> QED BY <1>1, <1>2, <1>3, <1>4 DEF Inv, Shape

\* The outcome of notifyTurnEnd has left running, whatever came back from the
\* agent and whatever the inbox left over.
LEMMA EndedStops ==
  ASSUME NEW c, NEW raw
  PROVE  QueueShape(Ended(c, raw)) /\ Ended(c, raw).running = FALSE
<1> DEFINE q == TurnEnd(WithLeftover(c), Effective(raw).ok, Effective(raw).aborted)
<1>1. QueueShape(q) /\ q.running = FALSE
  BY TurnEndStops
<1>2. Ended(c, raw) = q \/ Ended(c, raw) = NoError(q)
  BY DEF Ended
<1> HIDE DEF q
<1>3. QueueShape(NoError(q)) /\ NoError(q).running = q.running
  BY <1>1, QueueEvents
<1> QED BY <1>1, <1>2, <1>3

\* A turn that returns was the only one: either it hands the head of the
\* queue on to its own chain, which says running again, or the chain is over
\* and the composer is free.
LEMMA TurnReturnsInv == ASSUME Inv, NEW c \in Chain, TurnReturns(c) PROVE Inv'
<1>1. Shape
  BY DEF Inv
<1>2. chain[c].at = "agent" /\ disturbed' = disturbed
  BY DEF TurnReturns
<1>3. PICK raw \in {Returned(c), Threw} :
        IF ShouldDrain(Ended(c, raw), Effective(raw).ok /\ ~Effective(raw).aborted)
        THEN /\ core' = Dequeue(TurnStart(Ended(c, raw)))
             /\ chain' = [chain EXCEPT ![c] =
                  [Idle EXCEPT !.at = "opening", !.req = Head(Ended(c, raw).queue)]]
             /\ busy' = busy
        ELSE /\ core' = Ended(c, raw)
             /\ chain' = [chain EXCEPT ![c] = Idle]
             /\ busy' = Released(Effective(raw).ok)
  BY DEF TurnReturns
<1> DEFINE q == Ended(c, raw)
           drains == ShouldDrain(q, Effective(raw).ok /\ ~Effective(raw).aborted)
           r == IF drains THEN [Idle EXCEPT !.at = "opening", !.req = Head(q.queue)] ELSE Idle
<1>4. QueueShape(q) /\ q.running = FALSE
  BY EndedStops
<1>5. /\ drains => core' = Dequeue(TurnStart(q)) /\ busy' = busy
      /\ ~drains => core' = q /\ busy' = FALSE
      /\ chain' = [chain EXCEPT ![c] = r]
  BY <1>3 DEF Released
<1>6. ChainShape(r) /\ (drains => r.at = "opening") /\ (~drains => r.at = "off")
  BY IdleShape DEF Stage
<1> HIDE DEF q, drains, r
<1>7. QueueShape(core') /\ (drains <=> core'.running)
  <2>1. QueueShape(TurnStart(q)) /\ TurnStart(q).running = TRUE
    BY <1>4, QueueEvents
  <2>2. QueueShape(Dequeue(TurnStart(q))) /\ Dequeue(TurnStart(q)).running = TRUE
    BY <2>1, QueueEvents
  <2> QED BY <1>4, <1>5, <2>2
<1>8. /\ DOMAIN chain' = Chain /\ chain' = [d \in Chain |-> chain'[d]]
      /\ \A d \in Chain : ChainShape(chain'[d])
      /\ chain'[c] = r /\ \A d \in Chain : d # c => chain'[d] = chain[d]
  BY <1>1, <1>5, <1>6, ChainUpdate
<1>9. Shape'
  <2>1. busy' \in BOOLEAN
    BY <1>1, <1>5 DEF Shape
  <2> QED BY <1>1, <1>2, <1>7, <1>8, <2>1 DEF Shape
<1>10. ASSUME ~disturbed PROVE Account'
  <2>1. Account /\ Live(c) /\ busy
    BY <1>2, <1>10 DEF Inv, Account, Live, InTurn
  <2>2. \A d \in Chain : d # c => ~Live(d)
    BY <2>1 DEF Account, OneTurnAtATime
  <2>3. \A d \in Chain : d # c => ~Live(d)' /\ ~InTurn(d)'
    BY <1>8, <2>2 DEF Live, InTurn
  <2>4. (Live(c)' <=> drains) /\ (InTurn(c)' <=> drains)
    BY <1>6, <1>8 DEF Live, InTurn
  <2>5. busy' <=> drains
    BY <1>5, <2>1
  <2> QED BY <1>7, <2>3, <2>4, <2>5 DEF Account, OneTurnAtATime
<1> QED BY <1>2, <1>9, <1>10 DEF Inv

-----------------------------------------------------------------------------

\* Every step keeps the invariant.
LEMMA NextInv == Inv /\ [Next]_vars => Inv'
<1> SUFFICES ASSUME Inv, [Next]_vars PROVE Inv'
  OBVIOUS
<1>1. CASE Key
  <2>1. CASE EnterWhileBusy \/ FlushWhileBusy \/ StopTurn \/ \E x \in NextLine : EnqueueWhileBusy(x)
    BY <2>1, ComposerInv
  <2>2. CASE ForceStop
    <3>1. core' = core /\ chain' = chain /\ busy' = FALSE /\ disturbed' = TRUE
      BY <2>2 DEF ForceStop, binding
    <3> QED BY <3>1 DEF Inv, Shape
  <2>3. ASSUME NEW c \in Chain, EnterWhileIdle(c) \/ FlushWhileIdle(c) PROVE Inv'
    BY <2>3, IdleKeysInv
  <2>4. ASSUME NEW c \in Chain, CommandBegins(c) PROVE Inv'
    BY <2>4, CommandBeginsInv
  <2>5. ASSUME NEW c \in Chain, NEW x \in NextLine, Submit(c, x) PROVE Inv'
    BY <2>5, SubmitInv
  <2> QED BY <1>1, <2>1, <2>2, <2>3, <2>4, <2>5 DEF Key
<1>2. CASE Background
  <2>1. ASSUME NEW w \in Wake, WakeArrives(w) PROVE Inv'
    BY <2>1, WakeArrivesInv
  <2>2. ASSUME NEW w \in Wake, NEW c \in Chain, WakeRuns(c, w) PROVE Inv'
    BY <2>2, WakeRunsInv
  <2> QED BY <1>2, <2>1, <2>2 DEF Background
<1>3. ASSUME NEW c \in Chain, Continues(c) PROVE Inv'
  <2>1. CASE BeginDirect(c)
    BY <2>1, BeginDirectInv
  <2>2. CASE OpenDrained(c)
    BY <2>2, OpenDrainedInv
  <2>3. CASE DrainInjections(c)
    BY <2>3, DrainInjectionsInv
  <2>4. CASE TurnReturns(c)
    BY <2>4, TurnReturnsInv
  <2>5. CASE CommandEnds(c)
    BY <2>5, CommandEndsInv
  <2>6. ASSUME NEW x \in NextLine, LearnTurn(c, x) PROVE Inv'
    BY <2>6, LearnTurnInv
  <2> QED BY <1>3, <2>1, <2>2, <2>3, <2>4, <2>5, <2>6 DEF Continues
<1>4. CASE UNCHANGED vars
  <2>1. core' = core /\ chain' = chain /\ busy' = busy /\ disturbed' = disturbed
    BY <1>4 DEF vars, binding, history
  <2> QED BY <2>1 DEF Inv, Shape, Account, OneTurnAtATime, InTurn, Live, QueueShape
<1> QED BY <1>1, <1>2, <1>3, <1>4 DEF Next

\* As long as no command and no forced stop has cut into a turn: one turn at a
\* time, the queue says running exactly during it, and the composer is busy
\* exactly while a chain is under way.  For every number of chains, lines,
\* wakes, commands and forced stops.
THEOREM TurnsAccountedFor == Spec => []TurnsAreAccountedFor
<1>1. Inv => TurnsAreAccountedFor
  BY DEF Inv, Account, TurnsAreAccountedFor
<1> QED BY InitInv, NextInv, <1>1, PTL DEF Spec

-----------------------------------------------------------------------------

\* Induction, as a fact about sets of numbers.
LEMMA Climb ==
  ASSUME NEW T, T \subseteq Nat, 0 \in T, \A n \in T : n + 1 \in T
  PROVE  T = Nat
<1> SUFFICES ASSUME Nat \ T # {} PROVE FALSE
  OBVIOUS
<1> DEFINE D == Nat \ T
<1>1. D \subseteq Nat /\ D # {}
  OBVIOUS
<1> HIDE DEF D
<1>2. PICK x \in D : \A y \in D : ~ (<<y, x>> \in OpToRel(<, Nat))
  BY <1>1, WFMin, NatLessThanWellFounded
<1>3. x \in Nat /\ x \notin T /\ x # 0
  BY <1>2 DEF D
<1>4. <<x - 1, x>> \in OpToRel(<, Nat) /\ x - 1 \in Nat
  BY <1>3 DEF OpToRel
<1>5. x - 1 \in T
  BY <1>2, <1>4 DEF D
<1>6. (x - 1) + 1 \in T /\ (x - 1) + 1 = x
  BY <1>3, <1>5
<1> QED BY <1>3, <1>6

\* Concatenation is associative.
LEMMA Regroup ==
  ASSUME NEW S, NEW a \in Seq(S), NEW b \in Seq(S), NEW c \in Seq(S)
  PROVE  (a \o b) \o c = a \o (b \o c)
OBVIOUS

\* A sequence of one.
LEMMA OnlyElement ==
  ASSUME NEW S, NEW s \in Seq(S), Len(s) = 1
  PROVE  Head(s) \in S /\ Tail(s) = <<>> /\ s = Append(<<>>, Head(s))
<1>1. s # <<>> /\ s[1] = Head(s) /\ Head(s) \in S
  OBVIOUS
<1>2. Tail(s) \in Seq(S) /\ Len(Tail(s)) = 0
  BY <1>1, HeadTailProperties
<1>3. Tail(s) = <<>>
  BY <1>2, EmptySeq
<1>4. s = Append(<<>>, Head(s))
  BY <1>1
<1> QED BY <1>1, <1>3, <1>4

\* The function by which FlattenSeq is defined.
Flattens(f, s, n) == f = [i \in 1 .. n |-> IF i = 1 THEN s[i] ELSE f[i-1] \o s[i]]

\* One step of that recursion.
LEMMA FlattensStep ==
  ASSUME NEW f, NEW s, NEW n, Flattens(f, s, n), NEW i \in 1 .. n
  PROVE  f[i] = IF i = 1 THEN s[i] ELSE f[i-1] \o s[i]
BY Zenon DEF Flattens

\* Such a function exists for every length.
LEMMA FlattensExists ==
  ASSUME NEW s, NEW k \in Nat
  PROVE  \E f : Flattens(f, s, k)
<1> DEFINE T == {n \in Nat : \E f : Flattens(f, s, n)}
<1>1. 0 \in T
  <2>1. <<>> = [i \in 1 .. 0 |-> IF i = 1 THEN s[i] ELSE <<>>[i-1] \o s[i]]
    OBVIOUS
  <2> QED BY <2>1 DEF Flattens
<1>2. ASSUME NEW n \in T PROVE n + 1 \in T
  <2>1. PICK f : Flattens(f, s, n)
    BY <1>2
  <2> DEFINE last == IF n = 0 THEN s[1] ELSE f[n] \o s[n + 1]
             g == [i \in 1 .. n + 1 |-> IF i = n + 1 THEN last ELSE f[i]]
  <2>2. ASSUME NEW i \in 1 .. n + 1 PROVE g[i] = IF i = 1 THEN s[i] ELSE g[i-1] \o s[i]
    <3>1. CASE i = n + 1
      BY <3>1
    <3>2. CASE i # n + 1
      <4>1. i \in 1 .. n /\ g[i] = f[i]
        BY <3>2
      <4>2. i # 1 => i - 1 \in 1 .. n /\ g[i-1] = f[i-1]
        BY <4>1
      <4> HIDE DEF g
      <4> QED BY <2>1, <4>1, <4>2, FlattensStep
    <3> QED BY <3>1, <3>2
  <2> HIDE DEF last
  <2>3. g = [i \in 1 .. n + 1 |-> IF i = 1 THEN s[i] ELSE g[i-1] \o s[i]]
    BY <2>2
  <2> HIDE DEF g
  <2>4. Flattens(g, s, n + 1)
    BY <2>3, Zenon DEF Flattens
  <2>5. n + 1 \in Nat
    OBVIOUS
  <2> QED BY <2>4, <2>5
<1>3. T \subseteq Nat
  OBVIOUS
<1> HIDE DEF T
<1>4. T = Nat
  BY <1>1, <1>2, <1>3, Climb
<1> QED BY <1>4 DEF T

\* Two such functions agree where both are defined.
LEMMA FlattensAgree ==
  ASSUME NEW s, NEW t, NEW f, NEW g, NEW k \in Nat, NEW m \in Nat, k <= m,
         Flattens(f, s, k), Flattens(g, t, m), \A i \in 1 .. k : s[i] = t[i],
         NEW j \in 1 .. k
  PROVE  f[j] = g[j]
<1> DEFINE T == {n \in Nat : n + 1 <= k => f[n + 1] = g[n + 1]}
<1>0. /\ \A i \in 1 .. k : f[i] = IF i = 1 THEN s[i] ELSE f[i-1] \o s[i]
      /\ \A i \in 1 .. m : g[i] = IF i = 1 THEN t[i] ELSE g[i-1] \o t[i]
  BY FlattensStep
<1>1. 0 \in T
  <2>1. ASSUME 1 <= k PROVE 1 \in 1 .. k /\ 1 \in 1 .. m
    BY <2>1
  <2>2. ASSUME 1 <= k PROVE f[1] = g[1]
    BY <1>0, <2>1, <2>2
  <2> QED BY <2>2
<1>2. ASSUME NEW n \in T PROVE n + 1 \in T
  <2> DEFINE i == n + 1 + 1
  <2>1. ASSUME i <= k PROVE f[i] = g[i]
    <3>1. f[i - 1] = g[i - 1] /\ i \in 1 .. k /\ i \in 1 .. m /\ i # 1
      BY <2>1
    <3> HIDE DEF i
    <3>2. f[i] = f[i-1] \o s[i] /\ g[i] = g[i-1] \o t[i] /\ s[i] = t[i]
      BY <3>1, <1>0
    <3> QED BY <3>1, <3>2
  <2> QED BY <2>1
<1>3. T \subseteq Nat
  OBVIOUS
<1> HIDE DEF T
<1>4. T = Nat
  BY <1>1, <1>2, <1>3, Climb
<1>5. j - 1 \in T /\ (j - 1) + 1 = j
  BY <1>4
<1> QED BY <1>5 DEF T

\* FlattenSeq by its function, of any request sequence that is not empty.
LEMMA FlattenByFunction ==
  ASSUME NEW s, Len(s) \in Nat
  PROVE  \E f : Flattens(f, s, Len(s)) /\ (Len(s) # 0 => FlattenSeq(s) = f[Len(s)])
<1> DEFINE f == CHOOSE f : Flattens(f, s, Len(s))
<1>1. Flattens(f, s, Len(s))
  BY FlattensExists
<1>2. Len(s) # 0 => FlattenSeq(s) = f[Len(s)]
  BY DEF FlattenSeq, Flattens
<1> HIDE DEF f
<1> QED BY <1>1, <1>2

\* Nothing queued holds no input.
LEMMA FlattenEmpty == FlattenSeq(<<>>) = <<>>
BY DEF FlattenSeq

\* FlattenSeq of a queue with one more request at its end.
LEMMA FlattenAppend ==
  ASSUME NEW S, NEW q \in Seq(Seq(S)), NEW r \in Seq(S)
  PROVE  FlattenSeq(Append(q, r)) = FlattenSeq(q) \o r
<1> DEFINE p == Append(q, r)
           n == Len(q)
           m == Len(p)
<1>1. n \in Nat /\ m = n + 1 /\ m \in Nat /\ p[m] = r /\ \A i \in 1 .. n : q[i] = p[i]
  OBVIOUS
<1>4. q = <<>> <=> n = 0
  OBVIOUS
<1> HIDE DEF p
<1>2. PICK f : Flattens(f, q, n) /\ (n # 0 => FlattenSeq(q) = f[n])
  BY <1>1, FlattenByFunction
<1>3. PICK g : Flattens(g, p, m) /\ (m # 0 => FlattenSeq(p) = g[m])
  BY <1>1, FlattenByFunction
<1> HIDE DEF n, m
<1>5. m \in 1 .. m /\ m \in Nat /\ m # 0 /\ n <= m /\ m - 1 = n /\ (m = 1 <=> n = 0)
  BY <1>1
<1>9. g[m] = IF m = 1 THEN p[m] ELSE g[m - 1] \o p[m]
  BY <1>3, <1>5, FlattensStep
<1>6. FlattenSeq(p) = IF n = 0 THEN r ELSE g[n] \o r
  BY <1>1, <1>3, <1>5, <1>9
<1>7. CASE n = 0
  BY <1>4, <1>6, <1>7, FlattenEmpty DEF p
<1>8. CASE n # 0
  <2>1. n \in 1 .. n
    BY <1>1, <1>8
  <2>2. f[n] = g[n]
    BY <1>1, <1>2, <1>3, <1>5, <2>1, FlattensAgree
  <2> QED BY <1>2, <1>6, <1>8, <2>2 DEF p
<1> QED BY <1>7, <1>8

\* Every queue is empty or has a last request.
LEMMA FlattenIsSeq ==
  ASSUME NEW S, NEW q \in Seq(Seq(S))
  PROVE  FlattenSeq(q) \in Seq(S)
<1> DEFINE T == {n \in Nat : \A p \in Seq(Seq(S)) : Len(p) = n => FlattenSeq(p) \in Seq(S)}
<1>1. 0 \in T
  <2>1. \A p \in Seq(Seq(S)) : Len(p) = 0 => p = <<>>
    OBVIOUS
  <2> QED BY <2>1, FlattenEmpty
<1>2. ASSUME NEW n \in T PROVE n + 1 \in T
  <2>1. ASSUME NEW p \in Seq(Seq(S)), Len(p) = n + 1 PROVE FlattenSeq(p) \in Seq(S)
    <3>0. p # <<>>
      BY <2>1
    <3>1. PICK o \in Seq(Seq(S)), r \in Seq(S) : p = Append(o, r)
      BY <3>0, SequenceEmptyOrAppend
    <3>2. Len(o) = n
      BY <2>1, <3>1
    <3>3. FlattenSeq(p) = FlattenSeq(o) \o r /\ FlattenSeq(o) \in Seq(S)
      BY <1>2, <3>1, <3>2, FlattenAppend
    <3> QED BY <3>3
  <2> QED BY <2>1
<1>3. T \subseteq Nat
  OBVIOUS
<1> HIDE DEF T
<1>4. T = Nat
  BY <1>1, <1>2, <1>3, Climb
<1> QED BY <1>4 DEF T

\* Its front is the first request.
LEMMA FlattenFront ==
  ASSUME NEW S, NEW q \in Seq(Seq(S)), q # <<>>
  PROVE  FlattenSeq(q) = Head(q) \o FlattenSeq(Tail(q))
<1> DEFINE T == {n \in Nat : \A p \in Seq(Seq(S)) :
                   Len(p) = n + 1 => FlattenSeq(p) = Head(p) \o FlattenSeq(Tail(p))}
<1> HIDE DEF T
<1>1. 0 \in T
  <2>1. ASSUME NEW p \in Seq(Seq(S)), Len(p) = 1
        PROVE  FlattenSeq(p) = Head(p) \o FlattenSeq(Tail(p))
    <3>1. Head(p) \in Seq(S) /\ Tail(p) = <<>> /\ p = Append(<<>>, Head(p))
      BY <2>1, OnlyElement
    <3>5. <<>> \in Seq(Seq(S))
      OBVIOUS
    <3>3. FlattenSeq(p) = <<>> \o Head(p)
      BY <3>1, <3>5, FlattenAppend, FlattenEmpty
    <3>4. <<>> \o Head(p) = Head(p) /\ Head(p) \o <<>> = Head(p)
      BY <3>1, ConcatEmptySeq
    <3> QED BY <3>1, <3>3, <3>4, FlattenEmpty
  <2> QED BY <2>1 DEF T
<1>2. ASSUME NEW n \in T PROVE n + 1 \in T
  <2>0. n \in Nat
    BY <1>2 DEF T
  <2>1. ASSUME NEW p \in Seq(Seq(S)), Len(p) = n + 1 + 1
        PROVE  FlattenSeq(p) = Head(p) \o FlattenSeq(Tail(p))
    <3>0. p # <<>>
      BY <2>0, <2>1
    <3>1. PICK o \in Seq(Seq(S)), r \in Seq(S) : p = Append(o, r)
      BY <3>0, SequenceEmptyOrAppend
    <3>2. /\ Len(o) = n + 1 /\ Head(p) = Head(o) /\ Tail(p) = Append(Tail(o), r)
          /\ Tail(o) \in Seq(Seq(S)) /\ Head(o) \in Seq(S)
      BY <2>0, <2>1, <3>1
    <3>3. FlattenSeq(p) = FlattenSeq(o) \o r /\ FlattenSeq(Tail(p)) = FlattenSeq(Tail(o)) \o r
      BY <3>1, <3>2, FlattenAppend
    <3>4. FlattenSeq(o) = Head(o) \o FlattenSeq(Tail(o))
      BY <1>2, <3>2 DEF T
    <3>5. FlattenSeq(Tail(o)) \in Seq(S)
      BY <3>2, FlattenIsSeq
    <3>6. (Head(o) \o FlattenSeq(Tail(o))) \o r = Head(o) \o (FlattenSeq(Tail(o)) \o r)
      <4> DEFINE h == Head(o)
                 t == FlattenSeq(Tail(o))
      <4>1. h \in Seq(S) /\ t \in Seq(S) /\ r \in Seq(S)
        BY <3>1, <3>2, <3>5
      <4> HIDE DEF h, t
      <4>2. (h \o t) \o r = h \o (t \o r)
        BY <4>1, Regroup
      <4> QED BY <4>2 DEF h, t
    <3> QED BY <3>2, <3>3, <3>4, <3>6
  <2> QED BY <2>0, <2>1 DEF T
<1>3. T \subseteq Nat
  BY DEF T
<1>4. T = Nat
  BY <1>1, <1>2, <1>3, Climb
<1>5. Len(q) - 1 \in T /\ (Len(q) - 1) + 1 = Len(q)
  BY <1>4
<1> QED BY <1>5 DEF T

-----------------------------------------------------------------------------

\* What is in both s and t is in the same order in them.
Follows(s, t) ==
  \A i, j \in DOMAIN s, a, b \in DOMAIN t : s[i] = t[a] /\ s[j] = t[b] /\ i < j => a < b

\* In t, every element of A comes before every element of B.
Before(A, B, t) == \A a, b \in DOMAIN t : t[a] \in A /\ t[b] \in B => a < b

\* Where the elements of a concatenation are.
LEMMA Places ==
  ASSUME NEW S, NEW s \in Seq(S), NEW t \in Seq(S)
  PROVE  /\ s \o t \in Seq(S) /\ DOMAIN (s \o t) = 1 .. Len(s) + Len(t)
         /\ DOMAIN s = 1 .. Len(s) /\ DOMAIN t = 1 .. Len(t) /\ Len(s) \in Nat /\ Len(t) \in Nat
         /\ \A i \in DOMAIN (s \o t) :
              \/ i \in DOMAIN s /\ (s \o t)[i] = s[i]
              \/ i - Len(s) \in DOMAIN t /\ (s \o t)[i] = t[i - Len(s)]
         /\ \A i \in DOMAIN s : i \in DOMAIN (s \o t) /\ (s \o t)[i] = s[i]
         /\ \A i \in DOMAIN t : Len(s) + i \in DOMAIN (s \o t) /\ (s \o t)[Len(s) + i] = t[i]
<1>1. /\ s \o t \in Seq(S) /\ Len(s \o t) = Len(s) + Len(t)
      /\ Len(s) \in Nat /\ Len(t) \in Nat
  OBVIOUS
<1>2. DOMAIN (s \o t) = 1 .. Len(s) + Len(t) /\ DOMAIN s = 1 .. Len(s) /\ DOMAIN t = 1 .. Len(t)
  BY <1>1
<1>3. \A i \in 1 .. Len(s) + Len(t) : (s \o t)[i] = IF i <= Len(s) THEN s[i] ELSE t[i - Len(s)]
  OBVIOUS
<1>4. ASSUME NEW i \in 1 .. Len(s) PROVE i \in 1 .. Len(s) + Len(t) /\ (s \o t)[i] = s[i]
  BY <1>1, <1>3
<1>5. ASSUME NEW i \in 1 .. Len(t)
      PROVE  Len(s) + i \in 1 .. Len(s) + Len(t) /\ (s \o t)[Len(s) + i] = t[i]
  <2>1. Len(s) + i \in 1 .. Len(s) + Len(t) /\ ~ (Len(s) + i <= Len(s)) /\ (Len(s) + i) - Len(s) = i
    BY <1>1
  <2> QED BY <1>3, <2>1
<1>6. ASSUME NEW i \in 1 .. Len(s) + Len(t)
      PROVE  \/ i \in 1 .. Len(s) /\ (s \o t)[i] = s[i]
             \/ i - Len(s) \in 1 .. Len(t) /\ (s \o t)[i] = t[i - Len(s)]
  BY <1>1, <1>3
<1> QED BY <1>1, <1>2, <1>4, <1>5, <1>6

\* What a concatenation holds.
LEMMA JoinSet ==
  ASSUME NEW S, NEW s \in Seq(S), NEW t \in Seq(S)
  PROVE  ToSet(s \o t) = ToSet(s) \cup ToSet(t)
<1>1. ASSUME NEW x \in ToSet(s \o t) PROVE x \in ToSet(s) \cup ToSet(t)
  <2>1. PICK i \in DOMAIN (s \o t) : x = (s \o t)[i]
    BY <1>1 DEF ToSet
  <2> QED BY <2>1, Places DEF ToSet
<1>2. ASSUME NEW x \in ToSet(s) PROVE x \in ToSet(s \o t)
  BY <1>2, Places DEF ToSet
<1>3. ASSUME NEW x \in ToSet(t) PROVE x \in ToSet(s \o t)
  <2>1. PICK i \in DOMAIN t : x = t[i]
    BY <1>3 DEF ToSet
  <2>2. Len(s) + i \in DOMAIN (s \o t) /\ (s \o t)[Len(s) + i] = x
    BY <2>1, Places
  <2> QED BY <2>2 DEF ToSet
<1> QED BY <1>1, <1>2, <1>3

\* A concatenation holds nothing twice when its parts do not and share nothing.
LEMMA JoinInjective ==
  ASSUME NEW S, NEW s \in Seq(S), NEW t \in Seq(S)
  PROVE  IsInjective(s \o t) <=> IsInjective(s) /\ IsInjective(t) /\ ToSet(s) \cap ToSet(t) = {}
<1> DEFINE u == s \o t
<1>0. /\ DOMAIN u = 1 .. Len(s) + Len(t)
      /\ DOMAIN s = 1 .. Len(s) /\ DOMAIN t = 1 .. Len(t) /\ Len(s) \in Nat /\ Len(t) \in Nat
      /\ \A i \in DOMAIN u :
           \/ i \in DOMAIN s /\ u[i] = s[i]
           \/ i - Len(s) \in DOMAIN t /\ u[i] = t[i - Len(s)]
      /\ \A i \in DOMAIN s : i \in DOMAIN u /\ u[i] = s[i]
      /\ \A i \in DOMAIN t : Len(s) + i \in DOMAIN u /\ u[Len(s) + i] = t[i]
  BY Places
<1> HIDE DEF u
<1>1. ASSUME IsInjective(u) PROVE IsInjective(s) /\ IsInjective(t) /\ ToSet(s) \cap ToSet(t) = {}
  <2>1. IsInjective(s)
    BY <1>0, <1>1 DEF IsInjective
  <2>2. IsInjective(t)
    <3>1. ASSUME NEW i \in DOMAIN t, NEW j \in DOMAIN t, t[i] = t[j] PROVE i = j
      <4>1. Len(s) + i = Len(s) + j
        BY <1>0, <1>1, <3>1 DEF IsInjective
      <4> QED BY <1>0, <4>1
    <3> QED BY <3>1 DEF IsInjective
  <2>3. ASSUME NEW i \in DOMAIN s, NEW j \in DOMAIN t, s[i] = t[j] PROVE FALSE
    <3>1. i = Len(s) + j
      BY <1>0, <1>1, <2>3 DEF IsInjective
    <3> QED BY <1>0, <3>1
  <2> QED BY <2>1, <2>2, <2>3 DEF ToSet
<1>2. ASSUME IsInjective(s), IsInjective(t), ToSet(s) \cap ToSet(t) = {} PROVE IsInjective(u)
  <2>1. ASSUME NEW i \in DOMAIN u, NEW j \in DOMAIN u, u[i] = u[j] PROVE i = j
    <3>1. CASE i \in DOMAIN s /\ u[i] = s[i] /\ j \in DOMAIN s /\ u[j] = s[j]
      BY <1>2, <2>1, <3>1 DEF IsInjective
    <3>2. CASE i - Len(s) \in DOMAIN t /\ u[i] = t[i - Len(s)] /\ j - Len(s) \in DOMAIN t /\ u[j] = t[j - Len(s)]
      <4>1. i - Len(s) = j - Len(s)
        BY <1>2, <2>1, <3>2 DEF IsInjective
      <4> QED BY <1>0, <4>1
    <3>3. CASE i \in DOMAIN s /\ u[i] = s[i] /\ j - Len(s) \in DOMAIN t /\ u[j] = t[j - Len(s)]
      BY <1>2, <2>1, <3>3 DEF ToSet
    <3>4. CASE j \in DOMAIN s /\ u[j] = s[j] /\ i - Len(s) \in DOMAIN t /\ u[i] = t[i - Len(s)]
      BY <1>2, <2>1, <3>4 DEF ToSet
    <3> QED BY <1>0, <3>1, <3>2, <3>3, <3>4
  <2> QED BY <2>1 DEF IsInjective
<1> QED BY <1>1, <1>2 DEF u

\* A concatenation is in order when its parts are and the first is before the
\* second.
LEMMA JoinFollows ==
  ASSUME NEW S, NEW s \in Seq(S), NEW t \in Seq(S), NEW q \in Seq(S)
  PROVE  Follows(s \o t, q) <=> Follows(s, q) /\ Follows(t, q) /\ Before(ToSet(s), ToSet(t), q)
<1> DEFINE u == s \o t
<1>0. /\ DOMAIN u = 1 .. Len(s) + Len(t) /\ DOMAIN q = 1 .. Len(q)
      /\ DOMAIN s = 1 .. Len(s) /\ DOMAIN t = 1 .. Len(t) /\ Len(s) \in Nat /\ Len(t) \in Nat
      /\ \A i \in DOMAIN u :
           \/ i \in DOMAIN s /\ u[i] = s[i]
           \/ i - Len(s) \in DOMAIN t /\ u[i] = t[i - Len(s)]
      /\ \A i \in DOMAIN s : i \in DOMAIN u /\ u[i] = s[i]
      /\ \A i \in DOMAIN t : Len(s) + i \in DOMAIN u /\ u[Len(s) + i] = t[i]
  BY Places
<1> HIDE DEF u
<1>1. ASSUME Follows(u, q) PROVE Follows(s, q) /\ Follows(t, q) /\ Before(ToSet(s), ToSet(t), q)
  <2>1. Follows(s, q)
    BY <1>0, <1>1 DEF Follows
  <2>2. ASSUME NEW i \in DOMAIN t, NEW j \in DOMAIN t, NEW a \in DOMAIN q, NEW b \in DOMAIN q,
               t[i] = q[a], t[j] = q[b], i < j
        PROVE  a < b
    <3>1. Len(s) + i \in DOMAIN u /\ Len(s) + j \in DOMAIN u /\ u[Len(s) + i] = q[a] /\ u[Len(s) + j] = q[b]
          /\ Len(s) + i < Len(s) + j
      BY <1>0, <2>2
    <3> QED BY <1>1, <3>1 DEF Follows
  <2>3. ASSUME NEW i \in DOMAIN s, NEW j \in DOMAIN t, NEW a \in DOMAIN q, NEW b \in DOMAIN q,
               s[i] = q[a], t[j] = q[b]
        PROVE  a < b
    <3>1. i \in DOMAIN u /\ Len(s) + j \in DOMAIN u /\ u[i] = q[a] /\ u[Len(s) + j] = q[b]
          /\ i < Len(s) + j
      BY <1>0, <2>3
    <3> QED BY <1>1, <3>1 DEF Follows
  <2>4. Follows(t, q)
    BY <2>2 DEF Follows
  <2>5. Before(ToSet(s), ToSet(t), q)
    BY <2>3 DEF Before, ToSet
  <2> QED BY <2>1, <2>4, <2>5
<1>2. ASSUME Follows(s, q), Follows(t, q), Before(ToSet(s), ToSet(t), q) PROVE Follows(u, q)
  <2>1. ASSUME NEW i \in DOMAIN u, NEW j \in DOMAIN u, NEW a \in DOMAIN q, NEW b \in DOMAIN q,
               u[i] = q[a], u[j] = q[b], i < j
        PROVE  a < b
    <3>1. CASE i \in DOMAIN s /\ u[i] = s[i] /\ j \in DOMAIN s /\ u[j] = s[j]
      BY <1>2, <2>1, <3>1 DEF Follows
    <3>2. CASE i - Len(s) \in DOMAIN t /\ u[i] = t[i - Len(s)] /\ j - Len(s) \in DOMAIN t /\ u[j] = t[j - Len(s)]
      <4>1. i - Len(s) < j - Len(s)
        BY <1>0, <2>1
      <4> QED BY <1>2, <2>1, <3>2, <4>1 DEF Follows
    <3>3. CASE i \in DOMAIN s /\ u[i] = s[i] /\ j - Len(s) \in DOMAIN t /\ u[j] = t[j - Len(s)]
      BY <1>2, <2>1, <3>3 DEF ToSet, Before
    <3>4. CASE j \in DOMAIN s /\ i - Len(s) \in DOMAIN t
      BY <1>0, <2>1, <3>4
    <3> QED BY <1>0, <3>1, <3>2, <3>3, <3>4
  <2> QED BY <2>1 DEF Follows
<1> QED BY <1>1, <1>2 DEF u

\* More is put in the queue: nothing moves for what is elsewhere, and what is
\* new comes last.
LEMMA LongerFollows ==
  ASSUME NEW S, NEW s \in Seq(S), NEW q \in Seq(S), NEW m \in Seq(S),
         Follows(s, q), IsInjective(m), ToSet(m) \cap (ToSet(s) \cup ToSet(q)) = {}
  PROVE  Follows(s \o m, q \o m)
<1> DEFINE u == q \o m
<1>0. /\ DOMAIN u = 1 .. Len(q) + Len(m) /\ u \in Seq(S)
      /\ DOMAIN q = 1 .. Len(q) /\ DOMAIN m = 1 .. Len(m) /\ Len(q) \in Nat /\ Len(m) \in Nat
      /\ \A i \in DOMAIN u :
           \/ i \in DOMAIN q /\ u[i] = q[i]
           \/ i - Len(q) \in DOMAIN m /\ u[i] = m[i - Len(q)]
  BY Places
<1> HIDE DEF u
<1>1. ASSUME NEW a \in DOMAIN u, NEW i \in DOMAIN s, s[i] = u[a]
      PROVE  a \in DOMAIN q /\ s[i] = q[a]
  BY <1>0, <1>1 DEF ToSet
<1>2. ASSUME NEW a \in DOMAIN u, NEW i \in DOMAIN m, m[i] = u[a]
      PROVE  a - Len(q) \in DOMAIN m /\ a - Len(q) = i
  <2>1. ~ (a \in DOMAIN q /\ u[a] = q[a])
    BY <1>2 DEF ToSet
  <2>2. a - Len(q) \in DOMAIN m /\ u[a] = m[a - Len(q)]
    BY <1>0, <2>1
  <2> QED BY <1>2, <2>2 DEF IsInjective
<1>3. Follows(s, u)
  BY <1>1 DEF Follows
<1>4. Follows(m, u)
  BY <1>0, <1>2 DEF Follows
<1>5. Before(ToSet(s), ToSet(m), u)
  <2> SUFFICES ASSUME NEW a \in DOMAIN u, NEW b \in DOMAIN u, NEW i \in DOMAIN s, NEW j \in DOMAIN m,
                      u[a] = s[i], u[b] = m[j]
               PROVE  a < b
    BY DEF Before, ToSet
  <2>1. a \in DOMAIN q
    BY <1>1
  <2>2. b - Len(q) \in DOMAIN m
    BY <1>2
  <2> QED BY <1>0, <2>1, <2>2
<1> QED BY <1>0, <1>3, <1>4, <1>5, JoinFollows DEF u

-----------------------------------------------------------------------------

\* Whatever can be an input.
Thing == Input \cup Wake

IsQueue(q) == QueueShape(q) /\ q.queue \in Seq(Seq(Thing)) /\ q.running \in BOOLEAN

\* What the events do to the inputs that wait.
LEMMA QueueContents ==
  ASSUME NEW q, IsQueue(q), NEW r \in Seq(Thing)
  PROVE  /\ IsQueue(TurnStart(q)) /\ TurnStart(q).queue = q.queue
         /\ IsQueue(Enqueue(q, r)) /\ FlattenSeq(Enqueue(q, r).queue) = FlattenSeq(q.queue) \o r
         /\ Enqueue(q, r).running = q.running /\ Enqueue(q, r).queue # <<>>
         /\ IsQueue(Clear(q)) /\ Clear(q).queue = <<>> /\ Clear(q).running = q.running
         /\ IsQueue(NoError(q)) /\ NoError(q).queue = q.queue
         /\ IsQueue(Recovered(q)) /\ Recovered(q).queue = q.queue
         /\ q.queue # <<>> =>
              /\ IsQueue(Dequeue(q)) /\ Head(q.queue) \in Seq(Thing)
              /\ FlattenSeq(q.queue) = Head(q.queue) \o FlattenSeq(Dequeue(q).queue)
<1> DEFINE R == Seq(Thing)
<1>0. q.queue \in Seq(R) /\ r \in R /\ QueueShape(q) /\ q.running \in BOOLEAN
  BY DEF IsQueue
<1>1. QueueShape(TurnStart(q)) /\ TurnStart(q).running = TRUE /\ TurnStart(q).queue = q.queue
  BY <1>0 DEF TurnStart, QueueShape
<1>2. /\ QueueShape(Enqueue(q, r)) /\ Enqueue(q, r).running = q.running
      /\ Enqueue(q, r).queue = Append(q.queue, r)
  BY <1>0 DEF Enqueue, QueueShape
<1>3. QueueShape(Clear(q)) /\ Clear(q).running = q.running /\ Clear(q).queue = <<>>
  BY <1>0 DEF Clear, QueueShape
<1>4. QueueShape(NoError(q)) /\ NoError(q).running = q.running /\ NoError(q).queue = q.queue
  BY <1>0 DEF NoError, QueueShape
<1>5. QueueShape(Recovered(q)) /\ Recovered(q).running = FALSE /\ Recovered(q).queue = q.queue
  BY <1>0 DEF Recovered, TurnEnd, QueueShape
<1>6. ASSUME q.queue # <<>>
      PROVE  QueueShape(Dequeue(q)) /\ Dequeue(q).running = q.running /\ Dequeue(q).queue = Tail(q.queue)
  BY <1>0, <1>6 DEF Dequeue, QueueShape
<1>7. FlattenSeq(Append(q.queue, r)) = FlattenSeq(q.queue) \o r
  BY <1>0, FlattenAppend
<1>8. q.queue # <<>> => FlattenSeq(q.queue) = Head(q.queue) \o FlattenSeq(Tail(q.queue))
  BY <1>0, FlattenFront
<1> HIDE DEF R
<1>9. /\ Append(q.queue, r) \in Seq(R) /\ Append(q.queue, r) # <<>> /\ <<>> \in Seq(R)
      /\ q.queue # <<>> => Tail(q.queue) \in Seq(R) /\ Head(q.queue) \in R
  BY <1>0, AppendProperties, HeadTailProperties
<1> QED BY <1>0, <1>1, <1>2, <1>3, <1>4, <1>5, <1>6, <1>7, <1>8, <1>9 DEF IsQueue, R

\* Merging the queue into one request keeps the order of what waits, behind the
\* draft.
LEMMA FlushedContents ==
  ASSUME NEW q, IsQueue(q), NEW draft \in Seq(Thing)
  PROVE  /\ IsQueue(Flushed(q, draft)) /\ Flushed(q, draft).queue # <<>>
         /\ Flushed(q, draft).running = q.running
         /\ FlattenSeq(Flushed(q, draft).queue) = draft \o FlattenSeq(q.queue)
<1> DEFINE m == draft \o FlattenSeq(q.queue)
           p == Clear(q)
<1>1. FlattenSeq(q.queue) \in Seq(Thing)
  BY FlattenIsSeq DEF IsQueue
<1>2. m \in Seq(Thing)
  BY <1>1
<1>3. IsQueue(p) /\ p.queue = <<>> /\ p.running = q.running
  BY QueueContents, EmptySeq
<1>4. Flushed(q, draft) = Enqueue(p, m)
  BY DEF Flushed
<1> HIDE DEF m, p
<1>5. /\ IsQueue(Enqueue(p, m)) /\ Enqueue(p, m).queue # <<>> /\ Enqueue(p, m).running = p.running
      /\ FlattenSeq(Enqueue(p, m).queue) = FlattenSeq(p.queue) \o m
  BY <1>2, <1>3, QueueContents
<1>6. <<>> \o m = m
  BY <1>2, ConcatEmptySeq
<1> QED BY <1>3, <1>4, <1>5, <1>6, FlattenEmpty DEF m

\* What a turn-end leaves of them.
LEMMA TurnEndContents ==
  ASSUME NEW q, IsQueue(q), NEW ok, NEW aborted
  PROVE  /\ IsQueue(TurnEnd(q, ok, aborted)) 
         /\ TurnEnd(q, ok, aborted).queue = IF aborted THEN <<>> ELSE q.queue
<1>1. QueueShape(TurnEnd(q, ok, aborted)) /\ TurnEnd(q, ok, aborted).running = FALSE
  BY TurnEndStops
<1>2. TurnEnd(q, ok, aborted).queue = IF aborted THEN <<>> ELSE q.queue
  BY DEF TurnEnd
<1>3. <<>> \in Seq(Seq(Thing)) /\ q.queue \in Seq(Seq(Thing))
  BY DEF IsQueue
<1> QED BY <1>1, <1>2, <1>3 DEF IsQueue

-----------------------------------------------------------------------------

\* The function by which the fold of WithLeftover is defined, over the first n
\* wakes of w.
Folds(f, q, w, n) ==
  f = [d \in SUBSET (1 .. n) |->
         IF d = {} THEN q ELSE Enqueue(f[d \ {Max(d)}], <<w[Max(d)]>>)]

\* One step of that fold.
LEMMA FoldsStep ==
  ASSUME NEW f, NEW q, NEW w, NEW n, Folds(f, q, w, n), NEW d \in SUBSET (1 .. n)
  PROVE  f[d] = IF d = {} THEN q ELSE Enqueue(f[d \ {Max(d)}], <<w[Max(d)]>>)
BY Zenon DEF Folds

\* The last wake is enqueued last.
LEMMA LastIsMax == ASSUME NEW n \in Nat PROVE Max(1 .. n + 1) = n + 1 /\ (1 .. n + 1) \ {n + 1} = 1 .. n
<1>1. n + 1 \in 1 .. n + 1 /\ \A y \in 1 .. n + 1 : n + 1 >= y
  OBVIOUS
<1>2. \A x \in 1 .. n + 1 : (\A y \in 1 .. n + 1 : x >= y) => x = n + 1
  BY <1>1
<1>3. Max(1 .. n + 1) = n + 1
  BY <1>1, <1>2 DEF Max
<1> QED BY <1>3

\* Such a function exists for every number of wakes.
LEMMA FoldsExists ==
  ASSUME NEW q, NEW w, NEW k \in Nat
  PROVE  \E f : Folds(f, q, w, k)
<1> DEFINE T == {n \in Nat : \E f : Folds(f, q, w, n)}
           V(d, h) == IF d = {} THEN q ELSE Enqueue(h, <<w[Max(d)]>>)
<1>1. 0 \in T
  <2> DEFINE f == [d \in SUBSET (1 .. 0) |-> q]
  <2>1. \A d \in SUBSET (1 .. 0) : d = {}
    OBVIOUS
  <2>2. f = [d \in SUBSET (1 .. 0) |-> V(d, f[d \ {Max(d)}])]
    BY <2>1
  <2>3. Folds(f, q, w, 0)
    BY <2>2 DEF Folds
  <2> QED BY <2>3
<1>2. ASSUME NEW n \in T PROVE n + 1 \in T
  <2>0. n \in Nat
    OBVIOUS
  <2>1. PICK f : Folds(f, q, w, n)
    BY <1>2
  <2> DEFINE g == [d \in SUBSET (1 .. n + 1) |->
                     IF n + 1 \in d THEN V(d, f[d \ {n + 1}]) ELSE f[d]]
  <2>2. ASSUME NEW d \in SUBSET (1 .. n + 1) PROVE g[d] = V(d, g[d \ {Max(d)}])
    <3>1. CASE n + 1 \in d
      <4>1. \A y \in d : n + 1 >= y
        BY <2>0
      <4>2. \A x \in d : (\A y \in d : x >= y) => x = n + 1
        BY <2>0, <3>1, <4>1
      <4>3. Max(d) = n + 1
        BY <3>1, <4>1, <4>2 DEF Max
      <4>4. d \ {n + 1} \in SUBSET (1 .. n + 1) /\ n + 1 \notin d \ {n + 1}
        OBVIOUS
      <4>5. g[d \ {n + 1}] = f[d \ {n + 1}]
        BY <4>4
      <4>6. g[d] = V(d, f[d \ {n + 1}])
        BY <3>1
      <4> QED BY <4>3, <4>5, <4>6
    <3>2. CASE n + 1 \notin d
      <4>1. d \in SUBSET (1 .. n)
        <5>1. ASSUME NEW y \in d PROVE y \in 1 .. n
          BY <2>0, <3>2
        <5> QED BY <5>1
      <4> DEFINE e == d \ {Max(d)}
      <4>2. e \in SUBSET (1 .. n + 1) /\ n + 1 \notin e
        BY <3>2
      <4>3. f[d] = V(d, f[e])
        <5> HIDE DEF g
        <5> QED BY <2>1, <4>1, FoldsStep
      <4> HIDE DEF e
      <4>4. g[d] = f[d] /\ g[e] = f[e]
        BY <3>2, <4>2
      <4> QED BY <4>3, <4>4 DEF e
    <3> QED BY <3>1, <3>2
  <2>3. g = [d \in SUBSET (1 .. n + 1) |-> V(d, g[d \ {Max(d)}])]
    <3> HIDE DEF V
    <3> QED BY <2>2
  <2> HIDE DEF g
  <2>4. Folds(g, q, w, n + 1)
    BY <2>3 DEF Folds
  <2> QED BY <2>4
<1>3. T \subseteq Nat
  OBVIOUS
<1> HIDE DEF T
<1>4. T = Nat
  BY <1>1, <1>2, <1>3, Climb
<1> QED BY <1>4 DEF T

\* What the loop left in the inbox goes behind what waits, in its order.
LEMMA LeftoverContents ==
  ASSUME NEW c, IsQueue(core), chain[c].pending \in Seq(Thing)
  PROVE  /\ IsQueue(WithLeftover(c))
         /\ FlattenSeq(WithLeftover(c).queue) = FlattenSeq(core.queue) \o chain[c].pending
<1> DEFINE w == chain[c].pending
           k == Len(w)
           f == CHOOSE f : Folds(f, core, w, k)
<1>1. k \in Nat /\ DOMAIN w = 1 .. k /\ w \in Seq(Thing)
  OBVIOUS
<1>2. WithLeftover(c) = (CHOOSE g : Folds(g, core, w, k))[1 .. k]
  BY <1>1 DEF WithLeftover, FoldLeft, MapThenFoldSet, Folds
<1>3. Folds(f, core, w, k)
  BY <1>1, FoldsExists
<1>4. WithLeftover(c) = f[1 .. k]
  BY <1>2
<1> HIDE DEF f, w, k
<1> DEFINE T == {n \in Nat : n <= k => /\ IsQueue(f[1 .. n])
                                       /\ FlattenSeq(f[1 .. n].queue) = FlattenSeq(core.queue) \o SubSeq(w, 1, n)}
<1>5. FlattenSeq(core.queue) \in Seq(Thing)
  BY FlattenIsSeq DEF IsQueue
<1> HIDE DEF T
<1>6. 0 \in T
  <2>1. f[1 .. 0] = core
    <3>1. 1 .. 0 = {} /\ {} \in SUBSET (1 .. k)
      OBVIOUS
    <3>2. f[{}] = core
      BY <1>3, <3>1, FoldsStep
    <3> QED BY <3>1, <3>2
  <2>2. SubSeq(w, 1, 0) = <<>>
    BY SubSeqEmpty
  <2>3. FlattenSeq(core.queue) \o <<>> = FlattenSeq(core.queue)
    BY <1>5, ConcatEmptySeq
  <2> QED BY <2>1, <2>2, <2>3 DEF T
<1>7. ASSUME NEW n \in Nat, n \in T, n + 1 <= k
      PROVE  /\ IsQueue(f[1 .. n + 1])
             /\ FlattenSeq(f[1 .. n + 1].queue) = FlattenSeq(core.queue) \o SubSeq(w, 1, n + 1)
  <2> DEFINE x == w[n + 1]
             s == SubSeq(w, 1, n)
             q == f[1 .. n]
  <2>1. IsQueue(q) /\ FlattenSeq(q.queue) = FlattenSeq(core.queue) \o s
    BY <1>1, <1>7 DEF T
  <2>2. 1 .. n + 1 \in SUBSET (1 .. k) /\ 1 .. n + 1 # {} /\ n + 1 \in 1 .. k
    <3>1. n \in Nat /\ k \in Nat /\ n + 1 <= k
      BY <1>1, <1>7
    <3>2. ASSUME NEW y \in 1 .. n + 1 PROVE y \in 1 .. k
      BY <3>1
    <3>3. n + 1 \in 1 .. n + 1
      BY <3>1
    <3> QED BY <3>2, <3>3
  <2>3. f[1 .. n + 1] = Enqueue(q, <<x>>)
    <3> DEFINE d == 1 .. n + 1
    <3>1. Max(d) = n + 1 /\ d \ {n + 1} = 1 .. n
      BY <1>7, LastIsMax
    <3>2. d \in SUBSET (1 .. k) /\ d # {}
      BY <2>2
    <3> HIDE DEF d
    <3>3. f[d] = Enqueue(f[d \ {Max(d)}], <<w[Max(d)]>>)
      <4>1. f[d] = IF d = {} THEN core ELSE Enqueue(f[d \ {Max(d)}], <<w[Max(d)]>>)
        <5>1. d \in SUBSET (1 .. k)
          BY <3>2
        <5>2. Folds(f, core, w, k)
          BY <1>3
        <5>3. f = [e \in SUBSET (1 .. k) |->
                     IF e = {} THEN core ELSE Enqueue(f[e \ {Max(e)}], <<w[Max(e)]>>)]
          BY <5>2 DEF Folds
        <5> QED BY <5>1, <5>3, Zenon
      <4> QED BY <3>2, <4>1
    <3> QED BY <3>1, <3>3 DEF d
  <2>4. x \in Thing /\ <<x>> \in Seq(Thing)
    BY <1>1, <2>2
  <2>5. s \in Seq(Thing) /\ SubSeq(w, 1, n + 1) = s \o <<x>>
    BY <1>1, <1>7, <2>2
  <2> HIDE DEF x, s, q
  <2>6. IsQueue(Enqueue(q, <<x>>)) /\ FlattenSeq(Enqueue(q, <<x>>).queue) = FlattenSeq(q.queue) \o <<x>>
    BY <2>1, <2>4, QueueContents
  <2>7. (FlattenSeq(core.queue) \o s) \o <<x>> = FlattenSeq(core.queue) \o (s \o <<x>>)
    BY <1>5, <2>4, <2>5, Regroup
  <2> QED BY <2>1, <2>3, <2>5, <2>6, <2>7
<1>8. T \subseteq Nat /\ \A n \in T : n + 1 \in T
  <2>1. T \subseteq Nat
    BY DEF T
  <2>2. ASSUME NEW n \in T PROVE n + 1 \in T
    <3>1. n \in Nat /\ n + 1 \in Nat
      BY <2>1
    <3> QED BY <1>7, <2>2, <3>1 DEF T
  <2> QED BY <2>1, <2>2
<1>9. T = Nat
  BY <1>6, <1>8, Climb
<1>10. k \in T
  BY <1>1, <1>9
<1>11. SubSeq(w, 1, k) = w
  BY <1>1 DEF k
<1>12. k <= k
  BY <1>1
<1> QED BY <1>4, <1>10, <1>11, <1>12 DEF T, w

-----------------------------------------------------------------------------

\* Everything that is or was with the agent, then what waits, in its order; and
\* what waits in the inbox of c.
Story == started \o FlattenSeq(core.queue)
Pend(c) == chain[c].pending

Typed ==
  /\ IsQueue(core) /\ started \in Seq(Thing) /\ queued \in Seq(Thing)
  /\ \A c \in Chain : Pend(c) \in Seq(Thing)

\* Nothing is in two places.
Apart ==
  /\ IsInjective(Story) /\ IsInjective(queued)
  /\ \A c \in Chain : IsInjective(Pend(c)) /\ ToSet(Pend(c)) \cap (ToSet(Story) \cup ToSet(queued)) = {}
  /\ \A c, d \in Chain : c # d => ToSet(Pend(c)) \cap ToSet(Pend(d)) = {}

\* What was in the queue leaves it and waits in the order it came.
InOrder == Follows(Story, queued)

\* Nothing that was sent is gone after the step.
Keeps == Surviving \subseteq Surviving'

\* The empty sequence holds nothing.
LEMMA EmptySet == ToSet(<<>>) = {} /\ IsInjective(<<>>)
BY DEF ToSet, IsInjective

\* A sequence of one holds one thing.
LEMMA SingleSet == ASSUME NEW x PROVE ToSet(<<x>>) = {x} /\ IsInjective(<<x>>)
<1>1. DOMAIN <<x>> = {1} /\ <<x>>[1] = x
  OBVIOUS
<1> QED BY <1>1 DEF ToSet, IsInjective

\* What survives is in the story or in an inbox.
LEMMA StorySet ==
  ASSUME Typed
  PROVE  /\ Story \in Seq(Thing) /\ FlattenSeq(core.queue) \in Seq(Thing)
         /\ Surviving = ToSet(Story) \cup InInbox
         /\ ToSet(Story) = ToSet(started) \cup InQueue
<1>1. started \in Seq(Thing) /\ FlattenSeq(core.queue) \in Seq(Thing)
  BY FlattenIsSeq DEF Typed, IsQueue
<1>2. ToSet(Story) = ToSet(started) \cup ToSet(FlattenSeq(core.queue)) /\ Story \in Seq(Thing)
  BY <1>1, JoinSet DEF Story
<1> QED BY <1>1, <1>2 DEF Surviving, InQueue

\* An input that was not sent yet is apart from everything.
LEMMA FreshApart ==
  ASSUME Typed, NEW x, Fresh(x)
  PROVE  /\ ToSet(<<x>>) \cap (ToSet(Story) \cup ToSet(queued)) = {} /\ IsInjective(<<x>>)
         /\ \A d \in Chain : ToSet(Pend(d)) \cap ToSet(<<x>>) = {}
<1>1. ToSet(<<x>>) = {x} /\ IsInjective(<<x>>)
  BY SingleSet
<1>2. x \notin ToSet(queued) /\ x \notin ToSet(started) /\ x \notin InInbox /\ x \notin InQueue
  BY DEF Fresh
<1>3. \A d \in Chain : x \notin ToSet(Pend(d))
  BY <1>2 DEF InInbox, Pend
<1> QED BY <1>1, <1>2, <1>3, StorySet

\* What happens to the inboxes: each keeps what it holds or is emptied, and
\* what it gives up is in m.
Inboxes(m) ==
  \A d \in Chain : /\ Pend(d)' = Pend(d) \/ Pend(d)' = <<>>
                   /\ ToSet(Pend(d)') \cap ToSet(m) = {}
                   /\ ToSet(Pend(d)) \subseteq ToSet(Pend(d)') \cup ToSet(m)

\* What leaves the inboxes is in m.
LEMMA InboxesKept ==
  ASSUME NEW m, Inboxes(m)
  PROVE  InInbox \subseteq InInbox' \cup ToSet(m)
BY DEF Inboxes, InInbox, Pend

\* Inboxes that only shrink stay apart from what the story gains from them.
LEMMA InboxesApart ==
  ASSUME Apart, NEW m, Inboxes(m), NEW D, D = ToSet(Story) \cup ToSet(queued),
         ToSet(Story)' \cup ToSet(queued)' \subseteq D \cup ToSet(m),
         IsInjective(Story)', IsInjective(queued)'
  PROVE  Apart'
<1>1. \A d \in Chain : IsInjective(Pend(d)') /\ ToSet(Pend(d)') \subseteq ToSet(Pend(d))
  BY EmptySet DEF Apart, Inboxes
<1>2. \A d \in Chain : ToSet(Pend(d)') \cap (ToSet(Story)' \cup ToSet(queued)') = {}
  BY <1>1 DEF Inboxes, Apart
<1>3. \A c, d \in Chain : c # d => ToSet(Pend(c)') \cap ToSet(Pend(d)') = {}
  BY <1>1 DEF Apart
<1> QED BY <1>1, <1>2, <1>3 DEF Apart

-----------------------------------------------------------------------------

\* m, which is new, is put between a and b.
LEMMA InsertSeq ==
  ASSUME NEW S, NEW a \in Seq(S), NEW b \in Seq(S), NEW m \in Seq(S), NEW q \in Seq(S),
         IsInjective(a \o b), Follows(a \o b, q), IsInjective(m),
         ToSet(m) \cap (ToSet(a \o b) \cup ToSet(q)) = {}
  PROVE  /\ IsInjective((a \o m) \o b) /\ Follows((a \o m) \o b, q)
         /\ ToSet((a \o m) \o b) = ToSet(a \o b) \cup ToSet(m)
<1>0. \A x, y \in Seq(S) : ToSet(x \o y) = ToSet(x) \cup ToSet(y)
  BY JoinSet
<1>1. a \o m \in Seq(S)
  OBVIOUS
<1>2. /\ ToSet(a \o b) = ToSet(a) \cup ToSet(b) /\ ToSet(a \o m) = ToSet(a) \cup ToSet(m)
      /\ ToSet((a \o m) \o b) = ToSet(a \o m) \cup ToSet(b)
  <2>1. ToSet(a \o b) = ToSet(a) \cup ToSet(b)
    BY JoinSet
  <2>2. ToSet(a \o m) = ToSet(a) \cup ToSet(m)
    BY JoinSet
  <2>3. ToSet((a \o m) \o b) = ToSet(a \o m) \cup ToSet(b)
    BY <1>0, <1>1, Zenon
  <2> QED BY <2>1, <2>2, <2>3
<1>3. IsInjective(a) /\ IsInjective(b) /\ ToSet(a) \cap ToSet(b) = {}
  BY JoinInjective
<1>4. IsInjective(a \o m)
  BY <1>2, <1>3, JoinInjective
<1>5. IsInjective((a \o m) \o b)
  <2>1. ToSet(a \o m) \cap ToSet(b) = {}
    BY <1>2, <1>3
  <2> QED BY <1>1, <1>3, <1>4, <2>1, JoinInjective
<1>6. Follows(a, q) /\ Follows(b, q) /\ Before(ToSet(a), ToSet(b), q)
  BY JoinFollows
<1>7. \A i \in DOMAIN q : q[i] \notin ToSet(m)
  BY DEF ToSet
<1>8. Follows(m, q)
  BY <1>7 DEF Follows, ToSet
<1>9. Before(ToSet(a), ToSet(m), q)
  BY <1>7 DEF Before
<1>10. Before(ToSet(a \o m), ToSet(b), q)
  BY <1>2, <1>6, <1>7 DEF Before
<1>11. Follows(a \o m, q)
  BY <1>6, <1>8, <1>9, JoinFollows
<1>12. Follows((a \o m) \o b, q)
  BY <1>1, <1>6, <1>10, <1>11, JoinFollows
<1> QED BY <1>2, <1>5, <1>12

\* m, which is new, is put at the end of s and of q.
LEMMA AddSeq ==
  ASSUME NEW S, NEW s \in Seq(S), NEW m \in Seq(S), NEW q \in Seq(S),
         IsInjective(s), IsInjective(q), Follows(s, q), IsInjective(m),
         ToSet(m) \cap (ToSet(s) \cup ToSet(q)) = {}
  PROVE  /\ IsInjective(s \o m) /\ ToSet(s \o m) = ToSet(s) \cup ToSet(m)
         /\ IsInjective(q \o m) /\ ToSet(q \o m) = ToSet(q) \cup ToSet(m)
         /\ Follows(s \o m, q \o m)
<1>1. ToSet(s \o m) = ToSet(s) \cup ToSet(m)
  BY JoinSet
<1>2. ToSet(q \o m) = ToSet(q) \cup ToSet(m)
  BY JoinSet
<1>3. ToSet(s) \cap ToSet(m) = {} /\ ToSet(q) \cap ToSet(m) = {}
  OBVIOUS
<1>4. IsInjective(s \o m)
  BY <1>3, JoinInjective
<1>5. IsInjective(q \o m)
  BY <1>3, JoinInjective
<1>6. Follows(s \o m, q \o m)
  BY LongerFollows
<1> QED BY <1>1, <1>2, <1>4, <1>5, <1>6

\* The front of a sequence.
LEMMA FrontSeq ==
  ASSUME NEW S, NEW t \in Seq(S), NEW rest \in Seq(S), NEW q \in Seq(S),
         IsInjective(t \o rest), Follows(t \o rest, q)
  PROVE  /\ IsInjective(t) /\ Follows(t, q) /\ ToSet(t) \subseteq ToSet(t \o rest)
         /\ rest = <<>> => ToSet(t) = ToSet(t \o rest)
<1>1. IsInjective(t)
  BY JoinInjective
<1>2. Follows(t, q)
  BY JoinFollows
<1>3. ToSet(t \o rest) = ToSet(t) \cup ToSet(rest)
  BY JoinSet
<1> QED BY <1>1, <1>2, <1>3, EmptySet

\* StorySet for the state after the step.
LEMMA StorySetNext ==
  ASSUME Typed'
  PROVE  /\ Story' \in Seq(Thing)
         /\ Surviving' = ToSet(Story') \cup InInbox'
<1>1. started' \in Seq(Thing) /\ core'.queue \in Seq(Seq(Thing))
  BY DEF Typed, IsQueue
<1>2. FlattenSeq(core'.queue) \in Seq(Thing)
  BY <1>1, FlattenIsSeq
<1>3. ToSet(started' \o FlattenSeq(core'.queue)) = ToSet(started') \cup ToSet(FlattenSeq(core'.queue))
  BY <1>1, <1>2, JoinSet
<1>4. Story' = started' \o FlattenSeq(core'.queue)
  BY DEF Story
<1> QED BY <1>1, <1>2, <1>3, <1>4 DEF Surviving, InQueue

\* m, which is new to the queue, is given to the agent.
LEMMA Inserted ==
  ASSUME Typed, Typed', Apart, InOrder, NEW m \in Seq(Thing), Inboxes(m), IsInjective(m),
         Story' = (started \o m) \o FlattenSeq(core.queue), queued' = queued,
         ToSet(m) \cap (ToSet(Story) \cup ToSet(queued)) = {}
  PROVE  Apart' /\ InOrder' /\ Keeps
<1> DEFINE a == started
           b == FlattenSeq(core.queue)
           t == Story'
<1>1. a \in Seq(Thing) /\ b \in Seq(Thing) /\ queued \in Seq(Thing)
  BY StorySet DEF Typed
<1>2. t = (a \o m) \o b /\ Story = a \o b
  BY DEF Story
<1> HIDE DEF a, b
<1>3. IsInjective(t) /\ Follows(t, queued) /\ ToSet(t) = ToSet(Story) \cup ToSet(m)
  BY <1>1, <1>2, InsertSeq DEF Apart, InOrder
<1>4. InOrder'
  BY <1>3 DEF InOrder
<1>5. Apart'
  <2>1. ToSet(Story)' = ToSet(t) /\ IsInjective(Story)' = IsInjective(t) /\ ToSet(queued)' = ToSet(queued)
        /\ IsInjective(queued)' = IsInjective(queued)
    OBVIOUS
  <2> HIDE DEF t
  <2>2. ToSet(Story)' \cup ToSet(queued)' \subseteq (ToSet(Story) \cup ToSet(queued)) \cup ToSet(m)
    BY <1>3, <2>1
  <2> QED BY <1>3, <2>1, <2>2, InboxesApart DEF Apart
<1>6. Keeps
  BY <1>3, StorySet, StorySetNext, InboxesKept DEF Keeps
<1> QED BY <1>4, <1>5, <1>6

\* m, which is new to the queue, is put at its end; a rest may be given up.
LEMMA Added ==
  ASSUME Typed, Typed', Apart, InOrder, NEW m \in Seq(Thing), NEW rest \in Seq(Thing), Inboxes(m),
         IsInjective(m), Story \o m = Story' \o rest, queued' = queued \o m,
         ToSet(m) \cap (ToSet(Story) \cup ToSet(queued)) = {}
  PROVE  Apart' /\ InOrder' /\ (rest = <<>> => Keeps)
<1> DEFINE s == Story
           t == Story'
           p == queued
           q == queued'
<1>1. s \in Seq(Thing) /\ t \in Seq(Thing) /\ p \in Seq(Thing) /\ q \in Seq(Thing)
  BY StorySet, StorySetNext DEF Typed
<1>2. IsInjective(s) /\ IsInjective(p) /\ Follows(s, p) /\ ToSet(m) \cap (ToSet(s) \cup ToSet(p)) = {}
  BY DEF Apart, InOrder
<1>8. s \o m = t \o rest /\ q = p \o m
  OBVIOUS
<1> HIDE DEF t, s, p, q
<1>7. /\ IsInjective(s \o m) /\ ToSet(s \o m) = ToSet(s) \cup ToSet(m)
      /\ IsInjective(q) /\ ToSet(q) = ToSet(p) \cup ToSet(m)
      /\ Follows(s \o m, q)
  <2>1. /\ IsInjective(s \o m) /\ ToSet(s \o m) = ToSet(s) \cup ToSet(m)
        /\ IsInjective(p \o m) /\ ToSet(p \o m) = ToSet(p) \cup ToSet(m)
        /\ Follows(s \o m, p \o m)
    BY <1>1, <1>2, AddSeq
  <2> QED BY <1>8, <2>1
<1>3. /\ IsInjective(t) /\ Follows(t, q) /\ ToSet(t) \subseteq ToSet(s) \cup ToSet(m)
      /\ rest = <<>> => ToSet(t) = ToSet(s) \cup ToSet(m)
  <2>1. IsInjective(t \o rest) /\ Follows(t \o rest, q) /\ ToSet(t \o rest) = ToSet(s) \cup ToSet(m)
    BY <1>7, <1>8
  <2> QED BY <1>1, <2>1, FrontSeq
<1>4. InOrder'
  BY <1>3 DEF InOrder, t, q
<1>5. Apart'
  <2>1. ToSet(Story)' = ToSet(t) /\ IsInjective(Story)' = IsInjective(t) /\ ToSet(queued)' = ToSet(q)
        /\ IsInjective(queued)' = IsInjective(q)
    BY DEF t, q
  <2>2. ToSet(Story)' \cup ToSet(queued)' \subseteq (ToSet(Story) \cup ToSet(queued)) \cup ToSet(m)
    BY <1>3, <1>7, <2>1 DEF s, p
  <2> QED BY <1>3, <1>7, <2>1, <2>2, InboxesApart DEF Apart
<1>6. ASSUME rest = <<>> PROVE Keeps
  BY <1>3, <1>6, StorySet, StorySetNext, InboxesKept DEF Keeps, s, t
<1> QED BY <1>4, <1>5, <1>6

-----------------------------------------------------------------------------

\* Every turn has a number of its own; only a turn with the agent has an inbox
\* with something in it.
Epochs ==
  /\ turnEpoch \in Nat /\ inbox \in 0 .. turnEpoch
  /\ \A c \in Chain : chain[c].at = "agent" => chain[c].epoch \in 1 .. turnEpoch
  /\ \A c, d \in Chain :
       chain[c].at = "agent" /\ chain[d].at = "agent" /\ chain[c].epoch = chain[d].epoch => c = d
  /\ \A c \in Chain : chain[c].at # "agent" => Pend(c) = <<>>

FlowInv == Typed /\ Apart /\ InOrder /\ Epochs

\* Inputs that are nowhere yet.
New(m) ==
  /\ m \in Seq(Thing) /\ IsInjective(m)
  /\ ToSet(m) \cap (ToSet(Story) \cup ToSet(queued)) = {}
  /\ \A d \in Chain : ToSet(Pend(d)) \cap ToSet(m) = {}

\* No input is new.
LEMMA NewNone == New(<<>>)
BY EmptySet, EmptySeq DEF New

\* One that was not sent yet is.
LEMMA NewOne == ASSUME Typed, NEW x \in Thing, Fresh(x) PROVE New(<<x>>)
<1>1. <<x>> \in Seq(Thing)
  OBVIOUS
<1> QED BY <1>1, FreshApart DEF New

\* The next line the user sends is.
LEMMA NewLine == ASSUME Typed, NEW x \in NextLine PROVE x \in Thing /\ Fresh(x) /\ New(<<x>>)
<1>1. x \in Input /\ Fresh(x)
  BY DEF NextLine
<1> QED BY <1>1, NewOne DEF Thing

\* The inboxes stay as they are.
Still == \A d \in Chain : Pend(d)' = Pend(d)

\* Inboxes that stay as they are stay apart from what is new.
LEMMA StillInboxes == ASSUME Still, NEW m, New(m) PROVE Inboxes(m)
BY DEF Still, New, Inboxes

\* New inputs go to the agent, or none.
LEMMA Given ==
  ASSUME Typed, Apart, InOrder, NEW m, New(m), Still, IsQueue(core'), started' \in Seq(Thing),
         started' \o FlattenSeq(core'.queue) = (started \o m) \o FlattenSeq(core.queue), queued' = queued
  PROVE  Typed' /\ Apart' /\ InOrder' /\ Keeps
<1>1. Typed'
  BY DEF Typed, Still
<1>2. Story' = (started \o m) \o FlattenSeq(core.queue)
  BY DEF Story
<1>3. Inboxes(m)
  BY StillInboxes
<1> QED BY <1>1, <1>2, <1>3, Inserted DEF New

\* The agent is given nothing.
LEMMA GivenNone ==
  ASSUME Typed, Apart, InOrder, Still, IsQueue(core'), started' = started,
         FlattenSeq(core'.queue) = FlattenSeq(core.queue), queued' = queued
  PROVE  Typed' /\ Apart' /\ InOrder' /\ Keeps
<1>1. started' \in Seq(Thing) /\ started \o <<>> = started
  BY ConcatEmptySeq DEF Typed
<1>2. started' \o FlattenSeq(core'.queue) = (started \o <<>>) \o FlattenSeq(core.queue)
  BY <1>1
<1> QED BY <1>1, <1>2, NewNone, Given

\* The agent is given one new input.
LEMMA GivenOne ==
  ASSUME Typed, Apart, InOrder, Still, IsQueue(core'), NEW x \in Thing, Fresh(x), started' = Append(started, x),
         FlattenSeq(core'.queue) = FlattenSeq(core.queue), queued' = queued
  PROVE  Typed' /\ Apart' /\ InOrder' /\ Keeps
<1>1. started' \in Seq(Thing) /\ started' = started \o <<x>>
  BY DEF Typed
<1>2. started' \o FlattenSeq(core'.queue) = (started \o <<x>>) \o FlattenSeq(core.queue)
  BY <1>1
<1> QED BY <1>1, <1>2, NewOne, Given

\* A new input goes to the queue.
LEMMA QueuedOne ==
  ASSUME Typed, Apart, InOrder, Still, NEW x \in Thing, Fresh(x), core' = Enqueue(core, <<x>>),
         queued' = Append(queued, x), started' = started
  PROVE  Typed' /\ Apart' /\ InOrder' /\ Keeps
<1> DEFINE m == <<x>>
           b == FlattenSeq(core.queue)
<1>1. New(m) /\ m \in Seq(Thing) /\ b \in Seq(Thing) /\ started \in Seq(Thing)
  BY NewOne, StorySet DEF Typed, New
<1>2. queued' = queued \o m /\ queued' \in Seq(Thing)
  BY DEF Typed
<1>3. IsQueue(core') /\ FlattenSeq(core'.queue) = b \o m
  BY <1>1, QueueContents DEF Typed
<1>4. Typed'
  BY <1>1, <1>2, <1>3 DEF Typed, Still
<1> HIDE DEF m, b
<1>5. Story' = started \o (b \o m) /\ Story = started \o b
  BY <1>3 DEF Story, b
<1>6. Story' = (started \o b) \o m
  <2>1. started \in Seq(Thing) /\ b \in Seq(Thing) /\ m \in Seq(Thing)
    BY <1>1
  <2>2. (started \o b) \o m = started \o (b \o m)
    BY <2>1, Regroup
  <2> QED BY <1>5, <2>2
<1>7. Story \o m = Story' \o <<>>
  BY <1>4, <1>5, <1>6, StorySetNext, ConcatEmptySeq
<1>8. Inboxes(m)
  BY <1>1, StillInboxes
<1>9. <<>> \in Seq(Thing)
  OBVIOUS
<1> QED BY <1>1, <1>2, <1>4, <1>7, <1>8, <1>9, Added DEF New

-----------------------------------------------------------------------------

\* A record without an inbox in the place of one of a chain whose inbox is
\* empty.
LEMMA StillUpdate ==
  ASSUME Shape, Epochs, NEW c \in Chain, NEW r, chain' = [chain EXCEPT ![c] = r],
         chain[c].at # "agent", r.pending = <<>>
  PROVE  Still
BY DEF Shape, Still, Epochs, Pend

\* A turn that begins leaves the inboxes alone.
LEMMA StillBegin ==
  ASSUME Shape, Epochs, NEW c \in Chain, NEW request, BeginTurn(c, request), chain[c].at # "agent"
  PROVE  Still
<1> DEFINE r == [at |-> "agent", req |-> request, epoch |-> turnEpoch + 1, pending |-> <<>>]
<1>1. r.pending = <<>>
  OBVIOUS
<1>2. chain' = [chain EXCEPT ![c] = r]
  BY DEF BeginTurn, InFlight
<1> HIDE DEF r
<1> QED BY <1>1, <1>2, StillUpdate

\* The numbers stay sound while no turn begins.
LEMMA EpochsKept ==
  ASSUME Epochs, turnEpoch' = turnEpoch, inbox' \in {inbox, 0},
         \A d \in Chain : chain'[d].at = "agent" => chain[d].at = "agent" /\ chain'[d].epoch = chain[d].epoch,
         \A d \in Chain : chain'[d].at # "agent" => chain'[d].pending = <<>>
  PROVE  Epochs'
BY DEF Epochs, Pend

\* A chain that leaves the agent takes no number along.
LEMMA EpochsUpdate ==
  ASSUME Shape, Epochs, turnEpoch' = turnEpoch, inbox' \in {inbox, 0}, NEW c \in Chain, NEW r,
         chain' = [chain EXCEPT ![c] = r], r.pending = <<>>, r.at # "agent"
  PROVE  Epochs'
<1>1. /\ \A d \in Chain : chain'[d].at = "agent" => chain[d].at = "agent" /\ chain'[d].epoch = chain[d].epoch
      /\ \A d \in Chain : chain'[d].at # "agent" => chain'[d].pending = <<>>
  BY DEF Shape, Epochs, Pend
<1> QED BY <1>1, EpochsKept

\* A turn that begins has a number none had before.
LEMMA EpochsBegin ==
  ASSUME Shape, Epochs, NEW c \in Chain, NEW request, BeginTurn(c, request)
  PROVE  Epochs'
<1> DEFINE r == [at |-> "agent", req |-> request, epoch |-> turnEpoch + 1, pending |-> <<>>]
<1>1. r.at = "agent" /\ r.epoch = turnEpoch + 1 /\ r.pending = <<>>
  OBVIOUS
<1>2. chain' = [chain EXCEPT ![c] = r] /\ turnEpoch' = turnEpoch + 1 /\ inbox' = turnEpoch + 1
  BY DEF BeginTurn, InFlight
<1> HIDE DEF r
<1>3. chain'[c] = r /\ \A d \in Chain : d # c => chain'[d] = chain[d]
  BY <1>2 DEF Shape
<1>4. turnEpoch' \in Nat /\ inbox' \in 0 .. turnEpoch'
  BY <1>2 DEF Epochs
<1>5. \A d \in Chain : chain'[d].at = "agent" => chain'[d].epoch \in 1 .. turnEpoch'
  BY <1>1, <1>2, <1>3 DEF Epochs
<1>6. \A d, e \in Chain :
        chain'[d].at = "agent" /\ chain'[e].at = "agent" /\ chain'[d].epoch = chain'[e].epoch => d = e
  BY <1>1, <1>3 DEF Epochs
<1>7. \A d \in Chain : chain'[d].at # "agent" => chain'[d].pending = <<>>
  BY <1>1, <1>3 DEF Epochs, Pend
<1> QED BY <1>4, <1>5, <1>6, <1>7 DEF Epochs, Pend

\* Records of chains that are not with the agent have no inbox.
LEMMA IdleRecord ==
  ASSUME NEW s, NEW request
  PROVE  /\ [Idle EXCEPT !.at = s, !.req = request].pending = <<>>
         /\ [Idle EXCEPT !.at = s].pending = <<>>
         /\ Idle.pending = <<>>
BY DEF Idle

-----------------------------------------------------------------------------

Flowing == Shape /\ FlowInv
Flows == FlowInv' /\ Keeps

\* Enter with a text while idle gives one new input to the agent.
LEMMA SubmitFlows == ASSUME Flowing, NEW c \in Chain, NEW x \in NextLine, Submit(c, x) PROVE Flows
<1> DEFINE r == [Idle EXCEPT !.at = "submitted", !.req = <<x>>]
<1>1. /\ chain' = [chain EXCEPT ![c] = r] /\ core' = Recovered(core) /\ chain[c].at = "off"
      /\ started' = Append(started, x) /\ queued' = queued /\ turnEpoch' = turnEpoch /\ inbox' = inbox
  BY DEF Submit, turn, Off
<1>2. r.pending = <<>> /\ r.at # "agent"
  <2>1. "submitted" \in Stage
    BY DEF Stage
  <2>2. r.at = "submitted"
    BY <2>1, IdleShape
  <2>3. r.pending = <<>>
    BY IdleRecord
  <2> QED BY <2>2, <2>3
<1> HIDE DEF r
<1>3. x \in Thing /\ Fresh(x)
  BY NewLine DEF Flowing, FlowInv
<1>4. Still /\ Epochs'
  BY <1>1, <1>2, StillUpdate, EpochsUpdate DEF Flowing, FlowInv
<1>5. IsQueue(core') /\ core'.queue = core.queue
  BY <1>1, QueueContents, EmptySeq DEF Flowing, FlowInv, Typed
<1> QED BY <1>1, <1>3, <1>4, <1>5, GivenOne DEF Flowing, FlowInv, Flows

\* A wake on an idle composer goes to the agent at once.
LEMMA WakeRunsFlows == ASSUME Flowing, NEW c \in Chain, NEW w \in Wake, WakeRuns(c, w) PROVE Flows
<1>1. /\ core' = TurnStart(core) /\ chain[c].at = "off" /\ BeginTurn(c, <<w>>)
      /\ started' = Append(started, w) /\ queued' = queued /\ w \in Thing /\ Fresh(w)
  BY DEF WakeRuns, Off, Thing
<1>2. Still /\ Epochs'
  BY <1>1, StillBegin, EpochsBegin DEF Flowing, FlowInv
<1>3. IsQueue(core') /\ core'.queue = core.queue
  BY <1>1, QueueContents, EmptySeq DEF Flowing, FlowInv, Typed
<1> QED BY <1>1, <1>2, <1>3, GivenOne DEF Flowing, FlowInv, Flows

\* So does the line of /learn.
LEMMA LearnFlows == ASSUME Flowing, NEW c \in Chain, NEW x \in NextLine, LearnTurn(c, x) PROVE Flows
<1>1. /\ core' = TurnStart(core) /\ chain[c].at = "command" /\ BeginTurn(c, <<x>>)
      /\ started' = Append(started, x) /\ queued' = queued
  BY DEF LearnTurn
<1>2. x \in Thing /\ Fresh(x)
  BY NewLine DEF Flowing, FlowInv
<1>3. Still /\ Epochs'
  BY <1>1, StillBegin, EpochsBegin DEF Flowing, FlowInv
<1>4. IsQueue(core') /\ core'.queue = core.queue
  BY <1>1, QueueContents, EmptySeq DEF Flowing, FlowInv, Typed
<1> QED BY <1>1, <1>2, <1>3, <1>4, GivenOne DEF Flowing, FlowInv, Flows

\* Turns that begin with what was given to the agent before.
LEMMA BeginsFlow ==
  ASSUME Flowing, NEW c \in Chain, BeginDirect(c) \/ OpenDrained(c)
  PROVE  Flows
<1>1. /\ core' = TurnStart(core) \/ core' = core
      /\ chain[c].at # "agent" /\ BeginTurn(c, chain[c].req) /\ started' = started /\ queued' = queued
  BY DEF BeginDirect, OpenDrained, history, binding
<1>2. Still /\ Epochs'
  BY <1>1, StillBegin, EpochsBegin DEF Flowing, FlowInv
<1>3. IsQueue(core') /\ core'.queue = core.queue
  BY <1>1, QueueContents, EmptySeq DEF Flowing, FlowInv, Typed
<1> QED BY <1>1, <1>2, <1>3, GivenNone DEF Flowing, FlowInv, Flows

\* Commands.
LEMMA CommandFlows ==
  ASSUME Flowing, NEW c \in Chain, CommandBegins(c) \/ CommandEnds(c)
  PROVE  Flows
<1> DEFINE b == [Idle EXCEPT !.at = "command"]
<1>1. PICK r \in {b, Idle} : /\ chain' = [chain EXCEPT ![c] = r] /\ chain[c].at # "agent"
                             /\ core' = Recovered(core) \/ core' = core
                             /\ started' = started /\ queued' = queued /\ turnEpoch' = turnEpoch /\ inbox' = inbox
  BY DEF CommandBegins, CommandEnds, Off, history, binding, turn
<1>2. r.pending = <<>> /\ r.at # "agent"
  <2>1. "command" \in Stage
    BY DEF Stage
  <2>2. b.at = "command" /\ Idle.at = "off"
    BY <2>1, IdleShape
  <2>3. b.pending = <<>> /\ Idle.pending = <<>>
    BY IdleRecord
  <2> QED BY <1>1, <2>2, <2>3
<1>3. Still /\ Epochs'
  BY <1>1, <1>2, StillUpdate, EpochsUpdate DEF Flowing, FlowInv
<1>4. IsQueue(core') /\ core'.queue = core.queue
  BY <1>1, QueueContents, EmptySeq DEF Flowing, FlowInv, Typed
<1> QED BY <1>1, <1>3, <1>4, GivenNone DEF Flowing, FlowInv, Flows

\* Steps that leave the chains alone.
LEMMA StillSame ==
  ASSUME Epochs, chain' = chain, turnEpoch' = turnEpoch, inbox' = inbox
  PROVE  Still /\ Epochs'
BY DEF Epochs, Still, Pend

\* The keys of a busy composer, apart from Enter with a text.
LEMMA BusyKeysFlow ==
  ASSUME Flowing, EnterWhileBusy \/ FlushWhileBusy \/ StopTurn \/ ForceStop \/ UNCHANGED vars
  PROVE  Flows
<1>1. /\ core' = Flushed(core, <<>>) \/ core' = core
      /\ chain' = chain /\ started' = started /\ queued' = queued /\ turnEpoch' = turnEpoch /\ inbox' = inbox
  BY DEF EnterWhileBusy, FlushWhileBusy, StopTurn, ForceStop, vars, binding, history, turn
<1>2. Still /\ Epochs'
  BY <1>1, StillSame DEF Flowing, FlowInv
<1>3. IsQueue(core') /\ FlattenSeq(core'.queue) = FlattenSeq(core.queue)
  <2>1. CASE core' = core
    BY <2>1 DEF Flowing, FlowInv, Typed
  <2>2. CASE core' = Flushed(core, <<>>)
    <3>1. IsQueue(core) /\ <<>> \in Seq(Thing) /\ FlattenSeq(core.queue) \in Seq(Thing)
      BY StorySet DEF Flowing, FlowInv, Typed
    <3>2. IsQueue(Flushed(core, <<>>)) /\ FlattenSeq(Flushed(core, <<>>).queue) = <<>> \o FlattenSeq(core.queue)
      BY <3>1, FlushedContents
    <3> QED BY <2>2, <3>1, <3>2, ConcatEmptySeq
  <2> QED BY <1>1, <2>1, <2>2
<1> QED BY <1>1, <1>2, <1>3, GivenNone DEF Flowing, FlowInv, Flows

\* Enter with a text while busy queues one new input.
LEMMA EnqueueFlows == ASSUME Flowing, NEW x \in NextLine, EnqueueWhileBusy(x) PROVE Flows
<1>1. /\ core' = Enqueue(core, <<x>>) /\ queued' = Append(queued, x) /\ chain' = chain /\ started' = started
      /\ turnEpoch' = turnEpoch /\ inbox' = inbox
  BY DEF EnqueueWhileBusy, turn
<1>2. x \in Thing /\ Fresh(x)
  BY NewLine DEF Flowing, FlowInv
<1>3. Still /\ Epochs'
  BY <1>1, StillSame DEF Flowing, FlowInv
<1> QED BY <1>1, <1>2, <1>3, QueuedOne DEF Flowing, FlowInv, Flows

\* The manual drain of a queue q that holds the draft m and what waits.
LEMMA ManualFlows ==
  ASSUME Flowing, NEW c \in Chain, NEW q, NEW m, New(m), ManualDrain(c, q), chain[c].at = "off", queued' = queued,
         IsQueue(q), q.queue # <<>>, FlattenSeq(q.queue) = m \o FlattenSeq(core.queue)
  PROVE  Flows
<1> DEFINE b == FlattenSeq(core.queue)
<1>1. started \in Seq(Thing) /\ b \in Seq(Thing) /\ m \in Seq(Thing)
  BY StorySet DEF Flowing, FlowInv, Typed, New
<1>2. Typed /\ Apart /\ InOrder /\ Epochs /\ Shape
  BY DEF Flowing, FlowInv
<1> HIDE DEF b
<1>3. (started \o m) \o b = started \o (m \o b)
  BY <1>1, Regroup
<1>4. CASE q.running
  <2>1. core' = Recovered(q) /\ UNCHANGED turn /\ chain' = chain /\ started' = started
    BY <1>4 DEF ManualDrain
  <2>2. IsQueue(core') /\ core'.queue = q.queue
    BY <2>1, QueueContents, EmptySeq
  <2>3. Still /\ Epochs'
    BY <1>2, <2>1, StillSame DEF turn
  <2>4. started' \o FlattenSeq(core'.queue) = (started \o m) \o b
    BY <1>3, <2>1, <2>2 DEF b
  <2> QED BY <1>1, <1>2, <2>1, <2>2, <2>3, <2>4, Given DEF b, Flows, FlowInv
<1>5. CASE ~q.running
  <2> DEFINE p == TurnStart(q)
             h == Head(q.queue)
  <2>1. core' = Dequeue(p) /\ BeginTurn(c, h) /\ started' = started \o h
    BY <1>5 DEF ManualDrain
  <2>2. IsQueue(p) /\ p.queue = q.queue
    BY QueueContents, EmptySeq
  <2>3. /\ IsQueue(Dequeue(p)) /\ Head(p.queue) \in Seq(Thing)
        /\ FlattenSeq(p.queue) = Head(p.queue) \o FlattenSeq(Dequeue(p).queue)
    BY <2>2, QueueContents, EmptySeq
  <2>4. Still /\ Epochs'
    BY <1>2, <2>1, StillBegin, EpochsBegin
  <2> DEFINE e == FlattenSeq(core'.queue)
  <2>5. h \in Seq(Thing) /\ IsQueue(core') /\ e \in Seq(Thing) /\ h \o e = m \o b
    BY <2>1, <2>2, <2>3, FlattenIsSeq DEF b, IsQueue
  <2> HIDE DEF e, h, p
  <2>6. (started \o h) \o e = started \o (h \o e)
    <3>1. started \in Seq(Thing) /\ h \in Seq(Thing) /\ e \in Seq(Thing)
      BY <1>1, <2>5
    <3> QED BY <3>1, Regroup
  <2>7. started' \o e = (started \o m) \o b /\ started' \in Seq(Thing)
    BY <1>1, <1>3, <2>1, <2>5, <2>6
  <2> QED BY <1>2, <2>4, <2>5, <2>7, Given DEF b, e, Flows, FlowInv
<1> QED BY <1>4, <1>5

\* Enter and Ctrl+S on an idle composer.
LEMMA IdleKeysFlow ==
  ASSUME Flowing, NEW c \in Chain, EnterWhileIdle(c) \/ FlushWhileIdle(c)
  PROVE  Flows
<1>1. chain[c].at = "off" /\ queued' = queued
  BY DEF EnterWhileIdle, FlushWhileIdle, Off
<1>2. Typed /\ IsQueue(core) /\ FlattenSeq(core.queue) \in Seq(Thing)
  BY StorySet DEF Flowing, FlowInv, Typed
<1>3. CASE EnterWhileIdle(c)
  <2>1. core.queue # <<>> /\ ManualDrain(c, core)
    BY <1>3 DEF EnterWhileIdle
  <2>2. New(<<>>) /\ FlattenSeq(core.queue) = <<>> \o FlattenSeq(core.queue)
    BY <1>2, NewNone, ConcatEmptySeq
  <2> QED BY <1>1, <1>2, <2>1, <2>2, ManualFlows
<1>4. CASE FlushWhileIdle(c)
  <2>1. PICK draft \in {<<>>} \cup {<<x>> : x \in NextLine} : ManualDrain(c, Flushed(core, draft))
    BY <1>4 DEF FlushWhileIdle
  <2>2. New(draft)
    BY <1>2, <2>1, NewNone, NewLine
  <2>3. /\ IsQueue(Flushed(core, draft)) /\ Flushed(core, draft).queue # <<>>
        /\ FlattenSeq(Flushed(core, draft).queue) = draft \o FlattenSeq(core.queue)
    BY <1>2, <2>2, FlushedContents DEF New
  <2> QED BY <1>1, <2>1, <2>2, <2>3, ManualFlows
<1> QED BY <1>3, <1>4

-----------------------------------------------------------------------------

\* One inbox takes a wake that is nowhere yet.
LEMMA Pushes ==
  ASSUME Flowing, NEW w \in Wake, Fresh(w), inbox # 0, chain' = [d \in Chain |-> Pushed(d, w)],
         core' = core, queued' = queued, started' = started
  PROVE  Typed' /\ Apart' /\ InOrder' /\ Keeps
<1> DEFINE A(d) == chain[d].at = "agent" /\ chain[d].epoch = inbox
<1>1. Typed /\ Apart /\ InOrder /\ Epochs /\ w \in Thing /\ <<w>> \in Seq(Thing)
  BY DEF Flowing, FlowInv, Thing
<1>2. /\ ToSet(<<w>>) = {w} /\ IsInjective(<<w>>) /\ w \notin ToSet(Story) \cup ToSet(queued)
      /\ \A d \in Chain : w \notin ToSet(Pend(d))
  <2>1. ToSet(<<w>>) = {w}
    BY SingleSet
  <2> QED BY <1>1, <2>1, FreshApart
<1>3. \A d, e \in Chain : A(d) /\ A(e) => d = e
  BY <1>1 DEF Epochs
<1>4. ASSUME NEW d \in Chain
      PROVE  /\ Pend(d)' \in Seq(Thing) /\ IsInjective(Pend(d)')
             /\ ToSet(Pend(d)') = IF A(d) THEN ToSet(Pend(d)) \cup {w} ELSE ToSet(Pend(d))
  <2>1. Pend(d) \in Seq(Thing) /\ IsInjective(Pend(d)) /\ w \notin ToSet(Pend(d))
    BY <1>1, <1>2 DEF Typed, Apart
  <2>2. CASE ~A(d)
    BY <2>1, <2>2 DEF Pushed, Pend
  <2>3. CASE A(d)
    <3>1. chain'[d] = [chain[d] EXCEPT !.pending = Append(@, w)]
      BY <2>3 DEF Pushed
    <3>2. Pend(d)' = Append(Pend(d), w)
      BY <3>1 DEF Flowing, Shape, ChainShape, Pend
    <3>3. Append(Pend(d), w) = Pend(d) \o <<w>>
      BY <2>1
    <3>4. ToSet(Pend(d)) \cap ToSet(<<w>>) = {}
      BY <1>2, <2>1
    <3> DEFINE s == Pend(d)
               t == <<w>>
    <3>5. s \in Seq(Thing) /\ t \in Seq(Thing) /\ IsInjective(s) /\ IsInjective(t)
      BY <1>1, <1>2, <2>1
    <3> HIDE DEF s, t
    <3>6. IsInjective(s \o t)
      BY <3>4, <3>5, JoinInjective DEF s, t
    <3>7. s \o t \in Seq(Thing) /\ ToSet(s \o t) = ToSet(s) \cup ToSet(t)
      BY <3>5, JoinSet
    <3> QED BY <1>2, <2>3, <3>2, <3>3, <3>6, <3>7 DEF s, t
  <2> QED BY <2>2, <2>3
<1> HIDE DEF A
<1>5. Story' = Story
  BY DEF Story
<1>6. Typed'
  BY <1>1, <1>4 DEF Typed
<1>7. Apart'
  BY <1>1, <1>2, <1>3, <1>4, <1>5 DEF Apart
<1>8. InOrder'
  BY <1>1, <1>5 DEF InOrder
<1>9. Keeps
  <2>1. \A d \in Chain : ToSet(Pend(d)) \subseteq ToSet(Pend(d)')
    BY <1>4
  <2>2. InInbox \subseteq InInbox'
    BY <2>1 DEF InInbox, Pend
  <2> QED BY <2>2 DEF Keeps, Surviving, InQueue
<1> QED BY <1>6, <1>7, <1>8, <1>9

\* A wake that arrives while the composer is busy: to the inbox that is
\* offered, or to the queue.
LEMMA WakeArrivesFlows == ASSUME Flowing, NEW w \in Wake, WakeArrives(w) PROVE Flows
<1>1. Fresh(w) /\ started' = started /\ turnEpoch' = turnEpoch /\ inbox' = inbox
  BY DEF WakeArrives, turn
<1>2. CASE inbox # 0
  <2>1. chain' = [d \in Chain |-> Pushed(d, w)] /\ core' = core /\ queued' = queued
    BY <1>2 DEF WakeArrives
  <2>2. Typed' /\ Apart' /\ InOrder' /\ Keeps
    BY <1>1, <1>2, <2>1, Pushes
  <2>3. \A d \in Chain : chain'[d].at = "agent" => chain[d].at = "agent" /\ chain'[d].epoch = chain[d].epoch
    BY <2>1 DEF Pushed, Flowing, Shape, ChainShape
  <2>4. \A d \in Chain : chain'[d].at # "agent" => chain'[d].pending = <<>>
    BY <2>1 DEF Pushed, Flowing, FlowInv, Epochs, Pend, Shape, ChainShape
  <2>5. Epochs'
    BY <1>1, <2>3, <2>4, EpochsKept DEF Flowing, FlowInv
  <2> QED BY <2>2, <2>5 DEF Flows, FlowInv
<1>3. CASE inbox = 0
  <2>1. core' = Enqueue(core, <<w>>) /\ queued' = Append(queued, w) /\ chain' = chain
    BY <1>3 DEF WakeArrives
  <2>2. Still /\ Epochs'
    BY <1>1, <2>1, StillSame DEF Flowing, FlowInv
  <2>3. w \in Thing
    BY DEF Thing
  <2> QED BY <1>1, <2>1, <2>2, <2>3, QueuedOne DEF Flowing, FlowInv, Flows
<1> QED BY <1>2, <1>3

\* An inbox is emptied.
LEMMA EmptiesInbox ==
  ASSUME Flowing, NEW c \in Chain, NEW r, r.pending = <<>>, chain' = [chain EXCEPT ![c] = r]
  PROVE  Inboxes(Pend(c)) /\ \A d \in Chain : Pend(d)' \in Seq(Thing)
<1>1. Pend(c)' = <<>> /\ \A d \in Chain : d # c => Pend(d)' = Pend(d)
  BY DEF Flowing, Shape, Pend
<1>2. \A d \in Chain : d # c => ToSet(Pend(d)) \cap ToSet(Pend(c)) = {}
  BY DEF Flowing, FlowInv, Apart
<1>3. <<>> \in Seq(Thing) /\ \A d \in Chain : Pend(d) \in Seq(Thing)
  BY DEF Flowing, FlowInv, Typed
<1>4. \A d \in Chain : Pend(d)' \in Seq(Thing)
  BY <1>1, <1>3
<1>5. ASSUME NEW d \in Chain
      PROVE  /\ Pend(d)' = Pend(d) \/ Pend(d)' = <<>>
             /\ ToSet(Pend(d)') \cap ToSet(Pend(c)) = {}
             /\ ToSet(Pend(d)) \subseteq ToSet(Pend(d)') \cup ToSet(Pend(c))
  <2>1. CASE d = c
    <3>1. Pend(d)' = <<>> /\ Pend(d) = Pend(c)
      BY <1>1, <2>1
    <3>2. ToSet(Pend(d)') = {}
      BY <3>1, EmptySet
    <3> QED BY <3>1, <3>2
  <2>2. CASE d # c
    BY <1>1, <1>2, <2>2
  <2> QED BY <2>1, <2>2
<1> QED BY <1>4, <1>5 DEF Inboxes

\* What the loop takes over from its inbox goes to the agent.
LEMMA DrainInjectionsFlow == ASSUME Flowing, NEW c \in Chain, DrainInjections(c) PROVE Flows
<1> DEFINE r == [chain[c] EXCEPT !.pending = <<>>]
           m == Pend(c)
<1>1. /\ chain' = [chain EXCEPT ![c] = r] /\ core' = core /\ queued' = queued /\ started' = started \o m
      /\ turnEpoch' = turnEpoch /\ inbox' = inbox /\ chain[c].at = "agent"
  BY DEF DrainInjections, Drained, Pend, binding, turn
<1>2. r.pending = <<>> /\ r.at = chain[c].at /\ r.epoch = chain[c].epoch
  BY DEF Flowing, Shape, ChainShape
<1> HIDE DEF r
<1>3. /\ m \in Seq(Thing) /\ started \in Seq(Thing) /\ IsInjective(m)
      /\ ToSet(m) \cap (ToSet(Story) \cup ToSet(queued)) = {}
  BY DEF Flowing, FlowInv, Typed, Apart
<1>4. Inboxes(m) /\ \A d \in Chain : Pend(d)' \in Seq(Thing)
  BY <1>1, <1>2, EmptiesInbox
<1> HIDE DEF m
<1>5. started' \in Seq(Thing)
  BY <1>1, <1>3
<1>6. Typed'
  BY <1>1, <1>4, <1>5 DEF Typed, Flowing, FlowInv
<1>7. Story' = (started \o m) \o FlattenSeq(core.queue)
  BY <1>1 DEF Story
<1>8. Apart' /\ InOrder' /\ Keeps
  BY <1>1, <1>3, <1>4, <1>6, <1>7, Inserted DEF Flowing, FlowInv
<1>9. chain'[c] = r /\ \A d \in Chain : d # c => chain'[d] = chain[d]
  BY <1>1 DEF Flowing, Shape
<1>10. /\ \A d \in Chain : chain'[d].at = "agent" => chain[d].at = "agent" /\ chain'[d].epoch = chain[d].epoch
       /\ \A d \in Chain : chain'[d].at # "agent" => chain'[d].pending = <<>>
  BY <1>2, <1>9 DEF Flowing, FlowInv, Epochs, Pend
<1>11. Epochs'
  BY <1>1, <1>10, EpochsKept DEF Flowing, FlowInv
<1> QED BY <1>6, <1>8, <1>11 DEF Flows, FlowInv

\* What notifyTurnEnd finds waiting: nothing after an abort, else all of it,
\* what the inbox left over last.
LEMMA EndedContents ==
  ASSUME Flowing, NEW c \in Chain, NEW raw
  PROVE  /\ IsQueue(Ended(c, raw))
         /\ FlattenSeq(Ended(c, raw).queue) =
              IF Effective(raw).aborted THEN <<>> ELSE FlattenSeq(core.queue) \o Pend(c)
<1> DEFINE out == Effective(raw)
           p == WithLeftover(c)
           q == TurnEnd(p, out.ok, out.aborted)
<1>1. IsQueue(p) /\ FlattenSeq(p.queue) = FlattenSeq(core.queue) \o Pend(c)
  <2>1. IsQueue(core) /\ chain[c].pending \in Seq(Thing)
    BY DEF Flowing, FlowInv, Typed, Pend
  <2> QED BY <2>1, LeftoverContents DEF Pend
<1> HIDE DEF p
<1>2. IsQueue(q) /\ q.queue = IF out.aborted THEN <<>> ELSE p.queue
  BY <1>1, TurnEndContents
<1>3. Ended(c, raw) = q \/ Ended(c, raw) = NoError(q)
  BY DEF Ended, p
<1> HIDE DEF q, out
<1>4. IsQueue(NoError(q)) /\ NoError(q).queue = q.queue
  BY <1>2, QueueContents, EmptySeq
<1> QED BY <1>1, <1>2, <1>3, <1>4, FlattenEmpty DEF out

-----------------------------------------------------------------------------

\* A turn that returns keeps everything, unless it was aborted and no stop or
\* drain was armed.
LEMMA TurnReturnsFlows ==
  ASSUME Flowing, NEW c \in Chain, TurnReturns(c)
  PROVE  FlowInv' /\ (Keeps \/ (preempt = "none" /\ (signal \/ chain[c].epoch = forcedEpoch)))
<1>1. PICK raw \in {Returned(c), Threw} :
        IF ShouldDrain(Ended(c, raw), Effective(raw).ok /\ ~Effective(raw).aborted)
        THEN /\ core' = Dequeue(TurnStart(Ended(c, raw)))
             /\ chain' = [chain EXCEPT ![c] =
                  [Idle EXCEPT !.at = "opening", !.req = Head(Ended(c, raw).queue)]]
             /\ started' = started \o Head(Ended(c, raw).queue)
        ELSE /\ core' = Ended(c, raw)
             /\ chain' = [chain EXCEPT ![c] = Idle]
             /\ started' = started
  BY DEF TurnReturns
<1> DEFINE q == Ended(c, raw)
           drains == ShouldDrain(q, Effective(raw).ok /\ ~Effective(raw).aborted)
           r == IF drains THEN [Idle EXCEPT !.at = "opening", !.req = Head(q.queue)] ELSE Idle
           aborted == Effective(raw).aborted
           b == FlattenSeq(core.queue)
           m == Pend(c)
<1>2. /\ drains => core' = Dequeue(TurnStart(q)) /\ started' = started \o Head(q.queue)
      /\ ~drains => core' = q /\ started' = started
      /\ chain' = [chain EXCEPT ![c] = r]
  BY <1>1
<1>3. /\ queued' = queued \o m /\ turnEpoch' = turnEpoch /\ inbox' \in {inbox, 0} /\ chain[c].at = "agent"
  BY DEF TurnReturns, Pend
<1>4. drains => q.queue # <<>>
  BY DEF ShouldDrain
<1>5. r.pending = <<>> /\ r.at # "agent"
  <2>1. "opening" \in Stage
    BY DEF Stage
  <2>2. Idle.at = "off" /\ \A h : [Idle EXCEPT !.at = "opening", !.req = h].at = "opening"
    BY <2>1, IdleShape
  <2>3. Idle.pending = <<>> /\ \A h : [Idle EXCEPT !.at = "opening", !.req = h].pending = <<>>
    BY IdleRecord
  <2> QED BY <2>2, <2>3
<1>6. IsQueue(q) /\ FlattenSeq(q.queue) = IF aborted THEN <<>> ELSE b \o m
  BY EndedContents
<1>7. aborted => preempt = "none" /\ (signal \/ chain[c].epoch = forcedEpoch)
  <2>1. CASE raw = Returned(c)
    BY <2>1 DEF Effective, Returned
  <2>2. CASE raw = Threw
    BY <2>2 DEF Effective, Threw
  <2> QED BY <2>1, <2>2
<1>8. Typed /\ Apart /\ InOrder /\ Epochs /\ Shape
  BY DEF Flowing, FlowInv
<1>9. /\ m \in Seq(Thing) /\ b \in Seq(Thing) /\ started \in Seq(Thing) /\ queued \in Seq(Thing) /\ IsInjective(m)
      /\ ToSet(m) \cap (ToSet(Story) \cup ToSet(queued)) = {}
  BY <1>8, StorySet DEF Typed, Apart
<1> HIDE DEF r
<1>10. Inboxes(m) /\ \A d \in Chain : Pend(d)' \in Seq(Thing)
  BY <1>2, <1>5, EmptiesInbox
<1>11. Epochs'
  BY <1>2, <1>3, <1>5, <1>8, EpochsUpdate
<1> HIDE DEF q, drains, m, aborted, b
<1> DEFINE e == FlattenSeq(q.queue)
<1>12. e \in Seq(Thing)
  BY <1>6, FlattenIsSeq DEF IsQueue
\* Whether its head is drained or not, the queue goes on from what the agent
\* was given.
<1>13. IsQueue(core') /\ started' \in Seq(Thing) /\ started' \o FlattenSeq(core'.queue) = started \o e
  <2>1. CASE ~drains
    BY <1>2, <1>6, <1>9, <2>1
  <2>2. CASE drains
    <3> DEFINE p == TurnStart(q)
               h == Head(p.queue)
               f == FlattenSeq(Dequeue(p).queue)
    <3>1. IsQueue(p) /\ p.queue = q.queue
      BY <1>6, QueueContents, EmptySeq
    <3>2. IsQueue(Dequeue(p)) /\ h \in Seq(Thing) /\ FlattenSeq(p.queue) = h \o f
      BY <1>4, <2>2, <3>1, QueueContents, EmptySeq
    <3>3. core' = Dequeue(p) /\ started' = started \o h
      BY <1>2, <2>2, <3>1
    <3>4. f \in Seq(Thing)
      BY <3>2, FlattenIsSeq DEF IsQueue
    <3> HIDE DEF p, h, f
    <3>5. (started \o h) \o f = started \o (h \o f)
      <4>1. started \in Seq(Thing) /\ h \in Seq(Thing) /\ f \in Seq(Thing)
        BY <1>9, <3>2, <3>4
      <4> QED BY <4>1, Regroup
    <3> QED BY <1>9, <3>1, <3>2, <3>3, <3>5 DEF f
  <2> QED BY <2>1, <2>2
<1> HIDE DEF e
<1>14. Story' = started \o e /\ Story = started \o b
  BY <1>13 DEF Story, b
<1>15. Typed'
  BY <1>3, <1>9, <1>10, <1>13 DEF Typed
<1> DEFINE rest == IF aborted THEN b \o m ELSE <<>>
<1>16. (started \o b) \o m = started \o (b \o m)
  <2>1. started \in Seq(Thing) /\ b \in Seq(Thing) /\ m \in Seq(Thing)
    BY <1>9
  <2> QED BY <2>1, Regroup
<1>17. rest \in Seq(Thing) /\ Story \o m = Story' \o rest
  <2>1. CASE aborted
    BY <1>6, <1>9, <1>14, <1>16, <2>1, ConcatEmptySeq DEF e
  <2>2. CASE ~aborted
    <3>1. Story' = started \o (b \o m) /\ Story' \in Seq(Thing)
      BY <1>6, <1>9, <1>14, <2>2 DEF e
    <3>2. Story' \o <<>> = Story'
      BY <3>1, ConcatEmptySeq
    <3> QED BY <1>14, <1>16, <2>2, <3>1, <3>2
  <2> QED BY <2>1, <2>2
<1>18. ~aborted => rest = <<>>
  OBVIOUS
<1> HIDE DEF rest
<1>19. Apart' /\ InOrder' /\ (rest = <<>> => Keeps)
  BY <1>3, <1>8, <1>9, <1>10, <1>15, <1>17, Added
<1> QED BY <1>7, <1>11, <1>15, <1>18, <1>19 DEF FlowInv

\* At first nothing was sent.
LEMMA FlowInit == Init => FlowInv
<1> SUFFICES ASSUME Init PROVE FlowInv
  OBVIOUS
<1>1. \A c \in Chain : chain[c].at = "off" /\ Pend(c) = <<>>
  BY DEF Init, Idle, Pend
<1>2. core.queue = <<>> /\ IsQueue(core)
  BY DEF Init, EmptyQueue, IsQueue, QueueShape
<1>3. FlattenSeq(core.queue) = <<>>
  BY <1>2, FlattenEmpty
<1>4. started = <<>> /\ queued = <<>> /\ Story = <<>>
  BY <1>3 DEF Init, Story
<1>5. Typed
  <2>1. <<>> \in Seq(Thing)
    OBVIOUS
  <2>2. \A c \in Chain : Pend(c) \in Seq(Thing)
    BY <1>1, <2>1
  <2> QED BY <1>2, <1>4, <2>1, <2>2 DEF Typed
<1>6. Apart
  BY <1>1, <1>4, EmptySet DEF Apart
<1>7. InOrder
  BY <1>4 DEF InOrder, Follows
<1>8. Epochs
  BY <1>1 DEF Init, Epochs
<1> QED BY <1>5, <1>6, <1>7, <1>8 DEF FlowInv

\* Every step keeps the order and the places of what was sent, and all of it
\* but for a turn that was aborted without a stop or a drain armed.
LEMMA NextFlow ==
  ASSUME Shape, FlowInv, [Next]_vars
  PROVE  \/ Flows
         \/ /\ FlowInv' /\ preempt = "none"
            /\ \E c \in Chain : TurnReturns(c) /\ (signal \/ chain[c].epoch = forcedEpoch)
<1>0. Flowing
  BY DEF Flowing
<1>1. CASE Key
  <2>1. CASE EnterWhileBusy \/ FlushWhileBusy \/ StopTurn \/ ForceStop
    BY <1>0, <2>1, BusyKeysFlow
  <2>2. ASSUME NEW x \in NextLine, EnqueueWhileBusy(x) PROVE Flows
    BY <1>0, <2>2, EnqueueFlows
  <2>3. ASSUME NEW c \in Chain, EnterWhileIdle(c) \/ FlushWhileIdle(c) PROVE Flows
    BY <1>0, <2>3, IdleKeysFlow
  <2>4. ASSUME NEW c \in Chain, CommandBegins(c) PROVE Flows
    BY <1>0, <2>4, CommandFlows
  <2>5. ASSUME NEW c \in Chain, NEW x \in NextLine, Submit(c, x) PROVE Flows
    BY <1>0, <2>5, SubmitFlows
  <2> QED BY <1>1, <2>1, <2>2, <2>3, <2>4, <2>5 DEF Key
<1>2. CASE Background
  <2>1. ASSUME NEW w \in Wake, WakeArrives(w) PROVE Flows
    BY <1>0, <2>1, WakeArrivesFlows
  <2>2. ASSUME NEW w \in Wake, NEW c \in Chain, WakeRuns(c, w) PROVE Flows
    BY <1>0, <2>2, WakeRunsFlows
  <2> QED BY <1>2, <2>1, <2>2 DEF Background
<1>3. ASSUME NEW c \in Chain, Continues(c)
      PROVE  \/ Flows
             \/ /\ FlowInv' /\ preempt = "none"
                /\ TurnReturns(c) /\ (signal \/ chain[c].epoch = forcedEpoch)
  <2>1. CASE BeginDirect(c) \/ OpenDrained(c)
    BY <1>0, <2>1, BeginsFlow
  <2>2. CASE DrainInjections(c)
    BY <1>0, <2>2, DrainInjectionsFlow
  <2>3. CASE TurnReturns(c)
    BY <1>0, <2>3, TurnReturnsFlows DEF Flows
  <2>4. CASE CommandEnds(c)
    BY <1>0, <2>4, CommandFlows
  <2>5. ASSUME NEW x \in NextLine, LearnTurn(c, x) PROVE Flows
    BY <1>0, <2>5, LearnFlows
  <2> QED BY <1>3, <2>1, <2>2, <2>3, <2>4, <2>5 DEF Continues
<1>4. CASE UNCHANGED vars
  BY <1>0, <1>4, BusyKeysFlow
<1> QED BY <1>1, <1>2, <1>3, <1>4 DEF Next

-----------------------------------------------------------------------------

\* While nothing has cut into a turn: no turn was stopped by force, a
\* controller is there only during a turn, and a stop with something queued
\* stays armed until its turn ends.
Calm ==
  /\ forcedEpoch = 0
  /\ activeAbort # 0 => core.running
  /\ kept # {} => preempt # "none"
  /\ kept \subseteq Surviving

Heeds == disturbed \/ Calm

\* What no step but a stop or the end of a turn does.
Untouched == kept' = kept /\ preempt' \in {preempt, "drain"} /\ forcedEpoch' = forcedEpoch

\* What has cut into a turn stays on record.
LEMMA DisturbedStays == ASSUME Shape, [Next]_vars, disturbed PROVE disturbed'
<1>1. CASE Key
  BY <1>1 DEF Key, EnqueueWhileBusy, EnterWhileBusy, FlushWhileBusy, StopTurn, ForceStop, EnterWhileIdle,
     FlushWhileIdle, CommandBegins, Submit, history
<1>2. CASE Background
  BY <1>2 DEF Background, WakeArrives, WakeRuns
<1>3. ASSUME NEW c \in Chain, Continues(c) PROVE disturbed'
  BY <1>3 DEF Continues, BeginDirect, OpenDrained, DrainInjections, TurnReturns, CommandEnds, LearnTurn, history
<1>4. CASE UNCHANGED vars
  BY <1>4 DEF vars, history
<1> QED BY <1>1, <1>2, <1>3, <1>4 DEF Next

\* Which steps touch what Calm is about.
LEMMA Touches ==
  ASSUME [Next]_vars, ~disturbed'
  PROVE  Untouched \/ StopTurn \/ \E c \in Chain : TurnReturns(c)
<1>1. CASE Key
  <2>1. ASSUME NEW x \in NextLine, EnqueueWhileBusy(x) PROVE Untouched
    BY <2>1 DEF EnqueueWhileBusy, Untouched, turn
  <2>2. CASE EnterWhileBusy
    BY <2>2 DEF EnterWhileBusy, PreemptForDrain, Untouched, history
  <2>3. CASE FlushWhileBusy
    BY <2>3 DEF FlushWhileBusy, PreemptForDrain, Untouched, history
  <2>4. CASE ForceStop
    BY <2>4 DEF ForceStop
  <2>5. ASSUME NEW c \in Chain, EnterWhileIdle(c) PROVE Untouched
    BY <2>5 DEF EnterWhileIdle, ManualDrain, BeginTurn, Untouched, turn
  <2>6. ASSUME NEW c \in Chain, FlushWhileIdle(c) PROVE Untouched
    BY <2>6 DEF FlushWhileIdle, ManualDrain, BeginTurn, Untouched, turn
  <2>7. ASSUME NEW c \in Chain, CommandBegins(c) PROVE Untouched
    BY <2>7 DEF CommandBegins, Untouched, turn, history
  <2>8. ASSUME NEW c \in Chain, NEW x \in NextLine, Submit(c, x) PROVE Untouched
    BY <2>8 DEF Submit, Untouched, turn
  <2> QED BY <1>1, <2>1, <2>2, <2>3, <2>4, <2>5, <2>6, <2>7, <2>8 DEF Key
<1>2. CASE Background
  BY <1>2 DEF Background, WakeArrives, WakeRuns, BeginTurn, Untouched, turn
<1>3. ASSUME NEW c \in Chain, Continues(c) PROVE Untouched \/ TurnReturns(c)
  BY <1>3 DEF Continues, BeginDirect, OpenDrained, DrainInjections, CommandEnds, LearnTurn, BeginTurn,
     Untouched, turn, history, binding
<1>4. CASE UNCHANGED vars
  BY <1>4 DEF vars, binding, turn, history, Untouched
<1> QED BY <1>1, <1>2, <1>3, <1>4 DEF Next

\* A controller is there only while the queue says running.
LEMMA ManualAborts ==
  ASSUME NEW c, NEW q, QueueShape(q), q.running = core.running, core.running => activeAbort = 0, ManualDrain(c, q)
  PROVE  activeAbort' # 0 => core'.running
<1>1. CASE q.running
  BY <1>1 DEF ManualDrain, turn
<1>2. CASE ~q.running
  <2>1. core' = Dequeue(TurnStart(q))
    BY <1>2 DEF ManualDrain
  <2> QED BY <2>1, QueueEvents
<1> QED BY <1>1, <1>2

\* While nothing has cut into a turn, a controller is there only during it.
LEMMA AbortsRunning ==
  ASSUME Inv, [Next]_vars, ~disturbed, ~disturbed', activeAbort # 0 => core.running
  PROVE  activeAbort' # 0 => core'.running
<1>0. QueueShape(core) /\ Account
  BY DEF Inv, Shape
<1>1. ~busy => ~core.running /\ activeAbort = 0
  BY <1>0 DEF Account, Live
<1>2. /\ TurnStart(core).running = TRUE
      /\ \A r : Enqueue(core, r).running = core.running
      /\ \A d : Flushed(core, d).running = core.running /\ QueueShape(Flushed(core, d))
  <2>1. TurnStart(core).running = TRUE
    BY <1>0, QueueEvents
  <2>2. \A r : Enqueue(core, r).running = core.running
    BY <1>0, QueueEvents
  <2>3. \A d : Flushed(core, d).running = core.running /\ QueueShape(Flushed(core, d))
    BY <1>0, FlushedShape
  <2> QED BY <2>1, <2>2, <2>3
<1>3. CASE Key
  <2>1. ASSUME NEW x \in NextLine, EnqueueWhileBusy(x) PROVE activeAbort' # 0 => core'.running
    BY <1>2, <2>1 DEF EnqueueWhileBusy, turn
  <2>2. CASE EnterWhileBusy \/ StopTurn
    BY <2>2 DEF EnterWhileBusy, StopTurn
  <2>3. CASE FlushWhileBusy
    BY <1>2, <2>3 DEF FlushWhileBusy
  <2>4. CASE ForceStop
    BY <2>4 DEF ForceStop
  <2>5. ASSUME NEW c \in Chain, EnterWhileIdle(c) PROVE activeAbort' # 0 => core'.running
    BY <1>0, <1>1, <2>5, ManualAborts DEF EnterWhileIdle
  <2>6. ASSUME NEW c \in Chain, FlushWhileIdle(c) PROVE activeAbort' # 0 => core'.running
    <3>1. PICK d : ManualDrain(c, Flushed(core, d)) /\ ~busy
      BY <2>6 DEF FlushWhileIdle
    <3> QED BY <1>1, <1>2, <3>1, ManualAborts
  <2>7. ASSUME NEW c \in Chain, CommandBegins(c) PROVE activeAbort' # 0 => core'.running
    BY <1>1, <2>7 DEF CommandBegins, turn
  <2>8. ASSUME NEW c \in Chain, NEW x \in NextLine, Submit(c, x) PROVE activeAbort' # 0 => core'.running
    BY <1>1, <2>8 DEF Submit, turn
  <2> QED BY <1>3, <2>1, <2>2, <2>3, <2>4, <2>5, <2>6, <2>7, <2>8 DEF Key
<1>4. CASE Background
  <2>1. ASSUME NEW w \in Wake, WakeArrives(w) PROVE activeAbort' # 0 => core'.running
    BY <1>2, <2>1 DEF WakeArrives, turn
  <2>2. ASSUME NEW w \in Wake, NEW c \in Chain, WakeRuns(c, w) PROVE activeAbort' # 0 => core'.running
    BY <1>2, <2>2 DEF WakeRuns
  <2> QED BY <1>4, <2>1, <2>2 DEF Background
<1>5. ASSUME NEW c \in Chain, Continues(c) PROVE activeAbort' # 0 => core'.running
  <2>1. CASE BeginDirect(c)
    BY <1>2, <2>1 DEF BeginDirect
  <2>2. CASE OpenDrained(c)
    BY <1>0, <2>2 DEF OpenDrained, binding, Account, InTurn
  <2>3. CASE DrainInjections(c) \/ CommandEnds(c)
    BY <2>3 DEF DrainInjections, CommandEnds, binding, turn
  <2>4. CASE TurnReturns(c)
    BY <2>4 DEF TurnReturns
  <2>5. ASSUME NEW x \in NextLine, LearnTurn(c, x) PROVE activeAbort' # 0 => core'.running
    BY <1>2, <2>5 DEF LearnTurn
  <2> QED BY <1>5, <2>1, <2>2, <2>3, <2>4, <2>5 DEF Continues
<1>6. CASE UNCHANGED vars
  BY <1>6 DEF vars, binding, turn
<1> QED BY <1>3, <1>4, <1>5, <1>6 DEF Next

\* At first nothing has cut into a turn and nothing was stopped.
LEMMA HeedsInit == Init => Heeds
BY DEF Init, Heeds, Calm

\* A step in the calm either keeps everything or is the end of a turn whose
\* controller was aborted.
LEMMA CalmSteps ==
  ASSUME Inv, FlowInv, Heeds, [Next]_vars, ~disturbed'
  PROVE  ~disturbed /\ Calm /\ FlowInv' /\
         (Keeps \/ (preempt = "none" /\ signal /\ \E c \in Chain : TurnReturns(c)))
<1>1. Shape /\ ~disturbed /\ Calm
  BY DisturbedStays DEF Inv, Heeds
<1>2. ASSUME NEW c \in Chain, TurnReturns(c) PROVE chain[c].epoch # forcedEpoch
  BY <1>1, <1>2 DEF TurnReturns, FlowInv, Epochs, Calm
<1> QED BY <1>1, <1>2, NextFlow DEF Flows

\* Every step keeps the calm until something cuts into a turn.
LEMMA NextHeeds == ASSUME Inv, FlowInv, Heeds, [Next]_vars PROVE Heeds'
<1> SUFFICES ASSUME ~disturbed' PROVE Calm'
  BY DEF Heeds
<1>1. ~disturbed /\ Calm /\ Shape /\ QueueShape(core)
  BY CalmSteps DEF Inv, Shape
<1>2. activeAbort' # 0 => core'.running
  BY <1>1, AbortsRunning DEF Calm
<1>3. Keeps \/ \E c \in Chain : TurnReturns(c)
  BY CalmSteps
<1>4. CASE Untouched /\ Keeps
  BY <1>1, <1>2, <1>4 DEF Calm, Untouched, Keeps
<1>5. CASE StopTurn
  <2>1. /\ preempt' = IF core.running /\ core.queue # <<>> THEN "stop" ELSE preempt
        /\ kept' = InQueue /\ forcedEpoch' = forcedEpoch /\ activeAbort # 0
        /\ core' = core /\ chain' = chain /\ started' = started
    BY <1>5 DEF StopTurn, Armed
  <2>2. core.queue = <<>> => InQueue = {}
    BY FlattenEmpty, EmptySet DEF InQueue
  <2>3. InQueue \subseteq Surviving'
    BY <2>1 DEF Surviving, InQueue
  <2> QED BY <1>1, <1>2, <2>1, <2>2, <2>3 DEF Calm
<1>6. ASSUME NEW c \in Chain, TurnReturns(c) PROVE Calm'
  BY <1>1, <1>2, <1>6 DEF TurnReturns, Calm
<1> QED BY <1>3, <1>4, <1>5, <1>6, Touches

-----------------------------------------------------------------------------

\* The inductive invariant of the theorems below.
QueueInv == Inv /\ FlowInv /\ Heeds

\* The whole invariant holds in every reachable state.
LEMMA QueueInvHolds == Spec => []QueueInv
<1>1. Init => QueueInv
  BY InitInv, FlowInit, HeedsInit DEF QueueInv
<1>2. QueueInv /\ [Next]_vars => QueueInv'
  <2> SUFFICES ASSUME QueueInv, [Next]_vars PROVE QueueInv'
    OBVIOUS
  <2>1. Inv /\ FlowInv /\ Heeds /\ Shape
    BY DEF QueueInv, Inv
  <2>2. Inv'
    BY <2>1, NextInv
  <2>3. FlowInv'
    BY <2>1, NextFlow DEF Flows
  <2>4. Heeds'
    BY <2>1, NextHeeds
  <2> QED BY <2>2, <2>3, <2>4 DEF QueueInv
<1> QED BY <1>1, <1>2, PTL DEF Spec

\* No input is given to the agent twice or waits again after it was, nor is it
\* in the queue and in the inbox of a turn at once, whatever turns overlap.
THEOREM NothingIsTwice == Spec => []NothingTwice
<1>1. QueueInv => NothingTwice
  <2> SUFFICES ASSUME Apart PROVE NothingTwice
    BY DEF QueueInv, FlowInv
  <2>1. IsInjective(Story)
    BY DEF Apart
  <2>2. ToSet(Story) \cap InInbox = {}
    BY DEF Apart, InInbox, Pend
  <2> QED BY <2>1, <2>2 DEF NothingTwice, Story
<1> QED BY <1>1, QueueInvHolds, PTL

\* Esc and Ctrl+C keep what was queued: until the stopped turn has ended, no
\* step loses any of it, the turn-end that clears the queue after an abort
\* included.
THEOREM StopKeeps == Spec => StopKeepsQueue
<1>1. QueueInv /\ [Next]_vars => (disturbed' \/ kept \subseteq Surviving')
  <2> SUFFICES ASSUME QueueInv, [Next]_vars, ~disturbed' PROVE kept \subseteq Surviving'
    OBVIOUS
  <2>1. Calm /\ (Keeps \/ preempt = "none")
    BY CalmSteps DEF QueueInv
  <2> QED BY <2>1 DEF Calm, Keeps
<1>2. QueueInv /\ [Next]_vars => [disturbed' \/ kept \subseteq Surviving']_vars
  BY <1>1
<1> QED BY <1>2, QueueInvHolds, PTL DEF Spec, StopKeepsQueue

\* What waits in the queue or in an inbox is lost only in a step that finds the
\* turn's controller aborted: a turn that ends by itself hands everything on.
THEOREM AbortsAloneLose == Spec => OnlyAbortLoses
<1>1. QueueInv /\ [Next]_vars => (disturbed' \/ signal \/ Surviving \subseteq Surviving')
  BY CalmSteps DEF QueueInv, Keeps
<1>2. QueueInv /\ [Next]_vars => [disturbed' \/ signal \/ Surviving \subseteq Surviving']_vars
  BY <1>1
<1> QED BY <1>2, QueueInvHolds, PTL DEF Spec, OnlyAbortLoses

-----------------------------------------------------------------------------

\* Inputs are given to the agent in the order they entered the queue, through
\* merges, aborts, manual drains, wakes and turns that overlap.
THEOREM QueueStaysInOrder == Spec => []QueueOrder
<1>1. QueueInv => QueueOrder
  <2> SUFFICES ASSUME Typed, Apart, InOrder,
                      NEW i \in DOMAIN started, NEW j \in DOMAIN started,
                      NEW a \in DOMAIN queued, NEW b \in DOMAIN queued,
                      started[i] = queued[a], started[j] = queued[b]
               PROVE  i <= j <=> a <= b
    BY DEF QueueInv, FlowInv, QueueOrder
  <2>1. Follows(started, queued)
    BY StorySet, JoinFollows DEF Typed, InOrder, Story
  <2>2. i \in Nat /\ j \in Nat /\ a \in Nat /\ b \in Nat
    BY DEF Typed
  <2>3. CASE i < j
    BY <2>1, <2>2, <2>3 DEF Follows
  <2>4. CASE j < i
    BY <2>1, <2>2, <2>4 DEF Follows
  <2>5. CASE i = j
    <3>1. queued[a] = queued[b] /\ IsInjective(queued)
      BY <2>5 DEF Apart
    <3>2. a = b
      BY <3>1 DEF IsInjective
    <3> QED BY <2>2, <2>5, <3>2
  <2> QED BY <2>2, <2>3, <2>4, <2>5
<1> QED BY <1>1, QueueInvHolds, PTL

\* The end of a turn that leaves something behind.
LEMMA LeavesBehind ==
  ASSUME NEW c, TurnReturns(c), busy, ~busy', core'.queue # <<>>
  PROVE  core'.error \/ preempt = "stop"
<1>1. PICK raw \in {Returned(c), Threw} :
        IF ShouldDrain(Ended(c, raw), Effective(raw).ok /\ ~Effective(raw).aborted)
        THEN busy' = busy
        ELSE core' = Ended(c, raw)
  BY DEF TurnReturns
<1> DEFINE out == Effective(raw)
           q == TurnEnd(WithLeftover(c), out.ok, out.aborted)
<1>2. /\ q.running = FALSE /\ q.queue = (IF out.aborted THEN <<>> ELSE WithLeftover(c).queue)
      /\ ~out.ok /\ ~out.aborted => q.error = TRUE
  BY DEF TurnEnd
<1>3. core' = Ended(c, raw) /\ ~ShouldDrain(Ended(c, raw), out.ok /\ ~out.aborted)
  BY <1>1
<1>4. CASE preempt = "stop" /\ raw.aborted
  BY <1>4
<1>5. CASE ~(preempt = "stop" /\ raw.aborted)
  <2>1. Ended(c, raw) = q
    BY <1>5 DEF Ended
  <2> HIDE DEF q, out
  <2>2. ~out.aborted /\ ~out.ok
    BY <1>2, <1>3, <2>1 DEF ShouldDrain
  <2> QED BY <1>2, <1>3, <2>1, <2>2
<1> QED BY <1>4, <1>5

\* A chain that gives the composer back leaves something queued only after a
\* failed or a stopped turn: a clean end drains the queue.
THEOREM CleanEndsDrain == Spec => CleanEndDrains
<1>1. [Next]_vars => (busy /\ ~busy' /\ core'.queue # <<>> /\ ~disturbed' => core'.error \/ preempt = "stop")
  <2> SUFFICES ASSUME [Next]_vars, busy, ~busy', core'.queue # <<>>, ~disturbed'
               PROVE  core'.error \/ preempt = "stop"
    OBVIOUS
  <2>1. CASE Key
    BY <2>1 DEF Key, EnqueueWhileBusy, EnterWhileBusy, FlushWhileBusy, StopTurn, ForceStop, EnterWhileIdle,
       FlushWhileIdle, CommandBegins, Submit
  <2>2. CASE Background
    BY <2>2 DEF Background, WakeArrives, WakeRuns
  <2>3. ASSUME NEW c \in Chain, Continues(c) PROVE core'.error \/ preempt = "stop"
    <3>1. CASE TurnReturns(c)
      BY <3>1, LeavesBehind
    <3>2. CASE ~TurnReturns(c)
      BY <2>3, <3>2 DEF Continues, BeginDirect, OpenDrained, DrainInjections, CommandEnds, LearnTurn
    <3> QED BY <3>1, <3>2
  <2>4. CASE UNCHANGED vars
    BY <2>4 DEF vars
  <2> QED BY <2>1, <2>2, <2>3, <2>4 DEF Next
<1>2. [Next]_vars =>
        [(busy /\ ~busy' /\ core'.queue # <<>> /\ ~disturbed') => (core'.error \/ preempt = "stop")]_vars
  BY <1>1
<1> QED BY <1>2, PTL DEF Spec, CleanEndDrains

=============================================================================
