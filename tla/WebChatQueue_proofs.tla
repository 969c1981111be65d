------------------------ MODULE WebChatQueue_proofs ------------------------
(***************************************************************************)
(* KeptInTurn and OnceInTurn for every number of turns and inputs.  Both   *)
(* speak of the calm part of a behaviour, and so does the invariant: calm  *)
(* is never regained, so nothing need be said about what follows it.       *)
(***************************************************************************)
EXTENDS WebChatQueue, TLAPS

Stages == {"idle", "persist", "enter", "served", "setup", "top", "request", "keep", "backoff", "resolve"}

Types ==
  /\ typed \in Nat
  /\ shadow \in Seq(Nat) /\ log \in Seq(Nat)
  /\ queued \in SUBSET (1..typed)
  /\ \A i \in 1..Len(shadow) : shadow[i] \in queued
  /\ \A i \in 1..Len(log) : log[i] \in 0..typed
  /\ text \in [Turns -> 0..typed] /\ pc \in [Turns -> Stages]

\* One turn at a time, which the adapter has not started; what it is storing is
\* the head of the queue, or an input that never waited.
OneTurn ==
  /\ \A t, u \in InUse : t = u
  /\ drained = {}
  /\ \A t \in Turns : pc[t] = "keep" => shadow # <<>> /\ Head(shadow) = text[t]
  /\ \A t \in Turns : pc[t] = "persist" => text[t] \notin queued

\* What was queued waits, is stored or given up.
Kept == queued \subseteq ToSet(shadow) \cup ToSet(log) \cup given

\* The queue is in the order of typing, and after what was stored of it.
Ordered ==
  /\ \A i, j \in 1..Len(shadow) : i < j => shadow[i] < shadow[j]
  /\ \A i \in 1..Len(log), j \in 1..Len(shadow) : log[i] \in queued => log[i] < shadow[j]
  /\ \A i, j \in 1..Len(log) : i < j /\ log[i] \in queued /\ log[j] \in queued => log[i] < log[j]

Good == Types /\ OneTurn /\ Kept /\ Ordered
CalmInv == calm => Good

-----------------------------------------------------------------------------
\* The steps, by what they do to the queue and the log.

\* The turn t goes on, with the input it has.
Moves(t, S) ==
  /\ UNCHANGED <<typed, text, queued>> /\ drained' \subseteq drained
  /\ \E l \in S : pc' = [pc EXCEPT ![t] = l]
Quietly(t) ==
  /\ Moves(t, Stages \ {"persist", "keep"}) /\ pc[t] # "idle"
  /\ UNCHANGED <<shadow, log, given>>

\* The queue is given up, by the user or by an abort.
Drops ==
  /\ shadow' = <<>> /\ given' = given \cup ToSet(shadow) /\ UNCHANGED log
  /\ \/ UNCHANGED <<typed, text, queued, pc, drained>> /\ \A t \in Turns : pc[t] # "keep"
     \/ \E t \in Turns : pc[t] # "idle" /\ Moves(t, Stages \ {"persist", "keep"})

\* A step that keeps the calm starts in it, and is of one of these kinds.
Kinds ==
  \/ \E t \in Turns : \/ Send(t) /\ InUse = {}
                      \/ Quietly(t)
                      \/ pc[t] = "persist" /\ log' = Append(log, text[t]) /\ Moves(t, {"enter"}) /\ UNCHANGED <<shadow, given>>
                      \/ /\ pc[t] = "request" /\ shadow # <<>> /\ text' = [text EXCEPT ![t] = Head(shadow)]
                         /\ pc' = [pc EXCEPT ![t] = "keep"] /\ UNCHANGED <<typed, queued, drained, shadow, log, given>>
                      \/ pc[t] = "keep" /\ Keep(t)
  \/ Queue
  \/ Drops
  \/ UNCHANGED <<typed, shadow, log, pc, text, drained, given, queued>>

\* The end of a turn that starts no other.
LEMMA EndKinds ==
  ASSUME calm', NEW t \in Turns, NEW byAbort \in BOOLEAN, NEW l \in {"resolve", "backoff"},
         pc[t] # "idle", End(t, byAbort, l)
  PROVE  Quietly(t) \/ Drops
<1>1. Go(t, l) /\ UNCHANGED <<typed, text, drained, queued, log>>
  BY DEF End
<1>2. Moves(t, Stages \ {"persist", "keep"})
  BY <1>1 DEF Go, Moves, Stages
<1>3. CASE byAbort
  BY <1>1, <1>2, <1>3 DEF End, Left, Drops
<1>4. CASE ~byAbort
  BY <1>1, <1>2, <1>4 DEF End, Left, Quietly
<1> QED BY <1>3, <1>4

LEMMA TurnKinds ==
  ASSUME calm', drained = {}, NEW t \in Turns, Goes(t)
  PROVE  calm /\ Kinds
<1> USE DEF Moves, Quietly, Go, Stages
<1>1. CASE Persist(t)
  <2>1. CASE log' = Append(log, text[t]) /\ Go(t, "enter")
    BY <1>1, <2>1 DEF Persist, historyVars, queueVars, Kinds
  <2>2. CASE UNCHANGED log /\ Go(t, "resolve")
    <3>1. Quietly(t) /\ calm
      BY <1>1, <2>2 DEF Persist, historyVars, queueVars
    <3> QED BY <3>1 DEF Kinds
  <2> QED BY <1>1, <2>1, <2>2 DEF Persist
<1>2. CASE Serve(t) \/ Served(t) \/ Register(t)
  <2>1. Quietly(t) /\ calm
    BY <1>2 DEF Serve, Served, Register, historyVars, queueVars
  <2> QED BY <2>1 DEF Kinds
<1>3. CASE Enter(t)
  <2>1. Quietly(t) /\ calm
    BY <1>3 DEF Enter, historyVars, queueVars
  <2> QED BY <2>1 DEF Kinds
<1>4. CASE SetupFails(t)
  <2>1. PICK byAbort \in ThrownAs(t) : \E l \in AfterError(t, byAbort) : End(t, byAbort, l)
    BY <1>4 DEF SetupFails
  <2>0. PICK l \in AfterError(t, byAbort) : End(t, byAbort, l)
    BY <2>1
  <2>2. l \in {"resolve", "backoff"} /\ pc[t] # "idle" /\ byAbort \in BOOLEAN
    BY <1>4 DEF SetupFails, AfterError, ThrownAs
  <2>3. calm
    BY <2>0 DEF End
  <2> QED BY <2>0, <2>2, <2>3, EndKinds DEF Kinds
<1>5. CASE Top(t)
  <2>1. CASE Leave(t, FALSE, "resolve")
    BY <1>5, <2>1, EndKinds DEF Top, Leave, Kinds, End
  <2>2. CASE ~Leave(t, FALSE, "resolve")
    <3>1. Quietly(t) /\ calm
      BY <1>5, <2>2 DEF Top, historyVars, queueVars
    <3> QED BY <3>1 DEF Kinds
  <2> QED BY <2>1, <2>2
<1>6. CASE Requested(t)
  <2>1. CASE Leave(t, FALSE, "resolve")
    BY <1>6, <2>1, EndKinds DEF Requested, Leave, Kinds, End
  <2>2. CASE ~Leave(t, FALSE, "resolve") /\ shadow # <<>>
    <3>1. /\ pc[t] = "request" /\ text' = [text EXCEPT ![t] = Head(shadow)] /\ calm
          /\ pc' = [pc EXCEPT ![t] = "keep"] /\ UNCHANGED <<typed, queued, drained, shadow, log, given>>
      BY <1>6, <2>2 DEF Requested, Polled, Taken, historyVars
    <3> QED BY <2>2, <3>1 DEF Kinds
  <2>3. CASE ~Leave(t, FALSE, "resolve") /\ shadow = <<>>
    <3>1. Quietly(t) /\ calm
      BY <1>6, <2>3 DEF Requested, Polled, Taken, historyVars, queueVars
    <3> QED BY <3>1 DEF Kinds
  <2> QED BY <2>1, <2>2, <2>3
<1>7. CASE Throws(t)
  <2>1. PICK byAbort \in ThrownAs(t) : \E l \in AfterError(t, byAbort) : End(t, byAbort, l)
    BY <1>7 DEF Throws, Leave
  <2>0. PICK l \in AfterError(t, byAbort) : End(t, byAbort, l)
    BY <2>1
  <2>2. l \in {"resolve", "backoff"} /\ pc[t] # "idle" /\ byAbort \in BOOLEAN
    BY <1>7 DEF Throws, AfterError, ThrownAs
  <2>3. calm
    BY <2>0 DEF End
  <2> QED BY <2>0, <2>2, <2>3, EndKinds DEF Kinds
<1>8. CASE Keep(t)
  <2>1. pc[t] = "keep" /\ calm
    BY <1>8 DEF Keep, historyVars
  <2> QED BY <1>8, <2>1 DEF Kinds
<1>9. CASE Retry(t)
  <2>1. Quietly(t) /\ calm
    BY <1>9 DEF Retry, historyVars, queueVars
  <2> QED BY <2>1 DEF Kinds
<1>10. CASE Resolve(t)
  <2>1. Quietly(t) /\ calm
    BY <1>10 DEF Resolve, historyVars
  <2> QED BY <2>1 DEF Kinds
<1> QED BY <1>1, <1>2, <1>3, <1>4, <1>5, <1>6, <1>7, <1>8, <1>9, <1>10 DEF Goes

LEMMA StepKinds == ASSUME [Next]_vars, calm', calm => drained = {} PROVE calm /\ Kinds
<1>1. ASSUME NEW t \in Turns, Send(t) PROVE calm /\ Kinds
  BY <1>1 DEF Send, Kinds
<1>2. ASSUME NEW t \in Turns, Goes(t) PROVE calm /\ Kinds
  <2>1. calm
    BY <1>2 DEF Goes, Persist, Serve, Served, Enter, Register, SetupFails, Top, Requested, Throws, Keep, Retry, Resolve,
                historyVars, Leave, End
  <2> QED BY <1>2, <2>1, TurnKinds
<1>3. CASE Queue \/ StaleSend \/ Stop \/ UNCHANGED vars
  BY <1>3 DEF Queue, StaleSend, Stop, vars, historyVars, queueVars, turnVars, Kinds
<1>4. CASE GiveUp
  BY <1>4 DEF GiveUp, turnVars, Kinds, Drops
<1> QED BY <1>1, <1>2, <1>3, <1>4 DEF Next

-----------------------------------------------------------------------------
\* Each kind of step keeps Good.

LEMMA ToSetOf == ASSUME NEW s \in Seq(Nat) PROVE ToSet(s) = {s[i] : i \in 1..Len(s)}
BY DEF ToSet

LEMMA MovesAlone ==
  ASSUME Types, OneTurn, NEW t \in Turns, NEW S \in SUBSET Stages, Moves(t, S), pc[t] # "idle"
  PROVE  /\ pc' \in [Turns -> Stages] /\ pc'[t] \in S
         /\ \A u \in Turns \ {t} : pc[u] = "idle" /\ pc'[u] = "idle"
         /\ \A u, v \in InUse' : u = v
<1>1. \A u \in Turns \ {t} : pc[u] = "idle"
  BY DEF OneTurn, InUse
<1>2. pc' \in [Turns -> Stages] /\ pc'[t] \in S /\ \A u \in Turns \ {t} : pc'[u] = pc[u]
  BY DEF Moves, Types
<1> QED BY <1>1, <1>2 DEF InUse

LEMMA QuietlyGood == ASSUME Good, NEW t \in Turns, Quietly(t) PROVE Good'
<1> USE DEF Good
<1>1. /\ pc' \in [Turns -> Stages] /\ pc'[t] \notin {"persist", "keep"}
      /\ \A u \in Turns \ {t} : pc'[u] = "idle"
      /\ \A u, v \in InUse' : u = v
  BY MovesAlone DEF Quietly
<1>2. UNCHANGED <<typed, text, queued, shadow, log, given>> /\ drained' = {}
  BY DEF Quietly, Moves, OneTurn
<1>3. Types' /\ Kept' /\ Ordered'
  BY <1>1, <1>2 DEF Types, Kept, Ordered
<1>4. OneTurn'
  BY <1>1, <1>2 DEF OneTurn
<1> QED BY <1>3, <1>4

LEMMA DropsGood == ASSUME Good, Drops PROVE Good'
<1> USE DEF Good
<1>1. shadow' = <<>> /\ given' = given \cup ToSet(shadow) /\ UNCHANGED <<log, typed, text, queued>> /\ drained' = {}
  BY DEF Drops, Moves, OneTurn
<1>2. /\ pc' \in [Turns -> Stages] /\ \A u, v \in InUse' : u = v
      /\ \A u \in Turns : pc'[u] # "keep" /\ (pc'[u] = "persist" => pc[u] = "persist")
  <2>1. CASE UNCHANGED pc /\ \A t \in Turns : pc[t] # "keep"
    BY <2>1 DEF Types, OneTurn, InUse
  <2>2. ASSUME NEW t \in Turns, pc[t] # "idle", Moves(t, Stages \ {"persist", "keep"})
        PROVE  <1>2!1 /\ <1>2!2
    BY <2>2, MovesAlone DEF Moves
  <2> QED BY <2>1, <2>2 DEF Drops
<1>3. Types' /\ Kept' /\ Ordered'
  BY <1>1, <1>2 DEF Types, Kept, Ordered
<1>4. OneTurn'
  BY <1>1, <1>2 DEF OneTurn
<1> QED BY <1>3, <1>4

\* A new input gets a number of its own.
LEMMA SendGood == ASSUME Good, NEW t \in Turns, Send(t), InUse = {} PROVE Good'
<1> USE DEF Good
<1>1. /\ typed' = typed + 1 /\ UNCHANGED <<shadow, log, queued, given>>
      /\ pc' = [pc EXCEPT ![t] = "persist"] /\ text' = [text EXCEPT ![t] = typed + 1]
      /\ drained' = drained \ {t}
  BY DEF Send, Begin, queueVars
<1>2. \A u \in Turns : pc[u] = "idle"
  BY DEF InUse
<1>3. /\ pc' \in [Turns -> Stages] /\ pc'[t] = "persist" /\ \A u \in Turns \ {t} : pc'[u] = "idle"
      /\ typed + 1 \in Nat /\ 1..typed \subseteq 1..(typed + 1) /\ 0..typed \subseteq 0..(typed + 1)
      /\ text' \in [Turns -> 0..(typed + 1)] /\ text'[t] = typed + 1 /\ typed + 1 \notin queued
  BY <1>1, <1>2 DEF Types, Stages
<1>4. Types'
  BY <1>1, <1>3 DEF Types
<1>5. OneTurn'
  BY <1>1, <1>3 DEF OneTurn, InUse
<1>6. Kept' /\ Ordered'
  BY <1>1 DEF Kept, Ordered
<1> QED BY <1>4, <1>5, <1>6

\* It waits behind all others.
LEMMA QueueGood == ASSUME Good, Queue PROVE Good'
<1> USE DEF Good
<1>1. /\ typed' = typed + 1 /\ shadow' = Append(shadow, typed + 1) /\ queued' = queued \cup {typed + 1}
      /\ UNCHANGED <<log, pc, text, drained, given>>
  BY DEF Queue, turnVars
<1>2. /\ typed + 1 \in Nat /\ shadow' \in Seq(Nat) /\ Len(shadow') = Len(shadow) + 1 /\ Len(shadow) \in Nat
      /\ shadow'[Len(shadow) + 1] = typed + 1
      /\ \A i \in 1..Len(shadow) : shadow'[i] = shadow[i]
      /\ 1..Len(shadow') = 1..Len(shadow) \cup {Len(shadow) + 1}
  BY <1>1 DEF Types
<1>3. \A i \in 1..Len(shadow) : shadow[i] \in 1..typed
  BY DEF Types
<1>4. ToSet(shadow') = ToSet(shadow) \cup {typed + 1}
  <2>1. ToSet(shadow) = {shadow[i] : i \in 1..Len(shadow)}
    BY ToSetOf DEF Types
  <2>2. ToSet(shadow') = {shadow'[i] : i \in 1..Len(shadow')}
    BY <1>2, ToSetOf
  <2> QED BY <1>2, <2>1, <2>2
<1>5. Types'
  <2>1. queued' \in SUBSET (1..(typed + 1)) /\ \A i \in 1..Len(shadow') : shadow'[i] \in queued'
    BY <1>1, <1>2 DEF Types
  <2>2. \A i \in 1..Len(log) : log[i] \in 0..(typed + 1)
    BY DEF Types
  <2>3. text' \in [Turns -> 0..(typed + 1)]
    BY <1>1 DEF Types
  <2> QED BY <1>1, <1>2, <2>1, <2>2, <2>3 DEF Types
<1>6. OneTurn'
  <2>1. \A u \in Turns : text[u] # typed + 1
    BY DEF Types
  <2>2. shadow # <<>> => shadow' # <<>> /\ Head(shadow') = Head(shadow)
    BY <1>1 DEF Types
  <2> QED BY <1>1, <2>1, <2>2 DEF OneTurn, InUse
<1>7. Kept'
  BY <1>1, <1>4 DEF Kept
<1>8. Ordered'
  <2>1. \A i \in 1..Len(log) : log[i] \in queued' => log[i] \in queued /\ log[i] < typed + 1
    BY <1>1 DEF Types
  <2>2. \A i, j \in 1..Len(shadow') : i < j => shadow'[i] < shadow'[j]
    <3> SUFFICES ASSUME NEW i \in 1..Len(shadow'), NEW j \in 1..Len(shadow'), i < j
                 PROVE  shadow'[i] < shadow'[j]
      OBVIOUS
    <3>1. i \in 1..Len(shadow) /\ shadow'[i] = shadow[i] /\ shadow[i] \in 1..typed
      BY <1>2, <1>3
    <3>2. CASE j = Len(shadow) + 1
      BY <1>2, <3>1, <3>2 DEF Types
    <3>3. CASE j \in 1..Len(shadow)
      BY <1>2, <3>1, <3>3 DEF Ordered
    <3> QED BY <1>2, <3>2, <3>3
  <2>3. \A i \in 1..Len(log), j \in 1..Len(shadow') : log[i] \in queued' => log[i] < shadow'[j]
    BY <1>2, <2>1 DEF Ordered
  <2> QED BY <1>1, <2>1, <2>2, <2>3 DEF Ordered
<1> QED BY <1>5, <1>6, <1>7, <1>8

\* What the log is after an input was stored.
LEMMA Stored ==
  ASSUME Types, NEW x \in 0..typed, log' = Append(log, x)
  PROVE  /\ log' \in Seq(Nat) /\ Len(log') = Len(log) + 1 /\ Len(log) \in Nat /\ log'[Len(log) + 1] = x
         /\ \A i \in 1..Len(log) : log'[i] = log[i]
         /\ 1..Len(log') = 1..Len(log) \cup {Len(log) + 1}
         /\ ToSet(log') = ToSet(log) \cup {x}
<1>1. /\ log' \in Seq(Nat) /\ Len(log') = Len(log) + 1 /\ Len(log) \in Nat /\ log'[Len(log) + 1] = x
      /\ \A i \in 1..Len(log) : log'[i] = log[i]
      /\ 1..Len(log') = 1..Len(log) \cup {Len(log) + 1}
  BY DEF Types
<1>2. ToSet(log) = {log[i] : i \in 1..Len(log)}
  BY ToSetOf DEF Types
<1>3. ToSet(log') = {log'[i] : i \in 1..Len(log')}
  BY <1>1, ToSetOf
<1> QED BY <1>1, <1>2, <1>3

\* A sent input is stored; it never waited.
LEMMA PersistGood ==
  ASSUME Good, NEW t \in Turns, pc[t] = "persist", log' = Append(log, text[t]), Moves(t, {"enter"}),
         UNCHANGED <<shadow, given>>
  PROVE  Good'
<1> USE DEF Good
<1>1. text[t] \in 0..typed /\ text[t] \notin queued
  BY DEF Types, OneTurn
<1>2. /\ pc' \in [Turns -> Stages] /\ pc'[t] = "enter" /\ \A u \in Turns \ {t} : pc'[u] = "idle"
      /\ \A u, v \in InUse' : u = v
  BY MovesAlone DEF Stages
<1>3. UNCHANGED <<typed, text, queued, shadow, given>> /\ drained' = {}
  BY DEF Moves, OneTurn
<1>4. Types'
  BY <1>1, <1>2, <1>3, Stored DEF Types
<1>5. OneTurn'
  BY <1>2, <1>3 DEF OneTurn
<1>6. Kept'
  BY <1>1, <1>3, Stored DEF Kept
<1>7. Ordered'
  BY <1>1, <1>3, Stored DEF Ordered
<1> QED BY <1>4, <1>5, <1>6, <1>7

\* The loop takes the head, which stays where it is.
LEMMA TakeGood ==
  ASSUME Good, NEW t \in Turns, pc[t] = "request", shadow # <<>>, text' = [text EXCEPT ![t] = Head(shadow)],
         pc' = [pc EXCEPT ![t] = "keep"], UNCHANGED <<typed, queued, drained, shadow, log, given>>
  PROVE  Good'
<1> USE DEF Good
<1>1. Len(shadow) \in Nat /\ Len(shadow) # 0 /\ Head(shadow) = shadow[1]
  BY DEF Types
<1>2. Head(shadow) \in 0..typed
  BY <1>1 DEF Types
<1>3. /\ pc' \in [Turns -> Stages] /\ pc'[t] = "keep" /\ text' \in [Turns -> 0..typed] /\ text'[t] = Head(shadow)
      /\ \A u \in Turns \ {t} : pc[u] = "idle" /\ pc'[u] = "idle"
  BY <1>2 DEF Types, OneTurn, InUse, Stages
<1>4. OneTurn'
  BY <1>3 DEF OneTurn, InUse
<1>5. Types' /\ Kept' /\ Ordered'
  BY <1>3 DEF Types, Kept, Ordered
<1> QED BY <1>4, <1>5

\* It has been stored and leaves the queue: the head is still the input stored.
LEMMA KeepGood == ASSUME Good, NEW t \in Turns, Keep(t) PROVE Good'
<1> USE DEF Good
<1>1. /\ pc[t] = "keep" /\ log' = Append(log, text[t]) /\ pc' = [pc EXCEPT ![t] = "top"]
      /\ UNCHANGED <<typed, text, drained, queued, given>>
  BY DEF Keep, Go, historyVars
<1>2. shadow # <<>> /\ Head(shadow) = text[t] /\ shadow' = Tail(shadow)
  BY <1>1 DEF Keep, Rest, OneTurn
<1>3. /\ Len(shadow) \in Nat /\ Len(shadow) # 0 /\ text[t] = shadow[1] /\ text[t] \in queued /\ text[t] \in 0..typed
      /\ shadow' \in Seq(Nat) /\ Len(shadow') = Len(shadow) - 1
      /\ \A i \in 1..Len(shadow') : i + 1 \in 1..Len(shadow) /\ shadow'[i] = shadow[i + 1]
  BY <1>2 DEF Types
<1>4. /\ pc' \in [Turns -> Stages] /\ pc'[t] = "top" /\ \A u \in Turns \ {t} : pc'[u] = "idle"
      /\ \A u, v \in InUse' : u = v
  <2>1. Moves(t, {"top"})
    BY <1>1 DEF Moves
  <2> QED BY <1>1, <2>1, MovesAlone DEF Stages
<1>5. Types'
  <2>1. log' \in Seq(Nat) /\ \A i \in 1..Len(log') : log'[i] \in 0..typed
    BY <1>1, <1>3, Stored DEF Types
  <2>2. \A i \in 1..Len(shadow') : shadow'[i] \in queued
    BY <1>3 DEF Types
  <2> QED BY <1>1, <1>3, <1>4, <2>1, <2>2 DEF Types
<1>6. OneTurn'
  BY <1>1, <1>4 DEF OneTurn
<1>7. Kept'
  <2>1. ToSet(shadow) = {shadow[i] : i \in 1..Len(shadow)} /\ ToSet(shadow') = {shadow'[i] : i \in 1..Len(shadow')}
    BY <1>3, ToSetOf DEF Types
  <2>2. \A i \in 1..Len(shadow) : i = 1 \/ (i - 1 \in 1..Len(shadow') /\ shadow'[i - 1] = shadow[i])
    BY <1>3
  <2>3. ASSUME NEW i \in 1..Len(shadow) PROVE shadow[i] \in ToSet(shadow') \cup {text[t]}
    <3>1. CASE i = 1
      BY <1>3, <3>1
    <3>2. CASE i # 1
      BY <2>1, <2>2, <3>2
    <3> QED BY <3>1, <3>2
  <2>4. ToSet(shadow) \subseteq ToSet(shadow') \cup {text[t]}
    BY <2>1, <2>3
  <2> QED BY <1>1, <1>3, <2>4, Stored DEF Kept
<1>8. Ordered'
  <2>0. \A i, j \in 1..Len(shadow) : i < j => shadow[i] < shadow[j]
    BY DEF Ordered
  <2>1. ASSUME NEW i \in 1..Len(shadow'), NEW j \in 1..Len(shadow'), i < j
        PROVE  shadow'[i] < shadow'[j]
    <3>1. i + 1 < j + 1
      BY <1>3, <2>1
    <3> QED BY <1>3, <2>0, <3>1
  <2>2. ASSUME NEW j \in 1..Len(shadow') PROVE text[t] < shadow'[j]
    <3>1. 1 \in 1..Len(shadow) /\ 1 < j + 1
      BY <1>3
    <3> QED BY <1>3, <2>0, <3>1
  <2>3. \A i \in 1..Len(log) : log[i] \in queued => log[i] < text[t]
    BY <1>3 DEF Ordered
  <2>4. \A i \in 1..Len(log), j \in 1..Len(shadow') : log[i] \in queued => log[i] < shadow'[j]
    BY <1>3 DEF Ordered
  <2> QED BY <1>1, <1>3, <2>1, <2>2, <2>3, <2>4, Stored DEF Ordered
<1> QED BY <1>5, <1>6, <1>7, <1>8

-----------------------------------------------------------------------------
LEMMA InitGood == Init => CalmInv
<1> SUFFICES ASSUME Init PROVE Good
  BY DEF CalmInv
<1>1. Types /\ OneTurn
  BY DEF Init, Types, OneTurn, InUse, Stages
<1>2. Kept /\ Ordered
  BY DEF Init, Kept, Ordered
<1> QED BY <1>1, <1>2 DEF Good

LEMMA NextGood == CalmInv /\ [Next]_vars => CalmInv'
<1> SUFFICES ASSUME CalmInv, [Next]_vars, calm' PROVE Good'
  BY DEF CalmInv
<1>1. calm => drained = {}
  BY DEF CalmInv, Good, OneTurn
<1>2. Good /\ Kinds
  BY <1>1, StepKinds DEF CalmInv
<1>3. CASE UNCHANGED <<typed, shadow, log, pc, text, drained, given, queued>>
  BY <1>2, <1>3 DEF Good, Types, OneTurn, InUse, Kept, Ordered
<1> QED BY <1>2, <1>3, SendGood, QuietlyGood, PersistGood, TakeGood, KeepGood, QueueGood, DropsGood DEF Kinds

LEMMA CalmInvHolds == Spec => []CalmInv
BY InitGood, NextGood, PTL DEF Spec

\* No queued input is lost, as long as turns come one after the other and the
\* adapter sends nothing, for any number of turns and inputs.
THEOREM NoneLost == Spec => []KeptInTurn
<1>1. CalmInv => KeptInTurn
  BY DEF CalmInv, Good, Kept, KeptInTurn
<1> QED BY CalmInvHolds, <1>1, PTL

\* And queued inputs are stored once, in the order they were typed.
THEOREM StoredInOrder == Spec => []OnceInTurn
<1>1. CalmInv => OnceInTurn
  <2> SUFFICES ASSUME CalmInv, calm PROVE OnceInTurn
    BY DEF OnceInTurn
  <2>1. log \in Seq(Nat) /\ Ordered
    BY DEF CalmInv, Good, Types
  <2>2. DOMAIN log = 1..Len(log)
    BY <2>1
  <2> QED BY <2>1, <2>2 DEF Ordered, OnceInTurn
<1> QED BY CalmInvHolds, <1>1, PTL

=============================================================================
