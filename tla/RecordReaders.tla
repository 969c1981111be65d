--------------------------- MODULE RecordReaders ----------------------------
(***************************************************************************)
(* The readers of a record: readAction, readAndWaitAction, the cache of    *)
(* merged user data and the message reconciliation.  Each may put what a   *)
(* server answered into the client database, next to the operations of     *)
(* ClientRecord.                                                           *)
(***************************************************************************)
EXTENDS ClientRecord

CONSTANT Unanswered   \* the request has no answer yet

ASSUME AnswerAssumption == Unanswered \notin Records \cup {NoRecord}

VARIABLES
  answers,      \* answers[o][s]: what server s answered operation o
  flight,       \* flight[k]: the operation whose promise the in-flight map holds
  missed,       \* recentMisses holds the record
  revalidated   \* recentLocalHitRevalidations holds the record

readerVars == <<answers, flight, missed, revalidated>>
vars == <<recordVars, readerVars>>

RInit ==
  /\ Init
  /\ answers = [o \in Op |-> [s \in Server |-> Unanswered]]
  /\ flight = [k \in {"read", "readAndWait"} |-> NoOp]
  /\ missed = FALSE
  /\ revalidated = FALSE

-----------------------------------------------------------------------------

\* The answers of the servers S in order of the plan.
Answered(o, S) ==
  [i \in DOMAIN Servers |-> IF Servers[i] \in S THEN answers[o][Servers[i]] ELSE NoRecord]

\* pickBestSettledRemoteRecord, and the fold of the merges: from acc on, each
\* version that replaces the best so far.
Best(acc, s) ==
  FoldLeft(LAMBDA best, r :
             IF r # NoRecord /\ (best = NoRecord \/ ShouldReplaceWithNextRecord(r, best))
             THEN r ELSE best,
           acc, s)

\* compareRemoteRecordsByComparableTime(a, b) > 0, and the best by it.
NewerByTime(a, b) == a.updatedAt > b.updatedAt
BestByTime(s) ==
  FoldLeft(LAMBDA best, r :
             IF r # NoRecord /\ (best = NoRecord \/ NewerByTime(r, best)) THEN r ELSE best,
           NoRecord, s)

\* shouldReplaceLocalWithRemoteRecord with isRemoteDataNewer of read.ts.
\* (Mutant: the remote copy is always taken.)
RemoteIsNewer_Always(r, l) == r # NoRecord
RemoteIsNewer(r, l) == r # NoRecord /\ (l # NoRecord => ShouldReplaceWithNextRecord(r, l))

\* What the in-flight map holds once the promise of o settles.  (Mutant: the
\* entry stays.)
ClearFlight_Never(k) == flight
ClearFlight(k) == [flight EXCEPT ![k] = NoOp]

\* The promise of o, and those of the callers who share it, settle with r.
Joined(k, o) == {p \in Op : p = o \/ (kind[p] = k /\ pc[p] = "joined")}
Settle(k, o, r, at) ==
  /\ flight' = ClearFlight(k)
  /\ pc' = [p \in Op |-> IF p = o THEN at
                         ELSE IF p \in Joined(k, o)
                              THEN IF r = NoRecord THEN "failed" ELSE "done"
                              ELSE pc[p]]

\* readAction and readAndWaitAction up to their first await: a read in flight
\* is shared.
BeginRead(o, k) ==
  /\ k \in {"read", "readAndWait"}
  /\ Begins(o, k)
  /\ IF flight[k] # NoOp
     THEN GoTo(o, "joined") /\ UNCHANGED flight
     ELSE GoTo(o, "get") /\ flight' = [flight EXCEPT ![k] = o]
  /\ UNCHANGED <<scenario, local, remote, now, snap, outbox, lost, landed, edits,
                 answers, missed, revalidated>>

\* readAction finds the record: it is returned at once and, unless that was
\* done a moment ago, compared with the servers in the background.
LocalHit(o) ==
  /\ pc[o] = "get" /\ kind[o] = "read"
  /\ local # NoRecord
  /\ missed' = FALSE
  /\ \/ /\ Settle("read", o, local, "revalidate")
        /\ Hold(o, local)
        /\ revalidated' = TRUE
     \/ /\ revalidated
        /\ Settle("read", o, local, "done")
        /\ UNCHANGED <<snap, revalidated>>
  /\ UNCHANGED <<scenario, local, remote, now, kind, outbox, lost, landed, edits, answers>>

\* It does not: a repeated miss is suppressed while the cooldown lasts,
\* otherwise the servers are asked, the authority first.
LocalMiss(o) ==
  /\ pc[o] = "get" /\ kind[o] = "read"
  /\ local = NoRecord
  /\ \/ /\ missed
        /\ Settle("read", o, NoRecord, "failed")
     \/ GoTo(o, "preferred") /\ UNCHANGED flight
  /\ UNCHANGED <<scenario, local, remote, now, kind, snap, outbox, lost, landed, edits,
                 answers, missed, revalidated>>

\* readAndWaitAction has read the local copy.
WaitGet(o) ==
  /\ pc[o] = "get" /\ kind[o] = "readAndWait"
  /\ Hold(o, local)
  /\ GoTo(o, "preferred")
  /\ UNCHANGED <<scenario, local, remote, now, kind, outbox, lost, landed, edits, readerVars>>

\* The authority answers: with the record, which is going to be stored, or not.
Preferred(o) ==
  /\ pc[o] = "preferred"
  /\ \/ /\ remote[Primary] # NoRecord
        /\ Hold(o, IF kind[o] = "read" THEN [remote[Primary] EXCEPT !.origin = TRUE]
                   ELSE remote[Primary])
        /\ GoTo(o, "save")
     \/ GoTo(o, "others") /\ UNCHANGED snap
  /\ UNCHANGED <<scenario, local, remote, now, kind, outbox, lost, landed, edits, readerVars>>

\* The servers an operation waits for at the await it stands at.
Asked(o) == IF pc[o] = "others" THEN Server \ {Primary} ELSE Server

Waiting(o) == pc[o] \in {"others", "revalidate", "list"}

\* One of them answers, or fails to.
Answer(o, s) ==
  /\ Waiting(o)
  /\ s \in Asked(o)
  /\ answers[o][s] = Unanswered
  /\ \E r \in {remote[s], NoRecord} : answers' = [answers EXCEPT ![o][s] = r]
  /\ UNCHANGED <<recordVars, flight, missed, revalidated>>

AllSettled(o) == Waiting(o) /\ \A s \in Asked(o) : answers[o][s] # Unanswered

\* readAction after the fallback servers: store and return the best version,
\* or remember the miss.
Fallback(o) ==
  /\ pc[o] = "others" /\ kind[o] = "read" /\ AllSettled(o)
  /\ LET best == Best(NoRecord, Answered(o, Asked(o))) IN
     IF best = NoRecord
     THEN Settle("read", o, NoRecord, "failed") /\ missed' = TRUE /\ UNCHANGED snap
     ELSE /\ Hold(o, [best EXCEPT !.origin = TRUE])
          /\ GoTo(o, "save")
          /\ UNCHANGED <<flight, missed>>
  /\ UNCHANGED <<scenario, local, remote, now, kind, outbox, lost, landed, edits,
                 answers, revalidated>>

\* processRemoteDataInBackground after its requests.
Revalidate(o) ==
  /\ pc[o] = "revalidate" /\ AllSettled(o)
  /\ LET best == Best(NoRecord, Answered(o, Server)) IN
     IF RemoteIsNewer(best, snap[o])
     THEN Hold(o, [best EXCEPT !.origin = TRUE]) /\ GoTo(o, "bgput") /\ UNCHANGED outbox
     ELSE /\ GoTo(o, "done")
          /\ IF best = NoRecord THEN Schedule(o, "write", snap[o]) ELSE UNCHANGED outbox
          /\ UNCHANGED snap
  /\ UNCHANGED <<scenario, local, remote, now, kind, lost, landed, edits, readerVars>>

\* processRemoteData of readAndWait.ts after its requests.
WaitSettle(o) ==
  /\ pc[o] = "others" /\ kind[o] = "readAndWait" /\ AllSettled(o)
  /\ LET best == BestByTime(Answered(o, Asked(o))) IN
     IF best # NoRecord /\ (snap[o] # NoRecord => NewerByTime(best, snap[o]))
     THEN Hold(o, best) /\ GoTo(o, "save") /\ UNCHANGED <<outbox, flight>>
     ELSE /\ Settle("readAndWait", o, snap[o],
                    IF snap[o] = NoRecord THEN "failed" ELSE "done")
          /\ IF snap[o] # NoRecord /\ best = NoRecord /\ Asked(o) # {}
             THEN Schedule(o, "write", snap[o]) ELSE UNCHANGED outbox
          /\ UNCHANGED snap
  /\ UNCHANGED <<scenario, local, remote, now, kind, lost, landed, edits,
                 answers, missed, revalidated>>

\* The put of a read lands, then its caller is answered.
SaveLands(o) ==
  /\ pc[o] = "save"
  /\ local' = snap[o]
  /\ Settle(kind[o], o, snap[o], "done")
  /\ missed' = (missed /\ kind[o] # "read")
  /\ UNCHANGED <<scenario, remote, now, kind, snap, outbox, lost, landed, edits,
                 answers, revalidated>>

\* A put nobody waits for lands.
BackgroundLands(o) ==
  /\ pc[o] = "bgput"
  /\ local' = snap[o]
  /\ GoTo(o, "done")
  /\ UNCHANGED <<scenario, remote, now, kind, snap, outbox, lost, landed, edits, readerVars>>

-----------------------------------------------------------------------------

\* A list of user data, or the messages of a dialog, are loaded: the local copy
\* is read and all servers are asked.
BeginList(o, k) ==
  /\ k \in {"cache", "messages"}
  /\ Begins(o, k)
  /\ Hold(o, local)
  /\ GoTo(o, "list")
  /\ UNCHANGED <<scenario, local, remote, now, outbox, lost, landed, edits, readerVars>>

\* mergeAndDedupUserData over items that name the server they came from: a
\* local version that wins takes over the serverOrigin of the others.
ListMerged(o) ==
  LET all == Answered(o, Server)
      winner == Best(snap[o], all)
  IN IF winner = NoRecord THEN NoRecord
     ELSE [winner EXCEPT !.origin = @ \/ \E r \in ToSet(all) : r # NoRecord]

CacheSettle(o) ==
  /\ kind[o] = "cache" /\ pc[o] = "list" /\ AllSettled(o)
  /\ Hold(o, ListMerged(o))
  /\ GoTo(o, IF ListMerged(o) = NoRecord THEN "done" ELSE "cacheget")
  /\ UNCHANGED <<scenario, local, remote, now, kind, outbox, lost, landed, edits, readerVars>>

\* shouldUpdateLocalUserDataCache.
ShouldUpdateCache(next, l) ==
  l # NoRecord =>
    \/ ShouldReplaceWithNextRecord(next, l)
    \/ ~IsTombstoneRecord(l) /\ ~l.origin /\ next.origin

\* cacheMergedUserDataThunk has read the local copy again and decides.
CacheGet(o) ==
  /\ pc[o] = "cacheget"
  /\ GoTo(o, IF ShouldUpdateCache(snap[o], local) THEN "bgput" ELSE "done")
  /\ UNCHANGED <<scenario, local, remote, now, kind, snap, outbox, lost, landed, edits, readerVars>>

\* fetchAndCacheMessages reads the local copy again once all servers have
\* answered, merges, and stores the winner if a server sent it.
MessagesSettle(o) ==
  /\ kind[o] = "messages" /\ pc[o] = "list" /\ AllSettled(o)
  /\ LET fresh == Best(snap[o], <<local>>)
         winner == Best(fresh, Answered(o, Server))
     IN IF winner # fresh THEN Hold(o, winner) /\ GoTo(o, "bgput")
        ELSE GoTo(o, "done") /\ UNCHANGED snap
  /\ UNCHANGED <<scenario, local, remote, now, kind, outbox, lost, landed, edits, readerVars>>

ReaderStep(o) ==
  \/ BeginRead(o, "read") \/ BeginRead(o, "readAndWait") \/ LocalHit(o) \/ LocalMiss(o)
  \/ WaitGet(o) \/ Preferred(o) \/ (\E s \in Server : Answer(o, s))
  \/ Fallback(o) \/ Revalidate(o) \/ WaitSettle(o) \/ SaveLands(o) \/ BackgroundLands(o)
  \/ BeginList(o, "cache") \/ BeginList(o, "messages")
  \/ CacheSettle(o) \/ CacheGet(o) \/ MessagesSettle(o)

Next ==
  \E o \in Op :
    ReaderStep(o) \/ ((UserStep(o) \/ ServerStep(o)) /\ UNCHANGED readerVars)

\* A step of o other than its beginning and than the loss of a request.
Continue(o) ==
  /\ pc[o] # "idle"
  /\ ReaderStep(o) \/ (UserStep(o) /\ UNCHANGED readerVars)

\* Every await is answered: requests time out.  No operation waits for what it
\* has scheduled.
Fairness == \A o \in Op : WF_vars(Continue(o))

Spec == RInit /\ [][Next]_vars /\ Fairness

-----------------------------------------------------------------------------

\* The shape of the state.
TypeOK ==
  /\ RecordTypeOK
  /\ answers \in [Op -> [Server -> Records \cup {NoRecord, Unanswered}]]
  /\ flight \in [{"read", "readAndWait"} -> Op \cup {NoOp}]
  /\ missed \in BOOLEAN /\ revalidated \in BOOLEAN

\* The versions that servers have sent operation o.
Heard(o) == {answers[o][s] : s \in Server} \ {Unanswered, NoRecord}

\* A reader stores its version over the local copy, as long as operations follow
\* one another, only if it merely adds its serverOrigin or if a version that
\* some server sent supersedes the copy; and where all versions agree whether
\* the record is deleted, only if the one stored does so itself: no reader puts
\* the record back to an older version.
ReadersOnlyAdvance ==
  [][\A o \in Op :
       scenario.serial /\ (SaveLands(o) \/ BackgroundLands(o)) /\ local # NoRecord =>
         \/ local' = [local EXCEPT !.origin = local'.origin]
         \/ /\ \E r \in Heard(o) : ShouldReplaceWithNextRecord(r, local)
            /\ (\A r \in Heard(o) : IsTombstoneRecord(r) <=> IsTombstoneRecord(local))
                 => ShouldReplaceWithNextRecord(local', local)]_vars

\* A record the user deleted stays deleted in the client database until the
\* user himself writes or restores it: "deletion wins" over the live versions
\* that servers still return.
DeletedStaysDeleted ==
  (landed # NoOp /\ kind[landed] = "remove")
    => local # NoRecord /\ IsTombstoneRecord(local)

\* The local copy reflects every edit that landed in it, whatever the servers
\* have and answer.
EditsKept == edits # {} => local # NoRecord /\ edits \subseteq local.edits

\* No operation of a scenario in turn waits for the servers before it answers.
ReadsAtOnce == \A c \in Scenarios : c.serial => \A o \in Op : "readAndWait" \notin c.kinds[o]

\* The first holds whenever operations follow one another, however late, out of
\* order or lossy their requests are, in scenarios that ReadsAtOnce.
DeletedStaysDeletedInTurn == scenario.serial => DeletedStaysDeleted

\* Nothing is deleted: no operation removes the record and no copy is a tombstone
\* at first.
NothingDeleted ==
  /\ \A o \in Op : "remove" \notin scenario.kinds[o]
  /\ \A r \in scenario.local \cup scenario.remote : r # NoRecord => ~IsTombstoneRecord(r)

\* So does the second, as long as nothing is deleted: a deletion of a server wins
\* over every edit, and what is restored on top of it has lost them.
EditsKeptInTurn == scenario.serial /\ NothingDeleted => EditsKept

\* Every operation comes to its end.
OperationsEnd == \A o \in Op : ~Ended(o) ~> Ended(o)

=============================================================================
