------------------------ MODULE RecordReaders_proofs -------------------------
(***************************************************************************)
(* The record of the client database, its operations and readers, for any  *)
(* number of operations and servers and any scenarios.                     *)
(*                                                                         *)
(*   TypeInv     what every version, request and answer is                 *)
(*   Solo        in turn, at most one operation is under way               *)
(*   KindInv     an operation stays what it began as                       *)
(*   YoungInv    no version comes from the future                          *)
(*   DoomedInv, GoneInv    what a removal stores is later than every       *)
(*               restoration, and so is all that readers put over it       *)
(*   AdvanceInv  readers know the local copy they are about to replace     *)
(*   LandsInv, KeptInv     where nothing is deleted, the local copy holds  *)
(*               all edits and is as late as any other version             *)
(*                                                                         *)
(* The readers choose by FoldLeft, which is defined by a recursive         *)
(* function: the first part shows that this function exists and what       *)
(* stays true of its results (FoldStays), by an induction over a set of    *)
(* numbers (Climb).                                                        *)
(***************************************************************************)
EXTENDS RecordReaders, SequenceTheorems, WellFoundedInduction, TLAPS

\* Induction, as a fact about sets of numbers.
LEMMA Climb ==
  ASSUME NEW T, T \subseteq Nat, 0 \in T, \A n \in T : n + 1 \in T
  PROVE  T = Nat
<1> SUFFICES ASSUME Nat \ T # {} PROVE FALSE
  OBVIOUS
<1> DEFINE D == Nat \ T
<1>1. D \subseteq Nat /\ D # {}
  OBVIOUS
<1> HIDE DEF D
<1>2. PICK x \in D : \A y \in D : ~ (<<y, x>> \in OpToRel(<, Nat))
  BY <1>1, WFMin, NatLessThanWellFounded
<1>3. x \in Nat /\ x \notin T /\ x # 0
  BY <1>2 DEF D
<1>4. <<x - 1, x>> \in OpToRel(<, Nat) /\ x - 1 \in Nat
  BY <1>3 DEF OpToRel
<1>5. x - 1 \in T
  BY <1>2, <1>4 DEF D
<1>6. (x - 1) + 1 \in T /\ (x - 1) + 1 = x
  BY <1>3, <1>5
<1> QED BY <1>3, <1>6

\* A set of bounded numbers has a last one.
LEMMA MaxIn ==
  ASSUME NEW n \in Nat, NEW S, S \subseteq 0 .. n, S # {}
  PROVE  Max(S) \in S /\ \A y \in S : Max(S) >= y
<1> DEFINE U == {m \in Nat : \A y \in S : m >= y}
<1>1. n \in U /\ U \subseteq Nat
  OBVIOUS
<1> HIDE DEF U
<1>2. PICK u \in U : \A m \in U : ~ (<<m, u>> \in OpToRel(<, Nat))
  BY <1>1, WFMin, NatLessThanWellFounded
<1>3. u \in Nat /\ \A y \in S : u >= y
  BY <1>2 DEF U
<1>4. u \in S
  <2> SUFFICES ASSUME u \notin S PROVE FALSE
    OBVIOUS
  <2>1. \A y \in S : y \in Nat /\ u > y
    BY <1>3
  <2>2. u - 1 \in Nat /\ \A y \in S : u - 1 >= y
    <3>1. PICK y \in S : y \in Nat /\ u > y
      BY <2>1
    <3>2. u - 1 \in Nat
      BY <1>3, <3>1
    <3> QED BY <1>3, <2>1, <3>2
  <2>3. u - 1 \in U /\ u - 1 < u
    BY <1>3, <2>2 DEF U
  <2> QED BY <1>2, <1>3, <2>2, <2>3 DEF OpToRel
<1> QED BY <1>3, <1>4 DEF Max

\* The last number of an interval.
LEMMA LastIsMax == ASSUME NEW n \in Nat PROVE Max(1 .. n + 1) = n + 1 /\ (1 .. n + 1) \ {n + 1} = 1 .. n
<1>1. n + 1 \in 1 .. n + 1 /\ \A y \in 1 .. n + 1 : n + 1 >= y
  OBVIOUS
<1>2. \A x \in 1 .. n + 1 : (\A y \in 1 .. n + 1 : x >= y) => x = n + 1
  BY <1>1
<1>3. Max(1 .. n + 1) = n + 1
  BY <1>1, <1>2 DEF Max
<1> QED BY <1>3

-----------------------------------------------------------------------------

\* op stays in A for what is folded into it out of B.
Closed(op, A, B) == \A a \in A, b \in B : op[<<a, b>>] \in A

\* The function by which FoldLeft is defined, for a folded function op.
Folding(h, op, q, w, n) ==
  h = [d \in SUBSET (1 .. n) |-> IF d = {} THEN q ELSE op[<<h[d \ {Max(d)}], w[Max(d)]>>]]

\* It exists, and what it returns is in the set that op stays in.
LEMMA FoldingExists ==
  ASSUME NEW A, NEW B, NEW op, Closed(op, A, B), NEW q \in A, NEW w \in Seq(B), NEW n \in Nat, n <= Len(w)
  PROVE  \E h \in [SUBSET (1 .. n) -> A] : Folding(h, op, q, w, n)
<1> DEFINE P(k) == \E h \in [SUBSET (1 .. k) -> A] : Folding(h, op, q, w, k)
           T == {k \in Nat : k <= Len(w) => P(k)}
           V(d, x) == IF d = {} THEN q ELSE op[<<x, w[Max(d)]>>]
<1>1. 0 \in T
  <2> DEFINE h == [d \in SUBSET (1 .. 0) |-> q]
  <2>1. \A d \in SUBSET (1 .. 0) : d = {}
    OBVIOUS
  <2>2. h = [d \in SUBSET (1 .. 0) |-> V(d, h[d \ {Max(d)}])]
    BY <2>1
  <2>3. Folding(h, op, q, w, 0)
    BY <2>2 DEF Folding
  <2>4. h \in [SUBSET (1 .. 0) -> A]
    OBVIOUS
  <2> HIDE DEF h
  <2> QED BY <2>3, <2>4
<1>2. ASSUME NEW k \in T PROVE k + 1 \in T
  <2>0. k \in Nat
    OBVIOUS
  <2> HIDE DEF P
  <2> SUFFICES ASSUME k + 1 <= Len(w) PROVE P(k + 1)
    BY <2>0
  <2>1. PICK f \in [SUBSET (1 .. k) -> A] : Folding(f, op, q, w, k)
    <3>1. k <= Len(w)
      BY <2>0
    <3>2. P(k)
      BY <1>2, <3>1
    <3> QED BY <3>2 DEF P
  <2> DEFINE h == [d \in SUBSET (1 .. k + 1) |->
                     IF k + 1 \in d THEN V(d, f[d \ {k + 1}]) ELSE f[d]]
  <2> HIDE DEF T
  <2>2. ASSUME NEW d \in SUBSET (1 .. k + 1), k + 1 \in d
        PROVE  Max(d) = k + 1 /\ d \ {k + 1} \in SUBSET (1 .. k) /\ k + 1 \notin d \ {k + 1}
    <3>1. \A y \in d : k + 1 >= y
      BY <2>0
    <3>2. \A x \in d : (\A y \in d : x >= y) => x = k + 1
      BY <2>0, <2>2, <3>1
    <3>3. Max(d) = k + 1
      BY <2>2, <3>1, <3>2 DEF Max
    <3>4. ASSUME NEW y \in d \ {k + 1} PROVE y \in 1 .. k
      BY <2>0
    <3> QED BY <3>3, <3>4
  <2>3. ASSUME NEW d \in SUBSET (1 .. k + 1), k + 1 \notin d
        PROVE  d \in SUBSET (1 .. k) /\ k + 1 \notin d \ {Max(d)} /\ d \ {Max(d)} \in SUBSET (1 .. k)
    <3>1. ASSUME NEW y \in d PROVE y \in 1 .. k
      BY <2>0, <2>3
    <3> QED BY <2>3, <3>1
  <2>4. ASSUME NEW d \in SUBSET (1 .. k + 1) PROVE h[d] = V(d, h[d \ {Max(d)}]) /\ h[d] \in A
    <3>1. CASE k + 1 \in d
      <4>1. Max(d) = k + 1 /\ d \ {k + 1} \in SUBSET (1 .. k) /\ k + 1 \notin d \ {k + 1}
        BY <2>2, <3>1
      <4>2. d \ {k + 1} \in SUBSET (1 .. k + 1)
        OBVIOUS
      <4>3. h[d \ {k + 1}] = f[d \ {k + 1}] /\ h[d] = V(d, f[d \ {k + 1}])
        BY <3>1, <4>1, <4>2
      <4>4. f[d \ {k + 1}] \in A
        BY <2>1, <4>1
      <4>5. w[k + 1] \in B
        BY <2>0
      <4>6. d # {}
        BY <3>1
      <4> DEFINE a == f[d \ {k + 1}]
                 b == w[k + 1]
      <4>7. h[d] = op[<<a, b>>]
        BY <4>1, <4>3, <4>6
      <4>8. a \in A /\ b \in B
        BY <4>4, <4>5
      <4> HIDE DEF a, b, h
      <4>9. op[<<a, b>>] \in A
        BY <4>8 DEF Closed
      <4> QED BY <4>1, <4>3, <4>7, <4>9
    <3>2. CASE k + 1 \notin d
      <4> DEFINE e == d \ {Max(d)}
      <4>1. d \in SUBSET (1 .. k) /\ k + 1 \notin e /\ e \in SUBSET (1 .. k) /\ e \in SUBSET (1 .. k + 1)
        BY <2>3, <3>2
      <4>2. f[d] = V(d, f[e])
        <5>1. f = [x \in SUBSET (1 .. k) |-> V(x, f[x \ {Max(x)}])]
          BY <2>1 DEF Folding
        <5>2. d \in SUBSET (1 .. k)
          BY <4>1
        <5> HIDE DEF h, V
        <5> QED BY <5>1, <5>2, Zenon
      <4> HIDE DEF e
      <4>3. h[d] = f[d] /\ h[e] = f[e] /\ f[d] \in A
        BY <2>1, <3>2, <4>1
      <4> QED BY <4>2, <4>3 DEF e
    <3> QED BY <3>1, <3>2
  <2>5. h = [d \in SUBSET (1 .. k + 1) |-> V(d, h[d \ {Max(d)}])]
    <3> HIDE DEF V
    <3> QED BY <2>4
  <2>6. h \in [SUBSET (1 .. k + 1) -> A]
    BY <2>4
  <2> HIDE DEF h
  <2>7. Folding(h, op, q, w, k + 1)
    BY <2>5 DEF Folding
  <2> QED BY <2>6, <2>7 DEF P
<1>3. T \subseteq Nat
  OBVIOUS
<1> HIDE DEF T
<1>4. T = Nat
  BY <1>1, <1>2, <1>3, Climb
<1>5. P(n)
  BY <1>4 DEF T
<1> QED BY <1>5

\* The last of a set of indices is one of them.
LEMMA IndexIn ==
  ASSUME NEW n \in Nat, NEW d \in SUBSET (1 .. n), d # {}
  PROVE  Max(d) \in 1 .. n /\ d \ {Max(d)} \in SUBSET (1 .. n)
<1>1. d \subseteq 0 .. n
  OBVIOUS
<1>2. Max(d) \in d
  BY <1>1, MaxIn
<1> QED BY <1>2

\* The function by which FoldLeft is defined, with what its steps are about.
LEMMA FoldingIn ==
  ASSUME NEW A, NEW B, NEW op, Closed(op, A, B), NEW q \in A, NEW s \in Seq(B)
  PROVE  \E h \in [SUBSET (1 .. Len(s)) -> A] :
           \A d \in SUBSET (1 .. Len(s)) :
             /\ d = {} => h[d] = q
             /\ d # {} => /\ h[d] = op[<<h[d \ {Max(d)}], s[Max(d)]>>]
                          /\ h[d \ {Max(d)}] \in A /\ s[Max(d)] \in B
<1>1. PICK h \in [SUBSET (1 .. Len(s)) -> A] : Folding(h, op, q, s, Len(s))
  <2>1. Len(s) \in Nat /\ Len(s) <= Len(s)
    OBVIOUS
  <2> QED BY <2>1, FoldingExists
<1>2. h = [d \in SUBSET (1 .. Len(s)) |-> IF d = {} THEN q ELSE op[<<h[d \ {Max(d)}], s[Max(d)]>>]]
  BY <1>1 DEF Folding
<1>3. ASSUME NEW d \in SUBSET (1 .. Len(s)), d # {}
      PROVE  h[d \ {Max(d)}] \in A /\ s[Max(d)] \in B
  <2>1. Max(d) \in 1 .. Len(s) /\ d \ {Max(d)} \in SUBSET (1 .. Len(s))
    BY <1>3, IndexIn
  <2> QED BY <1>1, <2>1
<1>4. \A d \in SUBSET (1 .. Len(s)) : h[d] = IF d = {} THEN q ELSE op[<<h[d \ {Max(d)}], s[Max(d)]>>]
  BY <1>2, Zenon
<1>5. \A d \in SUBSET (1 .. Len(s)) :
        /\ d = {} => h[d] = q
        /\ d # {} => /\ h[d] = op[<<h[d \ {Max(d)}], s[Max(d)]>>]
                     /\ h[d \ {Max(d)}] \in A /\ s[Max(d)] \in B
  BY <1>3, <1>4
<1> QED BY <1>1, <1>5

\* The steps of that function, where it keeps to A.
Steps(g, op, A, B, q, s) ==
  \A d \in SUBSET (1 .. Len(s)) :
    /\ d = {} => g[d] = q
    /\ d # {} /\ g[d \ {Max(d)}] \in A /\ s[Max(d)] \in B =>
         g[d] = op[<<g[d \ {Max(d)}], s[Max(d)]>>]

\* A function that takes these steps ends in A.
LEMMA FoldStays ==
  ASSUME NEW A, NEW B, NEW op, Closed(op, A, B), NEW q \in A, NEW s \in Seq(B), NEW g,
         Steps(g, op, A, B, q, s)
  PROVE  g[1 .. Len(s)] \in A
<1> DEFINE T == {k \in Nat : k <= Len(s) => g[1 .. k] \in A}
<1>1. 0 \in T
  <2>1. 1 .. 0 = {}
    OBVIOUS
  <2> QED BY <2>1 DEF Steps
<1>2. ASSUME NEW k \in T PROVE k + 1 \in T
  <2>0. k \in Nat /\ Len(s) \in Nat
    OBVIOUS
  <2> SUFFICES ASSUME k + 1 <= Len(s) PROVE g[1 .. k + 1] \in A
    BY <2>0
  <2>1. k < Len(s) /\ g[1 .. k] \in A
    BY <2>0
  <2> HIDE DEF T
  <2> DEFINE d == 1 .. k + 1
  <2>2. Max(d) = k + 1 /\ d \ {k + 1} = 1 .. k
    BY <2>0, LastIsMax
  <2>3. d \in SUBSET (1 .. Len(s)) /\ d # {} /\ s[k + 1] \in B
    <3>1. Len(s) \in Nat /\ k \in Nat /\ k < Len(s)
      BY <2>0, <2>1
    <3>2. d \subseteq 1 .. Len(s) /\ k + 1 \in d /\ k + 1 \in 1 .. Len(s)
      <4> DEFINE n == Len(s)
      <4>1. n \in Nat /\ k \in Nat /\ k < n
        BY <3>1
      <4> HIDE DEF n
      <4>2. 1 .. k + 1 \subseteq 1 .. n /\ k + 1 \in 1 .. k + 1 /\ k + 1 \in 1 .. n
        BY <4>1
      <4> QED BY <4>2 DEF n
    <3>3. s[k + 1] \in B
      BY <3>2
    <3> QED BY <3>2, <3>3
  <2> HIDE DEF d
  <2>4. g[d \ {Max(d)}] \in A /\ s[Max(d)] \in B
    BY <2>1, <2>2, <2>3
  <2>5. g[d] = op[<<g[d \ {Max(d)}], s[Max(d)]>>]
    BY <2>3, <2>4 DEF Steps
  <2>6. op[<<g[d \ {Max(d)}], s[Max(d)]>>] \in A
    BY <2>4 DEF Closed
  <2> QED BY <2>5, <2>6 DEF d
<1>3. T \subseteq Nat
  OBVIOUS
<1> HIDE DEF T
<1>4. T = Nat
  BY <1>1, <1>2, <1>3, Climb
<1>5. Len(s) \in T /\ Len(s) <= Len(s)
  BY <1>4
<1> QED BY <1>5 DEF T

-----------------------------------------------------------------------------

\* What the reduce of pickBestSettledRemoteRecord returns stays in A, if A is
\* closed under its steps.
LEMMA BestStays ==
  ASSUME NEW A, NEW B, NEW acc \in A, NEW s \in Seq(B),
         \A a \in A, b \in B :
           (IF b # NoRecord /\ (a = NoRecord \/ ShouldReplaceWithNextRecord(b, a)) THEN b ELSE a) \in A
  PROVE  Best(acc, s) \in A
<1> DEFINE G(a, b) == IF b # NoRecord /\ (a = NoRecord \/ ShouldReplaceWithNextRecord(b, a)) THEN b ELSE a
           F(g) == g = [d \in SUBSET (DOMAIN s) |-> IF d = {} THEN acc ELSE G(g[d \ {Max(d)}], s[Max(d)])]
           g == CHOOSE g : F(g)
           op == [z \in A \X B |-> G(z[1], z[2])]
<1>0. DOMAIN s = 1 .. Len(s)
  OBVIOUS
<1>1. Best(acc, s) = g[DOMAIN s]
  BY DEF Best, FoldLeft, MapThenFoldSet
<1>2. \A a \in A, b \in B : op[<<a, b>>] = G(a, b) /\ op[<<a, b>>] \in A
  OBVIOUS
<1> HIDE DEF G, op
<1>3. Closed(op, A, B)
  BY <1>2 DEF Closed
<1>4. \E h : F(h)
  <2>1. PICK h \in [SUBSET (1 .. Len(s)) -> A] :
          \A d \in SUBSET (1 .. Len(s)) :
            /\ d = {} => h[d] = acc
            /\ d # {} => /\ h[d] = op[<<h[d \ {Max(d)}], s[Max(d)]>>]
                         /\ h[d \ {Max(d)}] \in A /\ s[Max(d)] \in B
    BY <1>3, FoldingIn, ZenonT(20)
  <2>2. F(h)
    BY <1>0, <1>2, <2>1
  <2> QED BY <2>2
<1>5. F(g)
  BY <1>4
<1> HIDE DEF g
<1>6. g = [d \in SUBSET (DOMAIN s) |-> IF d = {} THEN acc ELSE G(g[d \ {Max(d)}], s[Max(d)])]
  BY <1>5
<1>7. \A d \in SUBSET (DOMAIN s) : g[d] = IF d = {} THEN acc ELSE G(g[d \ {Max(d)}], s[Max(d)])
  BY <1>6, Zenon
<1>8. Steps(g, op, A, B, acc, s)
  BY <1>0, <1>2, <1>7 DEF Steps
<1>9. g[1 .. Len(s)] \in A
  BY <1>3, <1>8, FoldStays
<1> QED BY <1>0, <1>1, <1>9

\* The same of the reduce that compares times only.
LEMMA BestByTimeStays ==
  ASSUME NEW A, NEW B, NoRecord \in A, NEW s \in Seq(B),
         \A a \in A, b \in B :
           (IF b # NoRecord /\ (a = NoRecord \/ NewerByTime(b, a)) THEN b ELSE a) \in A
  PROVE  BestByTime(s) \in A
<1> DEFINE G(a, b) == IF b # NoRecord /\ (a = NoRecord \/ NewerByTime(b, a)) THEN b ELSE a
           F(g) == g = [d \in SUBSET (DOMAIN s) |-> IF d = {} THEN NoRecord ELSE G(g[d \ {Max(d)}], s[Max(d)])]
           g == CHOOSE g : F(g)
           op == [z \in A \X B |-> G(z[1], z[2])]
<1>0. DOMAIN s = 1 .. Len(s)
  OBVIOUS
<1>1. BestByTime(s) = g[DOMAIN s]
  BY DEF BestByTime, FoldLeft, MapThenFoldSet
<1>2. \A a \in A, b \in B : op[<<a, b>>] = G(a, b) /\ op[<<a, b>>] \in A
  OBVIOUS
<1> HIDE DEF G, op
<1>3. Closed(op, A, B)
  BY <1>2 DEF Closed
<1>4. \E h : F(h)
  <2>1. PICK h \in [SUBSET (1 .. Len(s)) -> A] :
          \A d \in SUBSET (1 .. Len(s)) :
            /\ d = {} => h[d] = NoRecord
            /\ d # {} => /\ h[d] = op[<<h[d \ {Max(d)}], s[Max(d)]>>]
                         /\ h[d \ {Max(d)}] \in A /\ s[Max(d)] \in B
    BY <1>3, FoldingIn, ZenonT(20)
  <2>2. F(h)
    BY <1>0, <1>2, <2>1
  <2> QED BY <2>2
<1>5. F(g)
  BY <1>4
<1> HIDE DEF g
<1>6. g = [d \in SUBSET (DOMAIN s) |-> IF d = {} THEN NoRecord ELSE G(g[d \ {Max(d)}], s[Max(d)])]
  BY <1>5
<1>7. \A d \in SUBSET (DOMAIN s) : g[d] = IF d = {} THEN NoRecord ELSE G(g[d \ {Max(d)}], s[Max(d)])
  BY <1>6, Zenon
<1>8. Steps(g, op, A, B, NoRecord, s)
  BY <1>0, <1>2, <1>7 DEF Steps
<1>9. g[1 .. Len(s)] \in A
  BY <1>3, <1>8, FoldStays
<1> QED BY <1>0, <1>1, <1>9

-----------------------------------------------------------------------------

\* A copy: a version or none.
Copy == Records \cup {NoRecord}

\* The requests of an operation: all but the purge carry a version.
Request ==
  [what : {"none"}, left : {{}}, rec : {NoRecord}]
    \cup [what : {"force"}, left : SUBSET Server, rec : {NoRecord}]
    \cup [what : {"write", "patch", "restore", "delete"}, left : SUBSET Server, rec : Records]

Awaits ==
  {"idle", "done", "failed", "put", "hydrate", "reread", "del", "joined", "get", "preferred",
   "others", "revalidate", "save", "bgput", "list", "cacheget"}

\* The awaits at which an operation holds on to a version.
Holding == {"put", "reread", "revalidate", "save", "bgput", "cacheget"}

\* The state of the record, of the operations and of the readers.
StoreInv ==
  /\ scenario \in Scenarios
  /\ local \in Copy
  /\ remote \in [Server -> Copy]
  /\ now \in Nat
  /\ lost \in 0 .. scenario.maxLost
  /\ landed \in Op \cup {NoOp}
  /\ edits \subseteq Op
OpsInv ==
  /\ kind \in [Op -> UserKind \cup ReaderKind \cup {"none"}]
  /\ pc \in [Op -> Awaits]
  /\ snap \in [Op -> Copy]
  /\ outbox \in [Op -> Request]
  /\ \A o \in Op : pc[o] \in Holding => snap[o] \in Records
  /\ \A o \in Op : pc[o] = "put" => kind[o] \in UserKind \ {"purge"}
  /\ \A o \in Op : pc[o] \in {"hydrate", "reread"} => kind[o] \in {"patch", "restore"}
ReadersInv ==
  /\ answers \in [Op -> [Server -> Copy \cup {Unanswered}]]
  /\ flight \in [{"read", "readAndWait"} -> Op \cup {NoOp}]
  /\ missed \in BOOLEAN /\ revalidated \in BOOLEAN
TypeInv == StoreInv /\ OpsInv /\ ReadersInv

-----------------------------------------------------------------------------

\* Every server of the plan is one, and the authority is one of them.
LEMMA ServersAre ==
  /\ \A i \in DOMAIN Servers : Servers[i] \in Server
  /\ DOMAIN Servers = 1 .. Len(Servers) /\ Len(Servers) \in Nat
  /\ Primary \in Server
<1>1. Servers # <<>> /\ Servers \in Seq(Server)
  BY RecordAssumption
<1> HIDE DEF Server
<1> QED BY <1>1 DEF Primary

\* What the operations make of versions are versions.
LEMMA MadeVersions ==
  ASSUME NEW r \in Records, NEW o \in Op, NEW k, now \in Nat
  PROVE  /\ Merged(o, k, r) \in Records
         /\ Removed(r) \in Records /\ Minimal \in Records
         /\ [r EXCEPT !.origin = TRUE] \in Records
<1>1. ASSUME NEW m \in Nat, NEW n \in Nat PROVE Later(m, n) \in Nat
  BY DEF Later
<1>2. r.updatedAt \in Nat /\ r.updatedAt + 1 \in Nat
  BY DEF Records
<1>3. Later(now, r.updatedAt + 1) \in Nat
  BY <1>1, <1>2
<1> QED BY <1>3 DEF Records, Merged, Removed, BuildTombstoneRecord, Minimal, ApplyRestorePatch

\* What a request leaves on a server.
LEMMA RequestLeaves ==
  ASSUME TypeInv, NEW o \in Op, NEW r \in Copy, outbox[o].left # {}, NEW x \in AfterRequest(o, r)
  PROVE  x \in Copy
<1> DEFINE m == outbox[o].rec
           w == outbox[o].what
<1>1. outbox[o] \in Request /\ now \in Nat
  BY DEF TypeInv, OpsInv, StoreInv
<1>2. \/ w = "force"
      \/ w \in {"write", "patch", "restore", "delete"} /\ m \in Records
  BY <1>1 DEF Request
<1>3. CASE w = "force"
  BY <1>3 DEF AfterRequest, Copy
<1>4. CASE w = "write" /\ m \in Records
  BY <1>4 DEF AfterRequest, Copy
<1>5. CASE w \in {"patch", "restore", "delete"} /\ m \in Records
  <2>1. CASE r = NoRecord
    BY <1>5, <2>1 DEF AfterRequest, Copy
  <2>2. CASE r \in Records
    <3> HIDE DEF m
    <3>0. m.updatedAt \in Nat /\ m.restoredAt \in Nat /\ r # NoRecord
      BY <1>5, <2>2, ScenarioAssumption DEF Records
    <3>1. /\ [r EXCEPT !.updatedAt = m.updatedAt, !.edits = @ \cup {o}] \in Records
          /\ [ApplyRestorePatch(r, m.restoredAt) EXCEPT !.edits = @ \cup {o}] \in Records
          /\ BuildTombstoneRecord(r, now) \in Records
      BY <1>1, <2>2, <3>0 DEF Records, BuildTombstoneRecord, ApplyRestorePatch
    <3>2. w = "delete" => x \in {r, BuildTombstoneRecord(r, now)}
      BY <3>0 DEF AfterRequest
    <3>3. w = "patch" => x = [r EXCEPT !.updatedAt = m.updatedAt, !.edits = @ \cup {o}]
      BY <3>0 DEF AfterRequest, m
    <3>4. w = "restore" => x = [ApplyRestorePatch(r, m.restoredAt) EXCEPT !.edits = @ \cup {o}]
      BY <3>0 DEF AfterRequest, m
    <3> HIDE DEF w
    <3> QED BY <1>5, <2>2, <3>1, <3>2, <3>3, <3>4 DEF Copy
  <2> QED BY <2>1, <2>2 DEF Copy
<1> QED BY <1>2, <1>3, <1>4, <1>5

\* The answers that have come in are copies.
LEMMA AnsweredIs ==
  ASSUME NEW o \in Op, NEW S \in SUBSET Server, NEW B, NoRecord \in B,
         \A s \in S : answers[o][s] \in B
  PROVE  Answered(o, S) \in Seq(B) /\ Answered(o, S) # <<>>
<1>1. \A i \in DOMAIN Servers : Answered(o, S)[i] \in B
  BY DEF Answered
<1>2. DOMAIN Answered(o, S) = 1 .. Len(Servers) /\ Len(Servers) \in Nat
  BY ServersAre DEF Answered
<1>3. Answered(o, S) = [i \in 1 .. Len(Servers) |-> Answered(o, S)[i]]
  BY ServersAre DEF Answered
<1>4. Answered(o, S) \in [1 .. Len(Servers) -> B]
  BY <1>1, <1>2, <1>3, ServersAre
<1>5. Len(Servers) # 0
  BY RecordAssumption
<1> HIDE DEF Answered
<1> QED BY <1>2, <1>4, <1>5

\* The best of versions out of X is one of them.
LEMMA BestAmong ==
  ASSUME NEW X, NEW acc \in X \cup {NoRecord}, NEW s \in Seq(X \cup {NoRecord})
  PROVE  Best(acc, s) \in X \cup {NoRecord} /\ BestByTime(s) \in X \cup {NoRecord}
<1> DEFINE A == X \cup {NoRecord}
<1>1. acc \in A /\ s \in Seq(A) /\ NoRecord \in A
  OBVIOUS
<1>2. \A a \in A, b \in A :
        (IF b # NoRecord /\ (a = NoRecord \/ ShouldReplaceWithNextRecord(b, a)) THEN b ELSE a) \in A
  OBVIOUS
<1>3. \A a \in A, b \in A :
        (IF b # NoRecord /\ (a = NoRecord \/ NewerByTime(b, a)) THEN b ELSE a) \in A
  OBVIOUS
<1> HIDE DEF A
<1>4. Best(acc, s) \in A
  BY <1>1, <1>2, BestStays
<1>5. BestByTime(s) \in A
  BY <1>1, <1>3, BestByTimeStays
<1> QED BY <1>4, <1>5 DEF A

\* What a settled operation has been answered.
LEMMA SettledIs ==
  ASSUME TypeInv, NEW o \in Op, AllSettled(o)
  PROVE  /\ Answered(o, Asked(o)) \in Seq(Copy)
         /\ Asked(o) \subseteq Server
         /\ pc[o] # "others" => Asked(o) = Server
<1>1. Asked(o) \subseteq Server /\ (pc[o] # "others" => Asked(o) = Server)
  BY DEF Asked
<1>2. \A s \in Asked(o) : answers[o][s] \in Copy
  BY <1>1 DEF AllSettled, TypeInv, ReadersInv
<1>3. NoRecord \in Copy
  BY DEF Copy
<1> QED BY <1>1, <1>2, <1>3, AnsweredIs

-----------------------------------------------------------------------------

\* Operation o goes to l; readers that share its promise are settled with it.
PcMoves(o, l) ==
  /\ pc' \in [Op -> Awaits] /\ pc'[o] = l
  /\ \A p \in Op \ {o} : pc'[p] = pc[p] \/ (pc[p] = "joined" /\ pc'[p] \in {"done", "failed"})

\* It holds on to r, and it is one of kind k.
SnapMoves(o, r) ==
  snap' \in [Op -> Copy] /\ snap'[o] = r /\ \A p \in Op \ {o} : snap'[p] = snap[p]
KindMoves(o, k) ==
  /\ kind' \in [Op -> UserKind \cup ReaderKind \cup {"none"}]
  /\ kind'[o] = k /\ \A p \in Op \ {o} : kind'[p] = kind[p]

\* GoTo.
LEMMA GoToMoves ==
  ASSUME TypeInv, NEW o \in Op, NEW l \in Awaits, GoTo(o, l)
  PROVE  PcMoves(o, l)
BY DEF TypeInv, OpsInv, GoTo, PcMoves

\* The promise of o settles.
LEMMA SettleMoves ==
  ASSUME TypeInv, NEW o \in Op, NEW k, NEW r, NEW at \in Awaits, Settle(k, o, r, at)
  PROVE  PcMoves(o, at) /\ flight' \in [{"read", "readAndWait"} -> Op \cup {NoOp}]
<1>1. pc \in [Op -> Awaits] /\ flight \in [{"read", "readAndWait"} -> Op \cup {NoOp}]
  BY DEF TypeInv, OpsInv, ReadersInv
<1>2. flight' \in [{"read", "readAndWait"} -> Op \cup {NoOp}]
  BY <1>1 DEF Settle, ClearFlight
<1>3. "done" \in Awaits /\ "failed" \in Awaits
  BY DEF Awaits
<1>4. pc' = [p \in Op |-> IF p = o THEN at
                          ELSE IF p \in Joined(k, o)
                               THEN IF r = NoRecord THEN "failed" ELSE "done"
                               ELSE pc[p]]
  BY DEF Settle
<1>5. \A p \in Op \ {o} : p \in Joined(k, o) => pc[p] = "joined"
  BY DEF Joined
<1> QED BY <1>1, <1>2, <1>3, <1>4, <1>5 DEF PcMoves

\* Hold.
LEMMA HoldMoves ==
  ASSUME TypeInv, NEW o \in Op, NEW r \in Copy, Hold(o, r)
  PROVE  SnapMoves(o, r)
BY DEF TypeInv, OpsInv, Hold, SnapMoves

\* No version is taken hold of.
LEMMA SnapStays ==
  ASSUME TypeInv, NEW o \in Op, UNCHANGED snap
  PROVE  SnapMoves(o, snap[o]) /\ snap[o] \in Copy
BY DEF TypeInv, OpsInv, SnapMoves

\* An operation begins.
LEMMA BeginMoves ==
  ASSUME TypeInv, NEW o \in Op, NEW k, Begins(o, k)
  PROVE  KindMoves(o, k) /\ k \in UserKind \cup ReaderKind
<1>1. scenario.kinds \in [Op -> SUBSET (UserKind \cup ReaderKind)]
  BY ScenarioAssumption DEF TypeInv, StoreInv
<1>2. k \in UserKind \cup ReaderKind
  BY <1>1 DEF Begins
<1> QED BY <1>2 DEF Begins, TypeInv, OpsInv, KindMoves

\* No operation begins.
LEMMA KindStays ==
  ASSUME TypeInv, NEW o \in Op, UNCHANGED kind
  PROVE  KindMoves(o, kind[o])
BY DEF TypeInv, OpsInv, KindMoves

\* What is scheduled is a request.
LEMMA ScheduleIs ==
  ASSUME TypeInv, NEW o \in Op, NEW w, NEW r, Schedule(o, w, r),
         \/ w = "force" /\ r = NoRecord
         \/ w \in {"write", "patch", "restore", "delete"} /\ r \in Records
  PROVE  outbox' \in [Op -> Request]
<1>1. [what |-> w, left |-> Server, rec |-> r] \in Request
  BY DEF Request
<1> QED BY <1>1 DEF Schedule, TypeInv, OpsInv

\* What the operations keep to, from what one of them does.
LEMMA OpsKept ==
  ASSUME TypeInv, NEW o \in Op, NEW l, NEW r, NEW k,
         PcMoves(o, l), SnapMoves(o, r), KindMoves(o, k), outbox' \in [Op -> Request],
         l \in Holding => r \in Records,
         l = "put" => k \in UserKind \ {"purge"},
         l \in {"hydrate", "reread"} => k \in {"patch", "restore"}
  PROVE  OpsInv'
<1>1. ASSUME NEW p \in Op
      PROVE  /\ pc'[p] \in Holding => snap'[p] \in Records
             /\ pc'[p] = "put" => kind'[p] \in UserKind \ {"purge"}
             /\ pc'[p] \in {"hydrate", "reread"} => kind'[p] \in {"patch", "restore"}
  <2>1. CASE p = o
    BY <2>1 DEF PcMoves, SnapMoves, KindMoves
  <2>2. CASE p # o
    <3>1. /\ pc'[p] = pc[p] \/ pc'[p] \in {"done", "failed"}
          /\ snap'[p] = snap[p] /\ kind'[p] = kind[p]
      BY <2>2 DEF PcMoves, SnapMoves, KindMoves
    <3>2. /\ pc[p] \in Holding => snap[p] \in Records
          /\ pc[p] = "put" => kind[p] \in UserKind \ {"purge"}
          /\ pc[p] \in {"hydrate", "reread"} => kind[p] \in {"patch", "restore"}
      BY DEF TypeInv, OpsInv
    <3> QED BY <3>1, <3>2 DEF Holding
  <2> QED BY <2>1, <2>2
<1> QED BY <1>1 DEF OpsInv, PcMoves, SnapMoves, KindMoves

-----------------------------------------------------------------------------

\* Each action of an operation keeps the type invariant: writeAction,
LEMMA WriteTyped ==
  ASSUME TypeInv, NEW o \in Op, WriteAction(o), UNCHANGED readerVars
  PROVE  TypeInv'
<1> DEFINE w == [updatedAt |-> now, deletedAt |-> 0, restoredAt |-> 0, edits |-> {o}, origin |-> FALSE]
<1>1. w \in Records /\ w \in Copy /\ now + 1 \in Nat /\ "put" \in Awaits
  BY DEF TypeInv, StoreInv, Records, Copy, Awaits
<1> HIDE DEF w
<1>2. Hold(o, w) /\ GoTo(o, "put") /\ Begins(o, "write") /\ Tick
      /\ UNCHANGED <<scenario, local, remote, outbox, lost, landed, edits>>
  BY DEF WriteAction, w
<1>3. PcMoves(o, "put") /\ SnapMoves(o, w) /\ KindMoves(o, "write")
  BY <1>1, <1>2, GoToMoves, HoldMoves, BeginMoves
<1>4. outbox' \in [Op -> Request]
  BY <1>2 DEF TypeInv, OpsInv
<1>5. OpsInv'
  BY <1>1, <1>3, <1>4, OpsKept DEF UserKind
<1>6. StoreInv'
  BY <1>1, <1>2 DEF TypeInv, StoreInv, Tick
<1> QED BY <1>5, <1>6 DEF TypeInv, ReadersInv, readerVars

\* patchAction,
LEMMA PatchTyped ==
  ASSUME TypeInv, NEW o \in Op, NEW k, PatchAction(o, k), UNCHANGED readerVars
  PROVE  TypeInv'
<1>1. /\ k \in {"patch", "restore"} /\ Begins(o, k)
      /\ UNCHANGED <<scenario, local, remote, outbox, lost, landed, edits>>
      /\ local \in Copy /\ now \in Nat /\ now + 1 \in Nat /\ "put" \in Awaits /\ "hydrate" \in Awaits
  BY DEF PatchAction, TypeInv, StoreInv, Awaits
<1>2. KindMoves(o, k) /\ outbox' \in [Op -> Request]
  BY <1>1, BeginMoves DEF TypeInv, OpsInv
<1>3. CASE local # NoRecord
  <2>1. Hold(o, Merged(o, k, local)) /\ Tick /\ GoTo(o, "put")
    BY <1>3 DEF PatchAction
  <2>2. Merged(o, k, local) \in Records /\ Merged(o, k, local) \in Copy
    BY <1>1, <1>3, MadeVersions DEF Copy
  <2>3. PcMoves(o, "put") /\ SnapMoves(o, Merged(o, k, local))
    BY <1>1, <2>1, <2>2, GoToMoves, HoldMoves
  <2>4. OpsInv'
    BY <1>1, <1>2, <2>2, <2>3, OpsKept DEF UserKind
  <2>5. StoreInv'
    BY <1>1, <2>1 DEF TypeInv, StoreInv, Tick
  <2> QED BY <2>4, <2>5 DEF TypeInv, ReadersInv, readerVars
<1>4. CASE local = NoRecord
  <2>1. GoTo(o, "hydrate") /\ UNCHANGED <<snap, now>>
    BY <1>4 DEF PatchAction
  <2>2. PcMoves(o, "hydrate") /\ SnapMoves(o, snap[o])
    BY <1>1, <2>1, GoToMoves, SnapStays
  <2>3. OpsInv'
    BY <1>1, <1>2, <2>2, OpsKept DEF Holding
  <2>4. StoreInv'
    BY <1>1, <2>1 DEF TypeInv, StoreInv
  <2> QED BY <2>3, <2>4 DEF TypeInv, ReadersInv, readerVars
<1> QED BY <1>3, <1>4

\* its hydration,
LEMMA HydrateTyped ==
  ASSUME TypeInv, NEW o \in Op, Hydrate(o), UNCHANGED readerVars
  PROVE  TypeInv'
<1>1. /\ pc[o] = "hydrate" /\ kind[o] \in {"patch", "restore"}
      /\ UNCHANGED <<scenario, local, remote, now, kind, outbox, lost, landed, edits>>
      /\ "reread" \in Awaits /\ "failed" \in Awaits /\ remote[Primary] \in Copy
  BY ServersAre DEF Hydrate, TypeInv, OpsInv, StoreInv, Awaits
<1>2. KindMoves(o, kind[o]) /\ outbox' \in [Op -> Request]
  BY <1>1, KindStays DEF TypeInv, OpsInv
<1>3. OpsInv'
  <2>1. CASE remote[Primary] # NoRecord /\ Hold(o, remote[Primary]) /\ GoTo(o, "reread")
    <3>1. PcMoves(o, "reread") /\ SnapMoves(o, remote[Primary]) /\ remote[Primary] \in Records
      BY <1>1, <2>1, GoToMoves, HoldMoves DEF Copy
    <3> QED BY <1>1, <1>2, <3>1, OpsKept
  <2>2. CASE GoTo(o, "failed") /\ UNCHANGED snap
    <3>1. PcMoves(o, "failed") /\ SnapMoves(o, snap[o])
      BY <1>1, <2>2, GoToMoves, SnapStays
    <3> QED BY <1>2, <3>1, OpsKept DEF Holding
  <2> QED BY <2>1, <2>2 DEF Hydrate
<1>4. StoreInv'
  BY <1>1 DEF TypeInv, StoreInv
<1> QED BY <1>3, <1>4 DEF TypeInv, ReadersInv, readerVars

\* its second look at the local copy,
LEMMA RereadTyped ==
  ASSUME TypeInv, NEW o \in Op, Reread(o), UNCHANGED readerVars
  PROVE  TypeInv'
<1> DEFINE b == IF local # NoRecord THEN local ELSE snap[o]
           m == Merged(o, kind[o], b)
<1>1. /\ Hold(o, m) /\ Tick /\ GoTo(o, "put")
      /\ UNCHANGED <<scenario, local, remote, kind, outbox, lost, landed, edits>>
      /\ local \in Copy /\ now \in Nat /\ now + 1 \in Nat /\ "put" \in Awaits
      /\ snap[o] \in Records /\ kind[o] \in {"patch", "restore"}
  BY DEF Reread, TypeInv, StoreInv, OpsInv, Awaits, Holding
<1>2. b \in Records
  BY <1>1 DEF Copy
<1> HIDE DEF b
<1>3. m \in Records /\ m \in Copy
  BY <1>1, <1>2, MadeVersions DEF Copy
<1> HIDE DEF m
<1>4. PcMoves(o, "put") /\ SnapMoves(o, m) /\ KindMoves(o, kind[o]) /\ outbox' \in [Op -> Request]
  BY <1>1, <1>3, GoToMoves, HoldMoves, KindStays DEF TypeInv, OpsInv
<1>5. OpsInv'
  BY <1>1, <1>3, <1>4, OpsKept DEF UserKind
<1>6. StoreInv'
  BY <1>1 DEF TypeInv, StoreInv, Tick
<1> QED BY <1>5, <1>6 DEF TypeInv, ReadersInv, readerVars

\* removeAction,
LEMMA RemoveTyped ==
  ASSUME TypeInv, NEW o \in Op, RemoveAction(o), UNCHANGED readerVars
  PROVE  TypeInv'
<1> DEFINE b == IF local = NoRecord THEN Minimal ELSE local
           m == Removed(b)
<1>1. /\ Begins(o, "remove") /\ Hold(o, m) /\ Tick /\ GoTo(o, "put")
      /\ UNCHANGED <<scenario, local, remote, outbox, lost, landed, edits>>
      /\ local \in Copy /\ now \in Nat /\ now + 1 \in Nat /\ "put" \in Awaits
  BY DEF RemoveAction, TypeInv, StoreInv, OpsInv, Awaits
<1>2. b \in Records
  <2>1. Minimal \in Records
    BY <1>1 DEF Minimal, Records
  <2> QED BY <1>1, <2>1 DEF Copy
<1> HIDE DEF b
<1>3. m \in Records /\ m \in Copy
  BY <1>1, <1>2, MadeVersions DEF Copy
<1> HIDE DEF m
<1>4. PcMoves(o, "put") /\ SnapMoves(o, m) /\ KindMoves(o, "remove") /\ outbox' \in [Op -> Request]
  BY <1>1, <1>3, GoToMoves, HoldMoves, BeginMoves DEF TypeInv, OpsInv
<1>5. OpsInv'
  BY <1>1, <1>3, <1>4, OpsKept DEF UserKind
<1>6. StoreInv'
  BY <1>1 DEF TypeInv, StoreInv, Tick
<1> QED BY <1>5, <1>6 DEF TypeInv, ReadersInv, readerVars

\* purgeAction,
LEMMA PurgeTyped ==
  ASSUME TypeInv, NEW o \in Op, PurgeAction(o), UNCHANGED readerVars
  PROVE  TypeInv'
<1> DEFINE l == IF MayPurge(local) THEN "del" ELSE "failed"
<1>1. /\ Begins(o, "purge") /\ GoTo(o, l) /\ l \in Awaits /\ l \notin Holding \cup {"put", "hydrate", "reread"}
      /\ UNCHANGED <<scenario, local, remote, now, snap, outbox, lost, landed, edits>>
  BY DEF PurgeAction, Awaits, Holding
<1> HIDE DEF l
<1>2. PcMoves(o, l) /\ SnapMoves(o, snap[o]) /\ KindMoves(o, "purge") /\ outbox' \in [Op -> Request]
  BY <1>1, GoToMoves, SnapStays, BeginMoves DEF TypeInv, OpsInv
<1>3. OpsInv'
  BY <1>1, <1>2, OpsKept
<1>4. StoreInv'
  BY <1>1 DEF TypeInv, StoreInv
<1> QED BY <1>3, <1>4 DEF TypeInv, ReadersInv, readerVars

\* the put of a user operation,
LEMMA PutTyped ==
  ASSUME TypeInv, NEW o \in Op, PutLands(o), UNCHANGED readerVars
  PROVE  TypeInv'
<1>1. /\ pc[o] = "put" /\ snap[o] \in Records /\ kind[o] \in UserKind \ {"purge"}
      /\ local' = snap[o] /\ Schedule(o, RequestOf(kind[o]), snap[o]) /\ GoTo(o, "done") /\ landed' = o
      /\ UNCHANGED <<scenario, remote, now, kind, snap, lost>> /\ "done" \in Awaits
  BY DEF PutLands, TypeInv, OpsInv, Awaits, Holding
<1>2. RequestOf(kind[o]) \in {"write", "patch", "restore", "delete"}
  BY <1>1 DEF RequestOf, UserKind
<1>3. PcMoves(o, "done") /\ SnapMoves(o, snap[o]) /\ KindMoves(o, kind[o]) /\ outbox' \in [Op -> Request]
  BY <1>1, <1>2, GoToMoves, SnapStays, KindStays, ScheduleIs
<1>4. OpsInv'
  BY <1>3, OpsKept DEF Holding
<1>5. edits' \subseteq Op
  BY DEF PutLands, TypeInv, StoreInv
<1>6. StoreInv'
  BY <1>1, <1>5 DEF TypeInv, StoreInv, Copy
<1> QED BY <1>4, <1>6 DEF TypeInv, ReadersInv, readerVars

\* the del of a purge,
LEMMA DelTyped ==
  ASSUME TypeInv, NEW o \in Op, DelLands(o), UNCHANGED readerVars
  PROVE  TypeInv'
<1>1. /\ local' = NoRecord /\ Schedule(o, "force", NoRecord) /\ GoTo(o, "done") /\ landed' = o /\ edits' = {}
      /\ UNCHANGED <<scenario, remote, now, kind, snap, lost>> /\ "done" \in Awaits
  BY DEF DelLands, Awaits
<1>2. PcMoves(o, "done") /\ SnapMoves(o, snap[o]) /\ KindMoves(o, kind[o]) /\ outbox' \in [Op -> Request]
  BY <1>1, GoToMoves, SnapStays, KindStays, ScheduleIs
<1>3. OpsInv'
  BY <1>2, OpsKept DEF Holding
<1>4. StoreInv'
  BY <1>1 DEF TypeInv, StoreInv, Copy
<1> QED BY <1>3, <1>4 DEF TypeInv, ReadersInv, readerVars

\* and a request that is delivered or lost.
LEMMA ServerTyped ==
  ASSUME TypeInv, NEW o \in Op, ServerStep(o), UNCHANGED readerVars
  PROVE  TypeInv'
<1>1. PICK s \in Server : Deliver(o, s) \/ Lose(o, s)
  BY DEF ServerStep
<1>2. outbox' \in [Op -> Request] /\ outbox[o].left # {}
  <2>1. s \in outbox[o].left /\ outbox' = [outbox EXCEPT ![o].left = @ \ {s}]
    BY <1>1 DEF Deliver, Lose, Due, Sent
  <2>2. outbox \in [Op -> Request] /\ outbox[o] \in Request
    BY DEF TypeInv, OpsInv
  <2>3. [outbox[o] EXCEPT !.left = @ \ {s}] \in Request
    BY <2>1, <2>2 DEF Request
  <2> QED BY <2>1, <2>2, <2>3
<1>3. UNCHANGED <<kind, pc, snap>>
  BY <1>1 DEF Deliver, Lose
<1>4. OpsInv'
  BY <1>2, <1>3 DEF TypeInv, OpsInv
<1>5. StoreInv'
  <2>1. CASE Deliver(o, s)
    <3>1. PICK r \in AfterRequest(o, remote[s]) : remote' = [remote EXCEPT ![s] = r]
      BY <2>1 DEF Deliver
    <3>2. remote[s] \in Copy /\ now \in Nat
      BY DEF TypeInv, StoreInv
    <3>3. r \in Copy
      BY <1>2, <3>2, RequestLeaves
    <3>4. now' \in Nat
      BY <2>1, <3>2 DEF Deliver, Tick
    <3> QED BY <2>1, <3>1, <3>3, <3>4 DEF Deliver, TypeInv, StoreInv
  <2>2. CASE Lose(o, s)
    <3>1. lost' = lost + 1 /\ lost < scenario.maxLost /\ scenario.maxLost \in Nat
          /\ UNCHANGED <<scenario, local, remote, now, landed, edits>>
      BY <2>2, ScenarioAssumption DEF Lose, TypeInv, StoreInv
    <3>2. lost \in 0 .. scenario.maxLost
      BY DEF TypeInv, StoreInv
    <3>3. lost' \in 0 .. scenario'.maxLost
      BY <3>1, <3>2
    <3> QED BY <3>1, <3>3 DEF TypeInv, StoreInv
  <2> QED BY <1>1, <2>1, <2>2
<1> QED BY <1>4, <1>5 DEF TypeInv, ReadersInv, readerVars

-----------------------------------------------------------------------------

\* So does each action of a reader: the beginning of a read,
LEMMA BeginReadTyped ==
  ASSUME TypeInv, NEW o \in Op, NEW k, BeginRead(o, k)
  PROVE  TypeInv'
<1>1. /\ k \in {"read", "readAndWait"} /\ Begins(o, k)
      /\ UNCHANGED <<scenario, local, remote, now, snap, outbox, lost, landed, edits, answers, missed, revalidated>>
      /\ "joined" \in Awaits /\ "get" \in Awaits
  BY DEF BeginRead, Awaits
<1>2. KindMoves(o, k) /\ SnapMoves(o, snap[o]) /\ outbox' \in [Op -> Request]
  BY <1>1, BeginMoves, SnapStays DEF TypeInv, OpsInv
<1>3. \E l \in {"joined", "get"} : PcMoves(o, l)
  <2>1. GoTo(o, "joined") \/ GoTo(o, "get")
    BY DEF BeginRead
  <2> QED BY <1>1, <2>1, GoToMoves
<1>4. OpsInv'
  <2>1. PICK l \in {"joined", "get"} : PcMoves(o, l)
    BY <1>3
  <2> QED BY <1>2, <2>1, OpsKept DEF Holding
<1>5. flight' \in [{"read", "readAndWait"} -> Op \cup {NoOp}]
  BY DEF BeginRead, TypeInv, ReadersInv
<1>6. StoreInv'
  BY <1>1 DEF TypeInv, StoreInv
<1> QED BY <1>1, <1>4, <1>5, <1>6 DEF TypeInv, ReadersInv

\* the hit,
LEMMA LocalHitTyped ==
  ASSUME TypeInv, NEW o \in Op, LocalHit(o)
  PROVE  TypeInv'
<1>1. /\ local \in Records /\ local \in Copy /\ missed' = FALSE
      /\ UNCHANGED <<scenario, local, remote, now, kind, outbox, lost, landed, edits, answers>>
      /\ "revalidate" \in Awaits /\ "done" \in Awaits
  BY DEF LocalHit, TypeInv, StoreInv, Copy, Awaits
<1>2. KindMoves(o, kind[o]) /\ outbox' \in [Op -> Request]
  BY <1>1, KindStays DEF TypeInv, OpsInv
<1>3. OpsInv' /\ flight' \in [{"read", "readAndWait"} -> Op \cup {NoOp}] /\ revalidated' \in BOOLEAN
  <2>1. CASE Settle("read", o, local, "revalidate") /\ Hold(o, local) /\ revalidated' = TRUE
    <3>1. PcMoves(o, "revalidate") /\ SnapMoves(o, local) /\ flight' \in [{"read", "readAndWait"} -> Op \cup {NoOp}]
      BY <1>1, <2>1, SettleMoves, HoldMoves
    <3>2. OpsInv'
      BY <1>1, <1>2, <3>1, OpsKept
    <3> QED BY <2>1, <3>1, <3>2
  <2>2. CASE Settle("read", o, local, "done") /\ UNCHANGED <<snap, revalidated>>
    <3>1. PcMoves(o, "done") /\ SnapMoves(o, snap[o]) /\ flight' \in [{"read", "readAndWait"} -> Op \cup {NoOp}]
      BY <1>1, <2>2, SettleMoves, SnapStays
    <3>2. OpsInv'
      BY <1>2, <3>1, OpsKept DEF Holding
    <3> QED BY <2>2, <3>1, <3>2 DEF TypeInv, ReadersInv
  <2> QED BY <2>1, <2>2 DEF LocalHit
<1>4. StoreInv'
  BY <1>1 DEF TypeInv, StoreInv
<1> QED BY <1>1, <1>3, <1>4 DEF TypeInv, ReadersInv

\* the miss,
LEMMA LocalMissTyped ==
  ASSUME TypeInv, NEW o \in Op, LocalMiss(o)
  PROVE  TypeInv'
<1>1. /\ UNCHANGED <<scenario, local, remote, now, kind, snap, outbox, lost, landed, edits, answers, missed, revalidated>>
      /\ "failed" \in Awaits /\ "preferred" \in Awaits
  BY DEF LocalMiss, Awaits
<1>2. KindMoves(o, kind[o]) /\ outbox' \in [Op -> Request] /\ SnapMoves(o, snap[o])
  BY <1>1, KindStays, SnapStays DEF TypeInv, OpsInv
<1>3. \E l \in {"failed", "preferred"} : PcMoves(o, l) /\ flight' \in [{"read", "readAndWait"} -> Op \cup {NoOp}]
  <2>1. CASE Settle("read", o, NoRecord, "failed")
    BY <1>1, <2>1, SettleMoves
  <2>2. CASE GoTo(o, "preferred") /\ UNCHANGED flight
    BY <1>1, <2>2, GoToMoves DEF TypeInv, ReadersInv
  <2> QED BY <2>1, <2>2 DEF LocalMiss
<1>4. OpsInv'
  <2>1. PICK l \in {"failed", "preferred"} : PcMoves(o, l)
    BY <1>3
  <2> QED BY <1>2, <2>1, OpsKept DEF Holding
<1>5. StoreInv'
  BY <1>1 DEF TypeInv, StoreInv
<1> QED BY <1>1, <1>3, <1>4, <1>5 DEF TypeInv, ReadersInv

\* readAndWaitAction with the local copy,
LEMMA WaitGetTyped ==
  ASSUME TypeInv, NEW o \in Op, WaitGet(o)
  PROVE  TypeInv'
<1>1. /\ Hold(o, local) /\ GoTo(o, "preferred") /\ local \in Copy /\ "preferred" \in Awaits
      /\ UNCHANGED <<scenario, local, remote, now, kind, outbox, lost, landed, edits, readerVars>>
  BY DEF WaitGet, TypeInv, StoreInv, Awaits
<1>2. PcMoves(o, "preferred") /\ SnapMoves(o, local) /\ KindMoves(o, kind[o]) /\ outbox' \in [Op -> Request]
  BY <1>1, GoToMoves, HoldMoves, KindStays DEF TypeInv, OpsInv
<1>3. OpsInv'
  BY <1>2, OpsKept DEF Holding
<1>4. StoreInv'
  BY <1>1 DEF TypeInv, StoreInv
<1> QED BY <1>1, <1>3, <1>4 DEF TypeInv, ReadersInv, readerVars

\* the answer of the authority,
LEMMA PreferredTyped ==
  ASSUME TypeInv, NEW o \in Op, Preferred(o)
  PROVE  TypeInv'
<1>1. /\ UNCHANGED <<scenario, local, remote, now, kind, outbox, lost, landed, edits, readerVars>>
      /\ "save" \in Awaits /\ "others" \in Awaits /\ remote[Primary] \in Copy /\ now \in Nat
  BY ServersAre DEF Preferred, TypeInv, StoreInv, Awaits
<1>2. KindMoves(o, kind[o]) /\ outbox' \in [Op -> Request]
  BY <1>1, KindStays DEF TypeInv, OpsInv
<1>3. OpsInv'
  <2> DEFINE r == IF kind[o] = "read" THEN [remote[Primary] EXCEPT !.origin = TRUE] ELSE remote[Primary]
  <2>1. CASE remote[Primary] # NoRecord /\ Hold(o, r) /\ GoTo(o, "save")
    <3>1. remote[Primary] \in Records
      BY <1>1, <2>1 DEF Copy
    <3>2. r \in Records /\ r \in Copy
      BY <1>1, <3>1, MadeVersions DEF Copy
    <3> HIDE DEF r
    <3>3. PcMoves(o, "save") /\ SnapMoves(o, r)
      BY <1>1, <2>1, <3>2, GoToMoves, HoldMoves
    <3> QED BY <1>2, <3>2, <3>3, OpsKept
  <2>2. CASE GoTo(o, "others") /\ UNCHANGED snap
    <3>1. PcMoves(o, "others") /\ SnapMoves(o, snap[o])
      BY <1>1, <2>2, GoToMoves, SnapStays
    <3> QED BY <1>2, <3>1, OpsKept DEF Holding
  <2> QED BY <2>1, <2>2 DEF Preferred
<1>4. StoreInv'
  BY <1>1 DEF TypeInv, StoreInv
<1> QED BY <1>1, <1>3, <1>4 DEF TypeInv, ReadersInv, readerVars

\* the answer of one of several servers,
LEMMA AnswerTyped ==
  ASSUME TypeInv, NEW o \in Op, NEW s \in Server, Answer(o, s)
  PROVE  TypeInv'
<1>1. UNCHANGED <<recordVars, flight, missed, revalidated>> /\ remote[s] \in Copy
  BY DEF Answer, TypeInv, StoreInv
<1>2. PICK r \in {remote[s], NoRecord} : answers' = [answers EXCEPT ![o][s] = r]
  BY DEF Answer
<1>3. answers' \in [Op -> [Server -> Copy \cup {Unanswered}]]
  BY <1>1, <1>2 DEF TypeInv, ReadersInv, Copy
<1>4. OpsInv' /\ StoreInv'
  BY <1>1 DEF TypeInv, OpsInv, StoreInv, recordVars
<1> QED BY <1>1, <1>3, <1>4 DEF TypeInv, ReadersInv

\* What the best answer is, once they are all there.
LEMMA BestSettled ==
  ASSUME TypeInv, NEW o \in Op, AllSettled(o)
  PROVE  /\ Best(NoRecord, Answered(o, Asked(o))) \in Copy
         /\ BestByTime(Answered(o, Asked(o))) \in Copy
         /\ \A acc \in Copy : Best(acc, Answered(o, Asked(o))) \in Copy
<1>1. Answered(o, Asked(o)) \in Seq(Records \cup {NoRecord})
  BY SettledIs DEF Copy
<1>2. NoRecord \in Records \cup {NoRecord}
  OBVIOUS
<1>3. \A acc \in Records \cup {NoRecord} :
        Best(acc, Answered(o, Asked(o))) \in Copy /\ BestByTime(Answered(o, Asked(o))) \in Copy
  BY <1>1, BestAmong DEF Copy
<1> QED BY <1>2, <1>3 DEF Copy

\* readAction after the fallback servers,
LEMMA FallbackTyped ==
  ASSUME TypeInv, NEW o \in Op, Fallback(o)
  PROVE  TypeInv'
<1> DEFINE best == Best(NoRecord, Answered(o, Asked(o)))
           r == [best EXCEPT !.origin = TRUE]
<1>1. /\ UNCHANGED <<scenario, local, remote, now, kind, outbox, lost, landed, edits, answers, revalidated>>
      /\ "save" \in Awaits /\ "failed" \in Awaits /\ AllSettled(o) /\ now \in Nat
      /\ \/ best = NoRecord /\ Settle("read", o, NoRecord, "failed") /\ missed' = TRUE /\ UNCHANGED snap
         \/ best # NoRecord /\ Hold(o, r) /\ GoTo(o, "save") /\ UNCHANGED <<flight, missed>>
  BY DEF Fallback, TypeInv, StoreInv, Awaits
<1>2. best \in Copy
  BY <1>1, BestSettled
<1>3. KindMoves(o, kind[o]) /\ outbox' \in [Op -> Request]
  BY <1>1, KindStays DEF TypeInv, OpsInv
<1> HIDE DEF best
<1>4. best # NoRecord => r \in Records /\ r \in Copy
  BY <1>1, <1>2, MadeVersions DEF Copy
<1> HIDE DEF r
<1>5. OpsInv' /\ flight' \in [{"read", "readAndWait"} -> Op \cup {NoOp}] /\ missed' \in BOOLEAN
  <2>1. CASE best = NoRecord /\ Settle("read", o, NoRecord, "failed") /\ missed' = TRUE /\ UNCHANGED snap
    <3>1. PcMoves(o, "failed") /\ SnapMoves(o, snap[o]) /\ flight' \in [{"read", "readAndWait"} -> Op \cup {NoOp}]
      BY <1>1, <2>1, SettleMoves, SnapStays
    <3>2. OpsInv'
      BY <1>3, <3>1, OpsKept DEF Holding
    <3> QED BY <2>1, <3>1, <3>2
  <2>2. CASE best # NoRecord /\ Hold(o, r) /\ GoTo(o, "save") /\ UNCHANGED <<flight, missed>>
    <3>1. PcMoves(o, "save") /\ SnapMoves(o, r)
      BY <1>1, <1>4, <2>2, GoToMoves, HoldMoves
    <3>2. OpsInv'
      BY <1>3, <1>4, <2>2, <3>1, OpsKept
    <3> QED BY <2>2, <3>2 DEF TypeInv, ReadersInv
  <2> QED BY <1>1, <2>1, <2>2
<1>6. StoreInv'
  BY <1>1 DEF TypeInv, StoreInv
<1> QED BY <1>1, <1>5, <1>6 DEF TypeInv, ReadersInv

\* the background comparison,
LEMMA RevalidateTyped ==
  ASSUME TypeInv, NEW o \in Op, Revalidate(o)
  PROVE  TypeInv'
<1> DEFINE best == Best(NoRecord, Answered(o, Server))
           r == [best EXCEPT !.origin = TRUE]
<1>1. /\ UNCHANGED <<scenario, local, remote, now, kind, lost, landed, edits, readerVars>>
      /\ "bgput" \in Awaits /\ "done" \in Awaits /\ AllSettled(o) /\ now \in Nat
      /\ pc[o] = "revalidate" /\ snap[o] \in Records
      /\ \/ best # NoRecord /\ Hold(o, r) /\ GoTo(o, "bgput") /\ UNCHANGED outbox
         \/ GoTo(o, "done") /\ UNCHANGED snap /\ (Schedule(o, "write", snap[o]) \/ UNCHANGED outbox)
  BY DEF Revalidate, RemoteIsNewer, TypeInv, StoreInv, OpsInv, Awaits, Holding
<1>2. best \in Copy
  <2>1. Asked(o) = Server
    BY <1>1, SettledIs
  <2> QED BY <1>1, <2>1, BestSettled
<1>3. KindMoves(o, kind[o])
  BY <1>1, KindStays
<1> HIDE DEF best
<1>4. best # NoRecord => r \in Records /\ r \in Copy
  BY <1>1, <1>2, MadeVersions DEF Copy
<1> HIDE DEF r
<1>5. OpsInv'
  <2>1. CASE best # NoRecord /\ Hold(o, r) /\ GoTo(o, "bgput") /\ UNCHANGED outbox
    <3>1. PcMoves(o, "bgput") /\ SnapMoves(o, r) /\ outbox' \in [Op -> Request]
      BY <1>1, <1>4, <2>1, GoToMoves, HoldMoves DEF TypeInv, OpsInv
    <3> QED BY <1>3, <1>4, <2>1, <3>1, OpsKept
  <2>2. CASE GoTo(o, "done") /\ UNCHANGED snap /\ (Schedule(o, "write", snap[o]) \/ UNCHANGED outbox)
    <3>1. PcMoves(o, "done") /\ SnapMoves(o, snap[o])
      BY <1>1, <2>2, GoToMoves, SnapStays
    <3>2. outbox' \in [Op -> Request]
      BY <1>1, <2>2, ScheduleIs DEF TypeInv, OpsInv
    <3> QED BY <1>3, <3>1, <3>2, OpsKept DEF Holding
  <2> QED BY <1>1, <2>1, <2>2
<1>6. StoreInv'
  BY <1>1 DEF TypeInv, StoreInv
<1> QED BY <1>1, <1>5, <1>6 DEF TypeInv, ReadersInv, readerVars

\* readAndWaitAction after the other servers,
LEMMA WaitSettleTyped ==
  ASSUME TypeInv, NEW o \in Op, WaitSettle(o)
  PROVE  TypeInv'
<1> DEFINE best == BestByTime(Answered(o, Asked(o)))
           l == IF snap[o] = NoRecord THEN "failed" ELSE "done"
<1>1. /\ UNCHANGED <<scenario, local, remote, now, kind, lost, landed, edits, answers, missed, revalidated>>
      /\ "save" \in Awaits /\ l \in Awaits /\ l \notin Holding \cup {"put", "hydrate", "reread"} /\ AllSettled(o)
      /\ \/ best # NoRecord /\ Hold(o, best) /\ GoTo(o, "save") /\ UNCHANGED <<outbox, flight>>
         \/ /\ Settle("readAndWait", o, snap[o], l) /\ UNCHANGED snap
            /\ (snap[o] # NoRecord /\ Schedule(o, "write", snap[o])) \/ UNCHANGED outbox
  BY DEF WaitSettle, Awaits, Holding
<1>2. best \in Copy /\ (best # NoRecord => best \in Records)
  BY <1>1, BestSettled DEF Copy
<1>3. KindMoves(o, kind[o])
  BY <1>1, KindStays
<1> HIDE DEF best, l
<1>4. OpsInv' /\ flight' \in [{"read", "readAndWait"} -> Op \cup {NoOp}]
  <2>1. CASE best # NoRecord /\ Hold(o, best) /\ GoTo(o, "save") /\ UNCHANGED <<outbox, flight>>
    <3>1. PcMoves(o, "save") /\ SnapMoves(o, best) /\ outbox' \in [Op -> Request]
      BY <1>1, <1>2, <2>1, GoToMoves, HoldMoves DEF TypeInv, OpsInv
    <3>2. OpsInv'
      BY <1>2, <1>3, <2>1, <3>1, OpsKept
    <3> QED BY <2>1, <3>2 DEF TypeInv, ReadersInv
  <2>2. CASE /\ Settle("readAndWait", o, snap[o], l) /\ UNCHANGED snap
             /\ (snap[o] # NoRecord /\ Schedule(o, "write", snap[o])) \/ UNCHANGED outbox
    <3>1. PcMoves(o, l) /\ SnapMoves(o, snap[o]) /\ flight' \in [{"read", "readAndWait"} -> Op \cup {NoOp}]
      BY <1>1, <2>2, SettleMoves, SnapStays
    <3>2. outbox' \in [Op -> Request]
      <4>1. snap[o] \in Copy
        BY DEF TypeInv, OpsInv
      <4>2. snap[o] # NoRecord => snap[o] \in Records
        BY <4>1 DEF Copy
      <4>3. CASE snap[o] # NoRecord /\ Schedule(o, "write", snap[o])
        BY <4>2, <4>3, ScheduleIs
      <4>4. CASE UNCHANGED outbox
        BY <4>4 DEF TypeInv, OpsInv
      <4> QED BY <2>2, <4>3, <4>4
    <3> QED BY <1>1, <1>3, <3>1, <3>2, OpsKept
  <2> QED BY <1>1, <2>1, <2>2
<1>5. StoreInv'
  BY <1>1 DEF TypeInv, StoreInv
<1> QED BY <1>1, <1>4, <1>5 DEF TypeInv, ReadersInv

-----------------------------------------------------------------------------

\* the put a read waits for,
LEMMA SaveTyped ==
  ASSUME TypeInv, NEW o \in Op, SaveLands(o)
  PROVE  TypeInv'
<1>1. /\ local' = snap[o] /\ snap[o] \in Records /\ Settle(kind[o], o, snap[o], "done") /\ "done" \in Awaits
      /\ missed' \in BOOLEAN
      /\ UNCHANGED <<scenario, remote, now, kind, snap, outbox, lost, landed, edits, answers, revalidated>>
  BY DEF SaveLands, TypeInv, OpsInv, ReadersInv, Awaits, Holding
<1>2. /\ PcMoves(o, "done") /\ SnapMoves(o, snap[o]) /\ KindMoves(o, kind[o]) /\ outbox' \in [Op -> Request]
      /\ flight' \in [{"read", "readAndWait"} -> Op \cup {NoOp}]
  BY <1>1, SettleMoves, SnapStays, KindStays DEF TypeInv, OpsInv
<1>3. OpsInv'
  BY <1>2, OpsKept DEF Holding
<1>4. StoreInv'
  BY <1>1 DEF TypeInv, StoreInv, Copy
<1> QED BY <1>1, <1>2, <1>3, <1>4 DEF TypeInv, ReadersInv

\* the put nobody waits for,
LEMMA BackgroundTyped ==
  ASSUME TypeInv, NEW o \in Op, BackgroundLands(o)
  PROVE  TypeInv'
<1>1. /\ local' = snap[o] /\ snap[o] \in Records /\ GoTo(o, "done") /\ "done" \in Awaits
      /\ UNCHANGED <<scenario, remote, now, kind, snap, outbox, lost, landed, edits, readerVars>>
  BY DEF BackgroundLands, TypeInv, OpsInv, Awaits, Holding
<1>2. PcMoves(o, "done") /\ SnapMoves(o, snap[o]) /\ KindMoves(o, kind[o]) /\ outbox' \in [Op -> Request]
  BY <1>1, GoToMoves, SnapStays, KindStays DEF TypeInv, OpsInv
<1>3. OpsInv'
  BY <1>2, OpsKept DEF Holding
<1>4. StoreInv'
  BY <1>1 DEF TypeInv, StoreInv, Copy
<1> QED BY <1>1, <1>3, <1>4 DEF TypeInv, ReadersInv, readerVars

\* the beginning of a list,
LEMMA BeginListTyped ==
  ASSUME TypeInv, NEW o \in Op, NEW k, BeginList(o, k)
  PROVE  TypeInv'
<1>1. /\ Begins(o, k) /\ Hold(o, local) /\ local \in Copy /\ GoTo(o, "list") /\ "list" \in Awaits
      /\ UNCHANGED <<scenario, local, remote, now, outbox, lost, landed, edits, readerVars>>
  BY DEF BeginList, TypeInv, StoreInv, Awaits
<1>2. PcMoves(o, "list") /\ SnapMoves(o, local) /\ KindMoves(o, k) /\ outbox' \in [Op -> Request]
  BY <1>1, GoToMoves, HoldMoves, BeginMoves DEF TypeInv, OpsInv
<1>3. OpsInv'
  BY <1>2, OpsKept DEF Holding
<1>4. StoreInv'
  BY <1>1 DEF TypeInv, StoreInv
<1> QED BY <1>1, <1>3, <1>4 DEF TypeInv, ReadersInv, readerVars

\* A merged list entry is a copy.
LEMMA ListMergedIs ==
  ASSUME TypeInv, NEW o \in Op, AllSettled(o), pc[o] = "list"
  PROVE  ListMerged(o) \in Copy
<1> DEFINE winner == Best(snap[o], Answered(o, Server))
           b == winner.origin \/ \E r \in ToSet(Answered(o, Server)) : r # NoRecord
<1>1. winner \in Copy
  <2>1. Asked(o) = Server /\ snap[o] \in Copy
    BY SettledIs DEF TypeInv, OpsInv
  <2> QED BY <2>1, BestSettled
<1>2. ListMerged(o) = IF winner = NoRecord THEN NoRecord ELSE [winner EXCEPT !.origin = b]
  BY DEF ListMerged
<1>3. b \in BOOLEAN
  OBVIOUS
<1> HIDE DEF winner, b
<1>4. winner \in Records => [winner EXCEPT !.origin = b] \in Records
  BY <1>3 DEF Records
<1> QED BY <1>1, <1>2, <1>4 DEF Copy

\* the merge of a list,
LEMMA CacheSettleTyped ==
  ASSUME TypeInv, NEW o \in Op, CacheSettle(o)
  PROVE  TypeInv'
<1> DEFINE m == ListMerged(o)
           l == IF m = NoRecord THEN "done" ELSE "cacheget"
<1>1. /\ AllSettled(o) /\ pc[o] = "list" /\ Hold(o, m) /\ GoTo(o, l) /\ l \in Awaits
      /\ UNCHANGED <<scenario, local, remote, now, kind, outbox, lost, landed, edits, readerVars>>
  BY DEF CacheSettle, Awaits
<1>2. m \in Copy
  BY <1>1, ListMergedIs
<1> HIDE DEF m
<1>3. (l \in Holding => m \in Records) /\ l \notin {"put", "hydrate", "reread"}
  BY <1>2 DEF Copy, Holding
<1> HIDE DEF l
<1>4. PcMoves(o, l) /\ SnapMoves(o, m) /\ KindMoves(o, kind[o]) /\ outbox' \in [Op -> Request]
  BY <1>1, <1>2, GoToMoves, HoldMoves, KindStays DEF TypeInv, OpsInv
<1>5. OpsInv'
  BY <1>3, <1>4, OpsKept
<1>6. StoreInv'
  BY <1>1 DEF TypeInv, StoreInv
<1> QED BY <1>1, <1>5, <1>6 DEF TypeInv, ReadersInv, readerVars

\* the second look of the cache,
LEMMA CacheGetTyped ==
  ASSUME TypeInv, NEW o \in Op, CacheGet(o)
  PROVE  TypeInv'
<1> DEFINE l == IF ShouldUpdateCache(snap[o], local) THEN "bgput" ELSE "done"
<1>1. /\ pc[o] = "cacheget" /\ snap[o] \in Records /\ GoTo(o, l) /\ l \in Awaits /\ l \notin {"put", "hydrate", "reread"}
      /\ UNCHANGED <<scenario, local, remote, now, kind, snap, outbox, lost, landed, edits, readerVars>>
  BY DEF CacheGet, Awaits, TypeInv, OpsInv, Holding
<1> HIDE DEF l
<1>2. PcMoves(o, l) /\ SnapMoves(o, snap[o]) /\ KindMoves(o, kind[o]) /\ outbox' \in [Op -> Request]
  BY <1>1, GoToMoves, SnapStays, KindStays DEF TypeInv, OpsInv
<1>3. OpsInv'
  BY <1>1, <1>2, OpsKept
<1>4. StoreInv'
  BY <1>1 DEF TypeInv, StoreInv
<1> QED BY <1>1, <1>3, <1>4 DEF TypeInv, ReadersInv, readerVars

\* and the reconciliation of messages.
LEMMA MessagesTyped ==
  ASSUME TypeInv, NEW o \in Op, MessagesSettle(o)
  PROVE  TypeInv'
<1> DEFINE fresh == Best(snap[o], <<local>>)
           winner == Best(fresh, Answered(o, Server))
<1>1. /\ AllSettled(o) /\ pc[o] = "list" /\ snap[o] \in Copy /\ local \in Copy
      /\ "bgput" \in Awaits /\ "done" \in Awaits
      /\ UNCHANGED <<scenario, local, remote, now, kind, outbox, lost, landed, edits, readerVars>>
      /\ \/ winner # fresh /\ Hold(o, winner) /\ GoTo(o, "bgput")
         \/ GoTo(o, "done") /\ UNCHANGED snap
  BY DEF MessagesSettle, Awaits, TypeInv, OpsInv, StoreInv
<1>2. Answered(o, Server) \in Seq(Copy) /\ fresh \in Copy
  <2>1. Answered(o, Server) \in Seq(Copy)
    BY <1>1, SettledIs
  <2>2. snap[o] \in Records \cup {NoRecord} /\ <<local>> \in Seq(Records \cup {NoRecord})
    BY <1>1 DEF Copy
  <2> QED BY <2>1, <2>2, BestAmong DEF Copy
<1> HIDE DEF fresh
<1>3. winner \in Records \/ winner = fresh
  <2> DEFINE A == Records \cup {fresh}
             B == Copy
  <2>1. fresh \in A /\ Answered(o, Server) \in Seq(B)
    BY <1>2
  <2>2. \A a \in A, b \in B :
          (IF b # NoRecord /\ (a = NoRecord \/ ShouldReplaceWithNextRecord(b, a)) THEN b ELSE a) \in A
    BY DEF Copy
  <2> HIDE DEF A, B
  <2>3. winner \in A
    BY <2>1, <2>2, BestStays
  <2> QED BY <2>3 DEF A
<1> HIDE DEF winner
<1>4. KindMoves(o, kind[o]) /\ outbox' \in [Op -> Request]
  BY <1>1, KindStays DEF TypeInv, OpsInv
<1>5. OpsInv'
  <2>1. CASE winner # fresh /\ Hold(o, winner) /\ GoTo(o, "bgput")
    <3>1. winner \in Records /\ winner \in Copy
      BY <1>3, <2>1 DEF Copy
    <3>2. PcMoves(o, "bgput") /\ SnapMoves(o, winner)
      BY <1>1, <2>1, <3>1, GoToMoves, HoldMoves
    <3> QED BY <1>4, <3>1, <3>2, OpsKept
  <2>2. CASE GoTo(o, "done") /\ UNCHANGED snap
    <3>1. PcMoves(o, "done") /\ SnapMoves(o, snap[o])
      BY <1>1, <2>2, GoToMoves, SnapStays
    <3> QED BY <1>4, <3>1, OpsKept DEF Holding
  <2> QED BY <1>1, <2>1, <2>2
<1>6. StoreInv'
  BY <1>1 DEF TypeInv, StoreInv
<1> QED BY <1>1, <1>5, <1>6 DEF TypeInv, ReadersInv, readerVars

\* The type invariant holds at first,
LEMMA TypedFirst == RInit => TypeInv
<1> SUFFICES ASSUME RInit PROVE TypeInv
  OBVIOUS
<1>1. scenario \in Scenarios /\ local \in scenario.local /\ remote \in [Server -> scenario.remote]
  BY DEF RInit, Init
<1>2. /\ scenario.maxLost \in Nat
      /\ \A r \in scenario.local \cup scenario.remote : r \in Copy
  BY <1>1, ScenarioAssumption DEF Copy
<1>3. StoreInv
  <2>1. 0 \in 0 .. scenario.maxLost
    BY <1>2
  <2>2. remote \in [Server -> Copy] /\ local \in Copy
    BY <1>1, <1>2
  <2> QED BY <1>1, <2>1, <2>2, RecordAssumption DEF RInit, Init, StoreInv
<1>4. OpsInv
  <2>1. NoRequest \in Request
    BY DEF NoRequest, Request
  <2> QED BY <2>1 DEF RInit, Init, OpsInv, Awaits, Holding, Copy
<1>5. ReadersInv
  BY DEF RInit, ReadersInv
<1> QED BY <1>3, <1>4, <1>5 DEF TypeInv

\* is kept by every step,
LEMMA TypedKept == TypeInv /\ [Next]_vars => TypeInv'
<1> SUFFICES ASSUME TypeInv, [Next]_vars PROVE TypeInv'
  OBVIOUS
<1>1. CASE Next
  <2>1. PICK o \in Op : ReaderStep(o) \/ ((UserStep(o) \/ ServerStep(o)) /\ UNCHANGED readerVars)
    BY <1>1 DEF Next
  <2>2. CASE UserStep(o) /\ UNCHANGED readerVars
    BY <2>2, WriteTyped, PatchTyped, RemoveTyped, PurgeTyped, HydrateTyped, RereadTyped, PutTyped, DelTyped
       DEF UserStep
  <2>3. CASE ServerStep(o) /\ UNCHANGED readerVars
    BY <2>3, ServerTyped
  <2>4. CASE ReaderStep(o)
    <3>1. CASE \E s \in Server : Answer(o, s)
      BY <3>1, AnswerTyped
    <3>2. CASE Fallback(o) \/ Revalidate(o) \/ WaitSettle(o) \/ SaveLands(o) \/ BackgroundLands(o)
      BY <3>2, FallbackTyped, RevalidateTyped, WaitSettleTyped, SaveTyped, BackgroundTyped
    <3>3. CASE BeginList(o, "cache") \/ BeginList(o, "messages") \/ CacheSettle(o) \/ CacheGet(o) \/ MessagesSettle(o)
      BY <3>3, BeginListTyped, CacheSettleTyped, CacheGetTyped, MessagesTyped
    <3>4. CASE BeginRead(o, "read") \/ BeginRead(o, "readAndWait") \/ LocalHit(o) \/ LocalMiss(o) \/ WaitGet(o) \/ Preferred(o)
      BY <3>4, BeginReadTyped, LocalHitTyped, LocalMissTyped, WaitGetTyped, PreferredTyped
    <3> QED BY <2>4, <3>1, <3>2, <3>3, <3>4 DEF ReaderStep
  <2> QED BY <2>1, <2>2, <2>3, <2>4
<1>2. CASE UNCHANGED vars
  BY <1>2 DEF vars, recordVars, readerVars, TypeInv, StoreInv, OpsInv, ReadersInv
<1> QED BY <1>1, <1>2

\* and so always.
LEMMA Typed == Spec => []TypeInv
BY TypedFirst, TypedKept, PTL DEF Spec

\* The record, the operations and the readers keep their shape: every put stores
\* a version, and every request and answer carries one or none.
THEOREM TypeCorrect == Spec => []TypeOK
<1>1. TypeInv => TypeOK
  <2> SUFFICES ASSUME TypeInv PROVE TypeOK
    OBVIOUS
  <2>1. \A o \in Op : outbox[o].left \subseteq Server
    BY DEF TypeInv, OpsInv, Request
  <2> QED BY <2>1 DEF TypeOK, RecordTypeOK, TypeInv, StoreInv, OpsInv, ReadersInv, Copy
<1> QED BY <1>1, Typed, PTL

-----------------------------------------------------------------------------

\* Operation o takes a step of its own.
OwnStep(o) == ReaderStep(o) \/ (UserStep(o) /\ UNCHANGED readerVars)

\* A step of o is its beginning, or o is under way; the others stay where they
\* are, but for readers that share its promise.
LEMMA StepOf ==
  ASSUME TypeInv, NEW o \in Op, OwnStep(o)
  PROVE  /\ \A p \in Op \ {o} : pc'[p] = pc[p] \/ (pc[p] = "joined" /\ pc'[p] \in {"done", "failed"})
         /\ pc'[o] # "idle"
         /\ ~Ended(o) \/ (pc[o] = "idle" /\ \E k : Begins(o, k))
         /\ scenario' = scenario
<1>0. pc \in [Op -> Awaits]
  BY DEF TypeInv, OpsInv
<1>1. CASE UserStep(o)
  <2>1. /\ \E l : GoTo(o, l) /\ l # "idle"
        /\ ~Ended(o) \/ (pc[o] = "idle" /\ \E k : Begins(o, k))
        /\ scenario' = scenario
    BY <1>1 DEF UserStep, WriteAction, PatchAction, RemoveAction, PurgeAction, Hydrate, Reread, PutLands, DelLands,
       Begins, Ended
  <2> QED BY <1>0, <2>1 DEF GoTo
<1>2. CASE ReaderStep(o)
  <2>1. /\ ~Ended(o) \/ (pc[o] = "idle" /\ \E k : Begins(o, k))
        /\ scenario' = scenario
    BY <1>2 DEF ReaderStep, BeginRead, LocalHit, LocalMiss, WaitGet, Preferred, Answer, Waiting, Fallback, Revalidate,
       WaitSettle, SaveLands, BackgroundLands, BeginList, CacheSettle, CacheGet, MessagesSettle, Begins, Ended, recordVars
  <2>2. \/ \E l : GoTo(o, l) /\ l # "idle"
        \/ \E k, r, l : Settle(k, o, r, l) /\ l # "idle"
        \/ pc' = pc /\ pc[o] # "idle"
    <3>1. CASE \E s \in Server : Answer(o, s)
      BY <3>1 DEF Answer, Waiting, recordVars
    <3>2. CASE BeginRead(o, "read") \/ BeginRead(o, "readAndWait") \/ WaitGet(o) \/ Preferred(o) \/ Revalidate(o)
               \/ BackgroundLands(o) \/ BeginList(o, "cache") \/ BeginList(o, "messages") \/ CacheSettle(o)
               \/ CacheGet(o) \/ MessagesSettle(o)
      BY <3>2 DEF BeginRead, WaitGet, Preferred, Revalidate, BackgroundLands, BeginList, CacheSettle, CacheGet, MessagesSettle
    <3>3. CASE LocalHit(o)
      BY <3>3 DEF LocalHit
    <3>4. CASE LocalMiss(o)
      BY <3>4 DEF LocalMiss
    <3>5. CASE Fallback(o)
      BY <3>5 DEF Fallback
    <3>6. CASE WaitSettle(o)
      BY <3>6 DEF WaitSettle
    <3>7. CASE SaveLands(o)
      BY <3>7 DEF SaveLands
    <3> QED BY <1>2, <3>1, <3>2, <3>3, <3>4, <3>5, <3>6, <3>7 DEF ReaderStep
  <2>3. ASSUME NEW k, NEW r, NEW l, Settle(k, o, r, l), l # "idle"
        PROVE  /\ \A p \in Op \ {o} : pc'[p] = pc[p] \/ (pc[p] = "joined" /\ pc'[p] \in {"done", "failed"})
               /\ pc'[o] # "idle"
    BY <1>0, <2>3 DEF Settle, Joined
  <2>4. ASSUME NEW l, GoTo(o, l), l # "idle"
        PROVE  (\A p \in Op \ {o} : pc'[p] = pc[p]) /\ pc'[o] # "idle"
    BY <1>0, <2>4 DEF GoTo
  <2> QED BY <2>1, <2>2, <2>3, <2>4
<1> QED BY <1>1, <1>2 DEF OwnStep

\* While operations follow one another at most one is under way.
Solo == scenario.serial => \A p, q \in Op : ~Ended(p) /\ ~Ended(q) => p = q

\* Then all but the one that takes a step have ended, and stay where they are.
LEMMA StepAlone ==
  ASSUME TypeInv, Solo, NEW o \in Op, OwnStep(o), scenario.serial
  PROVE  \A p \in Op \ {o} : Ended(p) /\ pc'[p] = pc[p]
<1>1. \A p \in Op \ {o} : Ended(p)
  <2>1. CASE ~Ended(o)
    BY <2>1 DEF Solo
  <2>2. CASE \E k : Begins(o, k)
    BY <2>2 DEF Begins
  <2> QED BY <2>1, <2>2, StepOf
<1> QED BY <1>1, StepOf DEF Ended

\* It stays so.
LEMMA SoloKept == TypeInv /\ Solo /\ [Next]_vars => Solo'
<1> SUFFICES ASSUME TypeInv, Solo, [Next]_vars PROVE Solo'
  OBVIOUS
<1>1. ASSUME NEW o \in Op, OwnStep(o) PROVE Solo'
  <2> SUFFICES ASSUME scenario'.serial PROVE \A p, q \in Op : ~Ended(p)' /\ ~Ended(q)' => p = q
    BY DEF Solo
  <2>1. scenario.serial
    BY <1>1, StepOf
  <2>2. \A p \in Op \ {o} : Ended(p)'
    BY <1>1, <2>1, StepAlone DEF Ended
  <2> QED BY <2>2
<1>2. ASSUME NEW o \in Op, ServerStep(o) PROVE Solo'
  BY <1>2 DEF ServerStep, Deliver, Lose, Solo, Ended
<1>3. CASE UNCHANGED vars
  BY <1>3 DEF vars, recordVars, Solo, Ended
<1> QED BY <1>1, <1>2, <1>3 DEF Next, OwnStep

\* What an operation is, is fixed when it begins.
KindInv ==
  /\ \A o \in Op : kind[o] # "none" => kind[o] \in scenario.kinds[o]
  /\ \A o \in Op : pc[o] = "del" => kind[o] = "purge"
  /\ landed # NoOp => pc[landed] # "idle"

\* It stays so, too.
LEMMA KindKept == TypeInv /\ KindInv /\ [Next]_vars => KindInv'
<1> SUFFICES ASSUME TypeInv, KindInv, [Next]_vars PROVE KindInv'
  OBVIOUS
<1>0. kind \in [Op -> UserKind \cup ReaderKind \cup {"none"}] /\ pc \in [Op -> Awaits] /\ landed \in Op \cup {NoOp}
  BY DEF TypeInv, OpsInv, StoreInv
<1>1. ASSUME NEW o \in Op, OwnStep(o) PROVE KindInv'
  <2>1. /\ \A p \in Op \ {o} : pc'[p] = pc[p] \/ pc'[p] \in {"done", "failed"}
        /\ pc'[o] # "idle" /\ scenario' = scenario
    BY <1>1, StepOf
  <2>2. /\ kind' = kind \/ \E k : Begins(o, k)
        /\ landed' \in {landed, o}
    BY <1>1 DEF OwnStep, UserStep, ReaderStep, WriteAction, PatchAction, RemoveAction, PurgeAction, Hydrate, Reread, PutLands,
       DelLands, BeginRead, LocalHit, LocalMiss, WaitGet, Preferred, Answer, Fallback, Revalidate,
       WaitSettle, SaveLands, BackgroundLands, BeginList, CacheSettle, CacheGet, MessagesSettle, recordVars
  <2>3. \A p \in Op : kind'[p] = kind[p] \/ kind'[p] \in scenario.kinds[p]
    BY <1>0, <2>2 DEF Begins
  <2>4. \A p \in Op \ {o} : kind'[p] = kind[p]
    BY <1>0, <2>2 DEF Begins
  <2>5. pc'[o] = "del" => kind'[o] = "purge"
    <3>1. CASE UserStep(o)
      BY <1>0, <3>1 DEF UserStep, WriteAction, PatchAction, RemoveAction, PurgeAction, Hydrate, Reread, PutLands, DelLands,
         GoTo, Begins
    <3>2. CASE ReaderStep(o)
      <4>1. pc'[o] # "del"
        BY <1>0, <3>2 DEF ReaderStep, BeginRead, LocalHit, LocalMiss, WaitGet, Preferred, Answer, Waiting, Fallback,
           Revalidate, WaitSettle, SaveLands, BackgroundLands, BeginList, CacheSettle, CacheGet, MessagesSettle,
           GoTo, Settle, recordVars
      <4> QED BY <4>1
    <3> QED BY <1>1, <3>1, <3>2 DEF OwnStep
  <2>6. \A p \in Op : pc'[p] = "del" => kind'[p] = "purge"
    BY <2>1, <2>4, <2>5 DEF KindInv
  <2>7. landed' # NoOp => pc'[landed'] # "idle"
    BY <1>0, <2>1, <2>2 DEF KindInv
  <2> QED BY <2>1, <2>3, <2>6, <2>7 DEF KindInv
<1>2. ASSUME NEW o \in Op, ServerStep(o) PROVE KindInv'
  BY <1>2 DEF ServerStep, Deliver, Lose, KindInv
<1>3. CASE UNCHANGED vars
  BY <1>3 DEF vars, recordVars, KindInv
<1> QED BY <1>1, <1>2, <1>3 DEF Next, OwnStep

-----------------------------------------------------------------------------

\* Both hold at first.
LEMMA SoloFirst == RInit => Solo /\ KindInv
BY DEF RInit, Init, Solo, KindInv, Ended

-----------------------------------------------------------------------------

\* A version that was last restored before t and, where nothing is deleted, is
\* a live one last updated before t.
Past(r, t) ==
  r \in Records => /\ r.restoredAt < t
                   /\ NothingDeleted => r.deletedAt = 0 /\ r.updatedAt < t

\* So is every version but those the operations hold on to.
Before(t) ==
  /\ NothingDeleted => \A o \in Op : outbox[o].what # "delete"
  /\ Past(local, t)
  /\ \A s \in Server : Past(remote[s], t)
  /\ \A o \in Op : Past(outbox[o].rec, t)
  /\ \A o \in Op, s \in Server : Past(answers[o][s], t)

\* No version comes from the future.
YoungInv == now > 0 /\ Before(now) /\ \A o \in Op : Past(snap[o], now)

\* It holds at first: the scenario starts after its versions.
LEMMA YoungFirst == RInit => YoungInv
<1> SUFFICES ASSUME RInit PROVE YoungInv
  OBVIOUS
<1>1. scenario \in Scenarios /\ now = Start /\ Start \in Nat /\ Start > 0
  BY RecordAssumption DEF RInit, Init
<1>7. \A o \in Op : outbox[o].what # "delete"
  BY DEF RInit, Init, NoRequest
<1>2. /\ local \in scenario.local /\ \A s \in Server : remote[s] \in scenario.remote
      /\ \A o \in Op : outbox[o].rec = NoRecord /\ snap[o] = NoRecord
      /\ \A o \in Op, s \in Server : answers[o][s] = Unanswered
  BY DEF RInit, Init, NoRequest
<1>3. \A r \in scenario.local \cup scenario.remote : Past(r, now)
  BY <1>1, ScenarioAssumption DEF Past, NothingDeleted, IsTombstoneRecord
<1>4. Past(NoRecord, now) /\ Past(Unanswered, now)
  BY ScenarioAssumption, AnswerAssumption DEF Past
<1>5. \A s \in Server : Past(remote[s], now)
  BY <1>2, <1>3
<1>6. Past(local, now)
  BY <1>2, <1>3
<1> QED BY <1>1, <1>2, <1>4, <1>5, <1>6, <1>7 DEF YoungInv, Before

\* What servers do with requests restores no version later than t.
LEMMA RequestIsPast ==
  ASSUME TypeInv, NEW o \in Op, NEW r \in Copy, outbox[o].left # {}, NEW x \in AfterRequest(o, r),
         NEW t \in Nat, t > 0, Past(r, t), Past(outbox[o].rec, t),
         NothingDeleted => outbox[o].what # "delete"
  PROVE  Past(x, t)
<1> DEFINE m == outbox[o].rec
           w == outbox[o].what
<1>1. outbox[o] \in Request /\ now \in Nat
  BY DEF TypeInv, OpsInv, StoreInv
<1>2. \/ w = "force"
      \/ w \in {"write", "patch", "restore", "delete"} /\ m \in Records
  BY <1>1 DEF Request
<1>0. Past(NoRecord, t)
  BY ScenarioAssumption DEF Past
<1>3. CASE w = "force"
  BY <1>0, <1>3 DEF AfterRequest
<1>4. CASE w = "write" /\ m \in Records
  BY <1>4 DEF AfterRequest
<1>5. CASE w \in {"patch", "restore", "delete"} /\ m \in Records
  <2>1. CASE r = NoRecord
    BY <1>5, <2>1 DEF AfterRequest
  <2>2. CASE r \in Records
    <3>0. m.restoredAt \in Nat /\ m.restoredAt < t /\ r # NoRecord /\ r.restoredAt < t
      BY <1>5, <2>2, ScenarioAssumption DEF Records, Past
    <3>a. NothingDeleted => m.updatedAt < t /\ r.deletedAt = 0 /\ w # "delete"
      BY <1>5, <2>2 DEF Past
    <3> HIDE DEF m
    <3>1. /\ [r EXCEPT !.updatedAt = m.updatedAt, !.edits = @ \cup {o}].restoredAt = r.restoredAt
          /\ [r EXCEPT !.updatedAt = m.updatedAt, !.edits = @ \cup {o}].deletedAt = r.deletedAt
          /\ [r EXCEPT !.updatedAt = m.updatedAt, !.edits = @ \cup {o}].updatedAt = m.updatedAt
          /\ [ApplyRestorePatch(r, m.restoredAt) EXCEPT !.edits = @ \cup {o}].restoredAt = m.restoredAt
          /\ [ApplyRestorePatch(r, m.restoredAt) EXCEPT !.edits = @ \cup {o}].updatedAt = m.restoredAt
          /\ [ApplyRestorePatch(r, m.restoredAt) EXCEPT !.edits = @ \cup {o}].deletedAt = 0
          /\ BuildTombstoneRecord(r, now).restoredAt = 0
      BY <2>2 DEF Records, BuildTombstoneRecord, ApplyRestorePatch
    <3>2. w = "delete" => x \in {r, BuildTombstoneRecord(r, now)}
      BY <3>0 DEF AfterRequest
    <3>3. w = "patch" => x = [r EXCEPT !.updatedAt = m.updatedAt, !.edits = @ \cup {o}]
      BY <3>0 DEF AfterRequest, m
    <3>4. w = "restore" => x = [ApplyRestorePatch(r, m.restoredAt) EXCEPT !.edits = @ \cup {o}]
      BY <3>0 DEF AfterRequest, m
    <3> HIDE DEF w
    <3>5. w = "delete" => x.restoredAt < t /\ ~NothingDeleted
      BY <3>0, <3>a, <3>1, <3>2
    <3>6. w = "patch" => x.restoredAt < t /\ (NothingDeleted => x.deletedAt = 0 /\ x.updatedAt < t)
      BY <3>0, <3>a, <3>1, <3>3
    <3>7. w = "restore" => x.restoredAt < t /\ x.deletedAt = 0 /\ x.updatedAt < t
      BY <3>0, <3>1, <3>4
    <3> QED BY <1>5, <3>5, <3>6, <3>7 DEF Past
  <2> QED BY <2>1, <2>2 DEF Copy
<1> QED BY <1>2, <1>3, <1>4, <1>5

\* The steps of the servers.
LEMMA ServersKeepPast ==
  ASSUME TypeInv, NEW o \in Op, ServerStep(o), UNCHANGED readerVars, NEW t \in Nat, t > 0, Before(t)
  PROVE  /\ Before(t)' /\ now' >= now /\ now' \in Nat
         /\ UNCHANGED <<scenario, local, kind, pc, snap, landed>>
<1>1. PICK s \in Server : Deliver(o, s) \/ Lose(o, s)
  BY DEF ServerStep
<1>2. /\ now' >= now /\ now' \in Nat
      /\ UNCHANGED <<scenario, local, kind, pc, snap, landed, answers>>
      /\ Sent(o, s) /\ Due(o, s)
      /\ remote' = remote \/ \E r \in AfterRequest(o, remote[s]) : remote' = [remote EXCEPT ![s] = r]
  BY <1>1 DEF Deliver, Lose, Tick, TypeInv, StoreInv, readerVars
<1>3. outbox \in [Op -> Request] /\ remote \in [Server -> Copy]
  BY DEF TypeInv, OpsInv, StoreInv
<1>4. outbox[o].left # {} /\ (NothingDeleted => outbox[o].what # "delete")
  BY <1>2 DEF Due, Before
<1>5. \A r \in AfterRequest(o, remote[s]) : Past(r, t)
  BY <1>3, <1>4, RequestIsPast DEF Before
<1>6. \A p \in Server : Past(remote'[p], t)
  BY <1>2, <1>3, <1>5 DEF Before
<1>7. \A p \in Op : outbox'[p].rec = outbox[p].rec /\ outbox'[p].what = outbox[p].what
  <2>1. outbox' = [outbox EXCEPT ![o].left = @ \ {s}]
    BY <1>2 DEF Sent
  <2>2. \A p \in Op \ {o} : outbox'[p] = outbox[p]
    BY <1>3, <2>1
  <2>3. outbox'[o] = [outbox[o] EXCEPT !.left = @ \ {s}]
    BY <1>3, <2>1
  <2>4. outbox'[o].rec = outbox[o].rec /\ outbox'[o].what = outbox[o].what
    BY <1>3, <2>3 DEF Request
  <2> QED BY <2>2, <2>4
<1>8. Before(t)'
  BY <1>2, <1>6, <1>7 DEF Before, Past, NothingDeleted
<1> QED BY <1>2, <1>8

-----------------------------------------------------------------------------

\* What an operation's own step does to the copies and the requests: what it
\* puts and schedules is the version it holds on to.
LEMMA OwnDoes ==
  ASSUME TypeInv, NEW o \in Op, OwnStep(o)
  PROVE  /\ remote' = remote /\ scenario' = scenario
         /\ now' \in {now, now + 1}
         /\ \/ local' = local /\ outbox' = outbox
            \/ /\ \/ local' = local \/ local' = NoRecord
                  \/ pc[o] \in {"put", "save", "bgput"} /\ local' = snap[o]
               /\ \/ outbox' = outbox \/ Schedule(o, "force", NoRecord)
                  \/ /\ pc[o] \in {"put", "revalidate", "others"}
                     /\ \E w : Schedule(o, w, snap[o]) /\ (w = "delete" => pc[o] = "put" /\ kind[o] = "remove")
         /\ \/ answers' = answers
            \/ \E s \in Server : \E r \in {remote[s], NoRecord} : answers' = [answers EXCEPT ![o][s] = r]
<1>1. CASE UserStep(o) /\ UNCHANGED readerVars
  <2>1. CASE PutLands(o)
    <3>1. kind[o] \in {"write", "patch", "restore", "remove"}
      BY <2>1 DEF PutLands, TypeInv, OpsInv, UserKind
    <3>2. RequestOf(kind[o]) = "delete" => kind[o] = "remove"
      BY <3>1 DEF RequestOf
    <3> QED BY <1>1, <2>1, <3>2 DEF PutLands, readerVars
  <2>2. CASE ~PutLands(o)
    BY <1>1, <2>2 DEF UserStep, WriteAction, PatchAction, RemoveAction, PurgeAction, Hydrate, Reread, DelLands, Tick, readerVars
  <2> QED BY <2>1, <2>2
<1>2. CASE ReaderStep(o)
  <2>1. CASE \E s \in Server : Answer(o, s)
    BY <2>1 DEF Answer, recordVars
  <2>2. CASE ~\E s \in Server : Answer(o, s)
    BY <1>2, <2>2 DEF ReaderStep, BeginRead, LocalHit, LocalMiss, WaitGet, Preferred, Fallback, Revalidate, WaitSettle,
       SaveLands, BackgroundLands, BeginList, CacheSettle, CacheGet, MessagesSettle, readerVars
  <2> QED BY <2>1, <2>2
<1> QED BY <1>1, <1>2 DEF OwnStep

\* So the copies stay as they are in the past as that version is.
LEMMA OwnKeepsPast ==
  ASSUME TypeInv, KindInv, NEW o \in Op, OwnStep(o), NEW t \in Nat, Before(t),
         pc[o] \in {"put", "save", "bgput", "revalidate", "others"} => Past(snap[o], t)
  PROVE  Before(t)'
<1>0. Past(NoRecord, t)
  BY ScenarioAssumption DEF Past
<1>1. remote' = remote /\ scenario' = scenario /\ outbox \in [Op -> Request] /\ answers \in [Op -> [Server -> Copy \cup {Unanswered}]]
  BY OwnDoes DEF TypeInv, OpsInv, ReadersInv
<1>2. Past(local', t)
  BY <1>0, OwnDoes DEF Before
<1>3. \A p \in Op : Past(outbox'[p].rec, t)
  <2>1. CASE outbox' = outbox
    BY <2>1 DEF Before
  <2>2. ASSUME NEW w, NEW r, Schedule(o, w, r), Past(r, t)
        PROVE  \A p \in Op : Past(outbox'[p].rec, t)
    BY <1>1, <2>2 DEF Schedule, Before
  <2>3. outbox' = outbox \/ Schedule(o, "force", NoRecord)
          \/ (pc[o] \in {"put", "revalidate", "others"} /\ \E w : Schedule(o, w, snap[o]))
    BY OwnDoes
  <2> QED BY <1>0, <2>1, <2>2, <2>3
<1>4. \A p \in Op, s \in Server : Past(answers'[p][s], t)
  <2>1. CASE answers' = answers
    BY <2>1 DEF Before
  <2>2. ASSUME NEW s \in Server, NEW r, r \in {remote[s], NoRecord}, answers' = [answers EXCEPT ![o][s] = r]
        PROVE  \A p \in Op, q \in Server : Past(answers'[p][q], t)
    <3>1. Past(r, t)
      BY <1>0, <2>2 DEF Before
    <3>2. ASSUME NEW p \in Op, NEW q \in Server PROVE answers'[p][q] \in {answers[p][q], r}
      BY <1>1, <2>2
    <3> QED BY <3>1, <3>2 DEF Before
  <2> QED BY <2>1, <2>2, OwnDoes
<1>5. ASSUME NothingDeleted PROVE \A p \in Op : outbox'[p].what # "delete"
  <2>1. CASE outbox' = outbox
    BY <1>5, <2>1 DEF Before
  <2>2. ASSUME NEW w, NEW r, Schedule(o, w, r), w # "delete"
        PROVE  \A p \in Op : outbox'[p].what # "delete"
    BY <1>1, <1>5, <2>2 DEF Schedule, Before
  <2>3. kind[o] # "remove"
    BY <1>5 DEF KindInv, NothingDeleted
  <2>4. \/ outbox' = outbox
        \/ \E w, r : Schedule(o, w, r) /\ w # "delete"
    BY <2>3, OwnDoes
  <2> QED BY <2>1, <2>2, <2>4
<1> QED BY <1>1, <1>2, <1>3, <1>4, <1>5 DEF Before, Past, NothingDeleted

\* The best of what an operation has been answered was restored as early as
\* all of it, as long as that holds of what it is compared with.
LEMMA BestIsPast ==
  ASSUME TypeInv, NEW o \in Op, AllSettled(o), NEW t \in Nat, Before(t), NEW acc \in Copy, Past(acc, t)
  PROVE  /\ Best(acc, Answered(o, Asked(o))) \in Copy
         /\ Past(Best(acc, Answered(o, Asked(o))), t)
         /\ Past(BestByTime(Answered(o, Asked(o))), t)
<1> DEFINE X == {r \in Records : Past(r, t)}
           B == X \cup {NoRecord}
<1>1. acc \in B
  BY DEF Past, Copy
<1>2. \A s \in Asked(o) : answers[o][s] \in B
  <2>1. \A s \in Asked(o) : answers[o][s] \in Copy /\ Past(answers[o][s], t)
    BY SettledIs DEF AllSettled, Before, TypeInv, ReadersInv
  <2> QED BY <2>1 DEF Past, Copy
<1>3. NoRecord \in B /\ Asked(o) \in SUBSET Server
  BY SettledIs
<1>4. X \subseteq Records
  OBVIOUS
<1> HIDE DEF X
<1>5. Answered(o, Asked(o)) \in Seq(B)
  <2> HIDE DEF B
  <2> QED BY <1>2, <1>3, AnsweredIs
<1>6. Best(acc, Answered(o, Asked(o))) \in B /\ BestByTime(Answered(o, Asked(o))) \in B
  BY <1>1, <1>5, BestAmong
<1>7. \A r \in B : r \in Copy /\ Past(r, t)
  BY <1>4, ScenarioAssumption DEF Copy, Past, X
<1> QED BY <1>6, <1>7

-----------------------------------------------------------------------------

\* A version an operation takes hold of comes from the past, too.
LEMMA UserHoldsPast ==
  ASSUME TypeInv, YoungInv, NEW o \in Op, UserStep(o)
  PROVE  snap' = snap \/ \E r : Hold(o, r) /\ Past(r, now')
<1>0. /\ now \in Nat /\ now > 0 /\ local \in Copy /\ remote \in [Server -> Copy]
      /\ pc[o] \in Holding => snap[o] \in Records
      /\ Past(local, now) /\ Past(snap[o], now) /\ \A s \in Server : Past(remote[s], now)
  BY DEF TypeInv, StoreInv, OpsInv, YoungInv, Before
<1>1. ASSUME NEW r \in Records, Past(r, now), NEW k, Tick
      PROVE  Past(Merged(o, k, r), now') /\ (NothingDeleted \/ Past(Removed(r), now'))
  <2>1. now' = now + 1
    BY <1>1 DEF Tick
  <2>2. Merged(o, k, r).restoredAt \in {r.restoredAt, now} /\ Removed(r).restoredAt = 0
    BY <1>1 DEF Merged, ApplyRestorePatch, Removed, BuildTombstoneRecord, Records
  <2>3. r.restoredAt \in Nat /\ r.updatedAt \in Nat /\ r.restoredAt < now
    BY <1>1 DEF Records, Past
  <2>4. Merged(o, k, r).restoredAt < now' /\ Removed(r).restoredAt < now'
    BY <1>0, <1>1, <2>1, <2>2, <2>3
  <2>5. ASSUME NothingDeleted PROVE Merged(o, k, r).deletedAt = 0 /\ Merged(o, k, r).updatedAt < now'
    <3>1. r.deletedAt = 0 /\ r.updatedAt < now
      BY <1>1, <2>5 DEF Past
    <3>2. Later(now, r.updatedAt + 1) = now
      BY <1>0, <2>3, <3>1 DEF Later
    <3>3. Merged(o, k, r).updatedAt = now /\ Merged(o, k, r).deletedAt = 0
      BY <1>1, <3>1, <3>2 DEF Merged, ApplyRestorePatch, Records
    <3> QED BY <1>0, <2>1, <3>3
  <2> QED BY <2>4, <2>5 DEF Past
<1>2. CASE WriteAction(o)
  <2> DEFINE r == [updatedAt |-> now, deletedAt |-> 0, restoredAt |-> 0, edits |-> {o}, origin |-> FALSE]
  <2>1. now' = now + 1 /\ Hold(o, r)
    BY <1>2 DEF WriteAction, Tick
  <2>2. Past(r, now')
    BY <1>0, <2>1 DEF Past
  <2> QED BY <2>1, <2>2
<1>3. ASSUME NEW k, PatchAction(o, k) PROVE snap' = snap \/ \E r : Hold(o, r) /\ Past(r, now')
  <2>1. CASE local = NoRecord
    BY <1>3, <2>1 DEF PatchAction
  <2>2. CASE local # NoRecord
    <3>1. local \in Records /\ Past(local, now) /\ Tick /\ Hold(o, Merged(o, k, local))
      BY <1>0, <1>3, <2>2 DEF PatchAction, Copy
    <3> QED BY <1>1, <3>1
  <2> QED BY <2>1, <2>2
<1>4. CASE RemoveAction(o)
  <2> DEFINE r == IF local = NoRecord THEN Minimal ELSE local
  <2>0. ~NothingDeleted
    BY <1>4 DEF RemoveAction, Begins, NothingDeleted
  <2>1. Minimal \in Records /\ Minimal.restoredAt < now
    BY <1>0 DEF Minimal, Records
  <2>2. r \in Records /\ Past(r, now)
    BY <1>0, <2>0, <2>1 DEF Copy, Past
  <2>3. Tick /\ Hold(o, Removed(r))
    BY <1>4 DEF RemoveAction
  <2> HIDE DEF r
  <2> QED BY <1>1, <2>0, <2>2, <2>3
<1>5. CASE Hydrate(o)
  BY <1>0, <1>5, ServersAre DEF Hydrate
<1>6. CASE Reread(o)
  <2> DEFINE r == IF local # NoRecord THEN local ELSE snap[o]
  <2>1. r \in Records /\ Past(r, now)
    BY <1>0, <1>6 DEF Reread, Holding, Copy
  <2>2. Tick /\ Hold(o, Merged(o, kind[o], r))
    BY <1>6 DEF Reread
  <2> HIDE DEF r
  <2> QED BY <1>1, <2>1, <2>2
<1>7. CASE PurgeAction(o) \/ PutLands(o) \/ DelLands(o)
  BY <1>7 DEF PurgeAction, PutLands, DelLands
<1> QED BY <1>2, <1>3, <1>4, <1>5, <1>6, <1>7 DEF UserStep

\* The serverOrigin does not change when a version was restored.
LEMMA OriginIsPast ==
  ASSUME NEW r \in Copy, r # NoRecord, NEW t, Past(r, t), NEW b
  PROVE  Past([r EXCEPT !.origin = b], t)
BY DEF Copy, Past, Records

\* The same of the readers: they choose among the answers and the local copy.
LEMMA ReaderHoldsPast ==
  ASSUME TypeInv, YoungInv, NEW o \in Op, ReaderStep(o)
  PROVE  /\ now' = now
         /\ snap' = snap \/ \E r : Hold(o, r) /\ Past(r, now)
<1>0. /\ now \in Nat /\ local \in Copy /\ remote \in [Server -> Copy] /\ snap[o] \in Copy
      /\ Past(local, now) /\ Past(snap[o], now) /\ \A s \in Server : Past(remote[s], now)
      /\ Before(now) /\ Past(NoRecord, now) /\ NoRecord \in Copy
  BY ScenarioAssumption DEF TypeInv, StoreInv, OpsInv, YoungInv, Before, Past, Copy
<1>a. now' = now
  BY DEF ReaderStep, BeginRead, LocalHit, LocalMiss, WaitGet, Preferred, Answer, Fallback, Revalidate,
     WaitSettle, SaveLands, BackgroundLands, BeginList, CacheSettle, CacheGet, MessagesSettle, recordVars
<1> SUFFICES snap' = snap \/ \E r : Hold(o, r) /\ Past(r, now)
  BY <1>a
<1>b. ASSUME AllSettled(o), NEW acc \in Copy, Past(acc, now)
      PROVE  /\ Best(acc, Answered(o, Asked(o))) \in Copy
             /\ Past(Best(acc, Answered(o, Asked(o))), now)
             /\ Past(BestByTime(Answered(o, Asked(o))), now)
  <2>1. PICK t \in Nat : t = now
    BY <1>0
  <2>2. Before(t) /\ Past(acc, t)
    BY <1>0, <1>b, <2>1
  <2>3. /\ Best(acc, Answered(o, Asked(o))) \in Copy
        /\ Past(Best(acc, Answered(o, Asked(o))), t)
        /\ Past(BestByTime(Answered(o, Asked(o))), t)
    BY <1>b, <2>2, BestIsPast
  <2> QED BY <2>1, <2>3
<1>1. CASE LocalHit(o)
  BY <1>0, <1>1 DEF LocalHit
<1>2. CASE WaitGet(o) \/ BeginList(o, "cache") \/ BeginList(o, "messages")
  BY <1>0, <1>2 DEF WaitGet, BeginList
<1>3. CASE Preferred(o)
  <2>1. remote[Primary] \in Copy /\ Past(remote[Primary], now)
    BY <1>0, ServersAre
  <2> QED BY <1>3, <2>1, OriginIsPast DEF Preferred
<1>4. CASE Fallback(o)
  <2> DEFINE best == Best(NoRecord, Answered(o, Asked(o)))
  <2>1. best \in Copy /\ Past(best, now)
    BY <1>0, <1>4, <1>b DEF Fallback
  <2>2. snap' = snap \/ (best # NoRecord /\ Hold(o, [best EXCEPT !.origin = TRUE]))
    BY <1>4 DEF Fallback
  <2> HIDE DEF best
  <2> QED BY <2>1, <2>2, OriginIsPast
<1>5. CASE Revalidate(o)
  <2> DEFINE best == Best(NoRecord, Answered(o, Server))
  <2>1. Asked(o) = Server /\ AllSettled(o)
    BY <1>5, SettledIs DEF Revalidate
  <2>2. best \in Copy /\ Past(best, now)
    BY <1>0, <1>b, <2>1
  <2>3. snap' = snap \/ (best # NoRecord /\ Hold(o, [best EXCEPT !.origin = TRUE]))
    BY <1>5 DEF Revalidate, RemoteIsNewer
  <2> HIDE DEF best
  <2> QED BY <2>2, <2>3, OriginIsPast
<1>6. CASE WaitSettle(o)
  <2> DEFINE best == BestByTime(Answered(o, Asked(o)))
  <2>1. Past(best, now)
    BY <1>0, <1>6, <1>b DEF WaitSettle
  <2>2. snap' = snap \/ Hold(o, best)
    BY <1>6 DEF WaitSettle
  <2> QED BY <2>1, <2>2
<1>7. CASE CacheSettle(o)
  <2> DEFINE w == Best(snap[o], Answered(o, Server))
  <2>1. Asked(o) = Server /\ AllSettled(o)
    BY <1>7, SettledIs DEF CacheSettle
  <2>2. w \in Copy /\ Past(w, now)
    BY <1>0, <1>b, <2>1
  <2>3. Hold(o, ListMerged(o))
    BY <1>7 DEF CacheSettle
  <2>4. Past(ListMerged(o), now)
    <3>1. ListMerged(o) = NoRecord \/ (w # NoRecord /\ \E b : ListMerged(o) = [w EXCEPT !.origin = b])
      BY DEF ListMerged
    <3> HIDE DEF w
    <3> QED BY <1>0, <2>2, <3>1, OriginIsPast
  <2> QED BY <2>3, <2>4
<1>8. CASE MessagesSettle(o)
  <2> DEFINE fresh == Best(snap[o], <<local>>)
             w == Best(fresh, Answered(o, Server))
  <2>1. Asked(o) = Server /\ AllSettled(o)
    BY <1>8, SettledIs DEF MessagesSettle
  <2>2. fresh \in Copy /\ Past(fresh, now)
    <3> DEFINE X == {snap[o], local} \ {NoRecord}
    <3>1. snap[o] \in X \cup {NoRecord} /\ <<local>> \in Seq(X \cup {NoRecord})
      OBVIOUS
    <3> HIDE DEF X
    <3>2. fresh \in X \cup {NoRecord}
      BY <3>1, BestAmong
    <3> QED BY <1>0, <3>2 DEF X
  <2>3. snap' = snap \/ Hold(o, w)
    BY <1>8 DEF MessagesSettle
  <2> HIDE DEF fresh
  <2>4. Past(w, now)
    BY <1>b, <2>1, <2>2
  <2> QED BY <2>3, <2>4
<1>9. CASE BeginRead(o, "read") \/ BeginRead(o, "readAndWait") \/ LocalMiss(o) \/ (\E s \in Server : Answer(o, s))
           \/ SaveLands(o) \/ BackgroundLands(o) \/ CacheGet(o)
  BY <1>9 DEF BeginRead, LocalMiss, Answer, SaveLands, BackgroundLands, CacheGet, recordVars
<1> QED BY <1>1, <1>2, <1>3, <1>4, <1>5, <1>6, <1>7, <1>8, <1>9 DEF ReaderStep

\* A version of the past stays one.
LEMMA PastStays == ASSUME NEW r, NEW m \in Nat, NEW n \in Nat, m <= n, Past(r, m) PROVE Past(r, n)
<1>1. r \in Records => r.restoredAt \in Nat /\ r.updatedAt \in Nat
  BY DEF Records
<1> QED BY <1>1 DEF Past

\* So no version ever comes from the future.
LEMMA YoungKept == TypeInv /\ KindInv /\ YoungInv /\ [Next]_vars => YoungInv'
<1> SUFFICES ASSUME TypeInv, KindInv, YoungInv, [Next]_vars PROVE YoungInv'
  OBVIOUS
<1>0. now \in Nat /\ now > 0 /\ snap \in [Op -> Copy]
  BY DEF TypeInv, StoreInv, OpsInv, YoungInv
<1>1. PICK t \in Nat : t = now
  BY <1>0
<1>2. Before(t) /\ \A p \in Op : Past(snap[p], t)
  BY <1>1 DEF YoungInv
<1>3. ASSUME NEW n \in Nat, t <= n, now' = n, Before(t)', scenario' = scenario, \A p \in Op : Past(snap'[p], n)
      PROVE  YoungInv'
  <2>1. \A r : Past(r, t)' => Past(r, n)'
    <3>1. \A r : Past(r, t) => Past(r, n)
      BY <1>3, PastStays
    <3> QED BY <1>3, <3>1 DEF Past, NothingDeleted
  <2>2. \A p \in Op : Past(snap[p], n)'
    BY <1>3 DEF Past, NothingDeleted
  <2>3. now' > 0
    BY <1>0, <1>1, <1>3
  <2> QED BY <1>3, <2>1, <2>2, <2>3 DEF YoungInv, Before, Past
<1>4. ASSUME NEW o \in Op, OwnStep(o) PROVE YoungInv'
  <2>1. now' \in Nat /\ t <= now' /\ scenario' = scenario
    BY <1>0, <1>1, <1>4, OwnDoes
  <2>2. Before(t)'
    BY <1>2, <1>4, OwnKeepsPast
  <2>3. snap' = snap \/ \E r : Hold(o, r) /\ Past(r, now')
    BY <1>1, <1>4, UserHoldsPast, ReaderHoldsPast DEF OwnStep
  <2>4. PICK n \in Nat : n = now'
    BY <2>1
  <2>5. \A p \in Op : Past(snap'[p], n)
    <3>1. \A p \in Op : Past(snap[p], n)
      BY <1>2, <2>1, <2>4, PastStays
    <3>2. ASSUME NEW r, Hold(o, r), Past(r, now') PROVE \A p \in Op : Past(snap'[p], n)
      BY <1>0, <2>4, <3>1, <3>2 DEF Hold
    <3> QED BY <2>3, <3>1, <3>2
  <2> QED BY <1>3, <2>1, <2>2, <2>4, <2>5
<1>5. ASSUME NEW o \in Op, ServerStep(o), UNCHANGED readerVars PROVE YoungInv'
  <2>1. Before(t)' /\ now' >= now /\ now' \in Nat /\ snap' = snap /\ scenario' = scenario
    BY <1>0, <1>1, <1>2, <1>5, ServersKeepPast
  <2>2. PICK n \in Nat : n = now'
    BY <2>1
  <2>3. \A p \in Op : Past(snap'[p], n)
    BY <1>1, <1>2, <2>1, <2>2, PastStays
  <2> QED BY <1>1, <1>3, <2>1, <2>2, <2>3
<1>6. CASE UNCHANGED vars
  <2>1. now' = t /\ Before(t)' /\ snap' = snap /\ scenario' = scenario
    BY <1>1, <1>2, <1>6 DEF vars, recordVars, readerVars, Before, Past, NothingDeleted
  <2> QED BY <1>2, <1>3, <2>1
<1> QED BY <1>4, <1>5, <1>6 DEF Next, OwnStep

-----------------------------------------------------------------------------

\* A tombstone of d or later, restored before d if ever.
Erased(r, d) == r \in Records /\ r.deletedAt >= d /\ r.restoredAt < d

\* Of what was last restored before d, only such a tombstone takes its place.
LEMMA ErasedWins ==
  ASSUME NEW d \in Nat, d > 0, NEW a, Erased(a, d), NEW b \in Records, b.restoredAt < d,
         ShouldReplaceWithNextRecord(b, a)
  PROVE  Erased(b, d)
<1>1. /\ a.deletedAt \in Nat /\ a.deletedAt >= d /\ a.deletedAt # 0
      /\ b.deletedAt \in Nat /\ b.restoredAt \in Nat
  BY DEF Erased, Records
<1>2. ~IsRestoredAfterTombstone(b, a)
  BY <1>1 DEF IsRestoredAfterTombstone, GetRestoreTimestamp, GetTombstoneTimestamp
<1>3. IsTombstoneRecord(a)
  BY <1>1 DEF IsTombstoneRecord
<1>4. IsTombstoneRecord(b) /\ Stamp(b) > Stamp(a)
  BY <1>2, <1>3 DEF ShouldReplaceWithNextRecord
<1>5. b.deletedAt > a.deletedAt
  BY <1>1, <1>3, <1>4 DEF Stamp, IsTombstoneRecord, GetTombstoneTimestamp
<1>6. b.deletedAt >= d
  BY <1>1, <1>5
<1> QED BY <1>6 DEF Erased

\* Nor does the fold over such versions return anything else.
LEMMA ErasedBest ==
  ASSUME NEW d \in Nat, d > 0, NEW acc, Erased(acc, d),
         NEW s \in Seq({r \in Records : r.restoredAt < d} \cup {NoRecord})
  PROVE  Erased(Best(acc, s), d)
<1> DEFINE A == {r \in Records : Erased(r, d)}
           B == {r \in Records : r.restoredAt < d} \cup {NoRecord}
<1>1. ASSUME NEW a \in A, NEW b \in B
      PROVE  (IF b # NoRecord /\ (a = NoRecord \/ ShouldReplaceWithNextRecord(b, a)) THEN b ELSE a) \in A
  <2>1. a \in Records /\ a # NoRecord /\ Erased(a, d)
    BY ScenarioAssumption
  <2>2. CASE b # NoRecord /\ ShouldReplaceWithNextRecord(b, a)
    <3>1. b \in Records /\ b.restoredAt < d
      BY <2>2
    <3>2. Erased(b, d)
      BY <2>1, <2>2, <3>1, ErasedWins
    <3> QED BY <2>1, <2>2, <3>1, <3>2
  <2>3. CASE ~(b # NoRecord /\ ShouldReplaceWithNextRecord(b, a))
    BY <2>1, <2>3
  <2> QED BY <2>2, <2>3
<1>2. acc \in A
  BY DEF Erased
<1>3. s \in Seq(B)
  OBVIOUS
<1>4. \A r \in A : Erased(r, d)
  OBVIOUS
<1> HIDE DEF A, B
<1>5. Best(acc, s) \in A
  BY <1>1, <1>2, <1>3, BestStays
<1> QED BY <1>4, <1>5

\* The answers, once all are there.
LEMMA AnswersPast ==
  ASSUME TypeInv, NEW o \in Op, AllSettled(o), NEW d \in Nat, Before(d)
  PROVE  Answered(o, Asked(o)) \in Seq({r \in Records : r.restoredAt < d} \cup {NoRecord})
<1> DEFINE B == {r \in Records : r.restoredAt < d} \cup {NoRecord}
<1>1. \A s \in Asked(o) : answers[o][s] \in B
  <2>1. \A s \in Asked(o) : answers[o][s] \in Copy /\ Past(answers[o][s], d)
    BY SettledIs DEF AllSettled, Before, TypeInv, ReadersInv
  <2> QED BY <2>1 DEF Past, Copy
<1>2. NoRecord \in B /\ Asked(o) \in SUBSET Server
  BY SettledIs
<1> HIDE DEF B
<1>3. Answered(o, Asked(o)) \in Seq(B)
  BY <1>1, <1>2, AnsweredIs
<1> QED BY <1>3 DEF B

-----------------------------------------------------------------------------

\* In turn, a removal that is about to land deletes later than anything was
\* restored.
DoomedInv ==
  scenario.serial =>
    \A o \in Op : pc[o] = "put" /\ kind[o] = "remove" =>
      snap[o] \in Records /\ snap[o].deletedAt > 0
      /\ Before(snap[o].deletedAt) /\ Past(snap[o], snap[o].deletedAt)

\* removeAction sees to it.
LEMMA DoomedOwn ==
  ASSUME TypeInv, Solo, KindInv, YoungInv, NEW o \in Op, OwnStep(o), scenario.serial,
         pc'[o] = "put", kind'[o] = "remove", NEW t \in Nat, t = now
  PROVE  /\ snap'[o] \in Records /\ snap'[o].deletedAt = t /\ t > 0
         /\ Before(t)' /\ Past(snap[o], t)'
<1>0. /\ now \in Nat /\ now > 0 /\ local \in Copy /\ Before(now) /\ snap \in [Op -> Copy] /\ pc \in [Op -> Awaits]
      /\ kind \in [Op -> UserKind \cup ReaderKind \cup {"none"}]
      /\ pc[o] \in {"hydrate", "reread"} => kind[o] \in {"patch", "restore"}
  BY DEF TypeInv, StoreInv, OpsInv, YoungInv
<1>1. RemoveAction(o)
  <2>1. CASE UserStep(o) /\ ~RemoveAction(o)
    BY <1>0, <2>1 DEF UserStep, WriteAction, PatchAction, PurgeAction, Hydrate, Reread, PutLands, DelLands, GoTo, Begins
  <2>2. CASE ReaderStep(o)
    <3>1. pc'[o] # "put"
      BY <1>0, <2>2 DEF ReaderStep, BeginRead, LocalHit, LocalMiss, WaitGet, Preferred, Answer, Waiting, Fallback,
         Revalidate, WaitSettle, SaveLands, BackgroundLands, BeginList, CacheSettle, CacheGet, MessagesSettle,
         GoTo, Settle, recordVars
    <3> QED BY <3>1
  <2> QED BY <2>1, <2>2 DEF OwnStep
<1>2. PICK r \in Records : Hold(o, Removed(r))
  <2>1. Minimal \in Records
    BY <1>0 DEF Minimal, Records
  <2> QED BY <1>0, <1>1, <2>1 DEF RemoveAction, Copy
<1>3. Removed(r) \in Records /\ Removed(r).deletedAt = now /\ Removed(r).restoredAt = 0
  BY <1>0 DEF Removed, BuildTombstoneRecord, Records
<1>4. snap'[o] = Removed(r)
  BY <1>0, <1>2 DEF Hold
<1>7. pc[o] = "idle"
  BY <1>1 DEF RemoveAction, Begins
<1>9. Before(t)'
  BY <1>0, <1>7, OwnKeepsPast
<1>10. scenario' = scenario /\ ~NothingDeleted
  BY <1>1 DEF RemoveAction, Begins, NothingDeleted
<1> QED BY <1>0, <1>3, <1>4, <1>9, <1>10 DEF Past, NothingDeleted

-----------------------------------------------------------------------------

\* The servers and the other operations keep it.
LEMMA DoomedKept == TypeInv /\ Solo /\ KindInv /\ YoungInv /\ DoomedInv /\ [Next]_vars => DoomedInv'
<1> SUFFICES ASSUME TypeInv, Solo, KindInv, YoungInv, DoomedInv, [Next]_vars, scenario'.serial,
                    NEW p \in Op, pc'[p] = "put", kind'[p] = "remove"
             PROVE  /\ snap'[p] \in Records /\ snap'[p].deletedAt > 0
                    /\ Before(snap[p].deletedAt)' /\ Past(snap[p], snap[p].deletedAt)'
  BY DEF DoomedInv, Past
<1>0. now \in Nat
  BY DEF TypeInv, StoreInv
<1>1. ASSUME NEW t \in Nat, snap'[p] \in Records, snap'[p].deletedAt = t, t > 0, Before(t)', Past(snap[p], t)'
      PROVE  /\ snap'[p] \in Records /\ snap'[p].deletedAt > 0
             /\ Before(snap[p].deletedAt)' /\ Past(snap[p], snap[p].deletedAt)'
  BY <1>1 DEF Before, Past
<1>2. ASSUME NEW o \in Op, OwnStep(o)
      PROVE  \E t \in Nat : snap'[p] \in Records /\ snap'[p].deletedAt = t /\ t > 0 /\ Before(t)' /\ Past(snap[p], t)'
  <2>1. scenario.serial
    BY <1>2, StepOf
  <2>2. p = o
    BY <1>2, <2>1, StepAlone DEF Ended
  <2>3. PICK t \in Nat : t = now
    BY <1>0
  <2>4. /\ snap'[p] \in Records /\ snap'[p].deletedAt = t /\ t > 0
        /\ Before(t)' /\ Past(snap[p], t)'
    BY <1>2, <2>1, <2>2, <2>3, DoomedOwn
  <2> QED BY <2>4
<1>3. ASSUME UNCHANGED <<scenario, pc, kind, snap>>
      PROVE  \E t \in Nat : snap'[p] \in Records /\ snap'[p].deletedAt = t /\ t > 0 /\ Before(t) /\ Past(snap[p], t)'
  <2>1. /\ snap[p] \in Records /\ snap[p].deletedAt > 0
        /\ Before(snap[p].deletedAt) /\ Past(snap[p], snap[p].deletedAt)
    BY <1>3 DEF DoomedInv
  <2>2. PICK t \in Nat : t = snap[p].deletedAt
    BY <2>1 DEF Records
  <2> QED BY <1>3, <2>1, <2>2 DEF Past, NothingDeleted
<1>4. ASSUME NEW o \in Op, ServerStep(o), UNCHANGED readerVars
      PROVE  \E t \in Nat : snap'[p] \in Records /\ snap'[p].deletedAt = t /\ t > 0 /\ Before(t)' /\ Past(snap[p], t)'
  <2>1. UNCHANGED <<scenario, pc, kind, snap>>
    BY <1>4 DEF ServerStep, Deliver, Lose
  <2>2. PICK t \in Nat : snap'[p] \in Records /\ snap'[p].deletedAt = t /\ t > 0 /\ Before(t) /\ Past(snap[p], t)'
    BY <1>3, <2>1
  <2>3. Before(t)'
    BY <1>4, <2>2, ServersKeepPast
  <2> QED BY <2>2, <2>3
<1>5. CASE UNCHANGED vars
  <2>1. UNCHANGED <<scenario, pc, kind, snap>>
    BY <1>5 DEF vars, recordVars
  <2>2. PICK t \in Nat : snap'[p] \in Records /\ snap'[p].deletedAt = t /\ t > 0 /\ Before(t) /\ Past(snap[p], t)'
    BY <1>3, <2>1
  <2>3. Before(t)'
    BY <1>5, <2>2 DEF vars, recordVars, readerVars, Before, Past, NothingDeleted
  <2> QED BY <1>1, <2>2, <2>3
<1>6. CASE \E o \in Op : OwnStep(o)
  BY <1>1, <1>2, <1>6
<1>7. CASE \E o \in Op : ServerStep(o) /\ UNCHANGED readerVars
  BY <1>1, <1>4, <1>7
<1> QED BY <1>5, <1>6, <1>7 DEF Next, OwnStep

-----------------------------------------------------------------------------

\* In turn, what the user removed is a tombstone later than any restoration, and
\* whatever a reader compares or puts is no older.
GoneInv ==
  scenario.serial /\ landed # NoOp /\ kind[landed] = "remove" =>
    /\ local \in Records /\ local.deletedAt > 0 /\ Before(local.deletedAt)
    /\ \A o \in Op :
         /\ pc[o] \in {"revalidate", "list"} => snap[o] = local
         /\ pc[o] \in {"bgput", "cacheget"} => Erased(snap[o], local.deletedAt)
         /\ pc[o] \notin {"preferred", "others", "save"}

\* The same, for the time d of the deletion and one operation.
Reads(o, d) ==
  /\ local \in Records /\ local.deletedAt = d
  /\ pc[o] \in {"revalidate", "list"} => snap[o] = local
  /\ pc[o] \in {"bgput", "cacheget"} => Erased(snap[o], d)
  /\ pc[o] \notin {"preferred", "others", "save"}

\* A reader that has heard from all servers puts nothing older than that.
LEMMA SettlesErased ==
  ASSUME TypeInv, NEW o \in Op, NEW d \in Nat, d > 0, Before(d), Reads(o, d), local' = local,
         Revalidate(o) \/ CacheSettle(o) \/ MessagesSettle(o)
  PROVE  Reads(o, d)'
<1> DEFINE B == {r \in Records : r.restoredAt < d} \cup {NoRecord}
<1>0. snap \in [Op -> Copy] /\ pc \in [Op -> Awaits] /\ NoRecord \notin Records
  BY ScenarioAssumption DEF TypeInv, OpsInv
<1>1. /\ pc[o] \in {"revalidate", "list"} /\ AllSettled(o) /\ Asked(o) = Server
      /\ snap[o] = local /\ local \in Records /\ local.deletedAt = d
  <2>1. pc[o] \in {"revalidate", "list"} /\ AllSettled(o)
    BY DEF Revalidate, CacheSettle, MessagesSettle
  <2> QED BY <2>1, SettledIs DEF Reads
<1>2. Erased(snap[o], d)
  BY <1>1 DEF Before, Past, Erased
<1>3. Answered(o, Server) \in Seq(B)
  BY <1>1, AnswersPast
<1>4. \A r \in B : r = NoRecord \/ (r \in Records /\ r.restoredAt < d)
  OBVIOUS
<1>5. local \in B /\ NoRecord \in B
  BY <1>1 DEF Before, Past
<1>6. ASSUME NEW acc, Erased(acc, d), NEW s \in Seq(B) PROVE Erased(Best(acc, s), d)
  BY <1>6, ErasedBest
<1>7. Best(NoRecord, Answered(o, Server)) \in B
  BY <1>3, BestAmong
<1>8. ASSUME NEW r, Erased(r, d), NEW b \in BOOLEAN PROVE Erased([r EXCEPT !.origin = b], d)
  BY <1>8 DEF Erased, Records
<1> HIDE DEF B
<1>9. ASSUME NEW r, Hold(o, r) PROVE snap'[o] = r
  BY <1>0, <1>9 DEF Hold
<1>10. ASSUME NEW l, GoTo(o, l) PROVE pc'[o] = l
  BY <1>0, <1>10 DEF GoTo
<1>11. CASE Revalidate(o)
  <2> DEFINE best == Best(NoRecord, Answered(o, Server))
  <2>1. CASE RemoteIsNewer(best, snap[o])
    <3>1. best \in Records /\ best.restoredAt < d /\ ShouldReplaceWithNextRecord(best, snap[o])
      BY <1>0, <1>1, <1>4, <1>7, <2>1 DEF RemoteIsNewer
    <3> HIDE DEF best
    <3>2. Erased(best, d)
      BY <1>2, <3>1, ErasedWins
    <3>3. Hold(o, [best EXCEPT !.origin = TRUE]) /\ GoTo(o, "bgput")
      BY <1>11, <2>1 DEF Revalidate, best
    <3>4. Erased([best EXCEPT !.origin = TRUE], d)
      BY <1>8, <3>2
    <3>5. snap'[o] = [best EXCEPT !.origin = TRUE] /\ pc'[o] = "bgput"
      BY <1>9, <1>10, <3>3
    <3> QED BY <1>1, <3>4, <3>5 DEF Reads, Erased
  <2>2. CASE ~RemoteIsNewer(best, snap[o])
    <3>1. pc'[o] = "done"
      BY <1>10, <1>11, <2>2 DEF Revalidate
    <3> QED BY <1>1, <3>1 DEF Reads
  <2> QED BY <2>1, <2>2
<1>12. CASE CacheSettle(o)
  <2> DEFINE w == Best(snap[o], Answered(o, Server))
             b == w.origin \/ \E r \in ToSet(Answered(o, Server)) : r # NoRecord
  <2>1. Erased(w, d)
    BY <1>2, <1>3, <1>6
  <2>2. w \in Records /\ w # NoRecord
    BY <1>0, <2>1 DEF Erased
  <2>3. ListMerged(o) = [w EXCEPT !.origin = b]
    BY <2>2 DEF ListMerged
  <2>4. b \in BOOLEAN
    BY <2>2 DEF Records
  <2> HIDE DEF w, b
  <2>5. Erased(ListMerged(o), d)
    BY <1>8, <2>1, <2>3, <2>4
  <2>6. snap'[o] = ListMerged(o) /\ pc'[o] \in {"done", "cacheget"}
    BY <1>9, <1>10, <1>12 DEF CacheSettle
  <2> QED BY <1>1, <2>5, <2>6 DEF Reads, Erased
<1>13. CASE MessagesSettle(o)
  <2> DEFINE fresh == Best(snap[o], <<local>>)
             w == Best(fresh, Answered(o, Server))
  <2>1. Erased(fresh, d)
    <3>1. <<local>> \in Seq(B)
      BY <1>5
    <3> QED BY <1>2, <1>6, <3>1
  <2>2. pc'[o] = "done" \/ (pc'[o] = "bgput" /\ snap'[o] = w)
    BY <1>9, <1>10, <1>13 DEF MessagesSettle
  <2> HIDE DEF fresh
  <2>3. Erased(w, d)
    BY <1>3, <1>6, <2>1
  <2> HIDE DEF w
  <2> QED BY <1>1, <2>2, <2>3 DEF Reads, Erased
<1> QED BY <1>11, <1>12, <1>13

-----------------------------------------------------------------------------

\* Every other step of an operation, but for the puts of the user, keeps to it:
\* only a background put changes the copy, for a later tombstone.
LEMMA StepErased ==
  ASSUME TypeInv, NEW o \in Op, NEW d \in Nat, d > 0, Before(d), Reads(o, d),
         OwnStep(o), ~PutLands(o), ~DelLands(o), ~BackgroundLands(o), kind[o] # "readAndWait"
  PROVE  local' = local /\ Reads(o, d)'
<1>0. /\ snap \in [Op -> Copy] /\ pc \in [Op -> Awaits] /\ local \in Records /\ local # NoRecord
      /\ pc[o] \notin {"preferred", "others", "save"}
  BY ScenarioAssumption DEF TypeInv, OpsInv, Reads
<1>1. CASE Revalidate(o) \/ CacheSettle(o) \/ MessagesSettle(o)
  <2>1. local' = local
    BY <1>1 DEF Revalidate, CacheSettle, MessagesSettle
  <2> QED BY <1>1, <2>1, SettlesErased
<1>2. ASSUME local' = local, pc'[o] \notin {"revalidate", "list", "bgput", "cacheget", "preferred", "others", "save"}
      PROVE  local' = local /\ Reads(o, d)'
  BY <1>2 DEF Reads
<1>3. CASE UserStep(o)
  <2>1. local' = local /\ \E l : GoTo(o, l) /\ l \in {"put", "hydrate", "reread", "del", "failed"}
    BY <1>3 DEF UserStep, WriteAction, PatchAction, RemoveAction, PurgeAction, Hydrate, Reread
  <2> QED BY <1>0, <1>2, <2>1 DEF GoTo
<1>4. CASE \E s \in Server : Answer(o, s)
  BY <1>4 DEF Answer, recordVars, Reads
<1>5. CASE BeginRead(o, "read") \/ BeginRead(o, "readAndWait")
  <2>1. local' = local /\ pc'[o] \in {"joined", "get"}
    BY <1>0, <1>5 DEF BeginRead, GoTo
  <2> QED BY <1>2, <2>1
<1>6. CASE LocalHit(o)
  <2>1. local' = local /\ (pc'[o] = "done" \/ (pc'[o] = "revalidate" /\ snap'[o] = local))
    BY <1>0, <1>6 DEF LocalHit, Settle, Hold
  <2> QED BY <2>1 DEF Reads
<1>7. CASE BeginList(o, "cache") \/ BeginList(o, "messages")
  <2>1. local' = local /\ pc'[o] = "list" /\ snap'[o] = local
    BY <1>0, <1>7 DEF BeginList, GoTo, Hold
  <2> QED BY <2>1 DEF Reads
<1>8. CASE CacheGet(o)
  <2>1. local' = local /\ pc[o] = "cacheget" /\ pc'[o] \in {"bgput", "done"} /\ snap' = snap
    BY <1>0, <1>8 DEF CacheGet, GoTo
  <2> QED BY <2>1 DEF Reads, Erased
<1>9. ~LocalMiss(o) /\ ~WaitGet(o) /\ ~Preferred(o) /\ ~Fallback(o) /\ ~WaitSettle(o) /\ ~SaveLands(o)
  BY <1>0 DEF LocalMiss, WaitGet, Preferred, Fallback, WaitSettle, SaveLands
<1> QED BY <1>1, <1>3, <1>4, <1>5, <1>6, <1>7, <1>8, <1>9 DEF OwnStep, ReaderStep

\* A step of an operation keeps it,
LEMMA GoneOwn ==
  ASSUME TypeInv, Solo, KindInv, YoungInv, DoomedInv, GoneInv, ReadsAtOnce, NEW o \in Op, OwnStep(o)
  PROVE  GoneInv'
<1> SUFFICES ASSUME scenario'.serial, landed' # NoOp, kind'[landed'] = "remove"
             PROVE  /\ local' \in Records /\ local'.deletedAt > 0 /\ Before(local.deletedAt)'
                    /\ \A p \in Op :
                         /\ pc'[p] \in {"revalidate", "list"} => snap'[p] = local'
                         /\ pc'[p] \in {"bgput", "cacheget"} => Erased(snap'[p], local'.deletedAt)
                         /\ pc'[p] \notin {"preferred", "others", "save"}
  BY DEF GoneInv, Erased
<1>0. /\ scenario.serial /\ \A p \in Op \ {o} : Ended(p) /\ pc'[p] = pc[p]
      /\ landed \in Op \cup {NoOp} /\ pc \in [Op -> Awaits]
      /\ kind \in [Op -> UserKind \cup ReaderKind \cup {"none"}]
  BY StepOf, StepAlone DEF TypeInv, StoreInv, OpsInv
<1>1. ASSUME NEW e \in Nat, e > 0, Before(e)', Reads(o, e)'
      PROVE  /\ local' \in Records /\ local'.deletedAt > 0 /\ Before(local.deletedAt)'
             /\ \A p \in Op :
                  /\ pc'[p] \in {"revalidate", "list"} => snap'[p] = local'
                  /\ pc'[p] \in {"bgput", "cacheget"} => Erased(snap'[p], local'.deletedAt)
                  /\ pc'[p] \notin {"preferred", "others", "save"}
  <2>1. \A p \in Op \ {o} : pc'[p] \in {"idle", "done", "failed"}
    BY <1>0 DEF Ended
  <2>2. local' \in Records /\ local'.deletedAt = e
    BY <1>1 DEF Reads
  <2>3. Before(local.deletedAt)'
    BY <1>1, <2>2 DEF Before, Past
  <2>4. /\ pc'[o] \in {"revalidate", "list"} => snap'[o] = local'
        /\ pc'[o] \in {"bgput", "cacheget"} => Erased(snap'[o], local'.deletedAt)
        /\ pc'[o] \notin {"preferred", "others", "save"}
    BY <1>1, <2>2 DEF Reads, Erased
  <2> QED BY <1>1, <2>1, <2>2, <2>3, <2>4
<1>2. CASE PutLands(o)
  <2>1. pc[o] = "put" /\ local' = snap[o] /\ landed' = o /\ kind' = kind /\ snap' = snap /\ pc'[o] = "done"
    BY <1>0, <1>2 DEF PutLands, GoTo
  <2>2. /\ snap[o] \in Records /\ snap[o].deletedAt > 0
        /\ Before(snap[o].deletedAt) /\ Past(snap[o], snap[o].deletedAt)
    BY <1>0, <2>1 DEF DoomedInv
  <2>3. PICK e \in Nat : e = snap[o].deletedAt
    BY <2>2 DEF Records
  <2>4. Before(e)'
    BY <2>2, <2>3, OwnKeepsPast
  <2>5. Reads(o, e)'
    BY <2>1, <2>2, <2>3 DEF Reads
  <2> QED BY <1>1, <2>2, <2>3, <2>4, <2>5
<1>3. CASE DelLands(o)
  BY <1>3 DEF DelLands, KindInv
<1>4. CASE ~PutLands(o) /\ ~DelLands(o)
  <2>1. landed' = landed /\ (kind' = kind \/ \E k : Begins(o, k))
    BY <1>4 DEF OwnStep, UserStep, ReaderStep, WriteAction, PatchAction, RemoveAction, PurgeAction, Hydrate, Reread,
       BeginRead, LocalHit, LocalMiss, WaitGet, Preferred, Answer, Fallback, Revalidate,
       WaitSettle, SaveLands, BackgroundLands, BeginList, CacheSettle, CacheGet, MessagesSettle, recordVars
  <2>2. landed # NoOp /\ kind[landed] = "remove"
    <3>1. landed \in Op /\ pc[landed] # "idle"
      BY <1>0, <2>1 DEF KindInv
    <3> QED BY <1>0, <2>1, <3>1 DEF Begins
  <2>3. /\ local \in Records /\ local.deletedAt > 0 /\ Before(local.deletedAt)
        /\ pc[o] \in {"revalidate", "list"} => snap[o] = local
        /\ pc[o] \in {"bgput", "cacheget"} => Erased(snap[o], local.deletedAt)
        /\ pc[o] \notin {"preferred", "others", "save"}
    BY <1>0, <2>2 DEF GoneInv
  <2>4. PICK d \in Nat : d = local.deletedAt
    BY <2>3 DEF Records
  <2>5. Before(d) /\ d > 0 /\ Reads(o, d)
    BY <2>3, <2>4 DEF Reads
  <2>6. kind[o] # "readAndWait"
    BY <1>0 DEF KindInv, ReadsAtOnce, TypeInv, StoreInv
  <2>7. pc[o] # "put"
    BY <1>0, <1>4 DEF OwnStep, UserStep, ReaderStep, WriteAction, PatchAction, RemoveAction, PurgeAction, Hydrate, Reread,
       DelLands, BeginRead, LocalHit, LocalMiss, WaitGet, Preferred, Answer, Waiting, Fallback, Revalidate,
       WaitSettle, SaveLands, BackgroundLands, BeginList, CacheSettle, CacheGet, MessagesSettle, Begins
  <2>8. Before(d)'
    <3>1. pc[o] \in {"bgput", "revalidate"} => Past(snap[o], d)
      BY <2>5 DEF Reads, Erased, Past, Before
    <3> QED BY <2>3, <2>5, <2>7, <3>1, OwnKeepsPast
  <2>9. CASE BackgroundLands(o)
    <3>1. Erased(snap[o], d) /\ local' = snap[o] /\ pc'[o] = "done"
      BY <1>0, <2>3, <2>4, <2>9 DEF BackgroundLands, GoTo
    <3>2. snap[o].deletedAt \in Nat /\ snap[o].deletedAt >= d
      BY <3>1 DEF Erased, Records
    <3>3. PICK e \in Nat : e = snap[o].deletedAt
      BY <3>2
    <3>4. Before(e)'
      <4>1. \A r : Past(r, d)' => Past(r, e)'
        <5>1. \A r : Past(r, d) => Past(r, e)
          BY <3>2, <3>3, PastStays
        <5>2. scenario' = scenario
          BY StepOf
        <5> QED BY <5>1, <5>2 DEF Past, NothingDeleted
      <4> QED BY <2>8, <4>1 DEF Before, Past
    <3>5. Reads(o, e)'
      BY <3>1, <3>3 DEF Reads, Erased
    <3> QED BY <1>1, <2>5, <3>2, <3>3, <3>4, <3>5
  <2>10. CASE ~BackgroundLands(o)
    <3>1. Reads(o, d)'
      BY <1>4, <2>5, <2>6, <2>10, StepErased
    <3> QED BY <1>1, <2>5, <2>8, <3>1
  <2> QED BY <2>9, <2>10
<1> QED BY <1>2, <1>3, <1>4

\* and so does every other step.
LEMMA GoneKept ==
  ASSUME ReadsAtOnce
  PROVE  TypeInv /\ Solo /\ KindInv /\ YoungInv /\ DoomedInv /\ GoneInv /\ [Next]_vars => GoneInv'
<1> SUFFICES ASSUME TypeInv, Solo, KindInv, YoungInv, DoomedInv, GoneInv, [Next]_vars PROVE GoneInv'
  OBVIOUS
<1>1. ASSUME NEW o \in Op, OwnStep(o) PROVE GoneInv'
  BY <1>1, GoneOwn
<1>2. ASSUME \A d \in Nat : d > 0 /\ Before(d) => Before(d)',
             UNCHANGED <<scenario, local, kind, pc, snap, landed>>
      PROVE  GoneInv'
  <2> SUFFICES ASSUME scenario'.serial, landed' # NoOp, kind'[landed'] = "remove" PROVE Before(local.deletedAt)'
    BY <1>2 DEF GoneInv, Erased
  <2>1. local \in Records /\ local.deletedAt > 0 /\ Before(local.deletedAt)
    BY <1>2 DEF GoneInv
  <2>2. PICK d \in Nat : d = local.deletedAt
    BY <2>1 DEF Records
  <2>3. Before(d)'
    BY <1>2, <2>1, <2>2
  <2> QED BY <1>2, <2>2, <2>3 DEF Before, Past
<1>3. ASSUME NEW o \in Op, ServerStep(o), UNCHANGED readerVars PROVE GoneInv'
  <2>1. \A d \in Nat : d > 0 /\ Before(d) => Before(d)'
    BY <1>3, ServersKeepPast
  <2>2. UNCHANGED <<scenario, local, kind, pc, snap, landed>>
    BY <1>3 DEF ServerStep, Deliver, Lose
  <2> QED BY <1>2, <2>1, <2>2
<1>4. CASE UNCHANGED vars
  <2>1. \A d \in Nat : d > 0 /\ Before(d) => Before(d)'
    BY <1>4 DEF vars, recordVars, readerVars, Before, Past, NothingDeleted
  <2>2. UNCHANGED <<scenario, local, kind, pc, snap, landed>>
    BY <1>4 DEF vars, recordVars
  <2> QED BY <1>2, <2>1, <2>2
<1> QED BY <1>1, <1>3, <1>4 DEF Next, OwnStep

\* A record the user removed stays a tombstone in the client database whatever the
\* servers answer, as long as operations follow one another and none of them is
\* readAndWaitAction, which compares by time only.
THEOREM RemovedStaysRemoved ==
  ASSUME ReadsAtOnce
  PROVE  Spec => []DeletedStaysDeletedInTurn
<1> DEFINE Inv == TypeInv /\ Solo /\ KindInv /\ YoungInv /\ DoomedInv /\ GoneInv
<1>1. RInit => Inv
  <2>1. RInit => DoomedInv /\ GoneInv
    BY DEF RInit, Init, DoomedInv, GoneInv
  <2> QED BY <2>1, TypedFirst, SoloFirst, YoungFirst
<1>2. Inv /\ [Next]_vars => Inv'
  BY TypedKept, SoloKept, KindKept, YoungKept, DoomedKept, GoneKept
<1>3. Inv => DeletedStaysDeletedInTurn
  BY ScenarioAssumption DEF GoneInv, DeletedStaysDeletedInTurn, DeletedStaysDeleted, IsTombstoneRecord
<1> QED BY <1>1, <1>2, <1>3, PTL DEF Spec

-----------------------------------------------------------------------------

\* The serverOrigin has no part in the precedence.
LEMMA OriginAside ==
  ASSUME NEW r \in Records, NEW b \in BOOLEAN, NEW l
  PROVE  /\ [r EXCEPT !.origin = b] \in Records
         /\ ShouldReplaceWithNextRecord([r EXCEPT !.origin = b], l) <=> ShouldReplaceWithNextRecord(r, l)
<1> DEFINE x == [r EXCEPT !.origin = b]
<1>1. x \in Records /\ x.updatedAt = r.updatedAt /\ x.deletedAt = r.deletedAt /\ x.restoredAt = r.restoredAt
  BY DEF Records
<1> HIDE DEF x
<1>2. ShouldReplaceWithNextRecord(x, l) <=> ShouldReplaceWithNextRecord(r, l)
  BY <1>1 DEF ShouldReplaceWithNextRecord, IsTombstoneRecord, IsRestoredAfterTombstone, Stamp, GetTombstoneTimestamp,
     GetRecordTimestamp, GetRestoreTimestamp
<1> QED BY <1>1, <1>2 DEF x

\* The version r supersedes l as far as a fold over H may tell: some version of
\* H does, and r does itself where all agree whether the record is deleted.
Over(H, r, l) ==
  /\ \E h \in H : ShouldReplaceWithNextRecord(h, l)
  /\ (\A h \in H : IsTombstoneRecord(h) <=> IsTombstoneRecord(l))
       => (IsTombstoneRecord(r) <=> IsTombstoneRecord(l)) /\ ShouldReplaceWithNextRecord(r, l)

\* Among versions that agree the later one counts.
LEMMA LaterCounts ==
  ASSUME NEW a \in Records, NEW b \in Records, NEW l \in Records,
         IsTombstoneRecord(a) <=> IsTombstoneRecord(l), IsTombstoneRecord(b) <=> IsTombstoneRecord(l),
         ShouldReplaceWithNextRecord(a, l), ShouldReplaceWithNextRecord(b, a)
  PROVE  ShouldReplaceWithNextRecord(b, l)
<1>1. ASSUME NEW r \in Records PROVE Stamp(r) \in Nat
  BY DEF Stamp, GetTombstoneTimestamp, GetRecordTimestamp, Records
<1>2. Stamp(a) > Stamp(l) /\ Stamp(b) > Stamp(a)
  BY DEF ShouldReplaceWithNextRecord
<1>3. Stamp(a) \in Nat /\ Stamp(b) \in Nat /\ Stamp(l) \in Nat
  BY <1>1
<1>4. Stamp(b) > Stamp(l)
  BY <1>2, <1>3
<1> QED BY <1>4 DEF ShouldReplaceWithNextRecord

\* The fold returns the version it starts from or one that is over it.
LEMMA BestIsOver ==
  ASSUME NEW H, H \subseteq Records, NEW l \in Records, NEW s \in Seq(H \cup {NoRecord})
  PROVE  Best(l, s) = l \/ (Best(l, s) \in Records /\ Over(H, Best(l, s), l))
<1> DEFINE A == {l} \cup {r \in Records : Over(H, r, l)}
           B == H \cup {NoRecord}
<1>1. ASSUME NEW a \in A, NEW b \in B
      PROVE  (IF b # NoRecord /\ (a = NoRecord \/ ShouldReplaceWithNextRecord(b, a)) THEN b ELSE a) \in A
  <2>1. a # NoRecord /\ a \in Records
    BY ScenarioAssumption
  <2>2. CASE b # NoRecord /\ ShouldReplaceWithNextRecord(b, a)
    <3>1. b \in H /\ b \in Records
      BY <2>2
    <3>2. CASE a = l
      <4>1. Over(H, b, l)
        BY <2>2, <3>1, <3>2 DEF Over
      <4> QED BY <2>1, <2>2, <3>1, <4>1
    <3>3. CASE a # l
      <4>1. Over(H, a, l)
        BY <3>3
      <4>2. Over(H, b, l)
        <5>1. ASSUME \A h \in H : IsTombstoneRecord(h) <=> IsTombstoneRecord(l)
              PROVE  (IsTombstoneRecord(b) <=> IsTombstoneRecord(l)) /\ ShouldReplaceWithNextRecord(b, l)
          <6>1. (IsTombstoneRecord(a) <=> IsTombstoneRecord(l)) /\ ShouldReplaceWithNextRecord(a, l)
            BY <4>1, <5>1 DEF Over
          <6>2. IsTombstoneRecord(b) <=> IsTombstoneRecord(l)
            BY <3>1, <5>1
          <6> QED BY <2>1, <2>2, <3>1, <6>1, <6>2, LaterCounts
        <5> QED BY <4>1, <5>1 DEF Over
      <4> QED BY <2>1, <2>2, <3>1, <4>2
    <3> QED BY <3>2, <3>3
  <2>3. CASE ~(b # NoRecord /\ ShouldReplaceWithNextRecord(b, a))
    BY <2>1, <2>3
  <2> QED BY <2>2, <2>3
<1>2. l \in A /\ s \in Seq(B)
  OBVIOUS
<1>3. \A r \in A : r = l \/ (r \in Records /\ Over(H, r, l))
  OBVIOUS
<1> HIDE DEF A, B
<1>4. Best(l, s) \in A
  BY <1>1, <1>2, BestStays
<1> QED BY <1>3, <1>4

\* A version does not supersede itself.
LEMMA BestOfSame == ASSUME NEW l \in Records PROVE Best(l, <<l>>) = l
<1> DEFINE A == {l}
<1>1. ~ShouldReplaceWithNextRecord(l, l)
  <2>1. Stamp(l) \in Nat
    BY DEF Stamp, GetTombstoneTimestamp, GetRecordTimestamp, Records
  <2> QED BY <2>1 DEF ShouldReplaceWithNextRecord
<1>2. \A a \in A, b \in A :
        (IF b # NoRecord /\ (a = NoRecord \/ ShouldReplaceWithNextRecord(b, a)) THEN b ELSE a) \in A
  BY <1>1
<1>3. l \in A /\ <<l>> \in Seq(A)
  OBVIOUS
<1> HIDE DEF A
<1>4. Best(l, <<l>>) \in A
  BY <1>2, <1>3, BestStays
<1> QED BY <1>4 DEF A

\* All that a settled list or revalidation was answered, in order of the plan.
LEMMA HeardInOrder ==
  ASSUME TypeInv, NEW o \in Op, AllSettled(o), pc[o] \in {"revalidate", "list"}
  PROVE  /\ Heard(o) \subseteq Records
         /\ Answered(o, Server) \in Seq(Heard(o) \cup {NoRecord})
<1>1. \A s \in Server : answers[o][s] \in Copy /\ answers[o][s] # Unanswered
  BY SettledIs, AnswerAssumption DEF AllSettled, TypeInv, ReadersInv, Asked, Copy
<1>2. Heard(o) \subseteq Records
  BY <1>1 DEF Heard, Copy
<1>3. \A s \in Server : answers[o][s] \in Heard(o) \cup {NoRecord}
  BY <1>1 DEF Heard
<1> DEFINE B == Heard(o) \cup {NoRecord}
<1>4. NoRecord \in B /\ Server \in SUBSET Server /\ \A s \in Server : answers[o][s] \in B
  BY <1>3
<1> HIDE DEF B
<1>5. Answered(o, Server) \in Seq(B)
  BY <1>4, AnsweredIs
<1> QED BY <1>2, <1>5 DEF B

-----------------------------------------------------------------------------

\* The version r may take the place of the local copy after what o has heard.
Advances(o, r) ==
  \/ r = [local EXCEPT !.origin = r.origin]
  \/ /\ \E h \in Heard(o) : ShouldReplaceWithNextRecord(h, local)
     /\ (\A h \in Heard(o) : IsTombstoneRecord(h) <=> IsTombstoneRecord(local))
          => ShouldReplaceWithNextRecord(r, local)

\* In turn, a reader that asks the servers knows the local copy, and what it is
\* about to put may take its place.
AdvanceInv ==
  scenario.serial =>
    \A o \in Op :
      /\ pc[o] \in {"revalidate", "list"} => snap[o] = local
      /\ pc[o] \in {"bgput", "cacheget"} => local = NoRecord \/ Advances(o, snap[o])
      /\ pc[o] \in {"preferred", "others", "save"} => local = NoRecord

\* A reader that has heard from all servers.
LEMMA SettleAdvances ==
  ASSUME TypeInv, NEW o \in Op, snap[o] = local, local # NoRecord,
         Revalidate(o) \/ CacheSettle(o) \/ MessagesSettle(o)
  PROVE  /\ local' = local /\ answers' = answers
         /\ pc'[o] = "done" \/ (pc'[o] \in {"bgput", "cacheget"} /\ Advances(o, snap'[o]))
<1>0. /\ snap \in [Op -> Copy] /\ pc \in [Op -> Awaits] /\ local \in Records
      /\ pc[o] \in {"revalidate", "list"} /\ AllSettled(o)
      /\ local' = local /\ answers' = answers
  BY DEF TypeInv, OpsInv, StoreInv, Copy, Revalidate, CacheSettle, MessagesSettle, readerVars
<1> DEFINE H == Heard(o)
           all == Answered(o, Server)
<1>1. H \subseteq Records /\ all \in Seq(H \cup {NoRecord})
  BY <1>0, HeardInOrder
<1> HIDE DEF H, all
<1>2. Best(local, all) = local \/ (Best(local, all) \in Records /\ Over(H, Best(local, all), local))
  BY <1>0, <1>1, BestIsOver
<1>3. Best(NoRecord, all) \in H \cup {NoRecord}
  BY <1>1, BestAmong
<1>4. ASSUME NEW r, Hold(o, r) PROVE snap'[o] = r
  BY <1>0, <1>4 DEF Hold
<1>5. ASSUME NEW l, GoTo(o, l) PROVE pc'[o] = l
  BY <1>0, <1>5 DEF GoTo
<1>6. ASSUME NEW r \in Records, r = local \/ Over(H, r, local), NEW b \in BOOLEAN
      PROVE  Advances(o, [r EXCEPT !.origin = b]) /\ Advances(o, r)
  <2>1. CASE r = local
    BY <1>0, <2>1 DEF Advances, Records
  <2>2. CASE Over(H, r, local)
    BY <2>2, <1>6, OriginAside DEF Advances, Over, H
  <2> QED BY <1>6, <2>1, <2>2
<1>7. CASE Revalidate(o)
  <2> DEFINE best == Best(NoRecord, all)
  <2>1. CASE RemoteIsNewer(best, snap[o])
    <3>1. best \in H /\ best \in Records /\ ShouldReplaceWithNextRecord(best, local)
      BY <1>1, <1>3, <2>1 DEF RemoteIsNewer
    <3>2. Hold(o, [best EXCEPT !.origin = TRUE]) /\ GoTo(o, "bgput")
      BY <1>7, <2>1 DEF Revalidate, all
    <3> HIDE DEF best
    <3>3. Over(H, best, local)
      BY <3>1 DEF Over
    <3>4. Advances(o, [best EXCEPT !.origin = TRUE])
      BY <1>6, <3>1, <3>3
    <3> QED BY <1>0, <1>4, <1>5, <3>2, <3>4
  <2>2. CASE ~RemoteIsNewer(best, snap[o])
    BY <1>0, <1>5, <1>7, <2>2 DEF Revalidate, all
  <2> QED BY <2>1, <2>2
<1>8. CASE CacheSettle(o)
  <2> DEFINE w == Best(local, all)
             b == w.origin \/ \E r \in ToSet(all) : r # NoRecord
  <2>1. w \in Records /\ w # NoRecord
    BY <1>0, <1>2, ScenarioAssumption
  <2>2. ListMerged(o) = [w EXCEPT !.origin = b]
    BY <2>1 DEF ListMerged, all
  <2>3. b \in BOOLEAN
    BY <2>1 DEF Records
  <2>4. snap'[o] = ListMerged(o) /\ pc'[o] \in {"done", "cacheget"}
    BY <1>4, <1>5, <1>8 DEF CacheSettle
  <2> HIDE DEF b
  <2>5. w = local \/ Over(H, w, local)
    BY <1>2
  <2> HIDE DEF w
  <2>6. Advances(o, ListMerged(o))
    BY <1>6, <2>1, <2>2, <2>3, <2>5
  <2> QED BY <1>0, <2>4, <2>6
<1>9. CASE MessagesSettle(o)
  <2>1. Best(snap[o], <<local>>) = local
    BY <1>0, BestOfSame
  <2> DEFINE w == Best(local, all)
  <2>2. pc'[o] = "done" \/ (pc'[o] = "bgput" /\ snap'[o] = w)
    BY <1>4, <1>5, <1>9, <2>1 DEF MessagesSettle, all
  <2>3. w \in Records /\ (w = local \/ Over(H, w, local))
    BY <1>0, <1>2
  <2> HIDE DEF w
  <2>4. TRUE \in BOOLEAN
    OBVIOUS
  <2>5. Advances(o, w)
    BY <1>6, <2>3, <2>4
  <2> QED BY <1>0, <2>2, <2>5
<1> QED BY <1>7, <1>8, <1>9

-----------------------------------------------------------------------------

\* A step of an operation keeps it,
LEMMA AdvanceOwn ==
  ASSUME TypeInv, Solo, KindInv, AdvanceInv, ReadsAtOnce, NEW o \in Op, OwnStep(o)
  PROVE  AdvanceInv'
<1> SUFFICES ASSUME scenario'.serial, NEW p \in Op
             PROVE  /\ pc'[p] \in {"revalidate", "list"} => snap'[p] = local'
                    /\ pc'[p] \in {"bgput", "cacheget"} => local' = NoRecord \/ Advances(p, snap[p])'
                    /\ pc'[p] \in {"preferred", "others", "save"} => local' = NoRecord
  BY DEF AdvanceInv, Advances
<1>0. /\ scenario.serial /\ \A q \in Op \ {o} : Ended(q) /\ pc'[q] = pc[q]
      /\ pc \in [Op -> Awaits] /\ snap \in [Op -> Copy]
  BY StepOf, StepAlone DEF TypeInv, OpsInv
<1>1. kind[o] # "readAndWait"
  BY <1>0 DEF KindInv, ReadsAtOnce, TypeInv, StoreInv
<1>2. /\ pc[o] \in {"revalidate", "list"} => snap[o] = local
      /\ pc[o] \in {"bgput", "cacheget"} => local = NoRecord \/ Advances(o, snap[o])
      /\ pc[o] \in {"preferred", "others", "save"} => local = NoRecord
  BY <1>0 DEF AdvanceInv
<1>3. CASE p # o
  BY <1>0, <1>3 DEF Ended
<1>4. CASE p = o /\ pc'[o] \notin {"revalidate", "list", "bgput", "cacheget", "preferred", "others", "save"}
  BY <1>4
<1>5. CASE p = o /\ UserStep(o)
  <2>1. \E l : GoTo(o, l) /\ l \in {"put", "hydrate", "reread", "del", "failed", "done"}
    BY <1>5 DEF UserStep, WriteAction, PatchAction, RemoveAction, PurgeAction, Hydrate, Reread, PutLands, DelLands
  <2> QED BY <1>0, <1>4, <1>5, <2>1 DEF GoTo
<1>6. CASE p = o /\ (BeginRead(o, "read") \/ BeginRead(o, "readAndWait") \/ SaveLands(o) \/ BackgroundLands(o))
  <2>1. pc'[o] \in {"joined", "get", "done"}
    BY <1>0, <1>6 DEF BeginRead, SaveLands, BackgroundLands, GoTo, Settle
  <2> QED BY <1>4, <1>6, <2>1
<1>7. CASE p = o /\ LocalHit(o)
  <2>1. local' = local /\ (pc'[o] = "done" \/ (pc'[o] = "revalidate" /\ snap'[o] = local))
    BY <1>0, <1>7 DEF LocalHit, Settle, Hold
  <2> QED BY <1>7, <2>1
<1>8. CASE p = o /\ LocalMiss(o)
  <2>1. local' = local /\ local = NoRecord /\ pc'[o] \in {"failed", "preferred"}
    BY <1>0, <1>8 DEF LocalMiss, Settle, GoTo
  <2> QED BY <1>8, <2>1
<1>9. CASE p = o /\ Preferred(o)
  <2>1. local' = local /\ pc[o] = "preferred" /\ pc'[o] \in {"save", "others"}
    BY <1>0, <1>9 DEF Preferred, GoTo
  <2> QED BY <1>2, <1>9, <2>1
<1>10. CASE p = o /\ \E s \in Server : Answer(o, s)
  <2>1. UNCHANGED <<local, pc, snap>> /\ pc[o] \in {"others", "revalidate", "list"}
    BY <1>10 DEF Answer, Waiting, recordVars
  <2> QED BY <1>2, <1>10, <2>1
<1>11. CASE p = o /\ Fallback(o)
  <2>1. local' = local /\ pc[o] = "others" /\ pc'[o] \in {"save", "failed"}
    BY <1>0, <1>11 DEF Fallback, GoTo, Settle
  <2> QED BY <1>2, <1>11, <2>1
<1>12. CASE p = o /\ (BeginList(o, "cache") \/ BeginList(o, "messages"))
  <2>1. local' = local /\ pc'[o] = "list" /\ snap'[o] = local
    BY <1>0, <1>12 DEF BeginList, GoTo, Hold
  <2> QED BY <1>12, <2>1
<1>13. CASE p = o /\ (Revalidate(o) \/ CacheSettle(o) \/ MessagesSettle(o))
  <2>1. snap[o] = local
    BY <1>2, <1>13 DEF Revalidate, CacheSettle, MessagesSettle
  <2>2. CASE local = NoRecord
    <3>1. local' = local /\ pc'[o] \in {"done", "bgput", "cacheget"}
      BY <1>0, <1>13 DEF Revalidate, CacheSettle, MessagesSettle, GoTo
    <3> QED BY <1>13, <2>2, <3>1
  <2>3. CASE local # NoRecord
    <3>1. /\ local' = local /\ answers' = answers
          /\ pc'[o] = "done" \/ (pc'[o] \in {"bgput", "cacheget"} /\ Advances(o, snap'[o]))
      BY <1>13, <2>1, <2>3, SettleAdvances
    <3> QED BY <1>13, <3>1 DEF Advances, Heard
  <2> QED BY <2>2, <2>3
<1>14. CASE p = o /\ CacheGet(o)
  <2>1. UNCHANGED <<local, snap, answers>> /\ pc[o] = "cacheget" /\ pc'[o] \in {"bgput", "done"}
    BY <1>0, <1>14 DEF CacheGet, GoTo, readerVars
  <2> QED BY <1>2, <1>14, <2>1 DEF Advances, Heard
<1>15. ~WaitGet(o) /\ ~WaitSettle(o)
  BY <1>1 DEF WaitGet, WaitSettle
<1> QED BY <1>3, <1>5, <1>6, <1>7, <1>8, <1>9, <1>10, <1>11, <1>12, <1>13, <1>14, <1>15 DEF OwnStep, ReaderStep

\* and so does every other step.
LEMMA AdvanceKept ==
  ASSUME ReadsAtOnce
  PROVE  TypeInv /\ Solo /\ KindInv /\ AdvanceInv /\ [Next]_vars => AdvanceInv'
<1> SUFFICES ASSUME TypeInv, Solo, KindInv, AdvanceInv, [Next]_vars PROVE AdvanceInv'
  OBVIOUS
<1>1. ASSUME UNCHANGED <<scenario, local, pc, snap, answers>> PROVE AdvanceInv'
  BY <1>1 DEF AdvanceInv, Advances, Heard
<1>2. ASSUME NEW o \in Op, OwnStep(o) PROVE AdvanceInv'
  BY <1>2, AdvanceOwn
<1>3. ASSUME NEW o \in Op, ServerStep(o), UNCHANGED readerVars PROVE AdvanceInv'
  BY <1>1, <1>3 DEF ServerStep, Deliver, Lose, readerVars
<1>4. CASE UNCHANGED vars
  BY <1>1, <1>4 DEF vars, recordVars, readerVars
<1> QED BY <1>2, <1>3, <1>4 DEF Next, OwnStep

\* As long as operations follow one another, no reader but readAndWaitAction puts
\* anything over the local copy unless a version some server sent supersedes it,
\* and where all agree on the deletion what is put supersedes it.
THEOREM ReadersAdvance ==
  ASSUME ReadsAtOnce
  PROVE  Spec => ReadersOnlyAdvance
<1> DEFINE Inv == TypeInv /\ Solo /\ KindInv /\ AdvanceInv
           Step == \A o \in Op :
             scenario.serial /\ (SaveLands(o) \/ BackgroundLands(o)) /\ local # NoRecord =>
               \/ local' = [local EXCEPT !.origin = local'.origin]
               \/ /\ \E r \in Heard(o) : ShouldReplaceWithNextRecord(r, local)
                  /\ (\A r \in Heard(o) : IsTombstoneRecord(r) <=> IsTombstoneRecord(local))
                       => ShouldReplaceWithNextRecord(local', local)
<1>1. RInit => Inv
  <2>1. RInit => AdvanceInv
    BY DEF RInit, Init, AdvanceInv
  <2> QED BY <2>1, TypedFirst, SoloFirst
<1>2. Inv /\ [Next]_vars => Inv'
  BY TypedKept, SoloKept, KindKept, AdvanceKept
<1>3. Inv /\ [Next]_vars => [Step]_vars
  <2> SUFFICES ASSUME Inv, NEW o \in Op, scenario.serial, SaveLands(o) \/ BackgroundLands(o), local # NoRecord
               PROVE  \/ local' = [local EXCEPT !.origin = local'.origin]
                      \/ /\ \E r \in Heard(o) : ShouldReplaceWithNextRecord(r, local)
                         /\ (\A r \in Heard(o) : IsTombstoneRecord(r) <=> IsTombstoneRecord(local))
                              => ShouldReplaceWithNextRecord(local', local)
    OBVIOUS
  <2>1. pc[o] = "bgput" /\ local' = snap[o]
    BY DEF AdvanceInv, SaveLands, BackgroundLands
  <2>2. Advances(o, local')
    BY <2>1 DEF AdvanceInv
  <2> QED BY <2>2 DEF Advances
<1> QED BY <1>1, <1>2, <1>3, PTL DEF Spec, ReadersOnlyAdvance

-----------------------------------------------------------------------------

\* Operations follow one another and nothing is deleted.
Plain == scenario.serial /\ NothingDeleted

\* Then an edit that is about to land is made of the edits before it, and is
\* later than all other versions.
LandsInv ==
  Plain =>
    \A o \in Op :
      /\ pc[o] = "put" => /\ o \in snap[o].edits
                          /\ kind[o] \in {"patch", "restore"} => edits \subseteq snap[o].edits
                          /\ Before(snap[o].updatedAt + 1) /\ Past(snap[o], snap[o].updatedAt + 1)
      /\ pc[o] \in {"hydrate", "reread"} => edits = {}

\* And the local copy holds the edits, and is as late as any other version.
KeptInv ==
  Plain /\ edits # {} =>
    local \in Records /\ edits \subseteq local.edits /\ Before(local.updatedAt + 1)

\* An operation that has made its version.
LEMMA MadeNow ==
  ASSUME TypeInv, YoungInv, LandsInv, KeptInv, NEW o \in Op, OwnStep(o), Plain
  PROVE  /\ pc'[o] \in {"put", "hydrate", "reread"} => edits' = edits
         /\ pc'[o] \in {"hydrate", "reread"} => edits = {}
         /\ pc'[o] = "put" => /\ snap'[o].updatedAt + 1 = now' /\ o \in snap'[o].edits
                              /\ kind'[o] \in {"patch", "restore"} => edits \subseteq snap'[o].edits
<1>0. /\ now \in Nat /\ snap \in [Op -> Copy] /\ pc \in [Op -> Awaits] /\ local \in Copy
      /\ kind \in [Op -> UserKind \cup ReaderKind \cup {"none"}]
      /\ pc[o] = "reread" => snap[o] \in Records
      /\ Past(local, now) /\ Past(snap[o], now)
      /\ NothingDeleted
      /\ NoRecord \notin Records
      /\ pc[o] \in {"hydrate", "reread"} => edits = {}
      /\ edits # {} => local # NoRecord /\ edits \subseteq local.edits
  BY ScenarioAssumption DEF TypeInv, StoreInv, OpsInv, Holding, YoungInv, Before, Plain, LandsInv, KeptInv
<1>1. ASSUME NEW r \in Records, Past(r, now), NEW k, Hold(o, Merged(o, k, r)), Tick
      PROVE  snap'[o].updatedAt + 1 = now' /\ snap'[o].edits = r.edits \cup {o}
  <2>1. r.updatedAt \in Nat /\ r.updatedAt < now
    BY <1>0, <1>1 DEF Past, Records
  <2>2. Later(now, r.updatedAt + 1) = now
    BY <1>0, <2>1 DEF Later
  <2>3. Merged(o, k, r).updatedAt = now /\ Merged(o, k, r).edits = r.edits \cup {o}
    BY <1>1, <2>2 DEF Merged, ApplyRestorePatch, Records
  <2>4. snap'[o] = Merged(o, k, r) /\ now' = now + 1
    BY <1>0, <1>1 DEF Hold, Tick
  <2> QED BY <2>3, <2>4
<1>2. CASE WriteAction(o)
  <2> DEFINE r == [updatedAt |-> now, deletedAt |-> 0, restoredAt |-> 0, edits |-> {o}, origin |-> FALSE]
  <2>1. snap'[o] = r /\ now' = now + 1 /\ edits' = edits /\ pc'[o] = "put" /\ kind'[o] = "write"
    BY <1>0, <1>2 DEF WriteAction, Hold, Tick, GoTo, Begins
  <2> QED BY <2>1
<1>3. ASSUME NEW k, PatchAction(o, k)
      PROVE  /\ edits' = edits
             /\ \/ pc'[o] = "hydrate" /\ edits = {}
                \/ pc'[o] = "put" /\ snap'[o].updatedAt + 1 = now' /\ o \in snap'[o].edits /\ edits \subseteq snap'[o].edits
  <2>1. CASE local = NoRecord
    BY <1>0, <1>3, <2>1 DEF PatchAction, GoTo
  <2>2. CASE local # NoRecord
    <3>1. local \in Records /\ Hold(o, Merged(o, k, local)) /\ Tick /\ pc'[o] = "put" /\ edits' = edits
      BY <1>0, <1>3, <2>2 DEF PatchAction, Copy, GoTo
    <3>2. snap'[o].updatedAt + 1 = now' /\ snap'[o].edits = local.edits \cup {o}
      BY <1>0, <1>1, <3>1
    <3> QED BY <1>0, <3>1, <3>2
  <2> QED BY <2>1, <2>2
<1>4. CASE Hydrate(o)
  <2>1. edits = {} /\ edits' = edits /\ pc'[o] \in {"reread", "failed"}
    BY <1>0, <1>4 DEF Hydrate, GoTo
  <2> QED BY <2>1
<1>5. CASE Reread(o)
  <2> DEFINE r == IF local # NoRecord THEN local ELSE snap[o]
  <2>1. r \in Records /\ Past(r, now)
    BY <1>0, <1>5 DEF Reread, Copy
  <2>2. Tick /\ Hold(o, Merged(o, kind[o], r)) /\ edits' = edits /\ edits = {} /\ pc'[o] = "put"
    BY <1>0, <1>5 DEF Reread, GoTo
  <2> HIDE DEF r
  <2>3. snap'[o].updatedAt + 1 = now' /\ snap'[o].edits = r.edits \cup {o}
    BY <1>1, <2>1, <2>2
  <2> QED BY <2>2, <2>3
<1>6. CASE PurgeAction(o) \/ PutLands(o) \/ DelLands(o)
  <2>1. pc'[o] \in {"del", "failed", "done"}
    BY <1>0, <1>6 DEF PurgeAction, PutLands, DelLands, GoTo
  <2> QED BY <2>1
<1>7. ~RemoveAction(o)
  BY <1>0 DEF RemoveAction, Begins, NothingDeleted
<1>8. CASE ReaderStep(o)
  <2>1. pc'[o] \notin {"put", "hydrate", "reread"}
    BY <1>0, <1>8 DEF ReaderStep, BeginRead, LocalHit, LocalMiss, WaitGet, Preferred, Answer, Waiting, Fallback,
       Revalidate, WaitSettle, SaveLands, BackgroundLands, BeginList, CacheSettle, CacheGet, MessagesSettle,
       GoTo, Settle, recordVars
  <2> QED BY <2>1
<1> QED BY <1>2, <1>3, <1>4, <1>5, <1>6, <1>7, <1>8 DEF OwnStep, UserStep

\* It is kept by every step.
LEMMA LandsKept ==
  TypeInv /\ Solo /\ KindInv /\ YoungInv /\ YoungInv' /\ LandsInv /\ KeptInv /\ [Next]_vars => LandsInv'
<1> SUFFICES ASSUME TypeInv, Solo, KindInv, YoungInv, YoungInv', LandsInv, KeptInv, [Next]_vars, Plain', NEW p \in Op
             PROVE  /\ pc'[p] = "put" =>
                         /\ p \in snap'[p].edits
                         /\ kind'[p] \in {"patch", "restore"} => edits' \subseteq snap'[p].edits
                         /\ Before(snap[p].updatedAt + 1)' /\ Past(snap[p], snap[p].updatedAt + 1)'
                    /\ pc'[p] \in {"hydrate", "reread"} => edits' = {}
  BY DEF LandsInv, Past
<1>1. ASSUME NEW o \in Op, OwnStep(o)
      PROVE  /\ pc'[p] = "put" =>
                  /\ p \in snap'[p].edits
                  /\ kind'[p] \in {"patch", "restore"} => edits' \subseteq snap'[p].edits
                  /\ Before(snap[p].updatedAt + 1)' /\ Past(snap[p], snap[p].updatedAt + 1)'
             /\ pc'[p] \in {"hydrate", "reread"} => edits' = {}
  <2>1. Plain /\ scenario.serial
    BY <1>1, StepOf DEF Plain, NothingDeleted
  <2>2. CASE p # o
    BY <1>1, <2>1, <2>2, StepAlone DEF Ended
  <2>3. CASE p = o
    <3>1. /\ pc'[o] \in {"put", "hydrate", "reread"} => edits' = edits
          /\ pc'[o] \in {"hydrate", "reread"} => edits = {}
          /\ pc'[o] = "put" => /\ snap'[o].updatedAt + 1 = now' /\ o \in snap'[o].edits
                               /\ kind'[o] \in {"patch", "restore"} => edits \subseteq snap'[o].edits
      BY <1>1, <2>1, MadeNow
    <3>2. Before(now)' /\ Past(snap[o], now)'
      BY DEF YoungInv
    <3> QED BY <2>3, <3>1, <3>2 DEF Before, Past
  <2> QED BY <2>2, <2>3
<1>2. ASSUME UNCHANGED <<scenario, pc, kind, snap, edits>>, \A d \in Nat : d > 0 /\ Before(d) => Before(d)'
      PROVE  /\ pc'[p] = "put" =>
                  /\ p \in snap'[p].edits
                  /\ kind'[p] \in {"patch", "restore"} => edits' \subseteq snap'[p].edits
                  /\ Before(snap[p].updatedAt + 1)' /\ Past(snap[p], snap[p].updatedAt + 1)'
             /\ pc'[p] \in {"hydrate", "reread"} => edits' = {}
  <2>1. Plain
    BY <1>2 DEF Plain, NothingDeleted
  <2>2. CASE pc[p] = "put"
    <3>1. /\ p \in snap[p].edits
          /\ kind[p] \in {"patch", "restore"} => edits \subseteq snap[p].edits
          /\ Before(snap[p].updatedAt + 1) /\ Past(snap[p], snap[p].updatedAt + 1)
      BY <2>1, <2>2 DEF LandsInv
    <3>2. snap[p].updatedAt \in Nat
      BY <2>2 DEF TypeInv, OpsInv, Holding, Records
    <3>3. PICK d \in Nat : d = snap[p].updatedAt + 1 /\ d > 0
      BY <3>2
    <3>4. Before(d)' /\ Past(snap[p], d)
      BY <1>2, <3>1, <3>3
    <3>5. Before(snap[p].updatedAt + 1)' /\ Past(snap[p], snap[p].updatedAt + 1)'
      BY <1>2, <3>3, <3>4 DEF Before, Past, NothingDeleted
    <3> QED BY <1>2, <2>2, <3>1, <3>5
  <2>3. CASE pc[p] # "put"
    BY <1>2, <2>1, <2>3 DEF LandsInv
  <2> QED BY <2>2, <2>3
<1>3. ASSUME NEW o \in Op, ServerStep(o), UNCHANGED readerVars
      PROVE  UNCHANGED <<scenario, pc, kind, snap, edits>> /\ \A d \in Nat : d > 0 /\ Before(d) => Before(d)'
  <2>1. UNCHANGED <<scenario, pc, kind, snap, edits>>
    BY <1>3 DEF ServerStep, Deliver, Lose
  <2> QED BY <1>3, <2>1, ServersKeepPast
<1>4. CASE UNCHANGED vars
  <2>1. UNCHANGED <<scenario, pc, kind, snap, edits>> /\ \A d \in Nat : d > 0 /\ Before(d) => Before(d)'
    BY <1>4 DEF vars, recordVars, readerVars, Before, Past, NothingDeleted
  <2> QED BY <1>2, <2>1
<1>5. CASE \E o \in Op : OwnStep(o)
  BY <1>1, <1>5
<1>6. CASE \E o \in Op : ServerStep(o) /\ UNCHANGED readerVars
  BY <1>2, <1>3, <1>6
<1> QED BY <1>4, <1>5, <1>6 DEF Next, OwnStep

-----------------------------------------------------------------------------

\* No reader replaces a live copy that is as late as any other version.
LEMMA NothingAdvances ==
  ASSUME TypeInv, NEW o \in Op, NothingDeleted, local \in Records, Before(local.updatedAt + 1),
         Advances(o, snap[o]), snap[o] \in Records
  PROVE  snap[o].updatedAt = local.updatedAt /\ snap[o].edits = local.edits /\ Past(snap[o], local.updatedAt + 1)
<1>1. local.updatedAt \in Nat /\ local.deletedAt = 0
  BY DEF Before, Past, Records
<1>2. ASSUME NEW h \in Heard(o) PROVE ~ShouldReplaceWithNextRecord(h, local)
  <2>1. PICK s \in Server : h = answers[o][s]
    BY DEF Heard
  <2>2. h \in Records
    BY <2>1 DEF Heard, TypeInv, ReadersInv, Copy
  <2>3. h.deletedAt = 0 /\ h.updatedAt < local.updatedAt + 1 /\ h.updatedAt \in Nat
    BY <2>1, <2>2 DEF Before, Past, Records
  <2>4. ~(h.updatedAt > local.updatedAt)
    BY <1>1, <2>3
  <2> QED BY <1>1, <2>3, <2>4 DEF ShouldReplaceWithNextRecord, IsTombstoneRecord, Stamp, GetRecordTimestamp
<1>3. snap[o] = [local EXCEPT !.origin = snap[o].origin]
  BY <1>2 DEF Advances
<1> DEFINE x == snap[o]
<1>4. x = [local EXCEPT !.origin = x.origin]
  BY <1>3
<1> HIDE DEF x
<1>5. x.updatedAt = local.updatedAt /\ x.edits = local.edits /\ x.restoredAt = local.restoredAt /\ x.deletedAt = local.deletedAt
  BY <1>4 DEF Records
<1>6. Past(local, local.updatedAt + 1)
  BY DEF Before
<1> QED BY <1>5, <1>6 DEF Past, x

\* A step of an operation keeps it,
LEMMA KeptOwn ==
  ASSUME TypeInv, Solo, KindInv, AdvanceInv, LandsInv, KeptInv, NEW o \in Op, OwnStep(o)
  PROVE  KeptInv'
<1> SUFFICES ASSUME Plain', edits' # {}
             PROVE  local' \in Records /\ edits' \subseteq local'.edits /\ Before(local.updatedAt + 1)'
  BY DEF KeptInv
<1>0. /\ Plain /\ scenario.serial /\ NothingDeleted /\ scenario' = scenario
      /\ pc[o] \in Holding => snap[o] \in Records
      /\ pc[o] = "put" => kind[o] \in {"write", "patch", "restore"}
      /\ NoRecord \notin Records
  <2>1. scenario' = scenario
    BY StepOf
  <2>2. Plain
    BY <2>1 DEF Plain, NothingDeleted
  <2>3. kind[o] # "remove"
    BY <2>2 DEF Plain, KindInv, NothingDeleted
  <2> QED BY <2>1, <2>2, <2>3, ScenarioAssumption DEF Plain, TypeInv, OpsInv, UserKind
<1>1. ASSUME NEW t \in Nat, local' \in Records, local'.updatedAt + 1 = t, Before(t)'
      PROVE  Before(local.updatedAt + 1)'
  BY <1>1 DEF Before, Past
<1>2. CASE PutLands(o)
  <2>1. /\ pc[o] = "put" /\ local' = snap[o] /\ snap[o] \in Records
        /\ edits' \in {{o}, edits \cup {o}}
        /\ kind[o] \in {"patch", "restore"} \/ edits' = {o}
    BY <1>0, <1>2 DEF PutLands, Holding
  <2>2. /\ o \in snap[o].edits
        /\ kind[o] \in {"patch", "restore"} => edits \subseteq snap[o].edits
        /\ Before(snap[o].updatedAt + 1) /\ Past(snap[o], snap[o].updatedAt + 1)
    BY <1>0, <2>1 DEF LandsInv
  <2>3. PICK t \in Nat : t = snap[o].updatedAt + 1
    BY <2>1 DEF Records
  <2>4. Before(t)'
    BY <2>2, <2>3, OwnKeepsPast
  <2>5. edits' \subseteq local'.edits
    BY <2>1, <2>2
  <2> QED BY <1>1, <2>1, <2>3, <2>4, <2>5
<1>3. CASE DelLands(o)
  BY <1>3 DEF DelLands
<1>4. CASE ~PutLands(o) /\ ~DelLands(o)
  <2>1. edits' = edits /\ (local' = local \/ SaveLands(o) \/ BackgroundLands(o))
    BY <1>4 DEF OwnStep, UserStep, ReaderStep, WriteAction, PatchAction, RemoveAction, PurgeAction, Hydrate, Reread,
       BeginRead, LocalHit, LocalMiss, WaitGet, Preferred, Answer, Fallback, Revalidate,
       WaitSettle, SaveLands, BackgroundLands, BeginList, CacheSettle, CacheGet, MessagesSettle, recordVars
  <2>2. local \in Records /\ edits \subseteq local.edits /\ Before(local.updatedAt + 1)
    BY <1>0, <2>1 DEF KeptInv
  <2>3. /\ pc[o] \in {"revalidate", "list"} => snap[o] = local
        /\ pc[o] = "bgput" => snap[o] \in Records /\ Advances(o, snap[o])
        /\ pc[o] \notin {"preferred", "others", "save"}
    BY <1>0, <2>2 DEF AdvanceInv, Holding
  <2>4. PICK t \in Nat : t = local.updatedAt + 1
    BY <2>2 DEF Records
  <2>5. pc[o] = "bgput" => snap[o].updatedAt = local.updatedAt /\ snap[o].edits = local.edits /\ Past(snap[o], t)
    BY <1>0, <2>2, <2>3, <2>4, NothingAdvances
  <2>6. pc[o] # "put"
    BY <1>4 DEF OwnStep, UserStep, ReaderStep, WriteAction, PatchAction, RemoveAction, PurgeAction, Hydrate, Reread,
       DelLands, BeginRead, LocalHit, LocalMiss, WaitGet, Preferred, Answer, Waiting, Fallback, Revalidate,
       WaitSettle, SaveLands, BackgroundLands, BeginList, CacheSettle, CacheGet, MessagesSettle, Begins
  <2>7. Before(t)'
    <3>1. pc[o] \in {"bgput", "revalidate"} => Past(snap[o], t)
      BY <2>2, <2>3, <2>4, <2>5 DEF Before
    <3> QED BY <2>2, <2>3, <2>4, <2>6, <3>1, OwnKeepsPast
  <2>8. CASE local' = local
    BY <1>1, <2>1, <2>2, <2>4, <2>7, <2>8
  <2>9. CASE BackgroundLands(o)
    <3>1. pc[o] = "bgput" /\ local' = snap[o]
      BY <2>9 DEF BackgroundLands
    <3> QED BY <1>1, <2>1, <2>2, <2>3, <2>4, <2>5, <2>7, <3>1
  <2>10. ~SaveLands(o)
    BY <2>3 DEF SaveLands
  <2> QED BY <2>1, <2>8, <2>9, <2>10
<1> QED BY <1>2, <1>3, <1>4

\* and so does every other step.
LEMMA KeptKept ==
  TypeInv /\ Solo /\ KindInv /\ AdvanceInv /\ LandsInv /\ KeptInv /\ [Next]_vars => KeptInv'
<1> SUFFICES ASSUME TypeInv, Solo, KindInv, AdvanceInv, LandsInv, KeptInv, [Next]_vars PROVE KeptInv'
  OBVIOUS
<1>1. ASSUME NEW o \in Op, OwnStep(o) PROVE KeptInv'
  BY <1>1, KeptOwn
<1>2. ASSUME UNCHANGED <<scenario, local, edits>>, \A d \in Nat : d > 0 /\ Before(d) => Before(d)'
      PROVE  KeptInv'
  <2> SUFFICES ASSUME Plain', edits' # {} PROVE local' \in Records /\ edits' \subseteq local'.edits /\ Before(local.updatedAt + 1)'
    BY DEF KeptInv
  <2>1. local \in Records /\ edits \subseteq local.edits /\ Before(local.updatedAt + 1)
    BY <1>2 DEF KeptInv, Plain, NothingDeleted
  <2>2. PICK d \in Nat : d = local.updatedAt + 1 /\ d > 0
    BY <2>1 DEF Records
  <2>3. Before(d)'
    BY <1>2, <2>1, <2>2
  <2> QED BY <1>2, <2>1, <2>2, <2>3 DEF Before, Past
<1>3. ASSUME NEW o \in Op, ServerStep(o), UNCHANGED readerVars PROVE KeptInv'
  <2>1. UNCHANGED <<scenario, local, edits>>
    BY <1>3 DEF ServerStep, Deliver, Lose
  <2> QED BY <1>2, <1>3, <2>1, ServersKeepPast
<1>4. CASE UNCHANGED vars
  <2>1. UNCHANGED <<scenario, local, edits>> /\ \A d \in Nat : d > 0 /\ Before(d) => Before(d)'
    BY <1>4 DEF vars, recordVars, readerVars, Before, Past, NothingDeleted
  <2> QED BY <1>2, <2>1
<1> QED BY <1>1, <1>3, <1>4 DEF Next, OwnStep

\* Where nothing is deleted and operations follow one another, the local copy
\* holds every edit that landed in it, whatever readers put over it, unless one
\* is readAndWaitAction.
THEOREM EditsAreKept ==
  ASSUME ReadsAtOnce
  PROVE  Spec => []EditsKeptInTurn
<1> DEFINE Inv == TypeInv /\ Solo /\ KindInv /\ YoungInv /\ AdvanceInv /\ LandsInv /\ KeptInv
<1>1. RInit => Inv
  <2>1. RInit => AdvanceInv /\ LandsInv /\ KeptInv
    BY DEF RInit, Init, AdvanceInv, LandsInv, KeptInv
  <2> QED BY <2>1, TypedFirst, SoloFirst, YoungFirst
<1>2. Inv /\ [Next]_vars => Inv'
  BY TypedKept, SoloKept, KindKept, YoungKept, AdvanceKept, LandsKept, KeptKept
<1>3. Inv => EditsKeptInTurn
  BY ScenarioAssumption DEF KeptInv, Plain, EditsKeptInTurn, EditsKept
<1> QED BY <1>1, <1>2, <1>3, PTL DEF Spec

===============================================================================
