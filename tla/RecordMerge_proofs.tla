-------------------------- MODULE RecordMerge_proofs --------------------------
(***************************************************************************)
(* The order that database/tombstones.ts induces on the versions of a      *)
(* record, and the two merges built on it, for all times, contents and     *)
(* numbers of versions.                                                    *)
(*                                                                         *)
(* The merges are folds over the versions that arrived.  FoldLeft is       *)
(* defined by a recursive function, so the proof first shows that this     *)
(* function exists and what it returns for one element more (EndSteps),    *)
(* by an induction over a set of numbers (Climb).  The invariant MergeInv  *)
(* then says, without any order, what each fold holds of the versions.     *)
(***************************************************************************)
EXTENDS RecordMerge, SequenceTheorems, WellFoundedInduction, TLAPS

\* Two versions of one kind with one stamp: neither takes the other's place.
Tied(a, b) ==
  /\ IsTombstoneRecord(a) <=> IsTombstoneRecord(b)
  /\ Stamp(a) = Stamp(b)

\* The live versions carry the evidence of a restoration forward: a version
\* that is at least as recent holds a restoredAt at least as recent.
Carries(S) ==
  \A a, b \in S :
    /\ ~IsTombstoneRecord(a) /\ ~IsTombstoneRecord(b)
    /\ GetRecordTimestamp(a) >= GetRecordTimestamp(b)
    => GetRestoreTimestamp(a) >= GetRestoreTimestamp(b)

\* shouldReplaceWithNextRecord never lets two versions replace each other, so
\* two devices that exchange their versions do not swap them for ever.
THEOREM Asymmetric ==
  ASSUME NEW a \in Version(Nat), NEW b \in Version(Nat),
         ShouldReplaceWithNextRecord(a, b)
  PROVE  ~ShouldReplaceWithNextRecord(b, a)
BY DEF Version, ShouldReplaceWithNextRecord, IsRestoredAfterTombstone, Stamp,
       IsTombstoneRecord, GetTombstoneTimestamp, GetRecordTimestamp, GetRestoreTimestamp

\* Of two versions one replaces the other, ties of one kind and stamp aside:
\* a deletion and a live version are never left undecided.
THEOREM DecidedUpToTies ==
  ASSUME NEW a \in Version(Nat), NEW b \in Version(Nat), ~Tied(a, b)
  PROVE  ShouldReplaceWithNextRecord(a, b) \/ ShouldReplaceWithNextRecord(b, a)
BY DEF Version, Tied, ShouldReplaceWithNextRecord, IsRestoredAfterTombstone, Stamp,
       IsTombstoneRecord, GetTombstoneTimestamp, GetRecordTimestamp, GetRestoreTimestamp

\* The tombstone that buildTombstoneRecord makes replaces every live version
\* that was not restored later, also one with a later updatedAt.
THEOREM DeletionPrevails ==
  ASSUME NEW r \in Version(Nat), NEW live \in Version(Nat), NEW now \in Nat \ {0},
         ~IsTombstoneRecord(live), GetRestoreTimestamp(live) <= now
  PROVE  ShouldReplaceWithNextRecord(BuildTombstoneRecord(r, now), live)
<1> DEFINE t == BuildTombstoneRecord(r, now)
<1>1. t \in Version(Nat) /\ t.deletedAt = now
  BY DEF Version, BuildTombstoneRecord
<1>2. IsTombstoneRecord(t) /\ GetTombstoneTimestamp(t) = now
  BY <1>1 DEF IsTombstoneRecord, GetTombstoneTimestamp
<1>3. ~IsRestoredAfterTombstone(live, t)
  BY <1>2 DEF IsRestoredAfterTombstone, Version, GetRestoreTimestamp
<1> QED BY <1>2, <1>3 DEF ShouldReplaceWithNextRecord

\* The restore patch, stamped after a deletion, replaces its tombstone.
THEOREM RestorePrevails ==
  ASSUME NEW r \in Version(Nat), NEW t \in Version(Nat), NEW now \in Nat,
         IsTombstoneRecord(t), GetTombstoneTimestamp(t) < now
  PROVE  ShouldReplaceWithNextRecord(ApplyRestorePatch(r, now), t)
<1> DEFINE a == ApplyRestorePatch(r, now)
<1>1. a.deletedAt = 0 /\ a.restoredAt = now
  BY DEF Version, ApplyRestorePatch
<1>2. ~IsTombstoneRecord(a) /\ GetRestoreTimestamp(a) = now
  BY <1>1 DEF IsTombstoneRecord, GetRestoreTimestamp
<1>3. GetTombstoneTimestamp(t) \in Nat /\ GetTombstoneTimestamp(t) > 0
  BY DEF IsTombstoneRecord, GetTombstoneTimestamp, GetRecordTimestamp, Version
<1>4. IsRestoredAfterTombstone(a, t)
  <2>1. now > 0 /\ now > GetTombstoneTimestamp(t)
    BY <1>3
  <2> QED BY <1>2, <1>3, <2>1 DEF IsRestoredAfterTombstone
<1> QED BY <1>2, <1>4 DEF ShouldReplaceWithNextRecord

\* Where live versions carry their restorations forward the comparison is
\* transitive: only then does a fold over versions not depend on their order.
THEOREM TransitiveWhenCarried ==
  ASSUME NEW S \in SUBSET Version(Nat), Carries(S),
         NEW a \in S, NEW b \in S, NEW c \in S,
         ShouldReplaceWithNextRecord(a, b), ShouldReplaceWithNextRecord(b, c)
  PROVE  ShouldReplaceWithNextRecord(a, c)
<1>1. a \in Version(Nat) /\ b \in Version(Nat) /\ c \in Version(Nat)
  OBVIOUS
<1> DEFINE Carried(x, y) ==
      ~IsTombstoneRecord(x) /\ ~IsTombstoneRecord(y) /\ x.updatedAt >= y.updatedAt
        => x.restoredAt >= y.restoredAt
<1>2. Carried(a, b) /\ Carried(b, c) /\ Carried(c, a) /\ Carried(a, c)
  BY DEF Carries, GetRecordTimestamp, GetRestoreTimestamp
<1> QED
  BY <1>1, <1>2 DEF Version, ShouldReplaceWithNextRecord, IsRestoredAfterTombstone,
     Stamp, IsTombstoneRecord, GetTombstoneTimestamp, GetRecordTimestamp, GetRestoreTimestamp

-----------------------------------------------------------------------------

\* Induction, as a fact about sets of numbers.
LEMMA Climb ==
  ASSUME NEW T, T \subseteq Nat, 0 \in T, \A n \in T : n + 1 \in T
  PROVE  T = Nat
<1> SUFFICES ASSUME Nat \ T # {} PROVE FALSE
  OBVIOUS
<1> DEFINE D == Nat \ T
<1>1. D \subseteq Nat /\ D # {}
  OBVIOUS
<1> HIDE DEF D
<1>2. PICK x \in D : \A y \in D : ~ (<<y, x>> \in OpToRel(<, Nat))
  BY <1>1, WFMin, NatLessThanWellFounded
<1>3. x \in Nat /\ x \notin T /\ x # 0
  BY <1>2 DEF D
<1>4. <<x - 1, x>> \in OpToRel(<, Nat) /\ x - 1 \in Nat
  BY <1>3 DEF OpToRel
<1>5. x - 1 \in T
  BY <1>2, <1>4 DEF D
<1>6. (x - 1) + 1 \in T /\ (x - 1) + 1 = x
  BY <1>3, <1>5
<1> QED BY <1>3, <1>6

\* A set of bounded numbers has a last one.
LEMMA MaxIn ==
  ASSUME NEW n \in Nat, NEW S, S \subseteq 0 .. n, S # {}
  PROVE  Max(S) \in S /\ \A y \in S : Max(S) >= y
<1> DEFINE U == {m \in Nat : \A y \in S : m >= y}
<1>1. n \in U /\ U \subseteq Nat
  OBVIOUS
<1> HIDE DEF U
<1>2. PICK u \in U : \A m \in U : ~ (<<m, u>> \in OpToRel(<, Nat))
  BY <1>1, WFMin, NatLessThanWellFounded
<1>3. u \in Nat /\ \A y \in S : u >= y
  BY <1>2 DEF U
<1>4. u \in S
  <2> SUFFICES ASSUME u \notin S PROVE FALSE
    OBVIOUS
  <2>1. \A y \in S : y \in Nat /\ u > y
    BY <1>3
  <2>2. u - 1 \in Nat /\ \A y \in S : u - 1 >= y
    <3>1. PICK y \in S : y \in Nat /\ u > y
      BY <2>1
    <3>2. u - 1 \in Nat
      BY <1>3, <3>1
    <3> QED BY <1>3, <2>1, <3>2
  <2>3. u - 1 \in U /\ u - 1 < u
    BY <1>3, <2>2 DEF U
  <2> QED BY <1>2, <1>3, <2>2, <2>3 DEF OpToRel
<1> QED BY <1>3, <1>4 DEF Max

\* The last number of an interval.
LEMMA LastIsMax == ASSUME NEW n \in Nat PROVE Max(1 .. n + 1) = n + 1 /\ (1 .. n + 1) \ {n + 1} = 1 .. n
<1>1. n + 1 \in 1 .. n + 1 /\ \A y \in 1 .. n + 1 : n + 1 >= y
  OBVIOUS
<1>2. \A x \in 1 .. n + 1 : (\A y \in 1 .. n + 1 : x >= y) => x = n + 1
  BY <1>1
<1>3. Max(1 .. n + 1) = n + 1
  BY <1>1, <1>2 DEF Max
<1> QED BY <1>3

-----------------------------------------------------------------------------

\* op stays in A for what is folded into it out of B.
Closed(op, A, B) == \A a \in A, b \in B : op[<<a, b>>] \in A

\* The function by which FoldLeft is defined, for a folded function op.
Folding(h, op, q, w, n) ==
  h = [d \in SUBSET (1 .. n) |-> IF d = {} THEN q ELSE op[<<h[d \ {Max(d)}], w[Max(d)]>>]]

\* Its steps.
LEMMA FoldingStep ==
  ASSUME NEW h, NEW op, NEW q, NEW w, NEW n, Folding(h, op, q, w, n), NEW d \in SUBSET (1 .. n)
  PROVE  h[d] = IF d = {} THEN q ELSE op[<<h[d \ {Max(d)}], w[Max(d)]>>]
BY Zenon DEF Folding

\* It exists, and what it returns is in the set that op stays in.
LEMMA FoldingExists ==
  ASSUME NEW A, NEW B, NEW op, Closed(op, A, B), NEW q \in A, NEW w \in Seq(B), NEW n \in Nat, n <= Len(w)
  PROVE  \E h \in [SUBSET (1 .. n) -> A] : Folding(h, op, q, w, n)
<1> DEFINE P(k) == \E h \in [SUBSET (1 .. k) -> A] : Folding(h, op, q, w, k)
           T == {k \in Nat : k <= Len(w) => P(k)}
           V(d, x) == IF d = {} THEN q ELSE op[<<x, w[Max(d)]>>]
<1>1. 0 \in T
  <2> DEFINE h == [d \in SUBSET (1 .. 0) |-> q]
  <2>1. \A d \in SUBSET (1 .. 0) : d = {}
    OBVIOUS
  <2>2. h = [d \in SUBSET (1 .. 0) |-> V(d, h[d \ {Max(d)}])]
    BY <2>1
  <2>3. Folding(h, op, q, w, 0)
    BY <2>2 DEF Folding
  <2>4. h \in [SUBSET (1 .. 0) -> A]
    OBVIOUS
  <2> HIDE DEF h
  <2> QED BY <2>3, <2>4
<1>2. ASSUME NEW k \in T PROVE k + 1 \in T
  <2>0. k \in Nat
    OBVIOUS
  <2> HIDE DEF P
  <2> SUFFICES ASSUME k + 1 <= Len(w) PROVE P(k + 1)
    BY <2>0
  <2>1. PICK f \in [SUBSET (1 .. k) -> A] : Folding(f, op, q, w, k)
    <3>1. k <= Len(w)
      BY <2>0
    <3>2. P(k)
      BY <1>2, <3>1
    <3> QED BY <3>2 DEF P
  <2> DEFINE h == [d \in SUBSET (1 .. k + 1) |->
                     IF k + 1 \in d THEN V(d, f[d \ {k + 1}]) ELSE f[d]]
  <2> HIDE DEF T
  <2>2. ASSUME NEW d \in SUBSET (1 .. k + 1), k + 1 \in d
        PROVE  Max(d) = k + 1 /\ d \ {k + 1} \in SUBSET (1 .. k) /\ k + 1 \notin d \ {k + 1}
    <3>1. \A y \in d : k + 1 >= y
      BY <2>0
    <3>2. \A x \in d : (\A y \in d : x >= y) => x = k + 1
      BY <2>0, <2>2, <3>1
    <3>3. Max(d) = k + 1
      BY <2>2, <3>1, <3>2 DEF Max
    <3>4. ASSUME NEW y \in d \ {k + 1} PROVE y \in 1 .. k
      BY <2>0
    <3> QED BY <3>3, <3>4
  <2>3. ASSUME NEW d \in SUBSET (1 .. k + 1), k + 1 \notin d
        PROVE  d \in SUBSET (1 .. k) /\ k + 1 \notin d \ {Max(d)} /\ d \ {Max(d)} \in SUBSET (1 .. k)
    <3>1. ASSUME NEW y \in d PROVE y \in 1 .. k
      BY <2>0, <2>3
    <3> QED BY <2>3, <3>1
  <2>4. ASSUME NEW d \in SUBSET (1 .. k + 1) PROVE h[d] = V(d, h[d \ {Max(d)}]) /\ h[d] \in A
    <3>1. CASE k + 1 \in d
      <4>1. Max(d) = k + 1 /\ d \ {k + 1} \in SUBSET (1 .. k) /\ k + 1 \notin d \ {k + 1}
        BY <2>2, <3>1
      <4>2. d \ {k + 1} \in SUBSET (1 .. k + 1)
        OBVIOUS
      <4>3. h[d \ {k + 1}] = f[d \ {k + 1}] /\ h[d] = V(d, f[d \ {k + 1}])
        BY <3>1, <4>1, <4>2
      <4>4. f[d \ {k + 1}] \in A
        BY <2>1, <4>1
      <4>5. w[k + 1] \in B
        BY <2>0
      <4>6. d # {}
        BY <3>1
      <4> DEFINE a == f[d \ {k + 1}]
                 b == w[k + 1]
      <4>7. h[d] = op[<<a, b>>]
        BY <4>1, <4>3, <4>6
      <4>8. a \in A /\ b \in B
        BY <4>4, <4>5
      <4> HIDE DEF a, b, h
      <4>9. op[<<a, b>>] \in A
        BY <4>8 DEF Closed
      <4> QED BY <4>1, <4>3, <4>7, <4>9
    <3>2. CASE k + 1 \notin d
      <4> DEFINE e == d \ {Max(d)}
      <4>1. d \in SUBSET (1 .. k) /\ k + 1 \notin e /\ e \in SUBSET (1 .. k) /\ e \in SUBSET (1 .. k + 1)
        BY <2>3, <3>2
      <4>2. f[d] = V(d, f[e])
        <5>1. f = [x \in SUBSET (1 .. k) |-> V(x, f[x \ {Max(x)}])]
          BY <2>1 DEF Folding
        <5>2. d \in SUBSET (1 .. k)
          BY <4>1
        <5> HIDE DEF h, V
        <5> QED BY <5>1, <5>2, Zenon
      <4> HIDE DEF e
      <4>3. h[d] = f[d] /\ h[e] = f[e] /\ f[d] \in A
        BY <2>1, <3>2, <4>1
      <4> QED BY <4>2, <4>3 DEF e
    <3> QED BY <3>1, <3>2
  <2>5. h = [d \in SUBSET (1 .. k + 1) |-> V(d, h[d \ {Max(d)}])]
    <3> HIDE DEF V
    <3> QED BY <2>4
  <2>6. h \in [SUBSET (1 .. k + 1) -> A]
    BY <2>4
  <2> HIDE DEF h
  <2>7. Folding(h, op, q, w, k + 1)
    BY <2>5 DEF Folding
  <2> QED BY <2>6, <2>7 DEF P
<1>3. T \subseteq Nat
  OBVIOUS
<1> HIDE DEF T
<1>4. T = Nat
  BY <1>1, <1>2, <1>3, Climb
<1>5. P(n)
  BY <1>4 DEF T
<1> QED BY <1>5

\* All that matters of such a function: its values on the prefixes of w.
Climbs(h, op, A, q, w) ==
  /\ h[{}] = q
  /\ \A k \in Nat : k < Len(w) /\ h[1 .. k] \in A => h[1 .. k + 1] = op[<<h[1 .. k], w[k + 1]>>]

\* The fold of w by op.
End(op, A, q, w) == (CHOOSE h : Climbs(h, op, A, q, w))[1 .. Len(w)]

\* Two such functions agree as far as their sequences do.
LEMMA ClimbsAgree ==
  ASSUME NEW A, NEW B, NEW op, Closed(op, A, B), NEW q \in A, NEW v \in Seq(B), NEW w \in Seq(B),
         NEW g, NEW h, Climbs(g, op, A, q, v), Climbs(h, op, A, q, w), NEW n \in Nat,
         n <= Len(v), n <= Len(w), \A k \in 1 .. n : v[k] = w[k]
  PROVE  g[1 .. n] = h[1 .. n] /\ g[1 .. n] \in A
<1> DEFINE T == {k \in Nat : k <= n => g[1 .. k] = h[1 .. k] /\ g[1 .. k] \in A}
<1>1. 0 \in T
  <2>1. 1 .. 0 = {}
    OBVIOUS
  <2> QED BY <2>1 DEF Climbs
<1>2. ASSUME NEW k \in T PROVE k + 1 \in T
  <2>1. k \in Nat
    OBVIOUS
  <2> SUFFICES ASSUME k + 1 <= n PROVE g[1 .. k + 1] = h[1 .. k + 1] /\ g[1 .. k + 1] \in A
    BY <2>1
  <2> DEFINE a == g[1 .. k]
             b == v[k + 1]
  <2>2. a = h[1 .. k] /\ a \in A /\ k < Len(v) /\ k < Len(w)
    BY <2>1
  <2>3. b = w[k + 1] /\ b \in B
    BY <2>1
  <2>4. g[1 .. k + 1] = op[<<a, b>>] /\ h[1 .. k + 1] = op[<<a, b>>]
    BY <2>1, <2>2, <2>3 DEF Climbs
  <2> HIDE DEF a, b
  <2>5. op[<<a, b>>] \in A
    BY <2>2, <2>3 DEF Closed
  <2> QED BY <2>4, <2>5
<1>3. T \subseteq Nat
  OBVIOUS
<1> HIDE DEF T
<1>4. T = Nat
  BY <1>1, <1>2, <1>3, Climb
<1>5. n \in T /\ n <= n
  BY <1>4
<1> QED BY <1>5 DEF T

\* There is a function that climbs: the one FoldLeft is defined by.
LEMMA ClimbsExists ==
  ASSUME NEW A, NEW B, NEW op, Closed(op, A, B), NEW q \in A, NEW w \in Seq(B)
  PROVE  \E h \in [SUBSET (1 .. Len(w)) -> A] : Folding(h, op, q, w, Len(w)) /\ Climbs(h, op, A, q, w)
<1>1. Len(w) \in Nat /\ Len(w) <= Len(w)
  OBVIOUS
<1>2. PICK h \in [SUBSET (1 .. Len(w)) -> A] : Folding(h, op, q, w, Len(w))
  BY <1>1, FoldingExists
<1>3. h[{}] = q
  BY <1>2, FoldingStep
<1>4. ASSUME NEW k \in Nat, k < Len(w) PROVE h[1 .. k + 1] = op[<<h[1 .. k], w[k + 1]>>]
  <2> DEFINE d == 1 .. k + 1
  <2>1. Max(d) = k + 1 /\ d \ {k + 1} = 1 .. k
    BY LastIsMax
  <2>2. d \in SUBSET (1 .. Len(w)) /\ d # {}
    <3>1. k + 1 \in d
      OBVIOUS
    <3>2. ASSUME NEW y \in d PROVE y \in 1 .. Len(w)
      BY <1>1, <1>4
    <3> QED BY <3>1, <3>2
  <2> HIDE DEF d
  <2>3. h[d] = op[<<h[d \ {Max(d)}], w[Max(d)]>>]
    <3>1. h = [x \in SUBSET (1 .. Len(w)) |-> IF x = {} THEN q ELSE op[<<h[x \ {Max(x)}], w[Max(x)]>>]]
      BY <1>2 DEF Folding
    <3>2. h[d] = IF d = {} THEN q ELSE op[<<h[d \ {Max(d)}], w[Max(d)]>>]
      BY <2>2, <3>1, Zenon
    <3> QED BY <2>2, <3>2
  <2> QED BY <2>1, <2>3 DEF d
<1> QED BY <1>2, <1>3, <1>4 DEF Climbs

\* Any function that climbs ends with the fold.
LEMMA EndIs ==
  ASSUME NEW A, NEW B, NEW op, Closed(op, A, B), NEW q \in A, NEW w \in Seq(B), NEW h, Climbs(h, op, A, q, w)
  PROVE  End(op, A, q, w) = h[1 .. Len(w)] /\ h[1 .. Len(w)] \in A
<1> DEFINE g == CHOOSE g : Climbs(g, op, A, q, w)
<1>1. Climbs(g, op, A, q, w)
  OBVIOUS
<1>2. End(op, A, q, w) = g[1 .. Len(w)]
  BY DEF End
<1> HIDE DEF g
<1>3. Len(w) \in Nat /\ Len(w) <= Len(w) /\ \A k \in 1 .. Len(w) : w[k] = w[k]
  OBVIOUS
<1>4. h[1 .. Len(w)] = g[1 .. Len(w)] /\ h[1 .. Len(w)] \in A
  BY <1>1, <1>3, ClimbsAgree
<1> QED BY <1>2, <1>4

\* The fold of nothing.
LEMMA EndEmpty ==
  ASSUME NEW A, NEW B, NEW op, Closed(op, A, B), NEW q \in A
  PROVE  End(op, A, q, <<>>) = q
<1>1. <<>> \in Seq(B) /\ Len(<<>>) = 0 /\ 1 .. 0 = {}
  OBVIOUS
<1>2. PICK e : Climbs(e, op, A, q, <<>>)
  BY <1>1, ClimbsExists
<1>3. End(op, A, q, <<>>) = e[1 .. Len(<<>>)]
  <2> DEFINE z == <<>>
  <2>1. z \in Seq(B) /\ Climbs(e, op, A, q, z)
    BY <1>1, <1>2
  <2> HIDE DEF z
  <2>2. End(op, A, q, z) = e[1 .. Len(z)]
    <3>1. \A u \in Seq(B) : \A f : Climbs(f, op, A, q, u) => End(op, A, q, u) = f[1 .. Len(u)]
      BY EndIs
    <3> QED BY <2>1, <3>1, Zenon
  <2> QED BY <2>2 DEF z
<1> QED BY <1>1, <1>2, <1>3 DEF Climbs

\* The fold of nothing, and of one element more.
LEMMA EndSteps ==
  ASSUME NEW A, NEW B, NEW op, Closed(op, A, B), NEW q \in A, NEW w \in Seq(B), NEW x \in B
  PROVE  /\ End(op, A, q, w) \in A
         /\ End(op, A, q, <<>>) = q
         /\ End(op, A, q, Append(w, x)) = op[<<End(op, A, q, w), x>>]
<1> DEFINE v == Append(w, x)
           n == Len(w)
<1>1. v \in Seq(B) /\ Len(v) = n + 1 /\ v[n + 1] = x /\ n \in Nat /\ \A k \in 1 .. n : w[k] = v[k]
  OBVIOUS
<1> HIDE DEF v
<1>2. PICK g : Climbs(g, op, A, q, w)
  BY ClimbsExists
<1>3. PICK h : Climbs(h, op, A, q, v)
  BY <1>1, ClimbsExists
<1>4. End(op, A, q, w) = g[1 .. n] /\ g[1 .. n] \in A
  BY <1>2, EndIs
<1>5. End(op, A, q, v) = h[1 .. n + 1]
  <2>1. End(op, A, q, v) = h[1 .. Len(v)]
    <3>1. v \in Seq(B)
      BY <1>1
    <3>2. \A u \in Seq(B) : \A f : Climbs(f, op, A, q, u) => End(op, A, q, u) = f[1 .. Len(u)]
      BY EndIs
    <3> QED BY <1>3, <3>1, <3>2, Zenon
  <2> QED BY <1>1, <2>1
<1>6. g[1 .. n] = h[1 .. n]
  <2>1. n <= Len(w) /\ n <= Len(v)
    BY <1>1
  <2>2. \A k \in 1 .. n : w[k] = v[k]
    BY <1>1
  <2>3. v \in Seq(B) /\ n \in Nat
    BY <1>1
  <2> HIDE DEF n
  <2>4. \A u \in Seq(B) : \A f : Climbs(f, op, A, q, u) /\ n <= Len(w) /\ n <= Len(u) /\ (\A k \in 1 .. n : w[k] = u[k])
          => g[1 .. n] = f[1 .. n]
    BY <1>2, <2>3, ClimbsAgree
  <2> QED BY <1>3, <2>1, <2>2, <2>3, <2>4, Zenon
<1>7. h[1 .. n + 1] = op[<<h[1 .. n], x>>]
  BY <1>1, <1>3, <1>4, <1>6 DEF Climbs
<1>8. End(op, A, q, <<>>) = q
  BY EndEmpty
<1> QED BY <1>4, <1>5, <1>6, <1>7, <1>8 DEF v

\* The last of a set of indices is one of them.
LEMMA IndexIn ==
  ASSUME NEW n \in Nat, NEW d \in SUBSET (1 .. n), d # {}
  PROVE  Max(d) \in 1 .. n /\ d \ {Max(d)} \in SUBSET (1 .. n)
<1>1. d \subseteq 0 .. n
  OBVIOUS
<1>2. Max(d) \in d
  BY <1>1, MaxIn
<1> QED BY <1>2

\* The function by which FoldLeft is defined, with what its steps are about.
LEMMA FoldingIn ==
  ASSUME NEW A, NEW B, NEW op, Closed(op, A, B), NEW q \in A, NEW s \in Seq(B)
  PROVE  \E h \in [SUBSET (1 .. Len(s)) -> A] :
           \A d \in SUBSET (1 .. Len(s)) :
             /\ d = {} => h[d] = q
             /\ d # {} => /\ h[d] = op[<<h[d \ {Max(d)}], s[Max(d)]>>]
                          /\ h[d \ {Max(d)}] \in A /\ s[Max(d)] \in B
<1>1. PICK h \in [SUBSET (1 .. Len(s)) -> A] : Folding(h, op, q, s, Len(s))
  BY ClimbsExists
<1>2. h = [d \in SUBSET (1 .. Len(s)) |-> IF d = {} THEN q ELSE op[<<h[d \ {Max(d)}], s[Max(d)]>>]]
  BY <1>1 DEF Folding
<1>3. ASSUME NEW d \in SUBSET (1 .. Len(s)), d # {}
      PROVE  h[d \ {Max(d)}] \in A /\ s[Max(d)] \in B
  <2>1. Max(d) \in 1 .. Len(s) /\ d \ {Max(d)} \in SUBSET (1 .. Len(s))
    BY <1>3, IndexIn
  <2> QED BY <1>1, <2>1
<1>4. \A d \in SUBSET (1 .. Len(s)) : h[d] = IF d = {} THEN q ELSE op[<<h[d \ {Max(d)}], s[Max(d)]>>]
  BY <1>2, Zenon
<1>5. \A d \in SUBSET (1 .. Len(s)) :
        /\ d = {} => h[d] = q
        /\ d # {} => /\ h[d] = op[<<h[d \ {Max(d)}], s[Max(d)]>>]
                     /\ h[d \ {Max(d)}] \in A /\ s[Max(d)] \in B
  BY <1>3, <1>4
<1> QED BY <1>1, <1>5

\* The steps of that function, where it keeps to A.
Steps(g, op, A, B, q, s) ==
  \A d \in SUBSET (1 .. Len(s)) :
    /\ d = {} => g[d] = q
    /\ d # {} /\ g[d \ {Max(d)}] \in A /\ s[Max(d)] \in B =>
         g[d] = op[<<g[d \ {Max(d)}], s[Max(d)]>>]

\* A function that takes these steps ends with the fold.
LEMMA FoldsTo ==
  ASSUME NEW A, NEW B, NEW op, Closed(op, A, B), NEW q \in A, NEW s \in Seq(B), NEW g,
         Steps(g, op, A, B, q, s)
  PROVE  g[1 .. Len(s)] = End(op, A, q, s)
<1>1. g[{}] = q
  BY DEF Steps
<1>2. ASSUME NEW k \in Nat, k < Len(s), g[1 .. k] \in A PROVE g[1 .. k + 1] = op[<<g[1 .. k], s[k + 1]>>]
  <2> DEFINE d == 1 .. k + 1
  <2>1. Max(d) = k + 1 /\ d \ {k + 1} = 1 .. k
    BY LastIsMax
  <2>2. d \in SUBSET (1 .. Len(s)) /\ d # {} /\ s[k + 1] \in B
    <3>1. Len(s) \in Nat /\ k \in Nat /\ k < Len(s)
      BY <1>2
    <3>2. d \subseteq 1 .. Len(s) /\ k + 1 \in d /\ k + 1 \in 1 .. Len(s)
      <4> DEFINE n == Len(s)
      <4>1. n \in Nat /\ k \in Nat /\ k < n
        BY <3>1
      <4> HIDE DEF n
      <4>2. 1 .. k + 1 \subseteq 1 .. n /\ k + 1 \in 1 .. k + 1 /\ k + 1 \in 1 .. n
        BY <4>1
      <4> QED BY <4>2 DEF n
    <3>3. s[k + 1] \in B
      BY <3>2
    <3> QED BY <3>2, <3>3
  <2> HIDE DEF d
  <2>3. g[d \ {Max(d)}] \in A /\ s[Max(d)] \in B
    BY <1>2, <2>1, <2>2
  <2>4. g[d] = op[<<g[d \ {Max(d)}], s[Max(d)]>>]
    BY <2>2, <2>3 DEF Steps
  <2> QED BY <2>1, <2>4 DEF d
<1>3. Climbs(g, op, A, q, s)
  BY <1>1, <1>2 DEF Climbs
<1> QED BY <1>3, EndIs

-----------------------------------------------------------------------------

\* A map entry: nothing or one version.
Entry == {<<>>} \cup {<<v>> : v \in Evidence}

\* AddToMap keeps to entries.
LEMMA AddsEntry == ASSUME NEW a \in Entry, NEW v \in Evidence PROVE AddToMap(a, v) \in Entry
BY DEF AddToMap, Entry

-----------------------------------------------------------------------------

\* The step of Tombstone, as a function.
TombStep == [z \in Entry \X Evidence |-> IF IsTombstoneRecord(z[2]) THEN AddToMap(z[1], z[2]) ELSE z[1]]

\* Its values: it keeps to map entries.
LEMMA TombStepIs ==
  ASSUME NEW a \in Entry, NEW v \in Evidence
  PROVE  /\ TombStep[<<a, v>>] = IF IsTombstoneRecord(v) THEN AddToMap(a, v) ELSE a
         /\ TombStep[<<a, v>>] \in Entry
<1>1. <<a, v>> \in Entry \X Evidence
  OBVIOUS
<1>2. TombStep[<<a, v>>] = IF IsTombstoneRecord(v) THEN AddToMap(a, v) ELSE a
  BY <1>1 DEF TombStep
<1> QED BY <1>2, AddsEntry

\* Tombstone is the fold by that step.
LEMMA TombstoneEnd ==
  ASSUME NEW s \in Seq(Evidence)
  PROVE  Tombstone(s) = End(TombStep, Entry, <<>>, s)
<1> DEFINE G(x, v) == IF IsTombstoneRecord(v) THEN AddToMap(x, v) ELSE x
           F(g) == g = [d \in SUBSET (DOMAIN s) |-> IF d = {} THEN <<>> ELSE G(g[d \ {Max(d)}], s[Max(d)])]
           g == CHOOSE g : F(g)
<1>0. DOMAIN s = 1 .. Len(s)
  OBVIOUS
<1>1. Tombstone(s) = g[DOMAIN s]
  BY DEF Tombstone, FoldLeft, MapThenFoldSet
<1>2. /\ <<>> \in Entry /\ Closed(TombStep, Entry, Evidence)
      /\ \A x \in Entry, v \in Evidence : TombStep[<<x, v>>] = G(x, v)
  BY TombStepIs DEF Entry, Closed
<1> HIDE DEF G
<1>3. \E h : F(h)
  <2>1. PICK h \in [SUBSET (1 .. Len(s)) -> Entry] :
          \A d \in SUBSET (1 .. Len(s)) :
            /\ d = {} => h[d] = <<>>
            /\ d # {} => /\ h[d] = TombStep[<<h[d \ {Max(d)}], s[Max(d)]>>]
                         /\ h[d \ {Max(d)}] \in Entry /\ s[Max(d)] \in Evidence
    BY <1>2, FoldingIn
  <2>2. F(h)
    BY <1>0, <1>2, <2>1
  <2> QED BY <2>2
<1>4. F(g)
  BY <1>3
<1> HIDE DEF g
<1>5. g = [d \in SUBSET (DOMAIN s) |-> IF d = {} THEN <<>> ELSE G(g[d \ {Max(d)}], s[Max(d)])]
  BY <1>4
<1>6. \A d \in SUBSET (DOMAIN s) : g[d] = IF d = {} THEN <<>> ELSE G(g[d \ {Max(d)}], s[Max(d)])
  BY <1>5, Zenon
<1>7. \A d \in SUBSET (1 .. Len(s)) :
        /\ d = {} => g[d] = <<>>
        /\ d # {} /\ g[d \ {Max(d)}] \in Entry /\ s[Max(d)] \in Evidence =>
             g[d] = TombStep[<<g[d \ {Max(d)}], s[Max(d)]>>]
  BY <1>0, <1>2, <1>6
<1>8. g[1 .. Len(s)] = End(TombStep, Entry, <<>>, s)
  <2>1. <<>> \in Entry /\ Closed(TombStep, Entry, Evidence)
    BY <1>2
  <2>2. Steps(g, TombStep, Entry, Evidence, <<>>, s)
    BY <1>7 DEF Steps
  <2> QED BY <2>1, <2>2, FoldsTo
<1> QED BY <1>0, <1>1, <1>8

\* What Tombstone keeps of nothing and of one version more.
LEMMA TombstoneSteps ==
  ASSUME NEW s \in Seq(Evidence), NEW v \in Evidence
  PROVE  /\ Tombstone(s) \in Entry
         /\ Tombstone(<<>>) = <<>>
         /\ Tombstone(Append(s, v)) = IF IsTombstoneRecord(v) THEN AddToMap(Tombstone(s), v) ELSE Tombstone(s)
<1>1. <<>> \in Entry /\ Closed(TombStep, Entry, Evidence)
  BY TombStepIs DEF Entry, Closed
<1>2. /\ End(TombStep, Entry, <<>>, s) \in Entry
      /\ End(TombStep, Entry, <<>>, <<>>) = <<>>
      /\ End(TombStep, Entry, <<>>, Append(s, v)) = TombStep[<<End(TombStep, Entry, <<>>, s), v>>]
  BY <1>1, EndSteps
<1>3. /\ Tombstone(s) = End(TombStep, Entry, <<>>, s)
      /\ Tombstone(<<>>) = End(TombStep, Entry, <<>>, <<>>)
      /\ Tombstone(Append(s, v)) = End(TombStep, Entry, <<>>, Append(s, v))
  <2>1. Append(s, v) \in Seq(Evidence) /\ <<>> \in Seq(Evidence)
    OBVIOUS
  <2> QED BY <2>1, TombstoneEnd
<1>4. TombStep[<<Tombstone(s), v>>] = IF IsTombstoneRecord(v) THEN AddToMap(Tombstone(s), v) ELSE Tombstone(s)
  BY <1>2, <1>3, TombStepIs
<1> QED BY <1>2, <1>3, <1>4

\* What Actives returns.
Rows == Seq(Evidence)

\* The step of Actives, as a function.
ActiveStep == [z \in Rows \X Evidence |-> IF IsTombstoneRecord(z[2]) THEN z[1] ELSE Append(z[1], z[2])]

\* Its values: nothing that is not a version gets in.
LEMMA ActiveStepIs ==
  ASSUME NEW a \in Rows, NEW v \in Evidence
  PROVE  /\ ActiveStep[<<a, v>>] = IF IsTombstoneRecord(v) THEN a ELSE Append(a, v)
         /\ ActiveStep[<<a, v>>] \in Rows
<1>1. <<a, v>> \in Rows \X Evidence
  OBVIOUS
<1>2. ActiveStep[<<a, v>>] = IF IsTombstoneRecord(v) THEN a ELSE Append(a, v)
  BY <1>1 DEF ActiveStep
<1> QED BY <1>2 DEF Rows

\* Actives is the fold by that step.
LEMMA ActivesEnd ==
  ASSUME NEW s \in Seq(Evidence)
  PROVE  Actives(s) = End(ActiveStep, Rows, <<>>, s)
<1> DEFINE G(x, v) == IF IsTombstoneRecord(v) THEN x ELSE Append(x, v)
           F(g) == g = [d \in SUBSET (DOMAIN s) |-> IF d = {} THEN <<>> ELSE G(g[d \ {Max(d)}], s[Max(d)])]
           g == CHOOSE g : F(g)
<1>0. DOMAIN s = 1 .. Len(s)
  OBVIOUS
<1>1. Actives(s) = g[DOMAIN s]
  BY DEF Actives, FoldLeft, MapThenFoldSet
<1>2. /\ <<>> \in Rows /\ Closed(ActiveStep, Rows, Evidence)
      /\ \A x \in Rows, v \in Evidence : ActiveStep[<<x, v>>] = G(x, v)
  BY ActiveStepIs DEF Rows, Closed
<1> HIDE DEF G
<1>3. \E h : F(h)
  <2>1. PICK h \in [SUBSET (1 .. Len(s)) -> Rows] :
          \A d \in SUBSET (1 .. Len(s)) :
            /\ d = {} => h[d] = <<>>
            /\ d # {} => /\ h[d] = ActiveStep[<<h[d \ {Max(d)}], s[Max(d)]>>]
                         /\ h[d \ {Max(d)}] \in Rows /\ s[Max(d)] \in Evidence
    BY <1>2, FoldingIn
  <2>2. F(h)
    BY <1>0, <1>2, <2>1
  <2> QED BY <2>2
<1>4. F(g)
  BY <1>3
<1> HIDE DEF g
<1>5. g = [d \in SUBSET (DOMAIN s) |-> IF d = {} THEN <<>> ELSE G(g[d \ {Max(d)}], s[Max(d)])]
  BY <1>4
<1>6. \A d \in SUBSET (DOMAIN s) : g[d] = IF d = {} THEN <<>> ELSE G(g[d \ {Max(d)}], s[Max(d)])
  BY <1>5, Zenon
<1>7. \A d \in SUBSET (1 .. Len(s)) :
        /\ d = {} => g[d] = <<>>
        /\ d # {} /\ g[d \ {Max(d)}] \in Rows /\ s[Max(d)] \in Evidence =>
             g[d] = ActiveStep[<<g[d \ {Max(d)}], s[Max(d)]>>]
  BY <1>0, <1>2, <1>6
<1>8. g[1 .. Len(s)] = End(ActiveStep, Rows, <<>>, s)
  <2>1. <<>> \in Rows /\ Closed(ActiveStep, Rows, Evidence)
    BY <1>2
  <2>2. Steps(g, ActiveStep, Rows, Evidence, <<>>, s)
    BY <1>7 DEF Steps
  <2> QED BY <2>1, <2>2, FoldsTo
<1> QED BY <1>0, <1>1, <1>8

\* What Actives returns of nothing and of one version more.
LEMMA ActivesSteps ==
  ASSUME NEW s \in Seq(Evidence), NEW v \in Evidence
  PROVE  /\ Actives(s) \in Rows
         /\ Actives(<<>>) = <<>>
         /\ Actives(Append(s, v)) = IF IsTombstoneRecord(v) THEN Actives(s) ELSE Append(Actives(s), v)
<1>1. <<>> \in Rows /\ Closed(ActiveStep, Rows, Evidence)
  BY ActiveStepIs DEF Rows, Closed
<1>2. /\ End(ActiveStep, Rows, <<>>, s) \in Rows
      /\ End(ActiveStep, Rows, <<>>, <<>>) = <<>>
      /\ End(ActiveStep, Rows, <<>>, Append(s, v)) = ActiveStep[<<End(ActiveStep, Rows, <<>>, s), v>>]
  BY <1>1, EndSteps
<1>3. /\ Actives(s) = End(ActiveStep, Rows, <<>>, s)
      /\ Actives(<<>>) = End(ActiveStep, Rows, <<>>, <<>>)
      /\ Actives(Append(s, v)) = End(ActiveStep, Rows, <<>>, Append(s, v))
  <2>1. Append(s, v) \in Seq(Evidence) /\ <<>> \in Seq(Evidence)
    OBVIOUS
  <2> QED BY <2>1, ActivesEnd
<1>4. ActiveStep[<<Actives(s), v>>] = IF IsTombstoneRecord(v) THEN Actives(s) ELSE Append(Actives(s), v)
  BY <1>2, <1>3, ActiveStepIs
<1> QED BY <1>2, <1>3, <1>4

\* What the comparison of mergeHistoryItems keeps: one version.
Kept == Evidence

\* The step of Winner, as a function.
WinStep == [z \in Kept \X Evidence |-> IF SortsBefore(z[2], z[1]) THEN z[1] ELSE z[2]]

\* Its values: the version before it or the new one.
LEMMA WinStepIs ==
  ASSUME NEW a \in Kept, NEW v \in Evidence
  PROVE  /\ WinStep[<<a, v>>] = IF SortsBefore(v, a) THEN a ELSE v
         /\ WinStep[<<a, v>>] \in Kept
<1>1. <<a, v>> \in Kept \X Evidence
  OBVIOUS
<1>2. WinStep[<<a, v>>] = IF SortsBefore(v, a) THEN a ELSE v
  BY <1>1 DEF WinStep
<1> QED BY <1>2 DEF Kept

\* The fold of Winner is the fold by that step.
LEMMA WinnerEnd ==
  ASSUME NEW q \in Kept, NEW s \in Seq(Evidence)
  PROVE  FoldLeft(LAMBDA best, v : IF SortsBefore(v, best) THEN best ELSE v, q, s) = End(WinStep, Kept, q, s)
<1> DEFINE G(x, v) == IF SortsBefore(v, x) THEN x ELSE v
           F(g) == g = [d \in SUBSET (DOMAIN s) |-> IF d = {} THEN q ELSE G(g[d \ {Max(d)}], s[Max(d)])]
           g == CHOOSE g : F(g)
<1>0. DOMAIN s = 1 .. Len(s)
  OBVIOUS
<1>1. FoldLeft(LAMBDA best, v : IF SortsBefore(v, best) THEN best ELSE v, q, s) = g[DOMAIN s]
  BY DEF FoldLeft, MapThenFoldSet
<1>2. /\ q \in Kept /\ Closed(WinStep, Kept, Evidence)
      /\ \A x \in Kept, v \in Evidence : WinStep[<<x, v>>] = G(x, v)
  BY WinStepIs DEF Kept, Closed
<1> HIDE DEF G
<1>3. \E h : F(h)
  <2>1. PICK h \in [SUBSET (1 .. Len(s)) -> Kept] :
          \A d \in SUBSET (1 .. Len(s)) :
            /\ d = {} => h[d] = q
            /\ d # {} => /\ h[d] = WinStep[<<h[d \ {Max(d)}], s[Max(d)]>>]
                         /\ h[d \ {Max(d)}] \in Kept /\ s[Max(d)] \in Evidence
    BY <1>2, FoldingIn
  <2>2. F(h)
    BY <1>0, <1>2, <2>1
  <2> QED BY <2>2
<1>4. F(g)
  BY <1>3
<1> HIDE DEF g
<1>5. g = [d \in SUBSET (DOMAIN s) |-> IF d = {} THEN q ELSE G(g[d \ {Max(d)}], s[Max(d)])]
  BY <1>4
<1>6. \A d \in SUBSET (DOMAIN s) : g[d] = IF d = {} THEN q ELSE G(g[d \ {Max(d)}], s[Max(d)])
  BY <1>5, Zenon
<1>7. \A d \in SUBSET (1 .. Len(s)) :
        /\ d = {} => g[d] = q
        /\ d # {} /\ g[d \ {Max(d)}] \in Kept /\ s[Max(d)] \in Evidence =>
             g[d] = WinStep[<<g[d \ {Max(d)}], s[Max(d)]>>]
  BY <1>0, <1>2, <1>6
<1>8. g[1 .. Len(s)] = End(WinStep, Kept, q, s)
  <2>1. q \in Kept /\ Closed(WinStep, Kept, Evidence)
    BY <1>2
  <2>2. Steps(g, WinStep, Kept, Evidence, q, s)
    BY <1>7 DEF Steps
  <2> QED BY <2>1, <2>2, FoldsTo
<1> QED BY <1>0, <1>1, <1>8

\* What Winner returns of one version and of one version more.
LEMMA WinnerSteps ==
  ASSUME NEW s \in Seq(Evidence), s # <<>>, NEW v \in Evidence
  PROVE  /\ Winner(s) \in Evidence
         /\ Winner(<<v>>) = v
         /\ Winner(Append(s, v)) = IF SortsBefore(v, Winner(s)) THEN Winner(s) ELSE v
<1> DEFINE q == Head(s)
           t == Tail(s)
<1>1. /\ q \in Kept /\ v \in Kept /\ t \in Seq(Evidence) /\ Append(t, v) \in Seq(Evidence) /\ <<>> \in Seq(Evidence)
      /\ Head(Append(s, v)) = q /\ Head(<<v>>) = v /\ Tail(<<v>>) = <<>>
  BY DEF Kept
<1>2. Tail(Append(s, v)) = Append(t, v)
  <2>1. Len(s) \in Nat /\ Len(s) > 0
    OBVIOUS
  <2>2. Tail(Append(s, v)) \in Seq(Evidence) /\ Append(t, v) \in Seq(Evidence)
    OBVIOUS
  <2>3. Len(Tail(Append(s, v))) = Len(s) /\ Len(Append(t, v)) = Len(s)
    BY <2>1
  <2>4. ASSUME NEW i \in 1 .. Len(s) PROVE Tail(Append(s, v))[i] = Append(t, v)[i]
    BY <2>1
  <2> QED BY <2>2, <2>3, <2>4, SeqEqual
<1> HIDE DEF q, t
<1>3. Closed(WinStep, Kept, Evidence)
  BY WinStepIs DEF Kept, Closed
<1>4. /\ End(WinStep, Kept, q, t) \in Kept
      /\ End(WinStep, Kept, q, Append(t, v)) = WinStep[<<End(WinStep, Kept, q, t), v>>]
  BY <1>1, <1>3, EndSteps
<1>7. End(WinStep, Kept, v, <<>>) = v
  BY <1>1, <1>3, EndEmpty
<1>5. /\ Winner(s) = End(WinStep, Kept, q, t)
      /\ Winner(Append(s, v)) = End(WinStep, Kept, q, Append(t, v))
      /\ Winner(<<v>>) = End(WinStep, Kept, v, <<>>)
  BY <1>1, <1>2, WinnerEnd DEF Winner, q, t
<1>6. WinStep[<<Winner(s), v>>] = IF SortsBefore(v, Winner(s)) THEN Winner(s) ELSE v
  BY <1>4, <1>5, WinStepIs
<1> QED BY <1>4, <1>5, <1>6, <1>7 DEF Kept

-----------------------------------------------------------------------------

\* What a version holds.
LEMMA EvidenceIs ==
  ASSUME NEW v \in Evidence
  PROVE  /\ v.updatedAt \in 1 .. MaxTime /\ v.deletedAt \in 0 .. MaxTime /\ v.restoredAt \in 0 .. MaxTime
         /\ v.content \in Nat
         /\ v.deletedAt # 0 => v.restoredAt = 0 /\ v.updatedAt = v.deletedAt
BY MergeAssumption DEF Evidence, Live, Dead

\* The times of a version are numbers.
Timed(v) == v.deletedAt \in Nat /\ v.restoredAt \in Nat /\ v.updatedAt \in Nat

\* When a version takes the place of another.
LEMMA ReplacesIs ==
  ASSUME NEW v, NEW m, Timed(v), Timed(m)
  PROVE  ShouldReplaceWithNextRecord(v, m) <=>
           \/ m.deletedAt > 0 /\ v.deletedAt = 0 /\ v.restoredAt > m.deletedAt
           \/ v.deletedAt > 0 /\ m.deletedAt = 0 /\ m.restoredAt <= v.deletedAt
           \/ v.deletedAt > 0 /\ m.deletedAt > 0 /\ v.deletedAt > m.deletedAt
           \/ v.deletedAt = 0 /\ m.deletedAt = 0 /\ v.updatedAt > m.updatedAt
  BY DEF Timed, ShouldReplaceWithNextRecord, IsRestoredAfterTombstone, Stamp, IsTombstoneRecord,
     GetTombstoneTimestamp, GetRecordTimestamp, GetRestoreTimestamp

\* One version more arrives.
LEMMA ArrivedIs ==
  ASSUME NEW s \in Seq(Evidence), NEW v \in Evidence
  PROVE  /\ ToSet(s) \subseteq Evidence
         /\ ToSet(Append(s, v)) = ToSet(s) \cup {v}
         /\ ToSet(<<>>) = {}
         /\ ToSet(s) = {} <=> s = <<>>
<1>1. ToSet(s) \subseteq Evidence /\ (ToSet(s) = {} <=> s = <<>>)
  BY DEF ToSet
<1>2. ToSet(<<>>) = {}
  BY DEF ToSet
<1>3. ASSUME NEW w \in ToSet(Append(s, v)) PROVE w \in ToSet(s) \cup {v}
  <2>1. PICK i \in DOMAIN Append(s, v) : w = Append(s, v)[i]
    BY DEF ToSet
  <2>2. CASE i = Len(s) + 1
    BY <2>1, <2>2
  <2>3. CASE i # Len(s) + 1
    <3>1. i \in DOMAIN s /\ w = s[i]
      BY <2>1, <2>3
    <3> QED BY <3>1 DEF ToSet
  <2> QED BY <2>2, <2>3
<1>4. v \in ToSet(Append(s, v))
  <2>1. Len(s) + 1 \in DOMAIN Append(s, v) /\ Append(s, v)[Len(s) + 1] = v
    OBVIOUS
  <2> QED BY <2>1 DEF ToSet
<1>5. ASSUME NEW w \in ToSet(s) PROVE w \in ToSet(Append(s, v))
  <2>1. PICK i \in DOMAIN s : w = s[i]
    BY DEF ToSet
  <2>2. i \in DOMAIN Append(s, v) /\ Append(s, v)[i] = w
    BY <2>1
  <2> QED BY <2>2 DEF ToSet
<1> QED BY <1>1, <1>2, <1>3, <1>4, <1>5

-----------------------------------------------------------------------------

\* The result m of the fold over the versions S.
FoldOf(m, S) ==
  /\ S = {} => m = <<>>
  /\ S # {} => \E h \in S : m = <<h>>
  /\ \A h : m = <<h>> =>
       /\ \A t \in S :
            t.deletedAt > 0 /\ (\A w \in S : w.deletedAt <= t.deletedAt /\ w.restoredAt <= t.deletedAt)
              => h.deletedAt = t.deletedAt
       /\ Carries(S) /\ h.deletedAt > 0 =>
            \A w \in S : w.deletedAt <= h.deletedAt /\ w.restoredAt <= h.deletedAt
       /\ Carries(S) /\ h.deletedAt = 0 =>
            \A w \in S : IF w.deletedAt = 0 THEN w.updatedAt <= h.updatedAt ELSE w.deletedAt < h.restoredAt

\* The fold takes one version more.
LEMMA FoldStep ==
  ASSUME NEW S \in SUBSET Evidence, NEW m, FoldOf(m, S), NEW v \in Evidence
  PROVE  FoldOf(AddToMap(m, v), S \cup {v})
<1> DEFINE U == S \cup {v}
<1>0. /\ \A w \in U : /\ w.updatedAt \in Nat /\ w.deletedAt \in Nat /\ w.restoredAt \in Nat
                      /\ w.deletedAt # 0 => w.restoredAt = 0
      /\ Carries(U) => Carries(S)
      /\ S \subseteq U /\ v \in U
  <2>1. \A w \in U : w \in Evidence
    OBVIOUS
  <2>2. \A w \in U : /\ w.updatedAt \in Nat /\ w.deletedAt \in Nat /\ w.restoredAt \in Nat
                     /\ w.deletedAt # 0 => w.restoredAt = 0
    BY <2>1, EvidenceIs, MergeAssumption
  <2> QED BY <2>2 DEF Carries
<1>c. ASSUME Carries(U), NEW a \in U, NEW b \in U, a.deletedAt = 0, b.deletedAt = 0, a.updatedAt >= b.updatedAt
      PROVE  a.restoredAt >= b.restoredAt
  BY <1>c DEF Carries, IsTombstoneRecord, GetRecordTimestamp, GetRestoreTimestamp
<1>1. CASE S = {}
  <2>1. m = <<>> /\ AddToMap(m, v) = <<v>>
    BY <1>1 DEF FoldOf, AddToMap
  <2>2. U = {v} /\ \A h : <<v>> = <<h>> => h = v
    BY <1>1
  <2> HIDE DEF U
  <2> SUFFICES FoldOf(<<v>>, U)
    BY <2>1 DEF U
  <2> QED BY <1>0, <2>2 DEF FoldOf
<1>2. CASE S # {}
  <2>1. PICK h \in S : m = <<h>>
    BY <1>2 DEF FoldOf
  <2> DEFINE Takes == \/ h.deletedAt > 0 /\ v.deletedAt = 0 /\ v.restoredAt > h.deletedAt
                      \/ v.deletedAt > 0 /\ h.deletedAt = 0 /\ h.restoredAt <= v.deletedAt
                      \/ v.deletedAt > 0 /\ h.deletedAt > 0 /\ v.deletedAt > h.deletedAt
                      \/ v.deletedAt = 0 /\ h.deletedAt = 0 /\ v.updatedAt > h.updatedAt
             k == IF Takes THEN v ELSE h
  <2>2. AddToMap(m, v) = <<k>> /\ k \in U
    <3>1. ShouldReplaceWithNextRecord(v, h) <=> Takes
      <4>1. Timed(h) /\ Timed(v)
        BY <1>0 DEF Timed
      <4> QED BY <4>1, ReplacesIs
    <3> HIDE DEF Takes
    <3>2. m # <<>> /\ Head(m) = h
      BY <2>1
    <3> QED BY <2>1, <3>1, <3>2 DEF AddToMap
  <2>3. /\ \A t \in S :
             t.deletedAt > 0 /\ (\A w \in S : w.deletedAt <= t.deletedAt /\ w.restoredAt <= t.deletedAt)
               => h.deletedAt = t.deletedAt
        /\ Carries(S) /\ h.deletedAt > 0 =>
             \A w \in S : w.deletedAt <= h.deletedAt /\ w.restoredAt <= h.deletedAt
        /\ Carries(S) /\ h.deletedAt = 0 =>
             \A w \in S : IF w.deletedAt = 0 THEN w.updatedAt <= h.updatedAt ELSE w.deletedAt < h.restoredAt
    BY <2>1 DEF FoldOf
  <2>4. ASSUME NEW t \in U, t.deletedAt > 0,
               \A w \in U : w.deletedAt <= t.deletedAt /\ w.restoredAt <= t.deletedAt
        PROVE  k.deletedAt = t.deletedAt
    <3>1. CASE t = v
      BY <1>0, <2>4, <3>1
    <3>2. CASE t \in S
      <4>1. h.deletedAt = t.deletedAt
        BY <1>0, <2>3, <2>4, <3>2
      <4>2. ~Takes
        BY <1>0, <2>4, <4>1
      <4> QED BY <4>1, <4>2
    <3> QED BY <3>1, <3>2
  <2>5. ASSUME Carries(U), k.deletedAt > 0, NEW w \in U
        PROVE  w.deletedAt <= k.deletedAt /\ w.restoredAt <= k.deletedAt
    <3>0. v \in U /\ h \in U /\ Carries(S)
      BY <1>0, <2>5
    <3>1. CASE h.deletedAt > 0
      <4>1. \A x \in S : x.deletedAt <= h.deletedAt /\ x.restoredAt <= h.deletedAt
        BY <2>3, <3>0, <3>1
      <4> QED BY <1>0, <2>5, <3>0, <3>1, <4>1
    <3>2. CASE h.deletedAt = 0
      <4>1. \A x \in S : IF x.deletedAt = 0 THEN x.updatedAt <= h.updatedAt ELSE x.deletedAt < h.restoredAt
        BY <2>3, <3>0, <3>2
      <4>2. v.deletedAt > 0 /\ h.restoredAt <= v.deletedAt /\ k = v
        BY <1>0, <2>5, <3>0, <3>2
      <4>3. CASE w \in S /\ w.deletedAt = 0
        <5>1. w.updatedAt <= h.updatedAt
          BY <4>1, <4>3
        <5>2. h.restoredAt >= w.restoredAt
          BY <1>0, <1>c, <2>5, <3>0, <3>2, <4>3, <5>1
        <5> QED BY <1>0, <3>0, <4>2, <4>3, <5>2
      <4>4. CASE w \in S /\ w.deletedAt # 0
        BY <1>0, <3>0, <4>1, <4>2, <4>4
      <4>5. CASE w = v
        BY <1>0, <4>2, <4>5
      <4> QED BY <4>3, <4>4, <4>5
    <3> QED BY <1>0, <3>0, <3>1, <3>2
  <2>6. ASSUME Carries(U), k.deletedAt = 0, NEW w \in U
        PROVE  IF w.deletedAt = 0 THEN w.updatedAt <= k.updatedAt ELSE w.deletedAt < k.restoredAt
    <3>0. v \in U /\ h \in U /\ Carries(S)
      BY <1>0, <2>6
    <3>1. CASE h.deletedAt > 0
      <4>1. \A x \in S : x.deletedAt <= h.deletedAt /\ x.restoredAt <= h.deletedAt
        BY <2>3, <3>0, <3>1
      <4>2. v.deletedAt = 0 /\ v.restoredAt > h.deletedAt /\ k = v
        BY <1>0, <2>6, <3>0, <3>1
      <4>3. CASE w \in S /\ w.deletedAt = 0
        <5>1. w.restoredAt < v.restoredAt
          BY <1>0, <3>0, <4>1, <4>2, <4>3
        <5>2. ~ (w.updatedAt >= v.updatedAt)
          BY <1>0, <1>c, <2>6, <3>0, <4>2, <4>3, <5>1
        <5> QED BY <1>0, <3>0, <4>2, <4>3, <5>2
      <4>4. CASE w \in S /\ w.deletedAt # 0
        BY <1>0, <3>0, <4>1, <4>2, <4>4
      <4>5. CASE w = v
        BY <1>0, <4>2, <4>5
      <4> QED BY <4>3, <4>4, <4>5
    <3>2. CASE h.deletedAt = 0
      <4>1. \A x \in S : IF x.deletedAt = 0 THEN x.updatedAt <= h.updatedAt ELSE x.deletedAt < h.restoredAt
        BY <2>3, <3>0, <3>2
      <4>2. CASE v.deletedAt = 0 /\ v.updatedAt > h.updatedAt
        <5>1. v.restoredAt >= h.restoredAt
          BY <1>0, <1>c, <2>6, <3>0, <3>2, <4>2
        <5> QED BY <1>0, <3>0, <3>2, <4>1, <4>2, <5>1
      <4>3. CASE ~ (v.deletedAt = 0 /\ v.updatedAt > h.updatedAt)
        <5>1. k = h
          BY <2>6, <3>2, <4>3, <1>0, <3>0
        <5> QED BY <1>0, <2>6, <3>0, <3>2, <4>1, <4>3, <5>1
      <4> QED BY <4>2, <4>3
    <3> QED BY <1>0, <3>0, <3>1, <3>2
  <2> HIDE DEF U, k
  <2>7. FoldOf(<<k>>, U)
    <3>1. U # {} /\ \A x : <<k>> = <<x>> => x = k
      BY <2>2
    <3> QED BY <2>2, <2>4, <2>5, <2>6, <3>1 DEF FoldOf
  <2> QED BY <2>2, <2>7 DEF U
<1> QED BY <1>1, <1>2

-----------------------------------------------------------------------------

\* No version w is sorted after b.
NotAfter(w, b) ==
  w.updatedAt < b.updatedAt \/ (w.updatedAt = b.updatedAt /\ w.content <= b.content)

\* What mergeHistoryItems has collected of the versions s.
Collected(s) ==
  /\ Tombstone(s) \in Entry /\ Actives(s) \in Seq(Evidence)
  /\ Tombstone(s) = <<>> => \A w \in ToSet(s) : w.deletedAt = 0
  /\ \A h : Tombstone(s) = <<h>> =>
       h \in ToSet(s) /\ h.deletedAt > 0 /\ \A w \in ToSet(s) : w.deletedAt <= h.deletedAt
  /\ ToSet(Actives(s)) = {w \in ToSet(s) : w.deletedAt = 0}
  /\ Actives(s) # <<>> =>
       /\ Winner(Actives(s)) \in ToSet(Actives(s))
       /\ \A w \in ToSet(Actives(s)) : NotAfter(w, Winner(Actives(s)))

\* Nothing is collected of no versions.
LEMMA CollectedFirst == Collected(<<>>)
<1>1. ToSet(<<>>) = {}
  BY DEF ToSet
<1>2. Tombstone(<<>>) = <<>> /\ Actives(<<>>) = <<>>
  <2>1. <<>> \in Seq(Evidence)
    OBVIOUS
  <2>2. Tombstone(<<>>) = <<>>
    <3>1. <<>> \in Entry /\ Closed(TombStep, Entry, Evidence)
      BY TombStepIs DEF Entry, Closed
    <3>2. End(TombStep, Entry, <<>>, <<>>) = <<>>
      BY <3>1, EndEmpty
    <3> QED BY <2>1, <3>2, TombstoneEnd
  <2>3. Actives(<<>>) = <<>>
    BY <2>1, ActivesEnd, ActiveStepIs, EndEmpty DEF Rows, Closed
  <2> QED BY <2>2, <2>3
<1>3. \A h : <<>> # <<h>>
  OBVIOUS
<1>4. <<>> \in Entry /\ <<>> \in Seq(Evidence)
  BY DEF Entry
<1> QED BY <1>1, <1>2, <1>3, <1>4 DEF Collected

\* mergeHistoryItems takes one version more.
LEMMA CollectStep ==
  ASSUME NEW s \in Seq(Evidence), Collected(s), NEW v \in Evidence
  PROVE  Collected(Append(s, v))
<1> DEFINE q == Append(s, v)
           S == ToSet(s)
           act == Actives(s)
<1>0. /\ ToSet(q) = S \cup {v} /\ S \subseteq Evidence
      /\ Tombstone(q) = IF v.deletedAt # 0 THEN AddToMap(Tombstone(s), v) ELSE Tombstone(s)
      /\ Actives(q) = IF v.deletedAt # 0 THEN act ELSE Append(act, v)
      /\ Tombstone(s) \in Entry /\ act \in Seq(Evidence)
  BY ArrivedIs, TombstoneSteps, ActivesSteps DEF IsTombstoneRecord, Rows
<1>1. \A w \in S \cup {v} : Timed(w) /\ w.content \in Nat
  <2>1. \A w \in S \cup {v} : w \in Evidence
    BY <1>0
  <2> QED BY <2>1, EvidenceIs, MergeAssumption DEF Timed
<1> HIDE DEF q
<1>6. Tombstone(q) \in Entry /\ Actives(q) \in Seq(Evidence)
  BY <1>0, AddsEntry
<1>2. Tombstone(q) = <<>> => \A w \in S \cup {v} : w.deletedAt = 0
  <2> SUFFICES ASSUME Tombstone(q) = <<>> PROVE \A w \in S \cup {v} : w.deletedAt = 0
    OBVIOUS
  <2>1. \A a : AddToMap(a, v) # <<>>
    BY DEF AddToMap
  <2>2. v.deletedAt = 0 /\ Tombstone(s) = <<>>
    BY <1>0, <2>1
  <2> QED BY <2>2 DEF Collected
<1>3. ASSUME NEW h, Tombstone(q) = <<h>>
      PROVE  h \in S \cup {v} /\ h.deletedAt > 0 /\ \A w \in S \cup {v} : w.deletedAt <= h.deletedAt
  <2>1. CASE v.deletedAt = 0
    <3>1. Tombstone(s) = <<h>>
      BY <1>0, <1>3, <2>1
    <3>2. h \in S /\ h.deletedAt > 0 /\ \A w \in S : w.deletedAt <= h.deletedAt
      BY <3>1 DEF Collected
    <3> QED BY <1>1, <2>1, <3>2 DEF Timed
  <2>2. CASE v.deletedAt # 0 /\ Tombstone(s) = <<>>
    <3>1. AddToMap(Tombstone(s), v) = <<v>>
      BY <2>2 DEF AddToMap
    <3>2. h = v
      BY <1>0, <1>3, <2>2, <3>1
    <3>3. \A w \in S : w.deletedAt = 0
      BY <2>2 DEF Collected
    <3> QED BY <1>1, <2>2, <3>2, <3>3 DEF Timed
  <2>3. CASE v.deletedAt # 0 /\ Tombstone(s) # <<>>
    <3>1. PICK g \in Evidence : Tombstone(s) = <<g>>
      BY <1>0, <2>3 DEF Entry
    <3>2. g \in S /\ g.deletedAt > 0 /\ \A w \in S : w.deletedAt <= g.deletedAt
      BY <3>1 DEF Collected
    <3>3. Timed(g) /\ Timed(v)
      BY <1>1, <3>2
    <3>4. ShouldReplaceWithNextRecord(v, g) <=> v.deletedAt > g.deletedAt
      BY <2>3, <3>2, <3>3, ReplacesIs DEF Timed
    <3>5. <<h>> = IF v.deletedAt > g.deletedAt THEN <<v>> ELSE <<g>>
      <4>1. Tombstone(s) # <<>> /\ Head(Tombstone(s)) = g
        BY <3>1
      <4> QED BY <1>0, <1>3, <2>3, <3>1, <3>4, <4>1 DEF AddToMap
    <3>6. h = IF v.deletedAt > g.deletedAt THEN v ELSE g
      BY <3>5
    <3> QED BY <1>1, <2>3, <3>2, <3>3, <3>6 DEF Timed
  <2> QED BY <2>1, <2>2, <2>3
<1>4. /\ ToSet(act) = {w \in S : w.deletedAt = 0}
      /\ ToSet(Actives(q)) = {w \in S \cup {v} : w.deletedAt = 0}
  <2>1. ToSet(act) = {w \in S : w.deletedAt = 0}
    BY DEF Collected
  <2>2. ToSet(Append(act, v)) = ToSet(act) \cup {v}
    BY <1>0, ArrivedIs
  <2> HIDE DEF act, S
  <2> QED BY <1>0, <2>1, <2>2
<1>5. ASSUME Actives(q) # <<>>
      PROVE  /\ Winner(Actives(q)) \in ToSet(Actives(q))
             /\ \A w \in ToSet(Actives(q)) : NotAfter(w, Winner(Actives(q)))
  <2>1. CASE v.deletedAt # 0
    <3>1. Actives(q) = act
      BY <1>0, <2>1
    <3> QED BY <1>5, <3>1 DEF Collected
  <2>2. CASE v.deletedAt = 0 /\ act = <<>>
    <3>1. ToSet(act) = {}
      BY <2>2 DEF ToSet
    <3>2. Winner(<<v>>) = v
      <4>1. <<v>> \in Seq(Evidence) /\ <<v>> # <<>>
        OBVIOUS
      <4> QED BY <4>1, WinnerSteps
    <3>3. Actives(q) = <<v>>
      BY <1>0, <2>2
    <3>4. ToSet(Actives(q)) = {v}
      BY <1>4, <2>2, <3>1
    <3> QED BY <1>1, <3>2, <3>3, <3>4 DEF NotAfter, Timed
  <2>3. CASE v.deletedAt = 0 /\ act # <<>>
    <3> DEFINE b == Winner(act)
    <3>1. b \in ToSet(act) /\ \A w \in ToSet(act) : NotAfter(w, b)
      BY <2>3 DEF Collected
    <3>2. Winner(Actives(q)) = IF SortsBefore(v, b) THEN b ELSE v
      BY <1>0, <2>3, WinnerSteps
    <3>3. ToSet(Actives(q)) = ToSet(act) \cup {v} /\ ToSet(act) \subseteq S
      BY <1>4, <2>3
    <3> HIDE DEF b, act, S
    <3>4. \A w \in ToSet(act) \cup {v} : w.updatedAt \in Nat /\ w.content \in Nat
      BY <1>1, <3>3 DEF Timed
    <3>5. \A w \in ToSet(act) \cup {v} : NotAfter(w, IF SortsBefore(v, b) THEN b ELSE v)
      <4> DEFINE k == IF SortsBefore(v, b) THEN b ELSE v
      <4>1. SortsBefore(v, b) <=> (v.updatedAt < b.updatedAt \/ (v.updatedAt = b.updatedAt /\ v.content < b.content))
        BY DEF SortsBefore, GetRecordTimestamp
      <4>2. b \in ToSet(act) \cup {v} /\ v \in ToSet(act) \cup {v}
        BY <3>1
      <4>3. NotAfter(v, k) /\ NotAfter(b, k)
        BY <3>4, <4>1, <4>2 DEF NotAfter
      <4>4. k \in ToSet(act) \cup {v}
        BY <4>2
      <4> HIDE DEF k
      <4>5. ASSUME NEW w \in ToSet(act) PROVE NotAfter(w, k)
        <5>1. NotAfter(w, b)
          BY <3>1
        <5> QED BY <3>4, <4>2, <4>3, <4>4, <5>1 DEF NotAfter
      <4> QED BY <4>3, <4>5 DEF k
    <3> QED BY <3>1, <3>2, <3>3, <3>5
  <2> QED BY <2>1, <2>2, <2>3
<1> QED BY <1>0, <1>2, <1>3, <1>4, <1>5, <1>6 DEF Collected, q

-----------------------------------------------------------------------------

\* The last deletion and the last restoration among the versions S.
LEMMA LatestIs ==
  ASSUME NEW S \in SUBSET Evidence
  PROVE  LET D == Max({0} \cup {v.deletedAt : v \in S})
             R == Max({0} \cup {v.restoredAt : v \in S})
         IN /\ D \in Nat /\ (\A v \in S : v.deletedAt <= D) /\ (D > 0 => \E v \in S : v.deletedAt = D)
            /\ R \in Nat /\ (\A v \in S : v.restoredAt <= R) /\ (R > 0 => \E v \in S : v.restoredAt = R)
<1> DEFINE X == {0} \cup {v.deletedAt : v \in S}
           Y == {0} \cup {v.restoredAt : v \in S}
<1>1. X \subseteq 0 .. MaxTime /\ Y \subseteq 0 .. MaxTime /\ MaxTime \in Nat
  <2>1. \A v \in S : v.deletedAt \in 0 .. MaxTime /\ v.restoredAt \in 0 .. MaxTime
    BY EvidenceIs
  <2>2. MaxTime \in Nat
    BY MergeAssumption
  <2> QED BY <2>1, <2>2
<1>2. X # {} /\ Y # {}
  OBVIOUS
<1> HIDE DEF X, Y
<1>3. Max(X) \in X /\ \A y \in X : Max(X) >= y
  BY <1>1, <1>2, MaxIn
<1>4. Max(Y) \in Y /\ \A y \in Y : Max(Y) >= y
  BY <1>1, <1>2, MaxIn
<1>5. /\ Max(X) \in Nat
      /\ (\A v \in S : v.deletedAt <= Max(X)) /\ (Max(X) > 0 => \E v \in S : v.deletedAt = Max(X))
  <2>1. \A v \in S : v.deletedAt \in X
    BY DEF X
  <2>2. Max(X) > 0 => \E v \in S : v.deletedAt = Max(X)
    BY <1>3 DEF X
  <2>3. Max(X) \in Nat /\ \A y \in X : y \in Nat /\ y <= Max(X)
    <3> DEFINE m == Max(X)
    <3>1. m \in X /\ \A y \in X : m >= y
      BY <1>3
    <3> HIDE DEF m
    <3>2. X \subseteq Nat
      BY <1>1
    <3>3. ASSUME NEW y \in X PROVE y \in Nat /\ y <= m
      BY <3>1, <3>2
    <3> QED BY <3>1, <3>2, <3>3 DEF m
  <2>4. \A v \in S : v.deletedAt <= Max(X)
    BY <2>1, <2>3
  <2> QED BY <2>2, <2>3, <2>4
<1>6. /\ Max(Y) \in Nat
      /\ (\A v \in S : v.restoredAt <= Max(Y)) /\ (Max(Y) > 0 => \E v \in S : v.restoredAt = Max(Y))
  <2>1. \A v \in S : v.restoredAt \in Y
    BY DEF Y
  <2>2. Max(Y) > 0 => \E v \in S : v.restoredAt = Max(Y)
    BY <1>4 DEF Y
  <2>3. Max(Y) \in Nat /\ \A y \in Y : y \in Nat /\ y <= Max(Y)
    <3> DEFINE m == Max(Y)
    <3>1. m \in Y /\ \A y \in Y : m >= y
      BY <1>4
    <3> HIDE DEF m
    <3>2. Y \subseteq Nat
      BY <1>1
    <3>3. ASSUME NEW y \in Y PROVE y \in Nat /\ y <= m
      BY <3>1, <3>2
    <3> QED BY <3>1, <3>2, <3>3 DEF m
  <2>4. \A v \in S : v.restoredAt <= Max(Y)
    BY <2>1, <2>3
  <2> QED BY <2>2, <2>3, <2>4
<1> QED BY <1>5, <1>6 DEF X, Y

\* The tombstones carry no restoration: the live versions carry the last.
LEMMA RestorationIs ==
  ASSUME NEW s \in Seq(Evidence), NEW a \in Seq(Evidence), ToSet(a) = {w \in ToSet(s) : w.deletedAt = 0}
  PROVE  Restoration(a) = Max({0} \cup {v.restoredAt : v \in ToSet(s)})
<1>1. \A v \in ToSet(s) : v.deletedAt # 0 => v.restoredAt = 0
  <2>1. ToSet(s) \subseteq Evidence
    BY DEF ToSet
  <2> QED BY <2>1, EvidenceIs
<1>2. {GetRestoreTimestamp(a[i]) : i \in DOMAIN a} = {w.restoredAt : w \in ToSet(a)}
  BY DEF GetRestoreTimestamp, ToSet
<1>3. {0} \cup {w.restoredAt : w \in ToSet(a)} = {0} \cup {v.restoredAt : v \in ToSet(s)}
  BY <1>1
<1> QED BY <1>2, <1>3 DEF Restoration

\* The row that mergeHistoryItems shows of what it has collected.
LEMMA ShownIs ==
  ASSUME NEW s \in Seq(Evidence), Collected(s)
  PROVE  LET D == Max({0} \cup {v.deletedAt : v \in ToSet(s)})
             R == Max({0} \cup {v.restoredAt : v \in ToSet(s)})
             live == {v \in ToSet(s) : v.deletedAt = 0}
         IN IF live = {} \/ (D > 0 /\ R <= D)
            THEN MergeHistoryItems(s) = <<>>
            ELSE \E b \in live : /\ \A w \in live : NotAfter(w, b)
                                 /\ MergeHistoryItems(s) = <<[b EXCEPT !.restoredAt = R]>>
<1> DEFINE S == ToSet(s)
           act == Actives(s)
           tomb == Tombstone(s)
           live == {v \in S : v.deletedAt = 0}
           D == Max({0} \cup {v.deletedAt : v \in S})
           R == Max({0} \cup {v.restoredAt : v \in S})
           b == Winner(act)
           c == CanonicalVersion(act)
<1>1. S \subseteq Evidence /\ act \in Seq(Evidence) /\ tomb \in Entry /\ ToSet(act) = live
      /\ (act = <<>> <=> live = {})
  <2>1. S \subseteq Evidence
    BY DEF ToSet
  <2>2. act \in Seq(Evidence)
    BY DEF Collected
  <2>3. tomb \in Entry
    BY DEF Collected
  <2>4. ToSet(act) = live
    BY DEF Collected
  <2>5. act = <<>> <=> ToSet(act) = {}
    BY <2>2 DEF ToSet
  <2> QED BY <2>1, <2>2, <2>3, <2>4, <2>5
<1>2. D \in Nat /\ (\A v \in S : v.deletedAt <= D) /\ (D > 0 => \E v \in S : v.deletedAt = D)
      /\ R \in Nat
  BY <1>1, LatestIs
<1>3. c = [b EXCEPT !.restoredAt = R]
  BY <1>1, RestorationIs DEF CanonicalVersion
<1>4. MergeHistoryItems(s) = IF act = <<>> \/ (tomb # <<>> /\ ~ShouldReplaceWithNextRecord(c, Head(tomb)))
                             THEN <<>> ELSE <<c>>
  BY DEF MergeHistoryItems
<1> HIDE DEF D, R, c
<1>5. CASE live = {}
  <2>1. MergeHistoryItems(s) = <<>>
    BY <1>1, <1>4, <1>5
  <2> QED BY <1>5, <2>1 DEF D, R
<1>6. CASE live # {}
  <2>1. b \in live /\ \A w \in live : NotAfter(w, b)
    BY <1>1, <1>6 DEF Collected
  <2>2. Timed(c) /\ c.deletedAt = 0 /\ c.restoredAt = R
    <3>1. b \in Evidence
      BY <1>1, <2>1
    <3>2. b = [updatedAt |-> b.updatedAt, deletedAt |-> b.deletedAt, restoredAt |-> b.restoredAt, content |-> b.content]
      BY <3>1 DEF Evidence, Live, Dead
    <3>3. b.updatedAt \in Nat /\ b.deletedAt = 0
      BY <2>1, <3>1, EvidenceIs, MergeAssumption
    <3> HIDE DEF b
    <3>4. c.updatedAt = b.updatedAt /\ c.deletedAt = b.deletedAt /\ c.restoredAt = R
      BY <1>3, <3>2
    <3> QED BY <1>2, <3>3, <3>4 DEF Timed
  <2>3. CASE tomb = <<>>
    <3>1. \A v \in S : v.deletedAt = 0
      BY <2>3 DEF Collected
    <3>2. ~ (D > 0)
      BY <1>2, <3>1
    <3>3. MergeHistoryItems(s) = <<[b EXCEPT !.restoredAt = R]>>
      BY <1>1, <1>3, <1>4, <1>6, <2>3
    <3> QED BY <1>6, <2>1, <3>2, <3>3 DEF D, R
  <2>4. CASE tomb # <<>>
    <3>1. PICK h \in Evidence : tomb = <<h>>
      BY <1>1, <2>4 DEF Entry
    <3>2. h \in S /\ h.deletedAt > 0 /\ \A w \in S : w.deletedAt <= h.deletedAt
      BY <3>1 DEF Collected
    <3>3. Timed(h)
      BY EvidenceIs, MergeAssumption DEF Timed
    <3>4. h.deletedAt = D /\ D > 0
      <4> HIDE DEF S
      <4>1. h.deletedAt \in Nat /\ h.deletedAt <= D
        BY <1>2, <3>2, <3>3 DEF Timed
      <4>2. D > 0
        BY <1>2, <3>2, <4>1
      <4>3. D <= h.deletedAt
        BY <1>2, <3>2, <4>2
      <4> QED BY <1>2, <4>1, <4>2, <4>3
    <3>5. ShouldReplaceWithNextRecord(c, h) <=> R > D
      BY <2>2, <3>2, <3>3, <3>4, ReplacesIs DEF Timed
    <3>6. Head(tomb) = h
      BY <3>1
    <3> HIDE DEF b, act, tomb, live, S
    <3>7. MergeHistoryItems(s) = IF R <= D THEN <<>> ELSE <<c>>
      BY <1>1, <1>2, <1>4, <1>6, <2>4, <3>5, <3>6
    <3>8. IF live = {} \/ (D > 0 /\ R <= D)
          THEN MergeHistoryItems(s) = <<>>
          ELSE b \in live /\ (\A w \in live : NotAfter(w, b)) /\ MergeHistoryItems(s) = <<[b EXCEPT !.restoredAt = R]>>
      BY <1>2, <1>3, <1>6, <2>1, <3>4, <3>7
    <3> QED BY <3>8 DEF D, R, live, S
  <2> QED BY <2>3, <2>4
<1> QED BY <1>5, <1>6

-----------------------------------------------------------------------------

\* What both merges hold of the versions that have arrived.
MergeInv ==
  /\ pages \in Seq(Evidence)
  /\ FoldOf(merged, Arrived)
  /\ Collected(pages)

\* It is kept by every version that arrives.
LEMMA MergeInvHolds == Spec => []MergeInv
<1>1. Init => MergeInv
  <2> SUFFICES ASSUME Init PROVE MergeInv
    OBVIOUS
  <2>1. pages = <<>> /\ merged = <<>> /\ <<>> \in Seq(Evidence)
    BY DEF Init
  <2>2. Arrived = {}
    BY <2>1 DEF Arrived, ToSet
  <2>3. FoldOf(<<>>, {})
    <3>1. \A h : <<>> # <<h>>
      OBVIOUS
    <3> QED BY <3>1 DEF FoldOf
  <2> QED BY <2>1, <2>2, <2>3, CollectedFirst DEF MergeInv
<1>2. MergeInv /\ [Next]_vars => MergeInv'
  <2> SUFFICES ASSUME MergeInv, [Next]_vars PROVE MergeInv'
    OBVIOUS
  <2>1. CASE Next
    <3>1. PICK v \in Evidence : Arrive(v)
      BY <2>1 DEF Next
    <3>2. pages' = Append(pages, v) /\ merged' = AddToMap(merged, v) /\ pages \in Seq(Evidence)
      BY <3>1 DEF Arrive, MergeInv
    <3>3. Arrived' = Arrived \cup {v} /\ Arrived \in SUBSET Evidence
      BY <3>2, ArrivedIs DEF Arrived
    <3>4. FoldOf(AddToMap(merged, v), Arrived \cup {v})
      BY <3>3, FoldStep DEF MergeInv
    <3>5. FoldOf(merged, Arrived)'
      BY <3>2, <3>3, <3>4 DEF FoldOf, Carries
    <3>6. Collected(Append(pages, v))
      BY <3>2, CollectStep DEF MergeInv
    <3>7. Collected(pages)'
      BY <3>2, <3>6 DEF Collected
    <3>8. (pages \in Seq(Evidence))'
      BY <3>2
    <3> QED BY <3>5, <3>7, <3>8 DEF MergeInv
  <2>2. CASE UNCHANGED vars
    <3>1. pages' = pages /\ merged' = merged
      BY <2>2 DEF vars
    <3> QED BY <3>1 DEF MergeInv, FoldOf, Collected, Carries, Arrived
  <2> QED BY <2>1, <2>2
<1> QED BY <1>1, <1>2, PTL DEF Spec

\* The facts of the last deletion and the last restoration.
LEMMA LastsAre ==
  ASSUME MergeInv
  PROVE  /\ Arrived \subseteq Evidence
         /\ \A w \in Arrived : Timed(w) /\ w.content \in Nat /\ (w.deletedAt # 0 => w.restoredAt = 0)
         /\ LastDeletion \in Nat /\ (\A v \in Arrived : v.deletedAt <= LastDeletion)
         /\ LastDeletion > 0 => \E v \in Arrived : v.deletedAt = LastDeletion
         /\ LastRestoration \in Nat /\ (\A v \in Arrived : v.restoredAt <= LastRestoration)
         /\ LastRestoration > 0 => \E v \in Arrived : v.restoredAt = LastRestoration
<1>1. Arrived \in SUBSET Evidence
  BY DEF MergeInv, Arrived, ToSet
<1>2. \A w \in Arrived : Timed(w) /\ w.content \in Nat /\ (w.deletedAt # 0 => w.restoredAt = 0)
  BY <1>1, EvidenceIs, MergeAssumption DEF Timed
<1> QED BY <1>1, <1>2, LatestIs DEF LastDeletion, LastRestoration

\* The row that mergeHistoryItems of sharedHistoryMerge.ts shows is a function of
\* the set of the versions, never of the order in which the pages arrived.
THEOREM HistoryOfAllOrders == Spec => []HistoryIgnoresOrder
<1>1. MergeInv => HistoryIgnoresOrder
  <2> SUFFICES ASSUME MergeInv PROVE HistoryIgnoresOrder
    OBVIOUS
  <2> DEFINE live == {v \in Arrived : ~IsTombstoneRecord(v)}
             newest == {v \in live : \A w \in live : w.updatedAt <= v.updatedAt}
             top == {v \in newest : \A w \in newest : w.content <= v.content}
             gone == live = {} \/ (LastDeletion > 0 /\ LastRestoration <= LastDeletion)
             shown == MergeHistoryItems(pages)
  <2>1. live = {v \in Arrived : v.deletedAt = 0}
    BY DEF IsTombstoneRecord
  <2>2. IF gone THEN shown = <<>>
        ELSE \E b \in live : (\A w \in live : NotAfter(w, b)) /\ shown = <<[b EXCEPT !.restoredAt = LastRestoration]>>
    BY <2>1, ShownIs DEF MergeInv, Arrived, LastDeletion, LastRestoration
  <2>3. ASSUME NEW b \in live, \A w \in live : NotAfter(w, b) PROVE b \in top
    <3>1. \A w \in live : w.updatedAt \in Nat /\ w.content \in Nat
      BY LastsAre DEF Timed
    <3> HIDE DEF live
    <3>2. b \in newest
      BY <2>3, <3>1 DEF NotAfter
    <3>3. \A w \in newest : w \in live /\ b.updatedAt <= w.updatedAt
      BY <2>3
    <3>4. ASSUME NEW w \in newest PROVE w.content <= b.content
      BY <2>3, <3>1, <3>3 DEF NotAfter
    <3> QED BY <3>2, <3>4
  <2>4. shown \in IF gone THEN {<<>>} ELSE {<<[v EXCEPT !.restoredAt = LastRestoration]>> : v \in top}
    <3> HIDE DEF live, top, shown, gone
    <3> QED BY <2>2, <2>3
  <2> QED BY <2>4 DEF HistoryIgnoresOrder
<1> QED BY <1>1, MergeInvHolds, PTL

\* The fold with shouldReplaceWithNextRecord keeps a deletion that no restoration
\* followed, whatever arrives before or after it.
THEOREM FoldKeepsDeletion == Spec => []DeletionSurvivesFold
<1>1. MergeInv => DeletionSurvivesFold
  <2> SUFFICES ASSUME MergeInv, LastDeletion > 0, LastRestoration <= LastDeletion
               PROVE  merged # <<>> /\ Head(merged).deletedAt = LastDeletion
    BY DEF DeletionSurvivesFold
  <2>1. PICK t \in Arrived : t.deletedAt = LastDeletion
    BY LastsAre
  <2>2. \A w \in Arrived : w.deletedAt <= t.deletedAt /\ w.restoredAt <= t.deletedAt
    <3>1. LastDeletion \in Nat /\ LastRestoration \in Nat
          /\ \A w \in Arrived : w.deletedAt <= LastDeletion /\ w.restoredAt <= LastRestoration
                                /\ w.restoredAt \in Nat
      BY LastsAre DEF Timed
    <3> QED BY <2>1, <3>1
  <2>3. PICK h \in Arrived : merged = <<h>>
    BY <2>1 DEF MergeInv, FoldOf
  <2>4. h.deletedAt = t.deletedAt
    BY <2>1, <2>2, <2>3 DEF MergeInv, FoldOf
  <2> QED BY <2>1, <2>3, <2>4
<1> QED BY <1>1, MergeInvHolds, PTL

\* Where live versions carry their restorations forward, mergeAndDedupUserData
\* and mergeHistoryItems show the same record, in whatever order pages arrive.
THEOREM MergesAgree == Spec => []FoldAgreesWhenCarried
<1>1. MergeInv => FoldAgreesWhenCarried
  <2> SUFFICES ASSUME MergeInv, EvidenceCarried, pages # <<>>
               PROVE  /\ IsTombstoneRecord(Head(merged)) <=> MergeHistoryItems(pages) = <<>>
                      /\ MergeHistoryItems(pages) # <<>> =>
                           /\ Head(MergeHistoryItems(pages)).updatedAt = Head(merged).updatedAt
                           /\ Head(MergeHistoryItems(pages)).restoredAt = Head(merged).restoredAt
    BY DEF FoldAgreesWhenCarried
  <2> DEFINE live == {v \in Arrived : v.deletedAt = 0}
             gone == live = {} \/ (LastDeletion > 0 /\ LastRestoration <= LastDeletion)
             shown == MergeHistoryItems(pages)
  <2>1. IF gone THEN shown = <<>>
        ELSE \E b \in live : (\A w \in live : NotAfter(w, b)) /\ shown = <<[b EXCEPT !.restoredAt = LastRestoration]>>
    BY ShownIs DEF MergeInv, Arrived, LastDeletion, LastRestoration
  <2>2. Carries(Arrived)
    BY DEF EvidenceCarried, Carries, GetRecordTimestamp, GetRestoreTimestamp
  <2>3. Arrived # {}
    BY DEF MergeInv, Arrived, ToSet
  <2>4. PICK h \in Arrived : merged = <<h>>
    BY <2>3 DEF MergeInv, FoldOf
  <2>5. /\ h.deletedAt > 0 => \A w \in Arrived : w.deletedAt <= h.deletedAt /\ w.restoredAt <= h.deletedAt
        /\ h.deletedAt = 0 =>
             \A w \in Arrived : IF w.deletedAt = 0 THEN w.updatedAt <= h.updatedAt ELSE w.deletedAt < h.restoredAt
    BY <2>2, <2>4 DEF MergeInv, FoldOf
  <2>6. Timed(h) /\ Head(merged) = h /\ (IsTombstoneRecord(h) <=> h.deletedAt > 0)
    BY <2>4, LastsAre DEF Timed, IsTombstoneRecord
  <2>7. /\ LastDeletion \in Nat /\ (LastDeletion > 0 => \E v \in Arrived : v.deletedAt = LastDeletion)
        /\ LastRestoration \in Nat /\ (\A v \in Arrived : v.restoredAt <= LastRestoration)
        /\ LastRestoration > 0 => \E v \in Arrived : v.restoredAt = LastRestoration
        /\ \A v \in Arrived : Timed(v) /\ v.deletedAt <= LastDeletion /\ (v.deletedAt # 0 => v.restoredAt = 0)
    BY LastsAre
  <2>8. CASE h.deletedAt > 0
    <3>1. LastDeletion > 0 /\ LastRestoration <= LastDeletion
      <4>1. h.deletedAt <= LastDeletion /\ h.deletedAt \in Nat
        BY <2>6, <2>7 DEF Timed
      <4>2. LastRestoration <= h.deletedAt
        BY <2>5, <2>7, <2>8, <4>1
      <4> QED BY <2>7, <2>8, <4>1, <4>2
    <3>2. shown = <<>>
      BY <2>1, <3>1
    <3> QED BY <2>6, <2>8, <3>2
  <2>9. CASE ~ (h.deletedAt > 0)
    <3>1. h.deletedAt = 0 /\ h \in live
      BY <2>6, <2>9 DEF Timed
    <3>2. LastDeletion = 0 \/ LastDeletion < h.restoredAt
      BY <2>5, <2>7, <3>1
    <3>3. h.restoredAt <= LastRestoration /\ h.restoredAt \in Nat
      BY <2>6, <2>7 DEF Timed
    <3>4. ~gone
      BY <2>7, <3>1, <3>2, <3>3
    <3> HIDE DEF gone
    <3>5. PICK b \in live : (\A w \in live : NotAfter(w, b)) /\ shown = <<[b EXCEPT !.restoredAt = LastRestoration]>>
      BY <2>1, <3>4
    <3>6. b.updatedAt = h.updatedAt
      <4>1. NotAfter(h, b) /\ b.updatedAt <= h.updatedAt
        BY <2>5, <3>1, <3>5
      <4>2. Timed(b) /\ Timed(h)
        BY <2>6, <2>7
      <4> QED BY <4>1, <4>2 DEF NotAfter, Timed
    <3>7. h.restoredAt = LastRestoration
      <4>1. LastRestoration <= h.restoredAt
        <5>1. CASE LastRestoration = 0
          BY <3>3, <5>1
        <5>2. CASE LastRestoration > 0
          <6>1. PICK v \in Arrived : v.restoredAt = LastRestoration
            BY <2>7, <5>2
          <6>2. v.deletedAt = 0
            BY <2>7, <5>2, <6>1
          <6>3. v.updatedAt <= h.updatedAt /\ v.updatedAt \in Nat /\ h.updatedAt \in Nat
            BY <2>5, <2>6, <2>7, <3>1, <6>2 DEF Timed
          <6>4. h.restoredAt >= v.restoredAt
            BY <2>2, <3>1, <6>2, <6>3 DEF Carries, IsTombstoneRecord, GetRecordTimestamp, GetRestoreTimestamp
          <6> QED BY <2>7, <3>3, <6>1, <6>4
        <5> QED BY <2>7, <5>1, <5>2
      <4> QED BY <2>7, <3>3, <4>1
    <3>8. b = [updatedAt |-> b.updatedAt, deletedAt |-> b.deletedAt, restoredAt |-> b.restoredAt, content |-> b.content]
      <4>1. b \in Evidence
        BY LastsAre
      <4> QED BY <4>1 DEF Evidence, Live, Dead
    <3> DEFINE r == [b EXCEPT !.restoredAt = LastRestoration]
    <3>9. r.updatedAt = b.updatedAt /\ r.restoredAt = LastRestoration
      BY <3>8
    <3>10. shown # <<>> /\ Head(shown) = r
      BY <3>5
    <3> HIDE DEF r, shown
    <3> QED BY <2>6, <2>9, <3>6, <3>7, <3>9, <3>10 DEF shown
  <2> QED BY <2>8, <2>9
<1> QED BY <1>1, MergeInvHolds, PTL

===============================================================================
