--------------------------- MODULE TrackLogProofs ---------------------------
(* Lemmas about the operators of TrackStore on logs: positions and their       *)
(* greatest elements, the subsequence at a set of positions, framing, and      *)
(* resealing.                                                                  *)
EXTENDS TrackStore, TLAPS, FiniteSetTheorems, SequenceTheorems

\* Events of a log are told apart by their ids.
Distinct(s) == \A i, j \in DOMAIN s : s[i].id = s[j].id => i = j

-----------------------------------------------------------------------------
(* Positions. *)

LEMMA LeastPosition ==
    ASSUME NEW T \in SUBSET Nat, T # {}
    PROVE  \E x \in T : \A y \in T : x <= y
<1>1. \E x \in T : \A y \in T : ~(<<y, x>> \in OpToRel(<, Nat))
  BY NatLessThanWellFounded, WFMin
<1>2. PICK x \in T : \A y \in T : ~(<<y, x>> \in OpToRel(<, Nat))
  BY <1>1
<1>3. \A y \in T : ~(y < x)
  BY <1>2 DEF OpToRel
<1> QED BY <1>3

LEMMA GreatestPosition ==
    ASSUME NEW n \in Nat, NEW T \in SUBSET (1 .. n), T # {}
    PROVE  \E x \in T : \A y \in T : y <= x
<1> DEFINE U == {n - x : x \in T}
<1>0. \A x \in T : x \in 1 .. n /\ n - x \in Nat
  OBVIOUS
<1>1. U \in SUBSET Nat /\ U # {}
  <2>1. \A u \in U : u \in Nat
    BY <1>0
  <2> QED BY <2>1
<1>2. PICK u \in U : \A v \in U : u <= v
  BY <1>1, LeastPosition
<1>3. PICK x \in T : u = n - x
  OBVIOUS
<1>4. \A y \in T : n - y \in U
  OBVIOUS
<1>5. \A y \in T : u <= n - y
  BY <1>2, <1>4
<1> QED BY <1>3, <1>5

LEMMA FinitePositions ==
    ASSUME NEW n \in Nat, NEW T \in SUBSET (1 .. n)
    PROVE  IsFiniteSet(T) /\ Cardinality(T) \in Nat /\ Cardinality(T) <= n
<1>1. IsFiniteSet(1 .. n) /\ Cardinality(1 .. n) = n
  BY FS_Interval
<1>2. IsFiniteSet(T) /\ Cardinality(T) <= Cardinality(1 .. n)
  BY <1>1, FS_Subset
<1> QED BY <1>1, <1>2, FS_CardinalityType

-----------------------------------------------------------------------------
(* The subsequence at a set of positions. *)

Rank(F, i) == Cardinality({j \in F : j <= i})

\* Positions of F are ranked 1 .. Cardinality(F), each rank once.
LEMMA Ranks ==
    ASSUME NEW n \in Nat, NEW F \in SUBSET (1 .. n)
    PROVE  /\ Cardinality(F) \in Nat
           /\ \A i \in F : Rank(F, i) \in 1 .. Cardinality(F)
           /\ \A i, j \in F : Rank(F, i) = Rank(F, j) => i = j
           /\ \A k \in 1 .. Cardinality(F) : \E i \in F : Rank(F, i) = k
<1>1. IsFiniteSet(F) /\ Cardinality(F) \in Nat
  BY FinitePositions
<1>2. ASSUME NEW i \in F
      PROVE  LET U == {j \in F : j <= i} IN
             IsFiniteSet(U) /\ Rank(F, i) = Cardinality(U) /\ Rank(F, i) \in 1 .. Cardinality(F)
  <2> DEFINE U == {j \in F : j <= i}
  <2>1. U \in SUBSET F /\ i \in U
    OBVIOUS
  <2>2. IsFiniteSet(U) /\ Cardinality(U) <= Cardinality(F)
    BY <1>1, <2>1, FS_Subset
  <2>3. Cardinality(U) \in Nat /\ Cardinality(U) # 0
    BY <2>1, <2>2, FS_CardinalityType, FS_EmptySet
  <2>4. Rank(F, i) = Cardinality(U)
    BY DEF Rank
  <2> QED BY <1>1, <2>2, <2>3, <2>4
<1>3. ASSUME NEW i \in F, NEW j \in F, i < j
      PROVE  Rank(F, i) # Rank(F, j)
  <2> DEFINE U == {k \in F : k <= i}
             V == {k \in F : k <= j}
  <2>0. \A k \in F : k \in Int
    OBVIOUS
  <2>1. U \in SUBSET V /\ j \in V /\ j \notin U
    <3>1. \A k \in F : k <= i => k <= j
      BY <1>3, <2>0
    <3>2. ~(j <= i) /\ j <= j
      BY <1>3, <2>0
    <3> QED BY <3>1, <3>2
  <2>2. IsFiniteSet(V)
    BY <1>2
  <2>3. Cardinality(V) = Cardinality(U) => V = U
    BY <2>1, <2>2, FS_Subset
  <2>4. Rank(F, i) = Cardinality(U) /\ Rank(F, j) = Cardinality(V)
    BY DEF Rank
  <2> QED BY <2>1, <2>3, <2>4
<1>4. \A i, j \in F : Rank(F, i) = Rank(F, j) => i = j
  <2> SUFFICES ASSUME NEW i \in F, NEW j \in F, i # j PROVE Rank(F, i) # Rank(F, j)
    OBVIOUS
  <2>1. i < j \/ j < i
    OBVIOUS
  <2> QED BY <1>3, <2>1
<1>5. \A k \in 1 .. Cardinality(F) : \E i \in F : Rank(F, i) = k
  <2> DEFINE C == 1 .. Cardinality(F)
             r == [i \in F |-> Rank(F, i)]
  <2>1. r \in [F -> C] /\ \A i, j \in F : r[i] = r[j] => i = j
    BY <1>2, <1>4
  <2>2. r \in Injection(F, C)
    BY <2>1 DEF Injection, IsInjective
  <2>3. IsFiniteSet(C) /\ Cardinality(C) = Cardinality(F)
    BY <1>1, FS_Interval
  <2>4. r \in Surjection(F, C)
    BY <2>2, <2>3, FS_Injection
  <2>5. \A k \in C : \E i \in F : r[i] = k
    BY <2>4 DEF Surjection
  <2> QED BY <2>5
<1> QED BY <1>1, <1>2, <1>4, <1>5

\* Keep(s, F) consists of the lines of s at F, each of them once.
LEMMA KeepLines ==
    ASSUME NEW S, NEW s \in Seq(S), NEW F \in SUBSET (1 .. Len(s))
    PROVE  /\ Keep(s, F) \in Seq(S) /\ Len(Keep(s, F)) = Cardinality(F) /\ Cardinality(F) \in Nat
           /\ \A k \in 1 .. Cardinality(F) :
                 \E i \in F : Rank(F, i) = k /\ Keep(s, F)[k] = s[i]
           /\ \A i \in F : \E k \in 1 .. Cardinality(F) : Keep(s, F)[k] = s[i]
<1>0. Len(s) \in Nat
  OBVIOUS
<1>1. /\ Cardinality(F) \in Nat
      /\ \A i \in F : Rank(F, i) \in 1 .. Cardinality(F)
      /\ \A i, j \in F : Rank(F, i) = Rank(F, j) => i = j
      /\ \A k \in 1 .. Cardinality(F) : \E i \in F : Rank(F, i) = k
  BY <1>0, Ranks
<1> DEFINE c == Cardinality(F)
           At2(k) == CHOOSE i \in F : Rank(F, i) = k
<1>2. Keep(s, F) = [k \in 1 .. c |-> s[At2(k)]]
  BY DEF Keep, Rank
<1>3. \A k \in 1 .. c : At2(k) \in F /\ Rank(F, At2(k)) = k
  BY <1>1
<1> HIDE DEF At2, c
<1>8. \A i \in F : i \in 1 .. Len(s) /\ s[i] \in S
  OBVIOUS
<1>4. \A k \in 1 .. c : s[At2(k)] \in S
  BY <1>3, <1>8
<1>5. c \in Nat
  BY <1>1 DEF c
<1>6. Keep(s, F) \in Seq(S) /\ Len(Keep(s, F)) = c /\ \A k \in 1 .. c : Keep(s, F)[k] = s[At2(k)]
  BY <1>2, <1>4, <1>5
<1>7. \A i \in F : Rank(F, i) \in 1 .. c /\ At2(Rank(F, i)) = i
  BY <1>1, <1>3 DEF c
<1> QED BY <1>3, <1>5, <1>6, <1>7 DEF c
-----------------------------------------------------------------------------
(* Framing. *)

LEMMA EarlierFacts ==
    ASSUME NEW s, NEW a, NEW i \in Nat \ {0}
    PROVE  Earlier(s, a, i) \in SUBSET (1 .. (i - 1)) /\ i - 1 \in Nat
BY DEF Earlier

LEMMA EarlierMember ==
    ASSUME NEW s, NEW a, NEW i \in Nat \ {0}
    PROVE  \A x : x \in Earlier(s, a, i) <=> x \in 1 .. (i - 1) /\ s[x].agg = a
BY DEF Earlier

\* The seq that follows is one more than the last event's, or 1.
LEMMA NextSeqLast ==
    ASSUME NEW s \in Seq(Event), NEW a, NEW i \in 1 .. (Len(s) + 1)
    PROVE  /\ NextSeq(s, a, i) \in Nat
           /\ Earlier(s, a, i) = {} => NextSeq(s, a, i) = 1
           /\ \A j \in Earlier(s, a, i) :
                (\A k \in Earlier(s, a, i) : k <= j) => NextSeq(s, a, i) = s[j].seq + 1
<1> DEFINE E == Earlier(s, a, i)
           m == CHOOSE j \in E : \A k \in E : k <= j
<1>1. E \in SUBSET (1 .. (i - 1)) /\ i - 1 \in Nat /\ Len(s) \in Nat
  BY EarlierFacts
<1>2. CASE E = {}
  BY <1>2 DEF NextSeq
<1>3. CASE E # {}
  <2>1. \E j \in E : \A k \in E : k <= j
    BY <1>1, <1>3, GreatestPosition
  <2>2. m \in E /\ \A k \in E : k <= m
    BY <2>1
  <2>3. NextSeq(s, a, i) = s[m].seq + 1
    BY <1>3 DEF NextSeq
  <2> HIDE DEF m
  <2>4. m \in 1 .. Len(s)
    BY <1>1, <2>2
  <2>5. s[m].seq \in Nat
    <3>1. s[m] \in Event
      BY <2>4
    <3> QED BY <3>1 DEF Event
  <2>6. ASSUME NEW j \in E, \A k \in E : k <= j PROVE j = m
    <3>1. j <= m /\ m <= j /\ j \in Int /\ m \in Int
      BY <1>1, <2>2, <2>6
    <3> QED BY <3>1
  <2> QED BY <1>3, <2>3, <2>5, <2>6
<1> QED BY <1>2, <1>3

\* What a frame does not touch.
SameEvent(e, f) == /\ e.id = f.id /\ e.agg = f.agg /\ e.tok = f.tok /\ e.cmd = f.cmd
                   /\ e.i = f.i /\ e.n = f.n /\ e.local = f.local

LEMMA FramedEvent ==
    ASSUME NEW e \in Event, NEW q \in Nat, NEW r \in Nat
    PROVE  LET f == [e EXCEPT !.seq = q, !.prev = r] IN f \in Event /\ SameEvent(f, e)
BY DEF Event, SameEvent

LEMMA ReframeFacts ==
    ASSUME NEW s \in Seq(Event)
    PROVE  /\ Reframe(s) \in Seq(Event) /\ Len(Reframe(s)) = Len(s)
           /\ \A k \in 1 .. Len(s) : SameEvent(Reframe(s)[k], s[k])
<1> DEFINE q(k) == Cardinality(Earlier(s, s[k].agg, k)) + 1
           r(k) == IF k = 1 THEN 0 ELSE s[k - 1].id
           f(k) == [s[k] EXCEPT !.seq = q(k), !.prev = r(k)]
<1>1. Reframe(s) = [k \in 1 .. Len(s) |-> f(k)]
  BY DEF Reframe
<1>2. ASSUME NEW k \in 1 .. Len(s) PROVE f(k) \in Event /\ SameEvent(f(k), s[k])
  <2>1. q(k) \in Nat
    <3>1. Cardinality(Earlier(s, s[k].agg, k)) \in Nat
      BY EarlierFacts, FinitePositions
    <3> QED BY <3>1
  <2>2. r(k) \in Nat
    <3>1. k # 1 => s[k - 1] \in Event
      OBVIOUS
    <3>2. k # 1 => s[k - 1].id \in Nat
      BY <3>1 DEF Event
    <3> QED BY <3>2
  <2>3. s[k] \in Event
    OBVIOUS
  <2> HIDE DEF q, r
  <2> QED BY <2>1, <2>2, <2>3, FramedEvent
<1> HIDE DEF f
<1>3. Len(s) \in Nat
  OBVIOUS
<1> QED BY <1>1, <1>2, <1>3

-----------------------------------------------------------------------------
(* Resealing. *)

\* Every id has a first line.
LEMMA FirstLine ==
    ASSUME NEW s \in Seq(Event), NEW i \in 1 .. Len(s)
    PROVE  \E j \in Firsts(s) : s[j].id = s[i].id
<1> DEFINE T == {j \in 1 .. Len(s) : s[j].id = s[i].id}
<1>1. T \in SUBSET Nat /\ T # {}
  OBVIOUS
<1>2. PICK j \in T : \A k \in T : j <= k
  BY <1>1, LeastPosition
<1>3. \A k \in 1 .. (j - 1) : s[k].id # s[j].id
  BY <1>2
<1> QED BY <1>2, <1>3 DEF Firsts

LEMMA ResealFacts ==
    ASSUME NEW s \in Seq(Event)
    PROVE  LET r == Resealed(s) IN
           /\ r \in Seq(Event) /\ Distinct(r)
           /\ IdsOf(r) = IdsOf(s)
           /\ \A k \in DOMAIN r : \E i \in DOMAIN s : SameEvent(r[k], s[i])
           /\ Distinct(s) => Len(r) = Len(s) /\ \A k \in DOMAIN r : r[k].id = s[k].id
<1> DEFINE F == Firsts(s)
           c == Cardinality(F)
           u == Unique(s)
           r == Resealed(s)
<1>1. F \in SUBSET (1 .. Len(s)) /\ Len(s) \in Nat /\ DOMAIN s = 1 .. Len(s)
  BY DEF Firsts
<1>2. /\ u \in Seq(Event) /\ Len(u) = c /\ c \in Nat
      /\ \A k \in 1 .. c : \E i \in F : Rank(F, i) = k /\ u[k] = s[i]
      /\ \A i \in F : \E k \in 1 .. c : u[k] = s[i]
  BY <1>1, KeepLines DEF Unique
<1>3. r \in Seq(Event) /\ Len(r) = c /\ \A k \in 1 .. c : SameEvent(r[k], u[k])
  BY <1>2, ReframeFacts DEF Resealed
<1>4. DOMAIN r = 1 .. c
  BY <1>3
<1>5. \A k \in 1 .. c : \E i \in F : Rank(F, i) = k /\ SameEvent(r[k], s[i])
  BY <1>2, <1>3
<1> HIDE DEF r, u, c, F
<1>6. Distinct(r)
  <2> SUFFICES ASSUME NEW k \in 1 .. c, NEW l \in 1 .. c, r[k].id = r[l].id PROVE k = l
    BY <1>4 DEF Distinct
  <2>1. PICK i \in F : Rank(F, i) = k /\ SameEvent(r[k], s[i])
    BY <1>5
  <2>2. PICK j \in F : Rank(F, j) = l /\ SameEvent(r[l], s[j])
    BY <1>5
  <2>3. s[i].id = s[j].id
    BY <2>1, <2>2 DEF SameEvent
  <2>4. i \in 1 .. Len(s) /\ j \in 1 .. Len(s)
    BY <1>1
  <2>5. ~(i < j) /\ ~(j < i)
    <3>1. i < j => i \in 1 .. (j - 1)
      BY <2>4
    <3>2. j < i => j \in 1 .. (i - 1)
      BY <2>4
    <3> QED BY <2>3, <3>1, <3>2 DEF F, Firsts
  <2>6. i = j
    BY <2>4, <2>5
  <2> QED BY <2>1, <2>2, <2>6
<1>7. IdsOf(r) = IdsOf(s)
  <2>1. ASSUME NEW i \in DOMAIN s PROVE s[i].id \in IdsOf(r)
    <3>1. PICK j \in F : s[j].id = s[i].id
      BY <1>1, FirstLine DEF F
    <3>2. PICK k \in 1 .. c : u[k] = s[j]
      BY <1>2
    <3>3. r[k].id = s[i].id
      BY <1>3, <3>1, <3>2 DEF SameEvent
    <3> QED BY <1>4, <3>3 DEF IdsOf
  <2>2. ASSUME NEW k \in DOMAIN r PROVE r[k].id \in IdsOf(s)
    <3>1. PICK i \in F : SameEvent(r[k], s[i])
      BY <1>4, <1>5
    <3>2. i \in DOMAIN s /\ r[k].id = s[i].id
      BY <1>1, <3>1 DEF SameEvent
    <3> QED BY <3>2 DEF IdsOf
  <2> QED BY <2>1, <2>2 DEF IdsOf
<1>8. \A k \in DOMAIN r : \E i \in DOMAIN s : SameEvent(r[k], s[i])
  BY <1>1, <1>4, <1>5
<1>9. ASSUME Distinct(s) PROVE Len(r) = Len(s) /\ \A k \in DOMAIN r : r[k].id = s[k].id
  <2>1. F = 1 .. Len(s)
    <3>1. ASSUME NEW i \in 1 .. Len(s), NEW j \in 1 .. (i - 1) PROVE s[j].id # s[i].id
      <4>1. j \in 1 .. Len(s) /\ i # j
        BY <1>1
      <4> QED BY <1>1, <1>9, <4>1 DEF Distinct
    <3> QED BY <1>1, <3>1 DEF F, Firsts
  <2>2. c = Len(s)
    <3>1. Cardinality(1 .. Len(s)) = IF 1 > Len(s) THEN 0 ELSE Len(s) - 1 + 1
      BY <1>1, FS_Interval
    <3> QED BY <1>1, <2>1, <3>1 DEF c
  <2>3. \A i \in F : Rank(F, i) = i
    <3> SUFFICES ASSUME NEW i \in F PROVE Rank(F, i) = i
      OBVIOUS
    <3>1. i \in 1 .. Len(s)
      BY <1>1
    <3>2. {j \in F : j <= i} = 1 .. i
      BY <1>1, <2>1, <3>1
    <3>3. Cardinality(1 .. i) = IF 1 > i THEN 0 ELSE i - 1 + 1
      BY <3>1, FS_Interval
    <3>4. Cardinality(1 .. i) = i
      BY <3>1, <3>3
    <3>5. Rank(F, i) = Cardinality(1 .. i)
      BY <3>2, Zenon DEF Rank
    <3> QED BY <3>4, <3>5
  <2>4. \A k \in 1 .. c : SameEvent(r[k], s[k])
    BY <1>5, <2>3
  <2> QED BY <1>3, <1>4, <2>2, <2>4 DEF SameEvent
<1> QED BY <1>3, <1>6, <1>7, <1>8, <1>9 DEF r
-----------------------------------------------------------------------------
(* Appending a frame, or a first part of it. *)

LEMMA CommandFacts ==
    ASSUME NEW c \in Commands
    PROVE  /\ c.aggs \in Seq(Agg) /\ c.aggs # <<>> /\ c.tok \in Token \cup {NoToken}
           /\ Len(c.aggs) \in Nat \ {0}
           /\ DOMAIN c.aggs = 1 .. Len(c.aggs)
           /\ \A k \in 1 .. Len(c.aggs) : c.aggs[k] \in Agg
<1>1. c.aggs \in Seq(Agg) /\ c.aggs # <<>> /\ c.tok \in Token \cup {NoToken}
  BY CommandAssumption
<1>2. Len(c.aggs) \in Nat /\ Len(c.aggs) # 0
  BY <1>1
<1> QED BY <1>1, <1>2

\* The earlier positions of the command on the same aggregate.
Same(c, k) == {j \in 1 .. (k - 1) : c.aggs[j] = c.aggs[k]}

LEMMA SameFacts ==
    ASSUME NEW c \in Commands, NEW k \in 1 .. Len(c.aggs)
    PROVE  /\ Same(c, k) \in SUBSET (1 .. (k - 1)) /\ k - 1 \in Nat
           /\ IsFiniteSet(Same(c, k)) /\ Cardinality(Same(c, k)) \in Nat
<1>1. Same(c, k) \in SUBSET (1 .. (k - 1)) /\ k - 1 \in Nat
  BY DEF Same
<1> QED BY <1>1, FinitePositions

LEMMA LastIdFacts ==
    ASSUME NEW s \in Seq(Event)
    PROVE  LastId(s) \in Nat /\ (s = <<>> => LastId(s) = 0)
           /\ (s # <<>> => LastId(s) = s[Len(s)].id)
<1>1. s # <<>> => s[Len(s)] \in Event
  OBVIOUS
<1>2. s # <<>> => s[Len(s)].id \in Nat
  BY <1>1 DEF Event
<1> QED BY <1>2 DEF LastId

\* f holds the lines of command c after s, numbered from made + 1.
IsFrame(f, s, c, made) ==
    /\ f \in Seq(Event) /\ Len(f) = Len(c.aggs) /\ f # <<>>
    /\ \A k \in 1 .. Len(c.aggs) :
          /\ f[k] \in Event
          /\ f[k].id = made + k /\ f[k].agg = c.aggs[k] /\ f[k].tok = c.tok
          /\ f[k].cmd = (IF Len(c.aggs) > 1 THEN made + 1 ELSE 0)
          /\ f[k].i = k - 1 /\ f[k].n = Len(c.aggs)
          /\ f[k].seq = NextSeq(s, c.aggs[k], Len(s) + 1) + Cardinality(Same(c, k))
          /\ f[k].prev = (IF k = 1 THEN LastId(s) ELSE made + k - 1)

LEMMA FrameFacts ==
    ASSUME NEW s \in Seq(Event), NEW c \in Commands, NEW made \in Nat
    PROVE  IsFrame(Frame(s, c, made), s, c, made)
<1> DEFINE n == Len(c.aggs)
           q(k) == NextSeq(s, c.aggs[k], Len(s) + 1) + Cardinality(Same(c, k))
           r(k) == IF k = 1 THEN LastId(s) ELSE made + k - 1
           d == IF n > 1 THEN made + 1 ELSE 0
           e(k) == [id |-> made + k, agg |-> c.aggs[k], tok |-> c.tok, cmd |-> d,
                    i |-> k - 1, n |-> n, seq |-> q(k), prev |-> r(k), local |-> TRUE]
           f == Frame(s, c, made)
<1>1. f = [k \in 1 .. n |-> e(k)]
  BY DEF Frame, Same
<1>2. n \in Nat \ {0} /\ c.tok \in Token \cup {NoToken} /\ \A k \in 1 .. n : c.aggs[k] \in Agg
  BY CommandFacts
<1>3. ASSUME NEW k \in 1 .. n PROVE e(k) \in Event
  <2>1. q(k) \in Nat
    <3>1. Len(s) \in Nat /\ Len(s) + 1 \in 1 .. (Len(s) + 1)
      OBVIOUS
    <3>2. NextSeq(s, c.aggs[k], Len(s) + 1) \in Nat
      BY <3>1, NextSeqLast
    <3>3. Cardinality(Same(c, k)) \in Nat
      BY SameFacts
    <3> QED BY <3>2, <3>3
  <2>2. r(k) \in Nat
    <3>1. k # 1 => made + k - 1 \in Nat
      OBVIOUS
    <3> QED BY <3>1, LastIdFacts
  <2>3. d \in Nat /\ made + k \in Nat /\ k - 1 \in Nat
    BY <1>2
  <2> HIDE DEF q, r, d, n
  <2> QED BY <1>2, <2>1, <2>2, <2>3 DEF Event
<1>4. \A k \in 1 .. n : f[k] = e(k)
  BY <1>1
<1>5. f \in Seq(Event) /\ Len(f) = n
  <2> HIDE DEF e, f
  <2> QED BY <1>1, <1>2, <1>3
<1>6. f # <<>>
  BY <1>2, <1>5
<1>7. \A k \in 1 .. n :
         /\ f[k] \in Event
         /\ f[k].id = made + k /\ f[k].agg = c.aggs[k] /\ f[k].tok = c.tok
         /\ f[k].cmd = d /\ f[k].i = k - 1 /\ f[k].n = n
         /\ f[k].seq = q(k) /\ f[k].prev = r(k)
  <2> SUFFICES ASSUME NEW k \in 1 .. n
               PROVE  /\ f[k] \in Event
                      /\ f[k].id = made + k /\ f[k].agg = c.aggs[k] /\ f[k].tok = c.tok
                      /\ f[k].cmd = d /\ f[k].i = k - 1 /\ f[k].n = n
                      /\ f[k].seq = q(k) /\ f[k].prev = r(k)
    OBVIOUS
  <2>1. f[k] = e(k) /\ e(k) \in Event
    BY <1>3, <1>4
  <2> HIDE DEF f, q, r, d, n
  <2> QED BY <2>1
<1> QED BY <1>5, <1>6, <1>7, Zenon DEF IsFrame

\* t is s followed by the first m lines of f.
Extends(t, s, f, m) ==
    /\ t \in Seq(Event) /\ Len(t) = Len(s) + m /\ Len(s) \in Nat
    /\ DOMAIN s = 1 .. Len(s) /\ DOMAIN t = 1 .. (Len(s) + m)
    /\ \A i \in 1 .. Len(s) : i \in DOMAIN t /\ t[i] = s[i]
    /\ \A k \in 1 .. m : Len(s) + k \in DOMAIN t /\ t[Len(s) + k] = f[k]
    /\ \A i \in DOMAIN t : i \in 1 .. Len(s) \/ \E k \in 1 .. m : i = Len(s) + k

LEMMA AppendedLines ==
    ASSUME NEW s \in Seq(Event), NEW f \in Seq(Event), NEW m \in 0 .. Len(f)
    PROVE  Extends(s \o SubSeq(f, 1, m), s, f, m)
<1> DEFINE t == s \o SubSeq(f, 1, m)
           L == Len(s)
<1>1. SubSeq(f, 1, m) \in Seq(Event) /\ Len(SubSeq(f, 1, m)) = m
  <2>1. \A i \in 1 .. m : f[i] \in Event
    OBVIOUS
  <2> QED BY <2>1, SubSeqProperties
<1>2. \A k \in 1 .. m : SubSeq(f, 1, m)[k] = f[k]
  BY SubSeqProperties
<1>3. /\ t \in Seq(Event) /\ Len(t) = L + m
      /\ \A i \in 1 .. L : t[i] = s[i]
      /\ \A k \in 1 .. m : t[L + k] = f[k]
  BY <1>1, <1>2, ConcatProperties
<1> HIDE DEF t
<1>4. L \in Nat /\ m \in Nat /\ DOMAIN s = 1 .. L /\ DOMAIN t = 1 .. (L + m)
  BY <1>3
<1>5. \A i \in 1 .. L : i \in 1 .. (L + m)
  BY <1>4
<1>6. \A k \in 1 .. m : L + k \in 1 .. (L + m)
  BY <1>4
<1>7. ASSUME NEW i \in 1 .. (L + m), i \notin 1 .. L PROVE \E k \in 1 .. m : i = L + k
  <2>1. i - L \in 1 .. m /\ i = L + (i - L)
    BY <1>4, <1>7
  <2> QED BY <2>1
<1>8. Extends(t, s, f, m)
  BY <1>3, <1>4, <1>5, <1>6, <1>7 DEF Extends
<1> QED BY <1>8 DEF t

\* The seq that follows depends on the lines before the position only.
LEMMA NextSeqSame ==
    ASSUME NEW s \in Seq(Event), NEW t \in Seq(Event), NEW a,
           NEW i \in 1 .. (Len(s) + 1), NEW l \in 1 .. (Len(t) + 1),
           Earlier(t, a, l) = Earlier(s, a, i),
           \A j \in Earlier(s, a, i) : t[j] = s[j]
    PROVE  NextSeq(t, a, l) = NextSeq(s, a, i)
<1>1. CASE Earlier(s, a, i) = {}
  BY <1>1, NextSeqLast
<1>2. CASE Earlier(s, a, i) # {}
  <2>1. Earlier(s, a, i) \in SUBSET (1 .. (i - 1)) /\ i - 1 \in Nat
    BY EarlierFacts
  <2>2. PICK j \in Earlier(s, a, i) : \A k \in Earlier(s, a, i) : k <= j
    BY <1>2, <2>1, GreatestPosition
  <2>3. NextSeq(s, a, i) = s[j].seq + 1
    BY <2>2, NextSeqLast
  <2>4. NextSeq(t, a, l) = t[j].seq + 1
    BY <2>2, NextSeqLast
  <2> QED BY <2>3, <2>4
<1> QED BY <1>1, <1>2

\* The hash chain and the numbering of each aggregate continue over a frame,
\* whichever part of it reaches the file.
LEMMA FrameChained ==
    ASSUME NEW s \in Seq(Event), NEW c \in Commands, NEW made \in Nat,
           NEW m \in 0 .. Len(c.aggs), NEW t, Extends(t, s, Frame(s, c, made), m), Chained(s)
    PROVE  Chained(t)
<1> DEFINE n == Len(c.aggs)
           L == Len(s)
           f == Frame(s, c, made)
<1>1. /\ n \in Nat \ {0} /\ L \in Nat /\ m \in Nat /\ m <= n
      /\ DOMAIN s = 1 .. L
  BY CommandFacts
<1>2. /\ t \in Seq(Event) /\ Len(t) = L + m /\ DOMAIN t = 1 .. (L + m)
      /\ \A i \in 1 .. L : t[i] = s[i]
      /\ \A k \in 1 .. m : t[L + k] = f[k]
  BY DEF Extends
<1>3. \A k \in 1 .. n :
         /\ f[k].id = made + k /\ f[k].agg = c.aggs[k]
         /\ f[k].seq = NextSeq(s, c.aggs[k], L + 1) + Cardinality(Same(c, k))
         /\ f[k].prev = (IF k = 1 THEN LastId(s) ELSE made + k - 1)
  <2>1. IsFrame(f, s, c, made)
    BY FrameFacts
  <2> HIDE DEF f
  <2> QED BY <2>1, Zenon DEF IsFrame
<1> HIDE DEF n, L, f
<1>4. ASSUME NEW i \in 1 .. L
      PROVE  /\ t[i].prev = (IF i = 1 THEN 0 ELSE t[i - 1].id)
             /\ t[i].seq = NextSeq(t, t[i].agg, i)
  <2>1. t[i] = s[i] /\ (i # 1 => i - 1 \in 1 .. L)
    BY <1>1, <1>2
  <2>2. s[i].prev = (IF i = 1 THEN 0 ELSE s[i - 1].id) /\ s[i].seq = NextSeq(s, s[i].agg, i)
    BY <1>1 DEF Chained
  <2>3. \A j \in 1 .. (i - 1) : t[j] = s[j]
    BY <1>1, <1>2
  <2>4. Earlier(t, s[i].agg, i) = Earlier(s, s[i].agg, i)
    BY <2>3 DEF Earlier
  <2>5. \A j \in Earlier(s, s[i].agg, i) : t[j] = s[j]
    BY <2>3 DEF Earlier
  <2>6. i \in 1 .. (Len(s) + 1) /\ i \in 1 .. (Len(t) + 1)
    BY <1>1, <1>2 DEF L
  <2>7. NextSeq(t, s[i].agg, i) = NextSeq(s, s[i].agg, i)
    BY <1>2, <2>4, <2>5, <2>6, NextSeqSame
  <2>8. i # 1 => t[i - 1] = s[i - 1]
    BY <1>2, <2>1
  <2> QED BY <2>1, <2>2, <2>7, <2>8
<1>5. ASSUME NEW k \in 1 .. m
      PROVE  /\ t[L + k].prev = (IF L + k = 1 THEN 0 ELSE t[L + k - 1].id)
             /\ t[L + k].seq = NextSeq(t, t[L + k].agg, L + k)
  <2>0. k \in 1 .. n /\ t[L + k] = f[k]
    BY <1>1, <1>2
  <2> DEFINE a == c.aggs[k]
  <2>1. /\ t[L + k].agg = a
        /\ t[L + k].seq = NextSeq(s, a, L + 1) + Cardinality(Same(c, k))
        /\ t[L + k].prev = (IF k = 1 THEN LastId(s) ELSE made + k - 1)
    BY <1>3, <2>0
  <2>2. t[L + k].prev = (IF L + k = 1 THEN 0 ELSE t[L + k - 1].id)
    <3>1. CASE k = 1
      <4>1. L = 0 => s = <<>>
        BY DEF L
      <4>2. L # 0 => s # <<>> /\ L \in 1 .. L
        BY <1>1 DEF L
      <4>3. L # 0 => LastId(s) = t[L].id
        BY <1>2, <4>2, LastIdFacts DEF L
      <4>4. L = 0 => LastId(s) = 0
        BY <4>1, LastIdFacts
      <4>5. L + k - 1 = L /\ (L + k = 1 <=> L = 0)
        BY <1>1, <3>1
      <4> QED BY <2>1, <3>1, <4>3, <4>4, <4>5
    <3>2. CASE k # 1
      <4>1. k - 1 \in 1 .. m /\ k - 1 \in 1 .. n /\ L + k - 1 = L + (k - 1) /\ L + k # 1
        BY <1>1, <3>2
      <4>2. t[L + (k - 1)].id = made + (k - 1)
        BY <1>2, <1>3, <4>1
      <4>3. made + k - 1 = made + (k - 1)
        OBVIOUS
      <4> QED BY <2>1, <3>2, <4>1, <4>2, <4>3
    <3> QED BY <3>1, <3>2
  <2>3. Same(c, k) \in SUBSET (1 .. (k - 1)) /\ k - 1 \in Nat /\ Cardinality(Same(c, k)) \in Nat
    BY <2>0, SameFacts DEF n
  <2>4. \A j \in 1 .. (L + k - 1) : j \in 1 .. L \/ (j - L \in 1 .. (k - 1) /\ j = L + (j - L))
    BY <1>1
  <2>5. \A j \in 1 .. (k - 1) : /\ L + j \in 1 .. (L + k - 1)
                                /\ j \in 1 .. m /\ j \in 1 .. n
                                /\ t[L + j].agg = c.aggs[j]
    <3>1. \A j \in 1 .. (k - 1) : L + j \in 1 .. (L + k - 1) /\ j \in 1 .. m /\ j \in 1 .. n
      BY <1>1
    <3> QED BY <1>2, <1>3, <3>1
  <2>6. NextSeq(s, a, L + 1) \in Nat /\ L + 1 \in 1 .. (Len(s) + 1) /\ L + k \in 1 .. (Len(t) + 1)
    <3>1. L + 1 \in 1 .. (Len(s) + 1) /\ L + k \in 1 .. (Len(t) + 1)
      BY <1>1, <1>2 DEF L
    <3> QED BY <3>1, NextSeqLast
  <2>9. \A x : x \in Earlier(t, a, L + k) <=> x \in 1 .. (L + k - 1) /\ t[x].agg = a
    <3> DEFINE i == L + k
    <3>1. i \in Nat \ {0}
      BY <1>1
    <3>2. \A x : x \in Earlier(t, a, i) <=> x \in 1 .. (i - 1) /\ t[x].agg = a
      <4> HIDE DEF i, a
      <4> QED BY <3>1, EarlierMember
    <3> QED BY <1>1, <3>2
  <2>10. \A x : x \in Earlier(s, a, L + 1) <=> x \in 1 .. L /\ s[x].agg = a
    <3>1. L + 1 - 1 = L
      BY <1>1
    <3>2. \A x : x \in Earlier(s, a, L + 1) <=> x \in 1 .. (L + 1 - 1) /\ s[x].agg = a
      <4> DEFINE i == L + 1
      <4>1. i \in Nat \ {0}
        BY <1>1
      <4>2. \A x : x \in Earlier(s, a, i) <=> x \in 1 .. (i - 1) /\ s[x].agg = a
        <5> HIDE DEF i, a
        <5> QED BY <4>1, EarlierMember
      <4> QED BY <1>1, <4>2
    <3> QED BY <3>1, <3>2
  <2>7. CASE Same(c, k) = {}
    <3>1. Cardinality(Same(c, k)) = 0
      BY <2>7, FS_EmptySet
    <3>2. \A j \in 1 .. (k - 1) : t[L + j].agg # a
      BY <2>5, <2>7 DEF Same
    <3>3. \A j \in 1 .. (L + k - 1) : t[j].agg = a => j \in 1 .. L
      BY <2>4, <3>2
    <3>4. \A j \in 1 .. L : j \in 1 .. (L + k - 1)
      BY <1>1
    <3>5. \A x : x \in Earlier(t, a, L + k) <=> x \in Earlier(s, a, L + 1)
      BY <1>2, <2>9, <2>10, <3>3, <3>4
    <3>6. Earlier(t, a, L + k) = Earlier(s, a, L + 1)
      BY <3>5, Zenon
    <3>7. \A j \in Earlier(s, a, L + 1) : t[j] = s[j]
      BY <1>2, <2>10
    <3>8. NextSeq(t, a, L + k) = NextSeq(s, a, L + 1)
      BY <1>2, <2>6, <3>6, <3>7, NextSeqSame
    <3> QED BY <2>1, <2>2, <2>6, <3>1, <3>8
  <2>8. CASE Same(c, k) # {}
    <3>1. PICK j \in Same(c, k) : \A x \in Same(c, k) : x <= j
      BY <2>3, <2>8, GreatestPosition
    <3>2. j \in 1 .. (k - 1) /\ c.aggs[j] = a /\ j \in 1 .. n /\ j \in 1 .. m
      BY <2>5, <3>1 DEF Same
    <3>3. L + j \in Earlier(t, a, L + k)
      BY <2>5, <2>9, <3>2
    <3>4. ASSUME NEW x \in Earlier(t, a, L + k) PROVE x <= L + j
      <4>1. x \in 1 .. (L + k - 1) /\ t[x].agg = a
        BY <2>9
      <4>2. CASE x \in 1 .. L
        BY <1>1, <3>2, <4>2
      <4>3. CASE x - L \in 1 .. (k - 1) /\ x = L + (x - L)
        <5>1. c.aggs[x - L] = a
          BY <2>5, <4>1, <4>3
        <5>2. x - L \in Same(c, k)
          BY <4>3, <5>1 DEF Same
        <5>3. x - L <= j
          BY <3>1, <5>2
        <5> QED BY <1>1, <3>2, <4>1, <5>3
      <4> QED BY <2>4, <4>1, <4>2, <4>3
    <3>5. NextSeq(t, a, L + k) = t[L + j].seq + 1
      BY <1>2, <2>6, <3>3, <3>4, NextSeqLast
    <3>6. t[L + j].seq = NextSeq(s, a, L + 1) + Cardinality(Same(c, j))
      BY <1>2, <1>3, <3>2
    <3>7. Same(c, k) = Same(c, j) \cup {j} /\ j \notin Same(c, j)
      <4>1. \A x \in Same(c, k) : x # j => x \in Same(c, j)
        <5> SUFFICES ASSUME NEW x \in Same(c, k), x # j PROVE x \in Same(c, j)
          OBVIOUS
        <5>1. x <= j /\ x \in 1 .. (k - 1)
          BY <2>3, <3>1
        <5>2. x \in 1 .. (j - 1)
          BY <3>2, <5>1
        <5>3. c.aggs[x] = c.aggs[j]
          BY <3>2 DEF Same
        <5> QED BY <5>2, <5>3 DEF Same
      <4>2. \A x \in Same(c, j) : x \in Same(c, k) /\ x # j
        <5> SUFFICES ASSUME NEW x \in Same(c, j) PROVE x \in Same(c, k) /\ x # j
          OBVIOUS
        <5>1. x \in 1 .. (j - 1) /\ c.aggs[x] = a
          BY <3>2 DEF Same
        <5>2. x \in 1 .. (k - 1) /\ x # j
          BY <3>2, <5>1
        <5> QED BY <5>1, <5>2 DEF Same
      <4> QED BY <4>1, <4>2
    <3>8. IsFiniteSet(Same(c, j)) /\ Cardinality(Same(c, j)) \in Nat
      BY <3>2, SameFacts DEF n
    <3>9. Cardinality(Same(c, k)) = Cardinality(Same(c, j)) + 1
      BY <3>7, <3>8, FS_AddElement
    <3> HIDE DEF a
    <3>10. t[L + k].seq = NextSeq(t, a, L + k)
      BY <2>1, <2>6, <3>5, <3>6, <3>8, <3>9
    <3> QED BY <2>1, <2>2, <3>10
  <2> QED BY <2>7, <2>8
<1>6. \A i \in 1 .. (L + m) : i \in 1 .. L \/ (i - L \in 1 .. m /\ i = L + (i - L))
  BY <1>1
<1>7. ASSUME NEW i \in 1 .. (L + m)
      PROVE  /\ t[i].prev = (IF i = 1 THEN 0 ELSE t[i - 1].id)
             /\ t[i].seq = NextSeq(t, t[i].agg, i)
  <2>1. CASE i \in 1 .. L
    BY <1>4, <2>1
  <2>2. CASE i - L \in 1 .. m /\ i = L + (i - L)
    <3>1. PICK k \in 1 .. m : i = L + k
      BY <2>2
    <3>2. /\ t[L + k].prev = (IF L + k = 1 THEN 0 ELSE t[L + k - 1].id)
          /\ t[L + k].seq = NextSeq(t, t[L + k].agg, L + k)
      BY <1>5
    <3> QED BY <1>1, <3>1, <3>2
  <2> QED BY <1>6, <2>1, <2>2
<1> QED BY <1>2, <1>7 DEF Chained

\* Ids and command ids of s are numbers given out before m + 1.
Numbered(s, m) == \A i \in DOMAIN s : s[i].id \in 1 .. m /\ s[i].cmd \in 0 .. m

LEMMA FrameDistinct ==
    ASSUME NEW s \in Seq(Event), NEW c \in Commands, NEW made \in Nat,
           NEW m \in 0 .. Len(c.aggs), NEW t, Extends(t, s, Frame(s, c, made), m),
           Numbered(s, made)
    PROVE  /\ Numbered(t, made + Len(c.aggs))
           /\ Distinct(s) => Distinct(t)
<1> DEFINE n == Len(c.aggs)
           L == Len(s)
           f == Frame(s, c, made)
<1>1. n \in Nat \ {0} /\ m \in Nat /\ m <= n /\ \A k \in 1 .. m : k \in 1 .. n
  BY CommandFacts
<1>0. Extends(t, s, f, m)
  OBVIOUS
<1>2. /\ L \in Nat /\ DOMAIN s = 1 .. L
      /\ \A i \in DOMAIN s : t[i] = s[i]
      /\ \A k \in 1 .. m : t[L + k] = f[k]
      /\ \A i \in DOMAIN t : i \in DOMAIN s \/ \E k \in 1 .. m : i = L + k
  <2> HIDE DEF f
  <2> QED BY <1>0 DEF Extends
<1>3. \A k \in 1 .. n : f[k].id = made + k /\ f[k].cmd = (IF n > 1 THEN made + 1 ELSE 0)
  <2>1. IsFrame(f, s, c, made)
    BY FrameFacts
  <2> HIDE DEF f
  <2> QED BY <2>1, Zenon DEF IsFrame
<1>4. \A i \in DOMAIN s : t[i].id \in 1 .. made /\ t[i].cmd \in 0 .. made
  BY <1>2 DEF Numbered
<1>5. \A k \in 1 .. m : t[L + k].id = made + k /\ t[L + k].cmd = (IF n > 1 THEN made + 1 ELSE 0)
  <2> HIDE DEF f, n, L
  <2> QED BY <1>1, <1>2, <1>3
<1> HIDE DEF n, L, f
<1>6. \A i \in DOMAIN s : t[i].id \in 1 .. (made + n) /\ t[i].cmd \in 0 .. (made + n)
  BY <1>1, <1>4
<1>7. \A k \in 1 .. m : t[L + k].id \in 1 .. (made + n) /\ t[L + k].cmd \in 0 .. (made + n)
  BY <1>1, <1>5
<1>8. Numbered(t, made + n)
  BY <1>2, <1>6, <1>7 DEF Numbered
<1>9. ASSUME Distinct(s) PROVE Distinct(t)
  <2> SUFFICES ASSUME NEW i \in DOMAIN t, NEW j \in DOMAIN t, t[i].id = t[j].id PROVE i = j
    BY DEF Distinct
  <2>1. CASE i \in DOMAIN s /\ j \in DOMAIN s
    BY <1>2, <1>9, <2>1 DEF Distinct
  <2>2. CASE i \in DOMAIN s /\ j \notin DOMAIN s
    <3>1. PICK k \in 1 .. m : j = L + k
      BY <1>2, <2>2
    <3>2. t[i].id \in 1 .. made /\ t[j].id = made + k
      BY <1>4, <1>5, <2>2, <3>1
    <3> QED BY <3>2
  <2>3. CASE i \notin DOMAIN s /\ j \in DOMAIN s
    <3>1. PICK k \in 1 .. m : i = L + k
      BY <1>2, <2>3
    <3>2. t[j].id \in 1 .. made /\ t[i].id = made + k
      BY <1>4, <1>5, <2>3, <3>1
    <3> QED BY <3>2
  <2>4. CASE i \notin DOMAIN s /\ j \notin DOMAIN s
    <3>1. PICK k \in 1 .. m : i = L + k
      BY <1>2, <2>4
    <3>2. PICK l \in 1 .. m : j = L + l
      BY <1>2, <2>4
    <3>3. t[i].id = made + k /\ t[j].id = made + l
      BY <1>5, <3>1, <3>2
    <3>4. made + k = made + l
      BY <3>3, Zenon
    <3>5. k \in Int /\ l \in Int
      BY <1>1
    <3>6. k = l
      BY <3>4, <3>5
    <3> QED BY <3>1, <3>2, <3>6
  <2> QED BY <2>1, <2>2, <2>3, <2>4
<1> QED BY <1>8, <1>9 DEF n

\* A whole frame is a whole batch; a part of one shows at the end of the log.
LEMMA FrameBatches ==
    ASSUME NEW s \in Seq(Event), NEW c \in Commands, NEW made \in Nat,
           NEW m \in 0 .. Len(c.aggs), NEW t, Extends(t, s, Frame(s, c, made), m),
           Numbered(s, made), BatchesWhole(s)
    PROVE  BatchesWhole(t) \/ PartialTail(t)
<1> DEFINE n == Len(c.aggs)
           L == Len(s)
           f == Frame(s, c, made)
<1>1. n \in Nat \ {0} /\ m \in Nat /\ m <= n /\ \A k \in 1 .. m : k \in 1 .. n
  BY CommandFacts
<1>0. Extends(t, s, f, m)
  OBVIOUS
<1>2. /\ L \in Nat /\ DOMAIN s = 1 .. L /\ DOMAIN t = 1 .. (L + m)
      /\ \A i \in DOMAIN s : i \in DOMAIN t /\ t[i] = s[i]
      /\ \A k \in 1 .. m : L + k \in DOMAIN t /\ t[L + k] = f[k]
      /\ \A i \in DOMAIN t : i \in DOMAIN s \/ \E k \in 1 .. m : i = L + k
  <2> HIDE DEF f
  <2> QED BY <1>0 DEF Extends
<1>3. \A k \in 1 .. m : /\ t[L + k].cmd = (IF n > 1 THEN made + 1 ELSE 0)
                        /\ t[L + k].i = k - 1 /\ t[L + k].n = n
  <2>1. \A k \in 1 .. n : /\ f[k].cmd = (IF n > 1 THEN made + 1 ELSE 0)
                          /\ f[k].i = k - 1 /\ f[k].n = n
    <3>1. IsFrame(f, s, c, made)
      BY FrameFacts
    <3> HIDE DEF f
    <3> QED BY <3>1, Zenon DEF IsFrame
  <2>2. \A k \in 1 .. m : k \in 1 .. n /\ t[L + k] = f[k]
    BY <1>1, <1>2, Zenon
  <2> HIDE DEF f, n, L
  <2> QED BY <2>1, <2>2, Zenon
<1>4. \A i \in DOMAIN s : t[i].cmd \in 0 .. made
  BY <1>2 DEF Numbered
<1>5. t \in Seq(Event) /\ Len(t) = L + m
  BY DEF Extends
<1> HIDE DEF n, L, f
<1>6. ASSUME NEW i \in DOMAIN s, t[i].cmd # 0
      PROVE  LET M == Members(t, t[i].cmd)
             IN  /\ \A j \in M : t[j].n = t[i].n
                 /\ Cardinality(M) = t[i].n
                 /\ \A j, k \in M : k - j < t[i].n
                 /\ {t[j].i : j \in M} = 0 .. (t[i].n - 1)
  <2> DEFINE M == Members(s, s[i].cmd)
  <2>1. t[i] = s[i]
    BY <1>2
  <2>2. \A k \in 1 .. m : t[L + k].cmd # t[i].cmd
    <3>1. t[i].cmd \in 0 .. made
      BY <1>4
    <3>2. \A k \in 1 .. m : t[L + k].cmd = made + 1 \/ t[L + k].cmd = 0
      BY <1>3
    <3> QED BY <1>6, <3>1, <3>2
  <2>3. Members(t, t[i].cmd) = M
    BY <1>2, <2>1, <2>2 DEF Members
  <2>4. /\ \A j \in M : s[j].n = s[i].n
        /\ Cardinality(M) = s[i].n
        /\ \A j, k \in M : k - j < s[i].n
        /\ {s[j].i : j \in M} = 0 .. (s[i].n - 1)
    BY <1>6, <2>1 DEF BatchesWhole
  <2>5. \A j \in M : j \in DOMAIN s /\ t[j] = s[j]
    BY <1>2 DEF Members
  <2> HIDE DEF M
  <2>6. {t[j].i : j \in M} = {s[j].i : j \in M}
    BY <2>5
  <2> QED BY <2>1, <2>3, <2>4, <2>5, <2>6
<1>7. CASE m = n
  <2>1. ASSUME NEW k \in 1 .. m, t[L + k].cmd # 0
        PROVE  LET M == Members(t, t[L + k].cmd)
               IN  /\ \A j \in M : t[j].n = t[L + k].n
                   /\ Cardinality(M) = t[L + k].n
                   /\ \A j, l \in M : l - j < t[L + k].n
                   /\ {t[j].i : j \in M} = 0 .. (t[L + k].n - 1)
    <3> DEFINE N == (L + 1) .. (L + n)
    <3>1. t[L + k].cmd = made + 1 /\ n > 1 /\ t[L + k].n = n
      BY <1>3, <2>1
    <3>2. \A i \in DOMAIN s : t[i].cmd # made + 1
      <4>1. \A i \in DOMAIN s : t[i].cmd \in 0 .. made
        BY <1>4
      <4> QED BY <4>1
    <3>3. \A x : x \in N <=> \E l \in 1 .. m : x = L + l
      <4>1. ASSUME NEW x \in N PROVE \E l \in 1 .. m : x = L + l
        <5>1. x - L \in 1 .. m /\ x = L + (x - L)
          BY <1>1, <1>2, <1>7
        <5> QED BY <5>1
      <4>2. ASSUME NEW l \in 1 .. m PROVE L + l \in N
        BY <1>1, <1>2, <1>7
      <4> QED BY <4>1, <4>2
    <3>4. \A l \in 1 .. m : t[L + l].cmd = made + 1
      BY <1>3, <3>1
    <3> HIDE DEF N
    <3>5. Members(t, made + 1) = N
      <4>1. \A x \in N : x \in DOMAIN t /\ t[x].cmd = made + 1
        <5> SUFFICES ASSUME NEW x \in N PROVE x \in DOMAIN t /\ t[x].cmd = made + 1
          OBVIOUS
        <5>1. PICK l \in 1 .. m : x = L + l
          BY <3>3
        <5>2. L + l \in DOMAIN t /\ t[L + l].cmd = made + 1
          BY <1>2, <3>4, Zenon
        <5> QED BY <5>1, <5>2, Zenon
      <4>2. \A x \in DOMAIN t : t[x].cmd = made + 1 => x \in N
        BY <1>2, <3>2, <3>3
      <4> QED BY <4>1, <4>2 DEF Members
    <3>6. \A j \in N : t[j].n = n
      BY <1>3, <3>3
    <3>7. Cardinality(N) = n
      <4>1. L + 1 \in Int /\ L + n \in Int /\ ~(L + 1 > L + n) /\ (L + n) - (L + 1) + 1 = n
        BY <1>1, <1>2
      <4>2. Cardinality(N) = (L + n) - (L + 1) + 1
        BY <4>1, FS_Interval DEF N
      <4> QED BY <4>1, <4>2
    <3>8. \A j, l \in N : l - j < n
      BY <1>1, <1>2 DEF N
    <3>9. {t[j].i : j \in N} = 0 .. (n - 1)
      <4>1. \A j \in N : t[j].i \in 0 .. (n - 1)
        <5> SUFFICES ASSUME NEW j \in N PROVE t[j].i \in 0 .. (n - 1)
          OBVIOUS
        <5>1. PICK l \in 1 .. m : j = L + l
          BY <3>3
        <5>2. t[j].i = l - 1
          BY <1>3, <5>1
        <5> QED BY <1>1, <1>7, <5>2
      <4>2. \A x \in 0 .. (n - 1) : \E j \in N : t[j].i = x
        <5> SUFFICES ASSUME NEW x \in 0 .. (n - 1) PROVE \E j \in N : t[j].i = x
          OBVIOUS
        <5>1. x + 1 \in 1 .. m /\ (x + 1) - 1 = x
          BY <1>1, <1>7
        <5>2. L + (x + 1) \in N /\ t[L + (x + 1)].i = x
          BY <1>3, <3>3, <5>1
        <5> QED BY <5>2
      <4> QED BY <4>1, <4>2
    <3> QED BY <3>1, <3>5, <3>6, <3>7, <3>8, <3>9
  <2>2. BatchesWhole(t)
    <3> SUFFICES ASSUME NEW i \in DOMAIN t, t[i].cmd # 0
                 PROVE  LET M == Members(t, t[i].cmd)
                        IN  /\ \A j \in M : t[j].n = t[i].n
                            /\ Cardinality(M) = t[i].n
                            /\ \A j, k \in M : k - j < t[i].n
                            /\ {t[j].i : j \in M} = 0 .. (t[i].n - 1)
      BY DEF BatchesWhole
    <3>1. CASE i \in DOMAIN s
      BY <1>6, <3>1
    <3>2. CASE i \notin DOMAIN s
      <4>1. PICK k \in 1 .. m : i = L + k
        BY <1>2, <3>2
      <4> QED BY <2>1, <4>1
    <3> QED BY <3>1, <3>2
  <2> QED BY <2>2
<1>8. CASE m = 0
  <2>1. DOMAIN t = DOMAIN s
    BY <1>2, <1>8
  <2>2. BatchesWhole(t)
    BY <1>6, <2>1 DEF BatchesWhole
  <2> QED BY <2>2
<1>9. CASE m # 0 /\ m # n
  <2>1. m \in 1 .. m /\ n > 1 /\ m < n
    BY <1>1, <1>9
  <2>2. t[Len(t)].cmd = made + 1 /\ t[Len(t)].i = m - 1 /\ t[Len(t)].n = n
    BY <1>3, <1>5, <2>1
  <2>3. t # <<>>
    BY <1>1, <1>2, <1>5, <1>9
  <2>4. made + 1 # 0 /\ m - 1 + 1 < n
    BY <1>1, <2>1
  <2> QED BY <2>2, <2>3, <2>4 DEF PartialTail
<1> QED BY <1>7, <1>8, <1>9

LEMMA HeadKept ==
    ASSUME NEW s, NEW f, NEW m \in Nat, NEW t, Extends(t, s, f, m),
           NEW h \in Anchor \cup {None}, HeadAgrees(s, h)
    PROVE  HeadAgrees(t, h)
<1>1. CASE h = None
  BY <1>1 DEF HeadAgrees
<1>2. CASE h # None
  <2>1. h.len \in Nat /\ h.len <= Len(s) /\ (h.len # 0 => s[h.len].id = h.last)
    BY <1>2 DEF HeadAgrees, Anchor
  <2>2. Len(s) \in Nat /\ Len(t) = Len(s) + m /\ \A i \in 1 .. Len(s) : t[i] = s[i]
    BY DEF Extends
  <2>3. h.len <= Len(t)
    BY <2>1, <2>2
  <2>4. h.len # 0 => h.len \in 1 .. Len(s)
    BY <2>1, <2>2
  <2> QED BY <2>1, <2>2, <2>3, <2>4 DEF HeadAgrees
<1> QED BY <1>1, <1>2

LEMMA ExtendedIds ==
    ASSUME NEW s, NEW f, NEW m, NEW t, Extends(t, s, f, m)
    PROVE  IdsOf(s) \subseteq IdsOf(t)
BY DEF Extends, IdsOf

\* The lines left when the first written line ran into the last one of the log.
LEMMA GluedLines ==
    ASSUME NEW s \in Seq(Event), NEW f \in Seq(Event), NEW m \in 0 .. Len(f)
    PROVE  LET t == SubSeq(s, 1, Len(s) - 1) \o SubSeq(f, 2, m) IN
           /\ t \in Seq(Event)
           /\ \A i \in DOMAIN t : \/ \E j \in DOMAIN s : t[i] = s[j]
                                  \/ \E k \in DOMAIN f : t[i] = f[k]
<1> DEFINE x == SubSeq(s, 1, Len(s) - 1)
           y == SubSeq(f, 2, m)
           t == x \o y
<1>1. \A i \in 1 .. (Len(s) - 1) : i \in DOMAIN s /\ s[i] \in Event
  OBVIOUS
<1>2. \A i \in 2 .. m : i \in DOMAIN f /\ f[i] \in Event
  OBVIOUS
<1>3. /\ x \in Seq(Event) /\ \A i \in DOMAIN x : \E j \in DOMAIN s : x[i] = s[j]
  <2>1. /\ x \in Seq(Event) /\ Len(x) = (IF 1 <= Len(s) - 1 THEN Len(s) - 1 - 1 + 1 ELSE 0)
        /\ \A i \in 1 .. (Len(s) - 1 - 1 + 1) : x[i] = s[1 + i - 1]
    BY <1>1, SubSeqProperties
  <2>2. \A i \in DOMAIN x : i \in 1 .. (Len(s) - 1) /\ x[i] = s[i]
    <3> HIDE DEF x
    <3> QED BY <2>1
  <2> QED BY <1>1, <2>1, <2>2
<1>4. /\ y \in Seq(Event) /\ \A i \in DOMAIN y : \E k \in DOMAIN f : y[i] = f[k]
  <2>1. /\ y \in Seq(Event) /\ Len(y) = (IF 2 <= m THEN m - 2 + 1 ELSE 0)
        /\ \A i \in 1 .. (m - 2 + 1) : y[i] = f[2 + i - 1]
    BY <1>2, SubSeqProperties
  <2>2. \A i \in DOMAIN y : 2 + i - 1 \in 2 .. m /\ y[i] = f[2 + i - 1]
    <3> HIDE DEF y
    <3> QED BY <2>1
  <2> QED BY <1>2, <2>1, <2>2
<1> HIDE DEF x, y
<1>5. /\ t \in Seq(Event) /\ Len(t) = Len(x) + Len(y)
      /\ \A i \in 1 .. (Len(x) + Len(y)) : t[i] = (IF i <= Len(x) THEN x[i] ELSE y[i - Len(x)])
  BY <1>3, <1>4, ConcatProperties
<1> HIDE DEF t
<1>6. \A i \in DOMAIN t : (i \in DOMAIN x /\ t[i] = x[i]) \/ (i - Len(x) \in DOMAIN y /\ t[i] = y[i - Len(x)])
  <2>1. Len(x) \in Nat /\ Len(y) \in Nat /\ DOMAIN x = 1 .. Len(x) /\ DOMAIN y = 1 .. Len(y)
        /\ DOMAIN t = 1 .. (Len(x) + Len(y))
    BY <1>3, <1>4, <1>5
  <2>2. ASSUME NEW i \in 1 .. (Len(x) + Len(y)), i <= Len(x) PROVE i \in DOMAIN x /\ t[i] = x[i]
    BY <1>5, <2>1, <2>2
  <2>3. ASSUME NEW i \in 1 .. (Len(x) + Len(y)), ~(i <= Len(x))
        PROVE  i - Len(x) \in DOMAIN y /\ t[i] = y[i - Len(x)]
    BY <1>5, <2>1, <2>3
  <2> QED BY <2>1, <2>2, <2>3
<1>7. \A i \in DOMAIN t : \/ \E j \in DOMAIN s : t[i] = s[j]
                          \/ \E k \in DOMAIN f : t[i] = f[k]
  BY <1>3, <1>4, <1>6
<1> QED BY <1>5, <1>7 DEF t, x, y

\* With one line for each id there are as many ids as lines.
LEMMA DistinctCount ==
    ASSUME NEW s \in Seq(Event), Distinct(s)
    PROVE  Cardinality(IdsOf(s)) = Len(s)
<1> DEFINE D == 1 .. Len(s)
           g == [i \in D |-> s[i].id]
<1>1. Len(s) \in Nat /\ DOMAIN s = D
  OBVIOUS
<1>2. IsFiniteSet(D) /\ Cardinality(D) = Len(s)
  <2>1. IsFiniteSet(D) /\ Cardinality(D) = IF 1 > Len(s) THEN 0 ELSE Len(s) - 1 + 1
    BY <1>1, FS_Interval
  <2> QED BY <1>1, <2>1
<1> HIDE DEF D
<1>3. g \in [D -> IdsOf(s)] /\ \A i, j \in D : g[i] = g[j] => i = j
  BY <1>1 DEF Distinct, IdsOf
<1>4. \A x \in IdsOf(s) : \E i \in D : g[i] = x
  BY <1>1 DEF IdsOf
<1>5. g \in Bijection(D, IdsOf(s))
  BY <1>3, <1>4 DEF Bijection, Injection, IsInjective, Surjection
<1>6. Cardinality(IdsOf(s)) = Cardinality(D)
  BY <1>2, <1>5, FS_Bijection DEF ExistsBijection
<1> QED BY <1>2, <1>6
=============================================================================
