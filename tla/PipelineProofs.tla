---------------------------- MODULE PipelineProofs ----------------------------
(***************************************************************************)
(* Proofs about an evaluation from its command line to its verdict, for    *)
(* any candidates, opponents, kinds of benchmarks, repetitions, pairs of   *)
(* games, kills, alterations and failing tasks.                            *)
(***************************************************************************)
EXTENDS Pipeline, WellFoundedInduction, SequenceTheorems, FiniteSetTheorems, TLAPS

-----------------------------------------------------------------------------
(* What FlattenSeq returns. *)

LEMMA LeastElement ==
  ASSUME NEW T \in SUBSET Nat, T # {}
  PROVE  \E m \in T : \A k \in T : ~(k < m)
<1>1. PICK less : IsWellFoundedOn(less, Nat) /\ \A x, y \in Nat : x < y => <<x, y>> \in less
  <2>1. \A x, y \in Nat : x < y => <<x, y>> \in OpToRel(<, Nat)
    BY DEF OpToRel
  <2>2. QED
    BY <2>1, NatLessThanWellFounded, Zenon
<1>2. \E m \in T : \A k \in T : ~(<<k, m>> \in less)
  <2>1. T \subseteq Nat
    OBVIOUS
  <2>2. IsWellFoundedOn(less, Nat)
    BY <1>1
  <2> QED
    BY <2>1, <2>2, WFMin, Zenon
<1>3. QED
  <2>1. PICK m \in T : \A k \in T : ~(<<k, m>> \in less)
    BY <1>2
  <2>2. \A k \in T : ~(k < m)
    BY <1>1, <2>1
  <2> QED
    BY <2>2

Joined(ss, n, F) == F = [i \in 1 .. n |-> IF i = 1 THEN ss[i] ELSE F[i - 1] \o ss[i]]

LEMMA JoinedExists ==
  ASSUME NEW ss, NEW n \in Nat
  PROVE  \E F : Joined(ss, n, F)
<1> DEFINE Bad == {m \in Nat : ~\E F : Joined(ss, m, F)}
<1>1. SUFFICES ASSUME Bad # {} PROVE FALSE
  OBVIOUS
<1>2. PICK m \in Bad : \A k \in Bad : ~(k < m)
  BY <1>1, LeastElement
<1>3. CASE m = 0
  <2> DEFINE F == [i \in 1 .. 0 |-> 0]
  <2>1. Joined(ss, 0, F)
    BY DEF Joined
  <2> QED
    BY <2>1, <1>2, <1>3
<1>4. CASE m # 0
  <2>1. PICK F : Joined(ss, m - 1, F)
    BY <1>2, <1>4
  <2> DEFINE G == [i \in 1 .. m |-> IF i = 1 THEN ss[i] ELSE F[i - 1] \o ss[i]]
  <2>2. ASSUME NEW i \in 2 .. m PROVE G[i - 1] = F[i - 1]
    <3>1. i - 1 \in 1 .. m - 1 /\ i - 1 \in 1 .. m
      BY <1>2
    <3> QED
      BY <3>1, <2>1, Zenon DEF Joined
  <2>3. G = [i \in 1 .. m |-> IF i = 1 THEN ss[i] ELSE G[i - 1] \o ss[i]]
    <3>1. \A i \in 1 .. m : i # 1 => i \in 2 .. m
      BY <1>2
    <3> HIDE DEF G
    <3>2. \A i \in 1 .. m :
            (IF i = 1 THEN ss[i] ELSE F[i - 1] \o ss[i]) =
            (IF i = 1 THEN ss[i] ELSE G[i - 1] \o ss[i])
      BY <2>2, <3>1, Zenon
    <3> QED
      BY <3>2, Zenon DEF G
  <2>4. Joined(ss, m, G)
    BY <2>3, Zenon DEF Joined
  <2> QED
    BY <2>4, <1>2
<1> QED
  BY <1>3, <1>4

LEMMA FlattenIs ==
  ASSUME NEW ss, Len(ss) \in Nat, Len(ss) # 0
  PROVE  \E F : Joined(ss, Len(ss), F) /\ FlattenSeq(ss) = F[Len(ss)]
<1> DEFINE F == CHOOSE F : F = [i \in 1 .. Len(ss) |-> IF i = 1 THEN ss[i] ELSE F[i - 1] \o ss[i]]
<1>1. FlattenSeq(ss) = F[Len(ss)]
  BY Zenon DEF FlattenSeq
<1>2. Joined(ss, Len(ss), F)
  BY JoinedExists, Zenon DEF Joined
<1> HIDE DEF F
<1> QED
  BY <1>1, <1>2

LEMMA RangeOfConcatenation ==
  ASSUME NEW S, NEW a \in Seq(S), NEW b \in Seq(S), NEW x
  PROVE  x \in Range(a \o b) <=> x \in Range(a) \/ x \in Range(b)
<1>1. /\ Len(a) \in Nat /\ Len(b) \in Nat /\ Len(a \o b) = Len(a) + Len(b)
      /\ DOMAIN a = 1 .. Len(a) /\ DOMAIN b = 1 .. Len(b) /\ DOMAIN (a \o b) = 1 .. Len(a \o b)
      /\ \A p \in 1 .. Len(a) + Len(b) :
           (a \o b)[p] = IF p <= Len(a) THEN a[p] ELSE b[p - Len(a)]
  OBVIOUS
<1>2. ASSUME NEW p \in 1 .. Len(a)
      PROVE  p \in 1 .. Len(a) + Len(b) /\ (a \o b)[p] = a[p]
  BY <1>1
<1>3. ASSUME NEW p \in 1 .. Len(b)
      PROVE  p + Len(a) \in 1 .. Len(a) + Len(b) /\ (a \o b)[p + Len(a)] = b[p]
  BY <1>1
<1>4. ASSUME NEW p \in 1 .. Len(a) + Len(b)
      PROVE  \/ p \in 1 .. Len(a) /\ (a \o b)[p] = a[p]
             \/ p - Len(a) \in 1 .. Len(b) /\ (a \o b)[p] = b[p - Len(a)]
  BY <1>1
<1>5. /\ x \in Range(a \o b) <=> \E p \in 1 .. Len(a) + Len(b) : (a \o b)[p] = x
      /\ x \in Range(a) <=> \E p \in 1 .. Len(a) : a[p] = x
      /\ x \in Range(b) <=> \E p \in 1 .. Len(b) : b[p] = x
  BY <1>1, Zenon DEF Range
<1> QED
  BY <1>2, <1>3, <1>4, <1>5, Zenon

LEMMA FlattenSequences ==
  ASSUME NEW S, NEW n \in Nat, NEW ss \in [1 .. n -> Seq(S)]
  PROVE  /\ FlattenSeq(ss) \in Seq(S)
         /\ \A x : x \in Range(FlattenSeq(ss)) <=> \E k \in 1 .. n : x \in Range(ss[k])
<1>1. Len(ss) = n /\ ss \in Seq(Seq(S))
  OBVIOUS
<1>2. CASE n = 0
  <2>1. FlattenSeq(ss) = ss
    BY <1>1, <1>2, Zenon DEF FlattenSeq
  <2>2. ss = <<>>
    BY <1>1, <1>2
  <2>3. <<>> \in Seq(S) /\ \A x : x \notin Range(<<>>)
    BY DEF Range
  <2> QED
    BY <2>1, <2>2, <2>3, <1>2
<1>3. CASE n # 0
  <2>1. PICK F : Joined(ss, n, F) /\ FlattenSeq(ss) = F[n]
    BY <1>1, <1>3, FlattenIs
  <2> DEFINE Good(i) == /\ F[i] \in Seq(S)
                        /\ \A x : x \in Range(F[i]) <=> \E k \in 1 .. i : x \in Range(ss[k])
             Bad == {i \in Nat : i \in 1 .. n /\ ~Good(i)}
  <2>2. SUFFICES ASSUME Bad # {} PROVE FALSE
    <3>1. n \in 1 .. n
      BY <1>3
    <3>2. n \notin Bad => Good(n)
      BY <3>1
    <3> HIDE DEF Bad
    <3> QED
      BY <2>1, <3>2
  <2>3. PICK m \in Bad : \A k \in Bad : ~(k < m)
    BY <2>2, LeastElement
  <2>4. m \in 1 .. n /\ ss[m] \in Seq(S)
    BY <2>3
  <2>5. CASE m = 1
    <3>1. F[m] = ss[1]
      BY <2>1, <2>4, <2>5, Zenon DEF Joined
    <3>2. Good(m)
      BY <3>1, <2>4, <2>5
    <3> QED
      BY <3>2, <2>3
  <2>6. CASE m # 1
    <3>1. m - 1 \in 1 .. n /\ m \in 2 .. n
      BY <2>4, <2>6
    <3>2. F[m] = F[m - 1] \o ss[m]
      BY <2>1, <2>4, <2>6, Zenon DEF Joined
    <3>3. Good(m - 1)
      <4>1. m - 1 \notin Bad
        <5> HIDE DEF Bad
        <5> QED
          BY <2>3, <2>4
      <4> QED
        BY <4>1, <3>1
    <3>4. F[m] \in Seq(S)
      BY <3>2, <3>3, <2>4
    <3>5. \A x : x \in Range(F[m]) <=> x \in Range(F[m - 1]) \/ x \in Range(ss[m])
      <4>1. F[m - 1] \in Seq(S)
        BY <3>3
      <4> HIDE DEF Bad, Good
      <4> QED
        BY <4>1, <3>2, <2>4, RangeOfConcatenation
    <3> HIDE DEF Bad
    <3>6. \A k : k \in 1 .. m <=> k = m \/ k \in 1 .. m - 1
      BY <3>1
    <3>7. Good(m)
      BY <3>3, <3>4, <3>5, <3>6
    <3> QED
      BY <3>7, <2>3 DEF Bad
  <2> QED
    BY <2>5, <2>6
<1> QED
  BY <1>2, <1>3
LEMMA FunctionIsSequence ==
  ASSUME NEW S, NEW n \in Nat, NEW f \in [1 .. n -> S]
  PROVE  f \in Seq(S) /\ Len(f) = n /\ DOMAIN f = 1 .. n
OBVIOUS

-----------------------------------------------------------------------------
(* The jobs of the stages. *)

JobOf(kinds) ==
  [kind : kinds, opponent : {Champion} \cup Range(Opponents), repetition : Nat,
   role : {"candidate", "opponent", "reference"}]

Sided == {"candidate", "opponent"}

PairJobs(kind, o, r) == [s \in 1 .. 2 |-> Job(kind, Opponents[o], r - 1, Sides(r - 1)[s])]

KindJobs(kind, o, n) == FlattenSeq([r \in 1 .. n |-> PairJobs(kind, o, r)])

OpponentJobs(kinds, o) ==
  FlattenSeq([k \in 1 .. Len(kinds) |-> KindJobs(kinds[k], o, Repetitions[kinds[k]])])

LEMMA OpponentsTyped ==
  /\ Len(Opponents) \in Nat /\ DOMAIN Opponents = 1 .. Len(Opponents)
  /\ \A o \in 1 .. Len(Opponents) : Opponents[o] \in Range(Opponents)
  /\ \A x \in Range(Opponents) : \E o \in 1 .. Len(Opponents) : Opponents[o] = x
<1>1. Opponents \in Seq(Range(Opponents))
  BY PipelineConstants
<1>2. Len(Opponents) \in Nat /\ DOMAIN Opponents = 1 .. Len(Opponents)
  BY <1>1
<1>3. QED
  BY <1>2, Zenon DEF Range

(* A job of one repetition, and one of n of them. *)
InPair(x, kind, o, r) == \E role \in Sided : x = Job(kind, o, r, role)
InKind(x, kind, o, n) == \E r \in 0 .. n - 1 : InPair(x, kind, o, r)

(* The two jobs of a repetition are the candidate's and the opponent's, in *)
(* an order that alternates.                                               *)
LEMMA PairMembers ==
  ASSUME NEW kind, NEW o \in 1 .. Len(Opponents), NEW r \in Nat \ {0}
  PROVE  /\ PairJobs(kind, o, r) \in Seq(JobOf({kind}))
         /\ \A x : x \in Range(PairJobs(kind, o, r)) <=> InPair(x, kind, Opponents[o], r - 1)
<1>1. \A role \in Sided : Job(kind, Opponents[o], r - 1, role) \in JobOf({kind})
  BY OpponentsTyped DEF Job, JobOf, Sided
<1>2. /\ Sides(r - 1)[1] \in Sided /\ Sides(r - 1)[2] \in Sided
      /\ \A role \in Sided : Sides(r - 1)[1] = role \/ Sides(r - 1)[2] = role
  BY DEF Sides, Sided
<1>3. /\ DOMAIN PairJobs(kind, o, r) = 1 .. 2
      /\ \A s \in 1 .. 2 :
           PairJobs(kind, o, r)[s] = Job(kind, Opponents[o], r - 1, Sides(r - 1)[s])
  BY Zenon DEF PairJobs
<1>4. 1 \in 1 .. 2 /\ 2 \in 1 .. 2 /\ \A s \in 1 .. 2 : s = 1 \/ s = 2
  OBVIOUS
<1>5. PairJobs(kind, o, r) \in [1 .. 2 -> JobOf({kind})]
  <2>1. \A s \in 1 .. 2 : Job(kind, Opponents[o], r - 1, Sides(r - 1)[s]) \in JobOf({kind})
    BY <1>1, <1>2, <1>4, Zenon
  <2>2. QED
    BY <2>1, Zenon DEF PairJobs
<1>6. PairJobs(kind, o, r) \in Seq(JobOf({kind}))
  BY <1>4, <1>5, FunctionIsSequence
<1>7. ASSUME NEW x
      PROVE  x \in Range(PairJobs(kind, o, r)) <=> InPair(x, kind, Opponents[o], r - 1)
  <2>1. x \in Range(PairJobs(kind, o, r)) <=> \E s \in 1 .. 2 : PairJobs(kind, o, r)[s] = x
    BY <1>3, Zenon DEF Range
  <2>2. QED
    BY <2>1, <1>2, <1>3, <1>4, Zenon DEF InPair
<1> QED
  BY <1>6, <1>7, Zenon

LEMMA KindMembers ==
  ASSUME NEW kind, NEW o \in 1 .. Len(Opponents), NEW n \in Nat
  PROVE  /\ KindJobs(kind, o, n) \in Seq(JobOf({kind}))
         /\ \A x : x \in Range(KindJobs(kind, o, n)) <=> InKind(x, kind, Opponents[o], n)
<1>0. \A r \in 1 .. n : r \in Nat \ {0}
  OBVIOUS
<1> DEFINE ss == [r \in 1 .. n |-> PairJobs(kind, o, r)]
<1>1. ss \in [1 .. n -> Seq(JobOf({kind}))]
  <2>1. \A r \in 1 .. n : PairJobs(kind, o, r) \in Seq(JobOf({kind}))
    BY <1>0, PairMembers, Zenon
  <2>2. QED
    BY <2>1, Zenon
<1>2. \A r \in 1 .. n : ss[r] = PairJobs(kind, o, r)
  BY Zenon
<1>3. KindJobs(kind, o, n) = FlattenSeq(ss)
  BY Zenon DEF KindJobs
<1> HIDE DEF ss
<1>4. /\ KindJobs(kind, o, n) \in Seq(JobOf({kind}))
      /\ \A x : x \in Range(KindJobs(kind, o, n)) <=>
                  \E r \in 1 .. n : x \in Range(PairJobs(kind, o, r))
  <2>1. /\ FlattenSeq(ss) \in Seq(JobOf({kind}))
        /\ \A x : x \in Range(FlattenSeq(ss)) <=> \E r \in 1 .. n : x \in Range(ss[r])
    BY <1>1, FlattenSequences, Zenon
  <2>2. QED
    BY <2>1, <1>2, <1>3, Zenon
<1>5. \A r \in 1 .. n : \A x :
        x \in Range(PairJobs(kind, o, r)) <=> InPair(x, kind, Opponents[o], r - 1)
  BY <1>0, PairMembers, Zenon
<1>6. \A r \in 1 .. n : r - 1 \in 0 .. n - 1
  OBVIOUS
<1>7. \A r \in 0 .. n - 1 : r + 1 \in 1 .. n /\ (r + 1) - 1 = r
  OBVIOUS
<1>8. ASSUME NEW x, x \in Range(KindJobs(kind, o, n))
      PROVE  InKind(x, kind, Opponents[o], n)
  <2>1. PICK r \in 1 .. n : x \in Range(PairJobs(kind, o, r))
    BY <1>8, <1>4, Zenon
  <2>2. QED
    BY <2>1, <1>5, <1>6, Zenon DEF InKind
<1>9. ASSUME NEW x, InKind(x, kind, Opponents[o], n)
      PROVE  x \in Range(KindJobs(kind, o, n))
  <2>1. PICK r \in 0 .. n - 1 : InPair(x, kind, Opponents[o], r)
    BY <1>9, Zenon DEF InKind
  <2>2. r + 1 \in 1 .. n /\ (r + 1) - 1 = r
    BY <1>7
  <2>3. x \in Range(PairJobs(kind, o, r + 1))
    BY <2>1, <2>2, <1>5
  <2>4. QED
    BY <2>2, <2>3, <1>4, Zenon
<1> QED
  BY <1>4, <1>8, <1>9, Zenon

(* The matrix has, for every opponent, kind and repetition, the job of the *)
(* candidate and the job of the opponent, and nothing else.                *)
InMatrix(x, k, o) == InKind(x, k, o, Repetitions[k])

LEMMA MatrixMembers ==
  ASSUME NEW S, NEW kinds \in Seq(S), \A k \in Range(kinds) : Repetitions[k] \in Nat
  PROVE  /\ Matrix(kinds) \in Seq(JobOf(S))
         /\ \A x : x \in Range(Matrix(kinds)) <=>
              \E o \in Range(Opponents), k \in Range(kinds) : InMatrix(x, k, o)
<1>0. /\ Len(kinds) \in Nat
      /\ \A k \in 1 .. Len(kinds) : kinds[k] \in S /\ kinds[k] \in Range(kinds)
      /\ \A x \in Range(kinds) : \E k \in 1 .. Len(kinds) : kinds[k] = x
  <2>1. Len(kinds) \in Nat /\ DOMAIN kinds = 1 .. Len(kinds)
        /\ \A k \in 1 .. Len(kinds) : kinds[k] \in S
    OBVIOUS
  <2>2. QED
    BY <2>1, Zenon DEF Range
<1>1. ASSUME NEW o \in 1 .. Len(Opponents)
      PROVE  /\ OpponentJobs(kinds, o) \in Seq(JobOf(S))
             /\ \A x : x \in Range(OpponentJobs(kinds, o)) <=>
                  \E k \in 1 .. Len(kinds) : InMatrix(x, kinds[k], Opponents[o])
  <2> DEFINE ss == [k \in 1 .. Len(kinds) |-> KindJobs(kinds[k], o, Repetitions[kinds[k]])]
  <2>1. ASSUME NEW k \in 1 .. Len(kinds)
        PROVE  /\ KindJobs(kinds[k], o, Repetitions[kinds[k]]) \in Seq(JobOf(S))
               /\ \A x : x \in Range(KindJobs(kinds[k], o, Repetitions[kinds[k]])) <=>
                    InMatrix(x, kinds[k], Opponents[o])
    <3>1. Repetitions[kinds[k]] \in Nat
      BY <1>0
    <3>2. JobOf({kinds[k]}) \subseteq JobOf(S)
      BY <1>0 DEF JobOf
    <3>3. /\ KindJobs(kinds[k], o, Repetitions[kinds[k]]) \in Seq(JobOf({kinds[k]}))
          /\ \A x : x \in Range(KindJobs(kinds[k], o, Repetitions[kinds[k]])) <=>
               InMatrix(x, kinds[k], Opponents[o])
      BY <3>1, KindMembers, Zenon DEF InMatrix
    <3>4. QED
      BY <3>2, <3>3
  <2>2. ss \in [1 .. Len(kinds) -> Seq(JobOf(S))]
    BY <2>1, Zenon
  <2>3. \A k \in 1 .. Len(kinds) : ss[k] = KindJobs(kinds[k], o, Repetitions[kinds[k]])
    BY Zenon
  <2>4. OpponentJobs(kinds, o) = FlattenSeq(ss)
    BY Zenon DEF OpponentJobs
  <2> HIDE DEF ss
  <2>5. /\ FlattenSeq(ss) \in Seq(JobOf(S))
        /\ \A x : x \in Range(FlattenSeq(ss)) <=> \E k \in 1 .. Len(kinds) : x \in Range(ss[k])
    BY <1>0, <2>2, FlattenSequences, Zenon
  <2>6. QED
    BY <2>1, <2>3, <2>4, <2>5, Zenon
<1> DEFINE os == [o \in 1 .. Len(Opponents) |-> OpponentJobs(kinds, o)]
<1>2. os \in [1 .. Len(Opponents) -> Seq(JobOf(S))]
  BY <1>1, Zenon
<1>3. \A o \in 1 .. Len(Opponents) : os[o] = OpponentJobs(kinds, o)
  BY Zenon
<1>4. Matrix(kinds) = FlattenSeq(os)
  BY Zenon DEF Matrix, Concat, OpponentJobs, KindJobs, PairJobs
<1> HIDE DEF os
<1>5. /\ FlattenSeq(os) \in Seq(JobOf(S))
      /\ \A x : x \in Range(FlattenSeq(os)) <=> \E o \in 1 .. Len(Opponents) : x \in Range(os[o])
  BY <1>2, OpponentsTyped, FlattenSequences, Zenon
<1>6. \A x : x \in Range(Matrix(kinds)) <=>
        \E o \in 1 .. Len(Opponents), k \in 1 .. Len(kinds) :
          InMatrix(x, kinds[k], Opponents[o])
  BY <1>1, <1>3, <1>4, <1>5, Zenon
<1>7. ASSUME NEW x, x \in Range(Matrix(kinds))
      PROVE  \E o \in Range(Opponents), k \in Range(kinds) : InMatrix(x, k, o)
  BY <1>0, <1>6, <1>7, OpponentsTyped, Zenon
<1>8. ASSUME NEW x, NEW o \in Range(Opponents), NEW k \in Range(kinds), InMatrix(x, k, o)
      PROVE  x \in Range(Matrix(kinds))
  BY <1>0, <1>6, <1>8, OpponentsTyped, Zenon
<1> QED
  BY <1>4, <1>5, <1>7, <1>8, Zenon

Stages == DOMAIN After

KindsOf ==
  [probe |-> {"probe"}, ctest |-> {"ctest"}, fixed |-> FixedKind \cup {"reference"},
   time |-> TimeKind, game |-> {"game"}]

LEMMA BenchmarksTyped ==
  /\ FixedJobs \in Seq(JobOf(FixedKind)) /\ TimeJobs \in Seq(JobOf(TimeKind))
  /\ \A x : x \in Range(FixedJobs) <=>
       \E o \in Range(Opponents), k \in Range(Kinds.fixed) : InMatrix(x, k, o)
  /\ \A x : x \in Range(TimeJobs) <=>
       \E o \in Range(Opponents), k \in Range(Kinds.time) : InMatrix(x, k, o)
<1>1. \A k \in Range(Kinds.fixed) : Repetitions[k] \in Nat
  BY PipelineConstants
<1>2. \A k \in Range(Kinds.time) : Repetitions[k] \in Nat
  BY PipelineConstants
<1>3. Kinds.fixed \in Seq(FixedKind) /\ Kinds.time \in Seq(TimeKind)
  BY PipelineConstants
<1>4. QED
  BY <1>1, <1>2, <1>3, MatrixMembers, Zenon DEF FixedJobs, TimeJobs

LEMMA ReferenceTyped ==
  ReferenceJobs \in Seq(JobOf({"reference"}))
<1> DEFINE active == Job("reference", Champion, 0, "candidate")
           reference == Job("reference", Champion, 0, "reference")
<1>1. active \in JobOf({"reference"}) /\ reference \in JobOf({"reference"})
  BY DEF Job, JobOf
<1>2. ReferenceJobs = <<active, reference>> \/ ReferenceJobs = <<>>
  BY Zenon DEF ReferenceJobs
<1> HIDE DEF active, reference
<1>3. <<active, reference>> \in Seq(JobOf({"reference"}))
  BY <1>1
<1>4. <<>> \in Seq(JobOf({"reference"}))
  OBVIOUS
<1>5. QED
  BY <1>2, <1>3, <1>4, Zenon

LEMMA ProbesTyped ==
  ProbeJobs \in Seq(JobOf({"probe"}))
<1>1. Job("probe", Champion, 0, "candidate") \in JobOf({"probe"})
  BY DEF Job, JobOf
<1>2. [o \in 1 .. Len(Opponents) |-> Job("probe", Opponents[o], 0, "opponent")]
        \in [1 .. Len(Opponents) -> JobOf({"probe"})]
  BY OpponentsTyped DEF Job, JobOf
<1> DEFINE others == [o \in 1 .. Len(Opponents) |-> Job("probe", Opponents[o], 0, "opponent")]
<1>3. others \in Seq(JobOf({"probe"}))
  BY <1>2, OpponentsTyped, FunctionIsSequence, Zenon
<1>4. ProbeJobs = <<Job("probe", Champion, 0, "candidate")>> \o others
  BY Zenon DEF ProbeJobs
<1> HIDE DEF others
<1>5. QED
  BY <1>1, <1>3, <1>4

LEMMA GamesTyped ==
  ASSUME extension \in 0 .. MaxExtension
  PROVE  /\ GameJobs \in Seq(JobOf({"game"}))
         /\ \A x : x \in Range(GameJobs) <=>
              \E o \in Range(Opponents) : InKind(x, "game", o, OpeningPairs + extension)
<1> DEFINE n == OpeningPairs + extension
           ss == [o \in 1 .. Len(Opponents) |-> KindJobs("game", o, n)]
<1>1. n \in Nat /\ n \in OpeningPairs .. OpeningPairs + MaxExtension
  BY PipelineConstants
<1>2. GamesOfPairs[n] = FlattenSeq(ss)
  BY <1>1, Zenon DEF GamesOfPairs, Concat, KindJobs, PairJobs
<1>3. GameJobs = FlattenSeq(ss)
  BY <1>2, Zenon DEF GameJobs
<1>4. SUFFICES /\ GameJobs \in Seq(JobOf({"game"}))
               /\ \A x : x \in Range(GameJobs) <=>
                    \E o \in Range(Opponents) : InKind(x, "game", o, n)
  BY Zenon
<1> HIDE DEF n
<1>5. \A o \in 1 .. Len(Opponents) :
        /\ KindJobs("game", o, n) \in Seq(JobOf({"game"}))
        /\ \A x : x \in Range(KindJobs("game", o, n)) <=> InKind(x, "game", Opponents[o], n)
  BY <1>1, KindMembers, Zenon
<1>6. ss \in [1 .. Len(Opponents) -> Seq(JobOf({"game"}))]
  BY <1>5, Zenon
<1>7. \A o \in 1 .. Len(Opponents) : ss[o] = KindJobs("game", o, n)
  BY Zenon
<1> HIDE DEF ss
<1>8. /\ FlattenSeq(ss) \in Seq(JobOf({"game"}))
      /\ \A x : x \in Range(FlattenSeq(ss)) <=> \E o \in 1 .. Len(Opponents) : x \in Range(ss[o])
  BY <1>6, OpponentsTyped, FlattenSequences, Zenon
<1>9. ASSUME NEW x, x \in Range(GameJobs)
      PROVE  \E o \in Range(Opponents) : InKind(x, "game", o, n)
  <2>1. PICK o \in 1 .. Len(Opponents) : x \in Range(KindJobs("game", o, n))
    BY <1>3, <1>7, <1>8, <1>9, Zenon
  <2>2. QED
    BY <2>1, <1>5, OpponentsTyped, Zenon
<1>10. ASSUME NEW x, NEW o \in Range(Opponents), InKind(x, "game", o, n)
       PROVE  x \in Range(GameJobs)
  <2>1. PICK i \in 1 .. Len(Opponents) : Opponents[i] = o
    BY OpponentsTyped, Zenon
  <2>2. x \in Range(KindJobs("game", i, n))
    BY <2>1, <1>5, <1>10, Zenon
  <2>3. QED
    BY <2>2, <1>3, <1>7, <1>8, Zenon
<1>11. GameJobs \in Seq(JobOf({"game"}))
  BY <1>3, <1>8, Zenon
<1> QED
  BY <1>9, <1>10, <1>11, Zenon

(* The jobs of a stage are of its own kinds. *)
LEMMA JobsTyped ==
  ASSUME extension \in 0 .. MaxExtension, NEW s \in Stages
  PROVE  /\ JobsOf(s) \in Seq(JobOf(KindsOf[s]))
         /\ Len(JobsOf(s)) \in Nat /\ DOMAIN JobsOf(s) = 1 .. Len(JobsOf(s))
<1>0. s \in {"probe", "ctest", "fixed", "time", "game"}
  BY DEF Stages, After
<1>1. CASE s = "probe"
  <2>1. JobsOf(s) = ProbeJobs /\ KindsOf[s] = {"probe"}
    BY <1>1 DEF JobsOf, KindsOf
  <2>2. QED
    BY <2>1, ProbesTyped
<1>2. CASE s = "ctest"
  <2>1. JobsOf(s) = <<Job("ctest", Champion, 0, "candidate")>> /\ KindsOf[s] = {"ctest"}
    BY <1>2 DEF JobsOf, KindsOf
  <2>2. Job("ctest", Champion, 0, "candidate") \in JobOf({"ctest"})
    BY DEF Job, JobOf
  <2>3. QED
    BY <2>1, <2>2
<1>3. CASE s = "fixed"
  <2>1. JobsOf(s) = FixedJobs \o ReferenceJobs /\ KindsOf[s] = FixedKind \cup {"reference"}
    BY <1>3 DEF JobsOf, KindsOf
  <2>2. /\ JobOf(FixedKind) \subseteq JobOf(KindsOf[s])
        /\ JobOf({"reference"}) \subseteq JobOf(KindsOf[s])
    BY <2>1 DEF JobOf
  <2>3. FixedJobs \in Seq(JobOf(KindsOf[s])) /\ ReferenceJobs \in Seq(JobOf(KindsOf[s]))
    BY <2>2, BenchmarksTyped, ReferenceTyped
  <2>4. QED
    BY <2>1, <2>3
<1>4. CASE s = "time"
  <2>1. JobsOf(s) = TimeJobs /\ KindsOf[s] = TimeKind
    BY <1>4 DEF JobsOf, KindsOf
  <2>2. QED
    BY <2>1, BenchmarksTyped
<1>5. CASE s = "game"
  <2>1. JobsOf(s) = GameJobs /\ KindsOf[s] = {"game"}
    BY <1>5 DEF JobsOf, KindsOf
  <2>2. QED
    BY <2>1, GamesTyped
<1> QED
  BY <1>0, <1>1, <1>2, <1>3, <1>4, <1>5

LEMMA TaskStartsWithKind == \A j : TaskOf(j)[1] = j.kind
BY DEF TaskOf

-----------------------------------------------------------------------------
(* The invariant. *)

Pinned == {"candidate", "opponents", "referee"}

RecordType ==
  [error : {"none", "failure", "timeout", "illegal"},
   by : {"candidate", "opponent", "reference"}, order : Nat, pure : BOOLEAN]

VerdictType == [classification : Classification, pairs : Nat]

Typed ==
  /\ subject \in Subjects
  /\ file \in [File -> {"pinned", "altered"}]
  /\ \A t \in DOMAIN cache : cache[t] \in RecordType
  /\ extension \in 0 .. MaxExtension
  /\ {report, manifest} \subseteq {NoVerdict} \cup VerdictType
  /\ {created, putBack} \subseteq BOOLEAN

(* Where the process is, and that nothing exists before run_config.json.   *)
ProcessInv ==
  /\ pc \in {"off", "copy", "config", "check", "verify", "run", "judge", "manifest"}
  /\ stage \in Stages \cup {"judge"}
  /\ next \in 1 .. Len(Jobs) + 1 /\ orders = next - 1
  /\ pc \in {"off", "copy", "config", "check"} => stage = "probe" /\ next = 1
  /\ pc \in {"judge", "manifest"} => stage = "judge"
  /\ pc = "run" => stage # "judge"
  /\ pc \in {"copy", "config"} => ~created
  /\ pc \in {"check", "verify", "run", "judge", "manifest"} => created
  /\ ~created => /\ DOMAIN cache = {} /\ extension = 0
                 /\ report = NoVerdict /\ manifest = NoVerdict

(* What has a result: every job of the stages passed and of this stage so  *)
(* far.                                                                    *)
Before ==
  [probe |-> {}, ctest |-> {"probe"}, fixed |-> {"probe", "ctest"},
   time |-> {"probe", "ctest", "fixed"}, game |-> {"probe", "ctest", "fixed", "time"},
   judge |-> Stages]

Done(s) == \A i \in DOMAIN JobsOf(s) : TaskOf(JobsOf(s)[i]) \in DOMAIN cache

CompleteInv ==
  /\ \A s \in Before[stage] : Done(s)
  /\ \A i \in 1 .. next - 1 : TaskOf(Jobs[i]) \in DOMAIN cache

(* A record is that of a job of its stage: of the engine that job is for,  *)
(* with the place of that job as its order.                                *)
Placed(s, t) ==
  \E i \in DOMAIN JobsOf(s) :
    /\ t = TaskOf(JobsOf(s)[i])
    /\ cache[t].by = JobsOf(s)[i].role /\ cache[t].order = i - 1

PlacedInv ==
  \A s \in {"fixed", "time"} : \A t \in DOMAIN cache : t[1] \in KindsOf[s] => Placed(s, t)

(* A file that a record owes something to and that was altered is altered  *)
(* still, unless it was put back; and the verdict is made after a look.    *)
AllPure == \A t \in DOMAIN cache : cache[t].pure

PureInv ==
  ~putBack /\ (pc = "judge" \/ \A f \in Pinned : file[f] = "pinned") => AllPure

(* A verdict that counts all pairs there are is the verdict on all results *)
(* there are, and these cannot change.                                     *)
AllDone == \A s \in Stages : Done(s)
Pairs == OpeningPairs + extension

Stands(verdict) ==
  verdict # NoVerdict =>
    /\ verdict.pairs <= Pairs
    /\ verdict.pairs = Pairs => AllDone /\ verdict.classification = Classify(Evidence)

StandsInv ==
  /\ Stands(report) /\ Stands(manifest)
  /\ pc = "manifest" =>
       /\ report \in VerdictType /\ report.pairs = Pairs
       /\ AllDone /\ report.classification = Classify(Evidence)

PipelineInv == Typed /\ ProcessInv /\ CompleteInv /\ PlacedInv

LEMMA InitInv == PipelineInit => PipelineInv /\ PureInv /\ StandsInv
<1> SUFFICES ASSUME PipelineInit PROVE PipelineInv /\ PureInv /\ StandsInv
  OBVIOUS
<1>1. DOMAIN cache = {}
  BY DEF PipelineInit
<1>2. Typed
  <2>1. extension \in 0 .. MaxExtension
    BY PipelineConstants DEF PipelineInit
  <2>2. file \in [File -> {"pinned", "altered"}]
    BY Zenon DEF PipelineInit
  <2>3. {report, manifest} \subseteq {NoVerdict} \cup VerdictType
    BY DEF PipelineInit
  <2>4. QED
    BY <1>1, <2>1, <2>2, <2>3 DEF PipelineInit, Typed
<1>3. ProcessInv
  <2>1. Len(Jobs) \in Nat
    BY <1>2, JobsTyped DEF Typed, Jobs, PipelineInit, Stages, After
  <2>2. QED
    BY <1>1, <2>1 DEF PipelineInit, ProcessInv, Stages, After
<1>4. CompleteInv
  BY DEF PipelineInit, CompleteInv, Before
<1>5. PlacedInv /\ PureInv /\ StandsInv
  BY <1>1 DEF PipelineInit, PlacedInv, PureInv, AllPure, StandsInv, Stands
<1> QED
  BY <1>2, <1>3, <1>4, <1>5 DEF PipelineInv

(* What the jobs and the tasks depend on. *)
LEMMA SameTasks == ASSUME subject' = subject PROVE \A j : TaskOf(j)' = TaskOf(j)
BY Zenon DEF TaskOf, IdOf

LEMMA SameJobs ==
  ASSUME subject' = subject
  PROVE  /\ \A s : s # "game" => JobsOf(s)' = JobsOf(s)
         /\ extension' = extension => \A s : JobsOf(s)' = JobsOf(s)
<1>1. ReferenceJobs' = ReferenceJobs
  BY Zenon DEF ReferenceJobs
<1>2. \A s : s # "game" => JobsOf(s)' = JobsOf(s)
  BY <1>1 DEF JobsOf
<1>3. ASSUME extension' = extension PROVE \A s : JobsOf(s)' = JobsOf(s)
  <2>1. GameJobs' = GameJobs
    BY <1>3, Zenon DEF GameJobs
  <2>2. JobsOf("game")' = JobsOf("game")
    BY <2>1 DEF JobsOf
  <2>3. QED
    BY <2>2, <1>2, Zenon
<1> QED
  BY <1>2, <1>3

(* Every step of the program and around it. *)
LEMMA SubjectStays == [PipelineNext]_pipelineVars => subject' = subject
BY DEF PipelineNext, pipelineVars, Start, Resume, Step, Kill, Alter, PutBack, Copy, WriteConfig,
       Check, Verify, Raise, Execute, Reuse, EndStage, WriteReport, WriteManifest

(* What one job adds. *)
LEMMA ExecuteAdds ==
  ASSUME Typed, ProcessInv, Execute
  PROVE  LET j == Jobs[next] IN
         /\ stage \in Stages /\ next \in DOMAIN Jobs /\ Len(Jobs) \in Nat
         /\ j \in JobOf(KindsOf[stage])
         /\ TaskOf(j) \notin DOMAIN cache
         /\ DOMAIN cache' = DOMAIN cache \cup {TaskOf(j)}
         /\ \A t \in DOMAIN cache : cache'[t] = cache[t]
         /\ cache'[TaskOf(j)] \in RecordType
         /\ cache'[TaskOf(j)].by = j.role /\ cache'[TaskOf(j)].order = orders
         /\ (\A f \in Pinned : file[f] = "pinned") => cache'[TaskOf(j)].pure
<1> DEFINE j == Jobs[next]
<1>1. stage \in Stages /\ next \in DOMAIN Jobs /\ Len(Jobs) \in Nat /\ j \in JobOf(KindsOf[stage])
  <2>1. stage \in Stages
    BY DEF Execute, AtJob, ProcessInv
  <2>2. /\ Jobs \in Seq(JobOf(KindsOf[stage])) /\ Len(Jobs) \in Nat
        /\ DOMAIN Jobs = 1 .. Len(Jobs)
    BY <2>1, JobsTyped DEF Typed, Jobs
  <2>3. next \in 1 .. Len(Jobs)
    BY <2>2 DEF Execute, AtJob, ProcessInv
  <2>4. QED
    BY <2>1, <2>2, <2>3
<1>2. j.role \in {"candidate", "opponent", "reference"}
  BY <1>1 DEF JobOf
<1>3. PICK error \in {"none"} \cup Errors(j) :
        cache' = Marked(TaskOf(j),
          [error |-> error, by |-> j.role, order |-> orders,
           pure |-> \A f \in Reads(j) : file[f] = "pinned"])
  BY Zenon DEF Execute
<1>4. TaskOf(j) \notin DOMAIN cache
  BY Zenon DEF Execute, Completed
<1> DEFINE pure == \A f \in Reads(j) : file[f] = "pinned"
           record == [error |-> error, by |-> j.role, order |-> orders, pure |-> pure]
<1>5. error \in {"none", "failure", "timeout", "illegal"}
  BY <1>3 DEF Errors
<1>6. orders \in Nat
  BY <1>1 DEF ProcessInv
<1>7. pure \in BOOLEAN /\ ((\A f \in Pinned : file[f] = "pinned") => pure)
  <2>1. Reads(j) \subseteq Pinned
    BY DEF Reads, Pinned
  <2>2. QED
    BY <2>1
<1> HIDE DEF j, pure
<1>8. record \in RecordType /\ record.by = j.role /\ record.order = orders /\ record.pure = pure
  BY <1>2, <1>5, <1>6, <1>7 DEF RecordType
<1>9. cache' = [t \in DOMAIN cache \cup {TaskOf(j)} |-> IF t = TaskOf(j) THEN record ELSE cache[t]]
  BY <1>3, Zenon DEF Marked, pure
<1> HIDE DEF record
<1>10. /\ DOMAIN cache' = DOMAIN cache \cup {TaskOf(j)}
       /\ \A t \in DOMAIN cache : cache'[t] = cache[t]
       /\ cache'[TaskOf(j)] = record
  BY <1>4, <1>9
<1>11. QED
  BY <1>1, <1>4, <1>7, <1>8, <1>10 DEF j

(* Every step keeps the records it finds. *)
LEMMA RecordsStay ==
  ASSUME Typed, ProcessInv, [PipelineNext]_pipelineVars
  PROVE  \/ cache' = cache
         \/ Execute
BY DEF PipelineNext, pipelineVars, Start, Resume, Step, Kill, Alter, PutBack, Copy, WriteConfig,
       Check, Verify, Raise, Reuse, EndStage, WriteReport, WriteManifest

LEMMA ClassifyType == \A e : Classify(e) \in Classification
BY Zenon DEF Classify, OptimizationVerdict, StrengthVerdict, Classification

LEMMA TypedStep ==
  ASSUME Typed, ProcessInv, [PipelineNext]_pipelineVars
  PROVE  Typed'
<1>1. subject' \in Subjects
  BY SubjectStays DEF Typed
<1>2. \A t \in DOMAIN cache' : cache'[t] \in RecordType
  <2>1. CASE cache' = cache
    BY <2>1 DEF Typed
  <2>2. CASE Execute
    BY <2>2, ExecuteAdds DEF Typed
  <2>3. QED
    BY <2>1, <2>2, RecordsStay
<1>3. file' \in [File -> {"pinned", "altered"}]
  BY DEF PipelineNext, pipelineVars, Start, Resume, Step, Kill, Alter, PutBack, Copy, WriteConfig,
         Check, Verify, Raise, Execute, Reuse, EndStage, WriteReport, WriteManifest, Typed, File
<1>4. extension' \in 0 .. MaxExtension
  BY PipelineConstants
  DEF PipelineNext, pipelineVars, Start, Resume, Step, Kill, Alter, PutBack, Copy, WriteConfig,
      Check, Verify, Raise, Execute, Reuse, EndStage, WriteReport, WriteManifest, Typed
<1>5. {report', manifest'} \subseteq {NoVerdict} \cup VerdictType
  <2>1. CASE WriteReport
    <3>1. Classify(Evidence) \in Classification
      BY ClassifyType
    <3>2. OpeningPairs + extension \in Nat
      BY PipelineConstants DEF Typed
    <3>3. report' \in VerdictType
      BY <2>1, <3>1, <3>2 DEF WriteReport, VerdictType
    <3>4. QED
      BY <2>1, <3>3 DEF WriteReport, Typed
  <2>2. CASE ~WriteReport
    BY <2>2
    DEF PipelineNext, pipelineVars, Start, Resume, Step, Kill, Alter, PutBack, Copy, WriteConfig,
        Check, Verify, Raise, Execute, Reuse, EndStage, WriteManifest, Typed
  <2>3. QED
    BY <2>1, <2>2
<1>6. {created', putBack'} \subseteq BOOLEAN
  BY DEF PipelineNext, pipelineVars, Start, Resume, Step, Kill, Alter, PutBack, Copy, WriteConfig,
         Check, Verify, Raise, Execute, Reuse, EndStage, WriteReport, WriteManifest, Typed
<1> QED
  BY <1>1, <1>2, <1>3, <1>4, <1>5, <1>6 DEF Typed

(* The process stays on its way through the stages and their jobs.         *)
LEMMA ProcessStep ==
  ASSUME Typed, ProcessInv, [PipelineNext]_pipelineVars
  PROVE  ProcessInv'
<1>1. subject' = subject
  BY SubjectStays
<1>2. stage \in Stages \cup {"judge"} /\ next \in 1 .. Len(Jobs) + 1 /\ orders = next - 1
  BY DEF ProcessInv
<1>3. Len(Jobs) \in Nat
  BY <1>2, JobsTyped DEF Typed, Jobs, JobsOf
<1>4. "probe" \in Stages /\ "probe" # "game" /\ "judge" \notin Stages
  BY DEF Stages, After
<1>5. extension \in Nat /\ Len(JobsOf("probe")) \in Nat
  BY <1>4, PipelineConstants, JobsTyped DEF Typed
<1>6. JobsOf("probe")' = JobsOf("probe")
  BY <1>1, <1>4, SameJobs
<1>7. CASE stage' = "probe" /\ next' = 1 /\ orders' = 0
  <2>1. next' \in 1 .. Len(Jobs') + 1
    BY <1>5, <1>6, <1>7 DEF Jobs
  <2>2. CASE Start \/ Resume \/ Copy \/ WriteConfig
    BY <1>4, <1>7, <2>1, <2>2 DEF Start, Resume, Copy, WriteConfig, ProcessInv
  <2>3. CASE Check \/ Verify
    BY <1>4, <1>7, <2>1, <2>3 DEF Check, Verify, ProcessInv
  <2>4. CASE Raise \/ Kill \/ WriteManifest
    BY <1>4, <1>7, <2>1, <2>4 DEF Raise, Kill, WriteManifest, Stop, ProcessInv
  <2>5. CASE Execute \/ Reuse
    <3>1. next = 0
      BY <1>2, <1>7, <2>5 DEF Execute, Reuse, Advance
    <3>2. QED
      BY <3>1, <1>2
  <2>6. CASE EndStage
    <3>1. ~(stage' = After[stage])
      BY <1>7, <2>6 DEF EndStage, ProcessInv, Stages, After
    <3>2. QED
      BY <1>4, <1>7, <2>1, <2>6, <3>1 DEF EndStage, Stop, ProcessInv
  <2>7. CASE WriteReport
    BY <1>4, <1>7, <2>7 DEF WriteReport, ProcessInv
  <2>8. CASE UNCHANGED pipelineVars \/ \E f \in File : Alter(f) \/ PutBack(f)
    BY <1>7, <2>1, <2>8 DEF pipelineVars, memory, Alter, PutBack, ProcessInv
  <2>9. QED
    BY <2>2, <2>3, <2>4, <2>5, <2>6, <2>7, <2>8 DEF PipelineNext, Step
<1>8. CASE ~(stage' = "probe" /\ next' = 1 /\ orders' = 0)
  <2>1. CASE Start \/ Resume \/ Copy \/ WriteConfig \/ Check
    BY <1>2, <1>8, <2>1 DEF Start, Resume, Copy, WriteConfig, Check, ProcessInv
  <2>2. CASE Raise \/ Kill \/ WriteManifest
    BY <1>8, <2>2 DEF Raise, Kill, WriteManifest, Stop
  <2>3. CASE Verify \/ WriteReport
    <3>1. extension' = extension /\ stage' = stage /\ next' = next /\ orders' = orders
      BY <2>3 DEF Verify, WriteReport
    <3>2. Jobs' = Jobs
      BY <3>1, <1>1, SameJobs DEF Jobs
    <3>3. QED
      BY <2>3, <3>1, <3>2 DEF Verify, WriteReport, ProcessInv
  <2>4. CASE Execute \/ Reuse
    <3>1. /\ extension' = extension /\ stage' = stage /\ next' = next + 1 /\ orders' = orders + 1
          /\ created' = created /\ pc = "run" /\ pc' \in {"verify", "run"} /\ next <= Len(Jobs)
      BY <2>4 DEF Execute, Reuse, Advance, AtJob
    <3>2. Jobs' = Jobs
      BY <3>1, <1>1, SameJobs DEF Jobs
    <3>3. next' \in 1 .. Len(Jobs') + 1 /\ orders' = next' - 1
      BY <1>2, <1>3, <3>1, <3>2
    <3>4. QED
      BY <3>1, <3>3 DEF ProcessInv
  <2>5. CASE EndStage
    <3>1. /\ stage' = After[stage] /\ next' = 1 /\ orders' = 0 /\ pc' = "verify"
          /\ extension' = extension /\ created' = created /\ pc = "run"
      BY <1>8, <2>5 DEF EndStage, Stop
    <3>2. stage' \in Stages \cup {"judge"}
      BY <3>1 DEF ProcessInv, Stages, After
    <3>3. Len(JobsOf(stage')) \in Nat
      BY <3>2, JobsTyped DEF Typed, JobsOf
    <3>4. Jobs' = JobsOf(stage')
      BY <3>1, <1>1, SameJobs DEF Jobs
    <3>5. QED
      BY <3>1, <3>2, <3>3, <3>4 DEF ProcessInv
  <2>6. CASE UNCHANGED pipelineVars \/ \E f \in File : Alter(f) \/ PutBack(f)
    <3>1. UNCHANGED <<extension, pc, stage, next, orders, created, cache, report, manifest>>
      BY <2>6 DEF pipelineVars, memory, Alter, PutBack
    <3>2. Jobs' = Jobs
      BY <3>1, <1>1, SameJobs DEF Jobs
    <3>3. QED
      BY <3>1, <3>2 DEF ProcessInv
  <2>7. QED
    BY <2>1, <2>2, <2>3, <2>4, <2>5, <2>6 DEF PipelineNext, Step
<1> QED
  BY <1>7, <1>8

(* A result stays, and so what is done stays done. *)
LEMMA ResultsStay ==
  ASSUME Typed, ProcessInv, [PipelineNext]_pipelineVars
  PROVE  /\ DOMAIN cache \subseteq DOMAIN cache'
         /\ \A t \in DOMAIN cache : cache'[t] = cache[t]
BY ExecuteAdds, RecordsStay

LEMMA DoneStays ==
  ASSUME Typed, ProcessInv, [PipelineNext]_pipelineVars, NEW s, Done(s),
         s # "game" \/ extension' = extension
  PROVE  Done(s)'
<1>1. JobsOf(s)' = JobsOf(s)
  BY SubjectStays, SameJobs
<1>2. \A j : TaskOf(j)' = TaskOf(j)
  BY SubjectStays, SameTasks
<1>3. ASSUME NEW i \in DOMAIN JobsOf(s)'
      PROVE  TaskOf(JobsOf(s)[i])' \in DOMAIN cache'
  <2>1. TaskOf(JobsOf(s)[i])' = TaskOf(JobsOf(s)[i])
    BY <1>1, SubjectStays, Zenon DEF TaskOf, IdOf
  <2>2. TaskOf(JobsOf(s)[i]) \in DOMAIN cache
    BY <1>1, <1>3 DEF Done
  <2>3. QED
    BY <2>1, <2>2, ResultsStay
<1>4. QED
  BY <1>3, Zenon DEF Done

LEMMA CompleteStep ==
  ASSUME Typed, ProcessInv, CompleteInv, [PipelineNext]_pipelineVars
  PROVE  CompleteInv'
<1>1. subject' = subject
  BY SubjectStays
<1>2. stage \in Stages \cup {"judge"} /\ next \in 1 .. Len(Jobs) + 1
  BY DEF ProcessInv
<1>3. CASE stage' = "probe" /\ next' = 1
  BY <1>3 DEF CompleteInv, Before
<1>4. ASSUME extension' = extension, stage' = stage,
             \A i \in 1 .. next' - 1 : TaskOf(Jobs[i]) \in DOMAIN cache'
      PROVE  CompleteInv'
  <2>1. \A s \in Before[stage] : Done(s)'
    BY <1>4, DoneStays DEF CompleteInv
  <2>2. Jobs' = Jobs
    BY <1>1, <1>4, SameJobs DEF Jobs
  <2>3. ASSUME NEW i \in 1 .. next' - 1 PROVE TaskOf(Jobs[i])' \in DOMAIN cache'
    <3>1. TaskOf(Jobs[i])' = TaskOf(Jobs[i])
      BY <1>1, <2>2, Zenon DEF TaskOf, IdOf
    <3>2. QED
      BY <1>4, <3>1
  <2>4. QED
    BY <1>4, <2>1, <2>3 DEF CompleteInv
<1>5. CASE UNCHANGED <<extension, stage, next>>
  BY <1>4, <1>5, ResultsStay DEF CompleteInv
<1>6. CASE Execute \/ Reuse
  <2>1. extension' = extension /\ stage' = stage /\ next' = next + 1
    BY <1>6 DEF Execute, Reuse, Advance
  <2>2. TaskOf(Jobs[next]) \in DOMAIN cache'
    <3>1. CASE Execute
      BY <3>1, ExecuteAdds
    <3>2. CASE Reuse
      BY <3>2, Zenon DEF Reuse, Completed
    <3>3. QED
      BY <1>6, <3>1, <3>2
  <2>3. \A i \in 1 .. next : i = next \/ i \in 1 .. next - 1
    BY <1>2
  <2>4. next' - 1 = next
    BY <1>2, <2>1
  <2>5. QED
    BY <1>4, <2>1, <2>2, <2>3, <2>4, ResultsStay DEF CompleteInv
<1>7. CASE EndStage /\ stage' = After[stage] /\ next' = 1 /\ extension' = extension
  <2>1. stage \in Stages /\ next > Len(Jobs)
    BY <1>2, <1>7 DEF EndStage, ProcessInv
  <2>2. DOMAIN Jobs = 1 .. Len(Jobs) /\ Len(Jobs) \in Nat
    BY <2>1, JobsTyped DEF Typed, Jobs
  <2>3. \A i \in DOMAIN Jobs : i \in 1 .. next - 1
    BY <1>2, <2>1, <2>2
  <2>4. Done(stage)
    BY <2>3 DEF CompleteInv, Done, Jobs
  <2>5. Before[After[stage]] \subseteq Before[stage] \cup {stage}
    BY <2>1 DEF Before, After, Stages
  <2>6. \A s \in Before[stage] \cup {stage} : Done(s)'
    <3>1. SUFFICES ASSUME NEW s \in Before[stage] \cup {stage} PROVE Done(s)'
      OBVIOUS
    <3>2. Done(s)
      BY <2>4 DEF CompleteInv
    <3>3. QED
      BY <1>7, <3>2, DoneStays
  <2>7. \A s \in Before[stage'] : Done(s)'
    BY <1>7, <2>5, <2>6
  <2>8. QED
    BY <1>7, <2>7 DEF CompleteInv
<1>8. CASE Start \/ Resume \/ Copy \/ WriteConfig \/ Check \/ Raise \/ Kill \/ WriteManifest
  <2>1. stage' = "probe" /\ next' = 1
    BY <1>8 DEF Start, Resume, Copy, WriteConfig, Check, Raise, Kill, WriteManifest, Stop,
                ProcessInv
  <2>2. QED
    BY <2>1, <1>3
<1>9. QED
  BY <1>3, <1>5, <1>6, <1>7, <1>8
  DEF PipelineNext, pipelineVars, memory, Step, Verify, EndStage, Stop, WriteReport, Alter, PutBack

LEMMA PlacedStays ==
  ASSUME Typed, ProcessInv, [PipelineNext]_pipelineVars,
         NEW s \in {"fixed", "time"}, NEW t \in DOMAIN cache, Placed(s, t)
  PROVE  Placed(s, t)'
<1>1. JobsOf(s)' = JobsOf(s)
  BY SubjectStays, SameJobs
<1>2. cache'[t] = cache[t]
  BY ResultsStay
<1>3. PICK i \in DOMAIN JobsOf(s) :
        /\ t = TaskOf(JobsOf(s)[i])
        /\ cache[t].by = JobsOf(s)[i].role /\ cache[t].order = i - 1
  BY DEF Placed
<1>4. TaskOf(JobsOf(s)[i])' = TaskOf(JobsOf(s)[i])
  BY <1>1, SubjectStays, Zenon DEF TaskOf, IdOf
<1>5. QED
  BY <1>1, <1>2, <1>3, <1>4 DEF Placed

(* A stage's tasks begin with one of its own kinds, which no other stage   *)
(* has, so what is executed at a stage is placed there.                    *)
LEMMA PlacedStep ==
  ASSUME Typed, ProcessInv, PlacedInv, [PipelineNext]_pipelineVars
  PROVE  PlacedInv'
<1>1. SUFFICES ASSUME NEW s \in {"fixed", "time"}, NEW t \in DOMAIN cache', t[1] \in KindsOf[s]
               PROVE  Placed(s, t)'
  BY DEF PlacedInv
<1>2. CASE t \in DOMAIN cache
  BY <1>1, <1>2, PlacedStays DEF PlacedInv
<1>3. CASE t \notin DOMAIN cache
  <2>1. Execute
    BY <1>1, <1>3, RecordsStay
  <2> DEFINE j == Jobs[next]
  <2>2. /\ stage \in Stages /\ next \in DOMAIN Jobs /\ j \in JobOf(KindsOf[stage])
        /\ t = TaskOf(j) /\ cache'[t].by = j.role /\ cache'[t].order = next - 1
    BY <1>1, <1>3, <2>1, ExecuteAdds DEF ProcessInv
  <2>3. t[1] \in KindsOf[stage]
    BY <2>2, TaskStartsWithKind DEF JobOf
  <2>4. stage = s
    BY <1>1, <2>2, <2>3 DEF KindsOf, FixedKind, TimeKind, Stages, After
  <2>5. JobsOf(s)' = JobsOf(s)
    BY SubjectStays, SameJobs
  <2>6. PICK i : i = next
    OBVIOUS
  <2>7. /\ i \in DOMAIN JobsOf(s)' /\ t = TaskOf(JobsOf(s)[i])
        /\ cache'[t].by = JobsOf(s)[i].role /\ cache'[t].order = i - 1
    BY <2>2, <2>4, <2>5, <2>6 DEF Jobs
  <2>8. TaskOf(JobsOf(s)[i])' = TaskOf(JobsOf(s)[i])
    BY <2>5, SubjectStays, Zenon DEF TaskOf, IdOf
  <2>9. QED
    BY <2>5, <2>7, <2>8 DEF Placed
<1>4. QED
  BY <1>2, <1>3

LEMMA PipelineInvStep == PipelineInv /\ [PipelineNext]_pipelineVars => PipelineInv'
BY TypedStep, ProcessStep, CompleteStep, PlacedStep DEF PipelineInv

LEMMA PureStep ==
  ASSUME Typed, ProcessInv, PureInv, [PipelineNext]_pipelineVars
  PROVE  PureInv'
<1>1. CASE Start
  <2>1. DOMAIN cache' = {}
    BY <1>1 DEF Start, ProcessInv
  <2>2. QED
    BY <2>1 DEF PureInv, AllPure
<1>2. CASE Copy
  <2>1. DOMAIN cache' = {}
    BY <1>2 DEF Copy, ProcessInv
  <2>2. QED
    BY <2>1 DEF PureInv, AllPure
<1>3. CASE Execute
  <2>1. UNCHANGED <<file, putBack>> /\ pc' # "judge"
    BY <1>3 DEF Execute, Advance
  <2>2. SUFFICES ASSUME ~putBack, \A f \in Pinned : file[f] = "pinned"
                 PROVE  AllPure'
    BY <2>1, Zenon DEF PureInv
  <2>3. AllPure
    BY <2>2 DEF PureInv
  <2>4. QED
    BY <1>3, <2>2, <2>3, ExecuteAdds DEF AllPure
<1>4. CASE Verify
  <2>1. UNCHANGED <<cache, file, putBack>> /\ \A f \in Pinned : file[f] = "pinned"
    BY <1>4 DEF Verify, InputsVerified, Pinned
  <2>2. QED
    BY <2>1 DEF PureInv, AllPure
<1>5. ASSUME NEW f \in File, Alter(f) PROVE PureInv'
  <2>1. /\ UNCHANGED <<cache, pc, putBack>>
        /\ \A g \in Pinned : file'[g] = "pinned" => file[g] = "pinned"
    BY <1>5 DEF Alter, memory, Typed, Pinned, File
  <2>2. QED
    BY <2>1 DEF PureInv, AllPure
<1>6. ASSUME NEW f \in File, PutBack(f) PROVE PureInv'
  BY <1>6 DEF PutBack, PureInv
<1>7. CASE \/ UNCHANGED pipelineVars \/ Resume \/ WriteConfig \/ Check \/ Raise \/ Reuse \/ EndStage
           \/ WriteReport \/ WriteManifest \/ Kill
  <2>1. UNCHANGED <<cache, file, putBack>> /\ (pc' = "judge" => pc = "judge")
    BY <1>7 DEF pipelineVars, memory, Resume, WriteConfig, Check, Raise, Reuse, EndStage,
                WriteReport, WriteManifest, Kill, Stop, Advance
  <2>2. QED
    BY <2>1 DEF PureInv, AllPure
<1>8. QED
  BY <1>1, <1>2, <1>3, <1>4, <1>5, <1>6, <1>7 DEF PipelineNext, Step

-----------------------------------------------------------------------------
(* Nothing is executed any more when all is done. *)
LEMMA DoneIsFinal ==
  ASSUME Typed, ProcessInv, AllDone
  PROVE  ~Execute
<1>1. SUFFICES ASSUME Execute PROVE FALSE
  OBVIOUS
<1>2. stage \in Stages /\ next \in DOMAIN Jobs /\ TaskOf(Jobs[next]) \notin DOMAIN cache
  BY <1>1, ExecuteAdds
<1>3. QED
  BY <1>2 DEF AllDone, Done, Jobs

LEMMA JudgedIsDone ==
  ASSUME ProcessInv, CompleteInv, stage = "judge"
  PROVE  AllDone
BY DEF CompleteInv, Before, AllDone

(* The evidence depends on the candidate, the pairs and the records only.  *)
LEMMA SameEvidence ==
  ASSUME UNCHANGED <<subject, cache, extension>>
  PROVE  Evidence' = Evidence
<1>1. \A j : TaskOf(j)' = TaskOf(j)
  BY SameTasks
<1>2. ReferenceJobs' = ReferenceJobs
  BY Zenon DEF ReferenceJobs
<1>3. GameJobs' = GameJobs
  BY Zenon DEF GameJobs
<1>4. \A kind, o, role : Records(kind, o, role)' = Records(kind, o, role)
  BY <1>1 DEF Records
<1>5. \A r : Seen(r)' = Seen(r)
  BY DEF Seen
<1>6. \A kind, o : Compared(kind, o)' = Compared(kind, o)
  BY <1>4 DEF Compared
<1>7. FixedDepthPassed' = FixedDepthPassed
  BY <1>1, <1>5 DEF FixedDepthPassed
<1>8. \A kind, field : Ratio(kind, field)' = Ratio(kind, field)
  BY <1>4 DEF Ratio
<1>9. FixedEvidence' = FixedEvidence
  <2>1. Authoritative' = Authoritative
    BY <1>4 DEF Authoritative
  <2>2. QED
    BY <1>4, <1>6, <1>8, <2>1 DEF FixedEvidence
<1>10. \A role : TimeOuts(role)' = TimeOuts(role)
  BY <1>4 DEF TimeOuts
<1>11. TimeEvidence' = TimeEvidence
  BY <1>4, <1>6, <1>10 DEF TimeEvidence
<1>12. ReferencePassed' = ReferencePassed
  BY <1>1, <1>2 DEF ReferencePassed
<1>13. \A o : GamesOf(o)' = GamesOf(o)
  BY <1>1, <1>3 DEF GamesOf
<1>14. \A o : CompletePairs(o)' = CompletePairs(o)
  BY DEF CompletePairs
<1>15. \A o : Score(o)' = Score(o)
  BY <1>13, <1>14 DEF Score
<1>16. QED
  BY <1>1, <1>7, <1>9, <1>11, <1>12, <1>13, <1>15, Zenon DEF Evidence

LEMMA ExtensionGrows ==
  ASSUME Typed, [PipelineNext]_pipelineVars
  PROVE  /\ Pairs \in Nat /\ Pairs' \in Nat /\ Pairs <= Pairs'
         /\ extension' # extension => Pairs < Pairs'
<1>1. extension \in Nat
  BY PipelineConstants DEF Typed
<1>2. extension' = extension \/ extension' \in extension .. MaxExtension
  BY <1>1
  DEF PipelineNext, pipelineVars, Start, Resume, Step, Kill, Alter, PutBack, Copy, WriteConfig,
      Check, Verify, Raise, Execute, Reuse, EndStage, WriteReport, WriteManifest
<1>3. QED
  BY <1>1, <1>2, PipelineConstants DEF Pairs

LEMMA AllStays ==
  ASSUME Typed, ProcessInv, [PipelineNext]_pipelineVars, AllDone, extension' = extension
  PROVE  AllDone' /\ Classify(Evidence)' = Classify(Evidence)
<1>1. cache' = cache
  BY RecordsStay, DoneIsFinal
<1>2. Evidence' = Evidence
  BY <1>1, SameEvidence, SubjectStays
<1>3. Classify(Evidence)' = Classify(Evidence)
  BY <1>2
<1>4. \A s \in Stages : Done(s)'
  BY DoneStays DEF AllDone
<1>5. QED
  BY <1>3, <1>4 DEF AllDone

LEMMA VerdictStands ==
  ASSUME Typed, ProcessInv, [PipelineNext]_pipelineVars,
         NEW v \in {NoVerdict} \cup VerdictType, Stands(v)
  PROVE  Stands(v)'
<1>1. SUFFICES ASSUME v # NoVerdict
               PROVE  /\ v.pairs <= Pairs'
                      /\ v.pairs = Pairs' => AllDone' /\ v.classification = Classify(Evidence)'
  BY DEF Stands
<1>2. /\ v.pairs \in Nat /\ v.pairs <= Pairs
      /\ v.pairs = Pairs => AllDone /\ v.classification = Classify(Evidence)
  BY <1>1 DEF Stands, VerdictType
<1>3. CASE extension' # extension
  BY <1>2, <1>3, ExtensionGrows
<1>4. CASE extension' = extension
  <2>1. Pairs' = Pairs
    BY <1>4 DEF Pairs
  <2>2. QED
    BY <1>2, <1>4, <2>1, AllStays
<1>5. QED
  BY <1>3, <1>4

(* What is written is the verdict on the results there are. *)
LEMMA ReportIsCurrent ==
  ASSUME PipelineInv, [PipelineNext]_pipelineVars, WriteReport
  PROVE  /\ report' \in VerdictType /\ report'.pairs = Pairs'
         /\ AllDone' /\ report'.classification = Classify(Evidence)'
<1>1. report' = [classification |-> Classify(Evidence), pairs |-> Pairs] /\ extension' = extension
  BY DEF WriteReport, Pairs
<1>2. Pairs' = Pairs /\ Pairs \in Nat
  BY <1>1, ExtensionGrows DEF PipelineInv, Pairs
<1>3. AllDone
  BY JudgedIsDone DEF PipelineInv, WriteReport, ProcessInv
<1>4. AllDone' /\ Classify(Evidence)' = Classify(Evidence)
  BY <1>1, <1>3, AllStays DEF PipelineInv
<1>5. QED
  BY <1>1, <1>2, <1>4, ClassifyType DEF VerdictType

LEMMA StandsStep ==
  ASSUME PipelineInv, StandsInv, [PipelineNext]_pipelineVars
  PROVE  StandsInv'
<1>1. Stands(manifest)'
  <2>1. CASE manifest' = manifest
    <3>1. manifest \in {NoVerdict} \cup VerdictType /\ Stands(manifest)
      BY DEF PipelineInv, Typed, StandsInv
    <3>2. ASSUME NEW v, v = manifest PROVE Stands(v)'
      BY <3>1, <3>2, VerdictStands DEF PipelineInv
    <3>3. QED
      BY <2>1, <3>2 DEF Stands
  <2>2. CASE WriteManifest
    <3>1. report \in {NoVerdict} \cup VerdictType /\ Stands(report)
      BY DEF PipelineInv, Typed, StandsInv
    <3>2. ASSUME NEW v, v = report PROVE Stands(v)'
      BY <3>1, <3>2, VerdictStands DEF PipelineInv
    <3>3. QED
      BY <2>2, <3>2 DEF Stands, WriteManifest
  <2>3. QED
    BY <2>1, <2>2
    DEF PipelineNext, pipelineVars, Start, Resume, Step, Kill, Alter, PutBack, Copy, WriteConfig,
        Check, Verify, Raise, Execute, Reuse, EndStage, WriteReport
<1>2. CASE WriteReport
  <2>1. /\ report' \in VerdictType /\ report'.pairs = Pairs'
        /\ AllDone' /\ report'.classification = Classify(Evidence)'
    BY <1>2, ReportIsCurrent
  <2>2. Pairs' \in Nat
    BY ExtensionGrows DEF PipelineInv
  <2>3. QED
    BY <1>1, <2>1, <2>2 DEF StandsInv, Stands
<1>3. CASE ~WriteReport
  <2>1. report' = report
    BY <1>3
    DEF PipelineNext, pipelineVars, Start, Resume, Step, Kill, Alter, PutBack, Copy, WriteConfig,
        Check, Verify, Raise, Execute, Reuse, EndStage, WriteManifest
  <2>2. Stands(report)'
    <3>1. report \in {NoVerdict} \cup VerdictType /\ Stands(report)
      BY DEF PipelineInv, Typed, StandsInv
    <3>2. ASSUME NEW v, v = report PROVE Stands(v)'
      BY <3>1, <3>2, VerdictStands DEF PipelineInv
    <3>3. QED
      BY <2>1, <3>2 DEF Stands
  <2>3. pc' = "manifest" => pc = "manifest" /\ extension' = extension
    BY <1>3
    DEF PipelineNext, pipelineVars, memory, Start, Resume, Step, Kill, Alter, PutBack, Copy,
        WriteConfig, Check, Verify, Raise, Execute, Reuse, Advance, EndStage, Stop, WriteManifest
  <2>4. ASSUME pc' = "manifest"
        PROVE  /\ report' \in VerdictType /\ report'.pairs = Pairs'
               /\ AllDone' /\ report'.classification = Classify(Evidence)'
    <3>1. /\ report \in VerdictType /\ report.pairs = Pairs
          /\ AllDone /\ report.classification = Classify(Evidence)
      BY <2>3, <2>4 DEF StandsInv
    <3>2. Pairs' = Pairs
      BY <2>3, <2>4 DEF Pairs
    <3>3. QED
      BY <2>1, <2>3, <2>4, <3>1, <3>2, AllStays DEF PipelineInv
  <2>5. QED
    BY <1>1, <2>2, <2>4 DEF StandsInv
<1>4. QED
  BY <1>2, <1>3

LEMMA ReproducedStep ==
  ASSUME PipelineInv, StandsInv, [PipelineNext]_pipelineVars,
         manifest # NoVerdict, manifest' # manifest
  PROVE  manifest'.pairs > manifest.pairs
<1>1. WriteManifest
  BY DEF PipelineNext, pipelineVars, Start, Resume, Step, Kill, Alter, PutBack, Copy, WriteConfig,
         Check, Verify, Raise, Execute, Reuse, EndStage, WriteReport
<1>2. manifest' = report /\ pc = "manifest"
  BY <1>1 DEF WriteManifest
<1>3. report \in VerdictType /\ report.pairs = Pairs /\ report.classification = Classify(Evidence)
  BY <1>2 DEF StandsInv
<1>4. manifest \in VerdictType /\ manifest.pairs <= Pairs
      /\ (manifest.pairs = Pairs => manifest.classification = Classify(Evidence))
  BY DEF PipelineInv, Typed, StandsInv, Stands
<1>5. manifest.pairs # Pairs
  <2>1. SUFFICES ASSUME manifest.pairs = Pairs PROVE FALSE
    OBVIOUS
  <2>2. manifest = report
    BY <1>3, <1>4, <2>1 DEF VerdictType
  <2>3. QED
    BY <1>2, <2>2
<1>6. QED
  BY <1>2, <1>3, <1>4, <1>5, ExtensionGrows DEF PipelineInv, VerdictType

-----------------------------------------------------------------------------
(* The invariant of an evaluation: types, the way of the process through   *)
(* stages and jobs, what has a result, and where a record belongs.         *)
THEOREM PipelineInvariant == PipelineSpec => []PipelineInv
<1>1. PipelineInit => PipelineInv
  BY InitInv
<1>2. PipelineInv /\ [PipelineNext]_pipelineVars => PipelineInv'
  BY PipelineInvStep
<1>3. QED
  BY <1>1, <1>2, PTL DEF PipelineSpec

(* Types of the state of an evaluation (run_config.json, progress.json,    *)
(* report.md, manifest.json), and its place in the stages.                 *)
THEOREM PipelineTypesCorrect == PipelineSpec => []PipelineTypeOK
<1>1. PipelineInv => PipelineTypeOK
  BY DEF PipelineInv, Typed, ProcessInv, PipelineTypeOK, RecordType, VerdictType, Stages
<1>2. QED
  BY <1>1, PipelineInvariant, PTL

(* However often a run is killed and resumed, no two records of a stage of *)
(* benchmarks have the same execution_order.                               *)
THEOREM OrdersStayUnique == PipelineSpec => []OrderSurvivesResume
<1>1. PipelineInv => OrderSurvivesResume
  <2>1. SUFFICES ASSUME PipelineInv, NEW kinds \in {Range(Kinds.fixed), Range(Kinds.time)},
                        NEW t \in DOMAIN cache, NEW u \in DOMAIN cache,
                        t[1] \in kinds, u[1] \in kinds, cache[t].order = cache[u].order
                 PROVE  t = u
    BY DEF OrderSurvivesResume
  <2>2. Range(Kinds.fixed) \subseteq FixedKind /\ Range(Kinds.time) \subseteq TimeKind
    <3>1. \A S : \A f \in Seq(S) : Range(f) \subseteq S
      BY DEF Range
    <3>2. QED
      BY <3>1, PipelineConstants, Zenon
  <2>3. PICK s \in {"fixed", "time"} : t[1] \in KindsOf[s] /\ u[1] \in KindsOf[s]
    BY <2>1, <2>2 DEF KindsOf
  <2>4. Placed(s, t) /\ Placed(s, u)
    BY <2>1, <2>3 DEF PipelineInv, PlacedInv
  <2>5. PICK i \in DOMAIN JobsOf(s) : t = TaskOf(JobsOf(s)[i]) /\ cache[t].order = i - 1
    BY <2>4 DEF Placed
  <2>6. PICK k \in DOMAIN JobsOf(s) : u = TaskOf(JobsOf(s)[k]) /\ cache[u].order = k - 1
    BY <2>4 DEF Placed
  <2>7. DOMAIN JobsOf(s) \subseteq Nat
    BY JobsTyped DEF PipelineInv, Typed, Stages, After
  <2>8. i = k
    BY <2>1, <2>5, <2>6, <2>7
  <2>9. QED
    BY <2>5, <2>6, <2>8
<1>2. QED
  BY <1>1, PipelineInvariant, PTL

(* However often a run is resumed, its manifest is not replaced before     *)
(* more pairs of games are counted.                                        *)
THEOREM VerdictsStand == PipelineSpec => VerdictReproduced
<1>1. PipelineInit => PipelineInv /\ StandsInv
  BY InitInv
<1>2. PipelineInv /\ StandsInv /\ [PipelineNext]_pipelineVars => (PipelineInv /\ StandsInv)'
  BY PipelineInvStep, StandsStep
<1>3. PipelineInv /\ StandsInv /\ [PipelineNext]_pipelineVars =>
        [manifest # NoVerdict /\ manifest' # manifest =>
           manifest'.pairs > manifest.pairs]_pipelineVars
  BY ReproducedStep
<1>4. QED
  BY <1>1, <1>2, <1>3, PTL DEF PipelineSpec, VerdictReproduced

-----------------------------------------------------------------------------
(* What an acceptance rests on, when no altered file was put back. *)

LEMMA SequencesOfMore == ASSUME NEW S, NEW T, S \subseteq T PROVE Seq(S) \subseteq Seq(T)
OBVIOUS

(* Every result there is to read was measured on what the run pinned.      *)
LEMMA EvidenceIsPure ==
  ASSUME Typed, AllPure, AllDone
  PROVE  /\ \A j \in Range(FixedJobs \o TimeJobs) : TaskOf(j) \in DOMAIN cache
         /\ \A kind, o, role : \A r \in Records(kind, o, role) : r.pure
         /\ \A j \in Range(ReferenceJobs) : cache[TaskOf(j)].pure
         /\ \A o : \A r \in GamesOf(o) : r.pure
<1>1. \A s \in Stages : \A j \in Range(JobsOf(s)) : TaskOf(j) \in DOMAIN cache
  BY DEF AllDone, Done, Range
<1>2. {"fixed", "time", "game"} \subseteq Stages
  BY DEF Stages, After
<1>3. /\ JobsOf("fixed") = FixedJobs \o ReferenceJobs
      /\ JobsOf("time") = TimeJobs /\ JobsOf("game") = GameJobs
  BY DEF JobsOf
<1> DEFINE U == JobOf(FixedKind \cup {"reference"} \cup TimeKind)
<1>4. FixedJobs \in Seq(U) /\ TimeJobs \in Seq(U) /\ ReferenceJobs \in Seq(U)
  <2>1. /\ JobOf(FixedKind) \subseteq U /\ JobOf(TimeKind) \subseteq U
        /\ JobOf({"reference"}) \subseteq U
    BY DEF JobOf
  <2>2. QED
    BY <2>1, SequencesOfMore, BenchmarksTyped, ReferenceTyped, Zenon
<1> HIDE DEF U
<1>5. \A x : x \in Range(FixedJobs \o TimeJobs) <=> x \in Range(FixedJobs) \/ x \in Range(TimeJobs)
  BY <1>4, RangeOfConcatenation
<1>6. \A x : x \in Range(FixedJobs \o ReferenceJobs) <=>
               x \in Range(FixedJobs) \/ x \in Range(ReferenceJobs)
  BY <1>4, RangeOfConcatenation
<1>7. /\ \A j \in Range(FixedJobs \o TimeJobs) : TaskOf(j) \in DOMAIN cache
      /\ \A j \in Range(ReferenceJobs) \cup Range(GameJobs) : TaskOf(j) \in DOMAIN cache
  BY <1>1, <1>2, <1>3, <1>5, <1>6, Zenon
<1>8. QED
  BY <1>7, Zenon DEF Records, GamesOf, AllPure

(* A fixed-depth job of an opponent has its twin of the other engine, and  *)
(* they are the jobs there are of that kind.                               *)
LEMMA FixedTwins ==
  /\ \A x : (x \in Range(FixedJobs \o TimeJobs) /\ x.kind = "fixed") =>
       /\ x \in Range(FixedJobs) /\ "fixed" \in Range(Kinds.fixed)
       /\ x.opponent \in Range(Opponents)
       /\ x.repetition \in 0 .. Repetitions["fixed"] - 1 /\ x.role \in Sided
       /\ x = Job("fixed", x.opponent, x.repetition, x.role)
  /\ \A o \in Range(Opponents), role \in Sided :
       "fixed" \in Range(Kinds.fixed) =>
         \A r \in 0 .. Repetitions["fixed"] - 1 :
           Job("fixed", o, r, role) \in Range(FixedJobs)
           /\ Job("fixed", o, r, role) \in Range(FixedJobs \o TimeJobs)
<1> DEFINE U == JobOf(FixedKind \cup TimeKind)
<1>1. FixedJobs \in Seq(U) /\ TimeJobs \in Seq(U)
  <2>1. JobOf(FixedKind) \subseteq U /\ JobOf(TimeKind) \subseteq U
    BY DEF JobOf
  <2>2. QED
    BY <2>1, SequencesOfMore, BenchmarksTyped, Zenon
<1> HIDE DEF U
<1>2. \A x : x \in Range(FixedJobs \o TimeJobs) <=> x \in Range(FixedJobs) \/ x \in Range(TimeJobs)
  BY <1>1, RangeOfConcatenation
<1>3. ASSUME NEW x, x \in Range(FixedJobs \o TimeJobs), x.kind = "fixed"
      PROVE  /\ x \in Range(FixedJobs) /\ "fixed" \in Range(Kinds.fixed)
             /\ x.opponent \in Range(Opponents)
             /\ x.repetition \in 0 .. Repetitions["fixed"] - 1 /\ x.role \in Sided
             /\ x = Job("fixed", x.opponent, x.repetition, x.role)
  <2>1. x \notin Range(TimeJobs)
    <3>1. \A f \in Seq(JobOf(TimeKind)) : Range(f) \subseteq JobOf(TimeKind)
      BY DEF Range
    <3>2. x \notin JobOf(TimeKind)
      BY <1>3 DEF JobOf, TimeKind
    <3>3. QED
      BY <3>1, <3>2, BenchmarksTyped
  <2>2. x \in Range(FixedJobs)
    BY <1>2, <1>3, <2>1
  <2>3. PICK o \in Range(Opponents), k \in Range(Kinds.fixed) : InMatrix(x, k, o)
    BY <2>2, BenchmarksTyped
  <2>4. PICK r \in 0 .. Repetitions[k] - 1, role \in Sided : x = Job(k, o, r, role)
    BY <2>3 DEF InMatrix, InKind, InPair
  <2>5. k = "fixed" /\ x.opponent = o /\ x.repetition = r /\ x.role = role
    BY <2>4, <1>3 DEF Job
  <2>6. QED
    BY <2>2, <2>4, <2>5
<1>4. ASSUME NEW o \in Range(Opponents), NEW role \in Sided, "fixed" \in Range(Kinds.fixed),
             NEW r \in 0 .. Repetitions["fixed"] - 1
      PROVE  Job("fixed", o, r, role) \in Range(FixedJobs)
  BY <1>4, BenchmarksTyped, Zenon DEF InMatrix, InKind, InPair
<1>5. QED
  BY <1>2, <1>3, <1>4

(* With another version ID than the champion's, a record of a fixed-depth  *)
(* job against it is of the engine the job is for, and no other job of     *)
(* that kind has its order.                                                *)
LEMMA RecordBelongs ==
  ASSUME Typed, PlacedInv, AllDone, AllPure, subject.id # Champion,
         NEW x \in Range(FixedJobs \o TimeJobs), x.kind = "fixed", x.opponent = Champion
  PROVE  /\ cache[TaskOf(x)].by = x.role
         /\ \E i \in DOMAIN JobsOf("fixed") :
              TaskOf(x) = TaskOf(JobsOf("fixed")[i]) /\ cache[TaskOf(x)].order = i - 1
<1>1. x.role \in Sided /\ x = Job("fixed", Champion, x.repetition, x.role)
  BY FixedTwins
<1>2. TaskOf(x) = <<"fixed", Champion, x.repetition, IdOf(Champion, x.role)>>
  BY <1>1 DEF TaskOf, Job
<1>3. TaskOf(x) \in DOMAIN cache
  BY EvidenceIsPure
<1>4. Placed("fixed", TaskOf(x))
  <2>1. TaskOf(x)[1] \in KindsOf["fixed"]
    BY <1>2 DEF KindsOf, FixedKind
  <2>2. QED
    BY <1>3, <2>1 DEF PlacedInv
<1>5. PICK i \in DOMAIN JobsOf("fixed") :
        /\ TaskOf(x) = TaskOf(JobsOf("fixed")[i])
        /\ cache[TaskOf(x)].by = JobsOf("fixed")[i].role
        /\ cache[TaskOf(x)].order = i - 1
  BY <1>4 DEF Placed
<1> DEFINE y == JobsOf("fixed")[i]
<1>6. y \in JobOf(FixedKind \cup {"reference"})
  <2>1. "fixed" \in Stages /\ KindsOf["fixed"] = FixedKind \cup {"reference"}
    BY DEF Stages, After, KindsOf
  <2>2. JobsOf("fixed") \in Seq(JobOf(FixedKind \cup {"reference"}))
    BY <2>1, JobsTyped DEF Typed
  <2>3. QED
    BY <1>5, <2>2
<1> HIDE DEF y
<1>7. y.kind = "fixed"
  BY <1>2, <1>5, TaskStartsWithKind DEF y
<1>8. TaskOf(y) = <<"fixed", y.opponent, y.repetition, IdOf(y.opponent, y.role)>>
  BY <1>7 DEF TaskOf
<1>9. y.opponent = Champion /\ IdOf(Champion, y.role) = IdOf(Champion, x.role)
  BY <1>2, <1>5, <1>8 DEF y
<1>10. y.role \in Sided
  <2>1. SUFFICES ASSUME y.role = "reference" PROVE FALSE
    BY <1>6 DEF JobOf, Sided
  <2>2. y \in Range(FixedJobs \o ReferenceJobs)
    BY <1>5 DEF y, JobsOf, Range
  <2>3. /\ FixedJobs \in Seq(JobOf(FixedKind \cup {"reference"}))
        /\ ReferenceJobs \in Seq(JobOf(FixedKind \cup {"reference"}))
    <3>1. /\ JobOf(FixedKind) \subseteq JobOf(FixedKind \cup {"reference"})
          /\ JobOf({"reference"}) \subseteq JobOf(FixedKind \cup {"reference"})
      BY DEF JobOf
    <3>2. QED
      BY <3>1, SequencesOfMore, BenchmarksTyped, ReferenceTyped, Zenon
  <2>4. y \in Range(FixedJobs) \/ y \in Range(ReferenceJobs)
    BY <2>2, <2>3, RangeOfConcatenation
  <2>5. y \notin Range(ReferenceJobs)
    <3>1. \A f \in Seq(JobOf({"reference"})) : Range(f) \subseteq JobOf({"reference"})
      BY DEF Range
    <3>2. y \notin JobOf({"reference"})
      BY <1>7 DEF JobOf
    <3>3. QED
      BY <3>1, <3>2, ReferenceTyped
  <2>6. PICK o \in Range(Opponents), k \in Range(Kinds.fixed) : InMatrix(y, k, o)
    BY <2>4, <2>5, BenchmarksTyped
  <2>7. PICK r \in 0 .. Repetitions[k] - 1, role \in Sided : y = Job(k, o, r, role)
    BY <2>6 DEF InMatrix, InKind, InPair
  <2>8. y.role \in Sided
    BY <2>7 DEF Job
  <2>9. QED
    BY <2>1, <2>8 DEF Sided
<1>11. y.role = x.role
  BY <1>1, <1>9, <1>10 DEF IdOf, Sided
<1>12. QED
  BY <1>5, <1>11 DEF y

(* What the fixed-depth comparison with the champion saw of a pair of jobs *)
(* was the candidate and the champion themselves.                          *)
LEMMA ComparisonSees ==
  ASSUME Typed, PlacedInv, AllDone, AllPure, subject.id # Champion,
         FixedDepthPassed, Champion \in Range(Opponents), "fixed" \in Range(Kinds.fixed),
         NEW r \in 0 .. Repetitions["fixed"] - 1
  PROVE  /\ \A role \in Sided : cache[TaskOf(Job("fixed", Champion, r, role))].error = "none"
         /\ subject.nature.legal
         /\ subject.category \in StrictScores => subject.nature.score = "same"
<1> DEFINE i == Job("fixed", Champion, r, "candidate")
           j == Job("fixed", Champion, r, "opponent")
<1>1. /\ i \in Range(FixedJobs \o TimeJobs) /\ i \in Range(FixedJobs)
      /\ j \in Range(FixedJobs \o TimeJobs) /\ j \in Range(FixedJobs)
  BY FixedTwins DEF Sided
<1>2. /\ i.kind = "fixed" /\ i.opponent = Champion /\ i.repetition = r /\ i.role = "candidate"
      /\ j.kind = "fixed" /\ j.opponent = Champion /\ j.repetition = r /\ j.role = "opponent"
  BY DEF Job
<1> HIDE DEF i, j
<1> DEFINE c == cache[TaskOf(i)]
           o == cache[TaskOf(j)]
<1>3. c.by = "candidate" /\ o.by = "opponent"
  BY <1>1, <1>2, RecordBelongs
<1>4. c.pure
  BY <1>1, EvidenceIsPure DEF AllPure
<1>5. Seen(c) = subject.nature /\ Seen(o) = Flattering
  BY <1>3, <1>4 DEF Seen
<1>6. ~FixedDepthFailure(subject.category,
         [ok |-> c.error = "none", legal |-> Seen(c).legal, score |-> Seen(c).score],
         [ok |-> o.error = "none", legal |-> Seen(o).legal, score |-> Seen(o).score])
  <2>1. i \in {k \in Range(FixedJobs) : k.kind = "fixed" /\ k.opponent = Champion}
        /\ j \in {k \in Range(FixedJobs) : k.kind = "fixed" /\ k.opponent = Champion}
    BY <1>1, <1>2, Zenon
  <2>2. QED
    BY <1>2, <2>1, Zenon DEF FixedDepthPassed
<1> HIDE DEF c, o
<1>7. subject.nature \in Nature
  BY PipelineConstants DEF Typed
<1>8. /\ c.error = "none" /\ o.error = "none"
      /\ subject.nature.legal = TRUE
      /\ subject.category \in StrictScores => subject.nature.score = "same"
  <2>1. /\ c.error = "none" /\ o.error = "none" /\ Seen(c).legal = Seen(o).legal
        /\ subject.category \in StrictScores => Seen(c).score = Seen(o).score
    BY <1>6, Zenon DEF FixedDepthFailure
  <2>2. QED
    BY <1>5, <1>7, <2>1 DEF Flattering, Nature
<1>9. QED
  BY <1>8 DEF c, o, i, j, Sided

(* Every repetition left a record of its own, so the timings of a profile  *)
(* that may accept are authoritative.                                      *)
LEMMA RepetitionsCount ==
  ASSUME Typed, PlacedInv, AllDone, AllPure, subject.id # Champion,
         FixedDepthPassed, Champion \in Range(Opponents), "fixed" \in Range(Kinds.fixed),
         NEW role \in Sided
  PROVE  LET card == Cardinality(Valid(Records("fixed", Champion, role)))
         IN  card \in Nat /\ card >= Repetitions["fixed"]
<1> DEFINE R == Valid(Records("fixed", Champion, role))
           n == Repetitions["fixed"]
           jobs == JobsOf("fixed")
           rec == [r \in 0 .. n - 1 |-> cache[TaskOf(Job("fixed", Champion, r, role))]]
           place == [x \in R |-> x.order]
<1>1. n \in Nat
  BY PipelineConstants
<1>2. Len(jobs) \in Nat /\ DOMAIN jobs = 1 .. Len(jobs)
  BY JobsTyped DEF Typed, Stages, After
<1>3. ASSUME NEW x \in R
      PROVE  \E i \in DOMAIN jobs : x = cache[TaskOf(jobs[i])] /\ x.order = i - 1
  <2>1. PICK j \in Range(FixedJobs \o TimeJobs) :
          x = cache[TaskOf(j)] /\ j.kind = "fixed" /\ j.opponent = Champion
    BY <1>3, Zenon DEF Valid, Records
  <2>2. QED
    BY <2>1, RecordBelongs
<1>4. IsFiniteSet(R)
  <2>1. \A x \in R : x.order \in 0 .. Len(jobs)
    BY <1>2, <1>3
  <2>2. \A x, y \in R : x.order = y.order => x = y
    <3>1. SUFFICES ASSUME NEW x \in R, NEW y \in R, x.order = y.order PROVE x = y
      OBVIOUS
    <3>2. PICK i \in DOMAIN jobs : x = cache[TaskOf(jobs[i])] /\ x.order = i - 1
      BY <1>3
    <3>3. PICK k \in DOMAIN jobs : y = cache[TaskOf(jobs[k])] /\ y.order = k - 1
      BY <1>3
    <3>4. i = k
      BY <1>2, <3>1, <3>2, <3>3
    <3>5. QED
      BY <3>2, <3>3, <3>4
  <2>3. place \in Injection(R, 0 .. Len(jobs))
    <3>1. place \in [R -> 0 .. Len(jobs)]
      BY <2>1, Zenon
    <3>2. \A x, y \in DOMAIN place : place[x] = place[y] => x = y
      BY <2>2, Zenon
    <3>3. QED
      BY <3>1, <3>2, Zenon DEF Injection, IsInjective
  <2>4. IsFiniteSet(0 .. Len(jobs))
    BY <1>2, FS_Interval
  <2> HIDE DEF place, R, jobs
  <2>5. QED
    BY <2>3, <2>4, FS_Injection
<1>5. \A r \in 0 .. n - 1 : Job("fixed", Champion, r, role) \in Range(FixedJobs \o TimeJobs)
  BY FixedTwins, Zenon
<1>6. \A r \in 0 .. n - 1 :
        cache[TaskOf(Job("fixed", Champion, r, role))] \in R
  <2>1. SUFFICES ASSUME NEW r \in 0 .. n - 1
                 PROVE  cache[TaskOf(Job("fixed", Champion, r, role))] \in R
    OBVIOUS
  <2>2. cache[TaskOf(Job("fixed", Champion, r, role))].error = "none"
    BY ComparisonSees
  <2>3. /\ Job("fixed", Champion, r, role).kind = "fixed"
        /\ Job("fixed", Champion, r, role).opponent = Champion
        /\ Job("fixed", Champion, r, role).role = role
    BY DEF Job
  <2>4. QED
    BY <1>5, <2>2, <2>3, Zenon DEF Valid, Records
<1>7. ASSUME NEW r \in 0 .. n - 1, NEW q \in 0 .. n - 1,
             cache[TaskOf(Job("fixed", Champion, r, role))] =
               cache[TaskOf(Job("fixed", Champion, q, role))]
      PROVE  r = q
  <2> DEFINE x == Job("fixed", Champion, r, role)
             y == Job("fixed", Champion, q, role)
  <2>1. x \in Range(FixedJobs \o TimeJobs) /\ y \in Range(FixedJobs \o TimeJobs)
    BY <1>5
  <2>2. /\ x.kind = "fixed" /\ x.opponent = Champion /\ TaskOf(x)[3] = r
        /\ y.kind = "fixed" /\ y.opponent = Champion /\ TaskOf(y)[3] = q
    BY DEF Job, TaskOf
  <2> HIDE DEF x, y
  <2>3. PICK i \in DOMAIN jobs : TaskOf(x) = TaskOf(jobs[i]) /\ cache[TaskOf(x)].order = i - 1
    BY <2>1, <2>2, RecordBelongs
  <2>4. PICK k \in DOMAIN jobs : TaskOf(y) = TaskOf(jobs[k]) /\ cache[TaskOf(y)].order = k - 1
    BY <2>1, <2>2, RecordBelongs
  <2>5. i = k
    BY <1>2, <1>7, <2>3, <2>4 DEF x, y
  <2>6. QED
    BY <2>2, <2>3, <2>4, <2>5
<1>8. rec \in Injection(0 .. n - 1, R)
  <2>1. rec \in [0 .. n - 1 -> R]
    BY <1>6, Zenon
  <2>2. \A r, q \in DOMAIN rec : rec[r] = rec[q] => r = q
    BY <1>7, Zenon
  <2>3. QED
    BY <2>1, <2>2, Zenon DEF Injection, IsInjective
<1> HIDE DEF rec, R, n
<1>9. Cardinality(0 .. n - 1) <= Cardinality(R)
  BY <1>4, <1>8, FS_Injection
<1>10. Cardinality(0 .. n - 1) = n
  BY <1>1, FS_Interval
<1>11. Cardinality(R) \in Nat
  BY <1>4, FS_CardinalityType
<1>12. QED
  BY <1>1, <1>9, <1>10, <1>11 DEF R, n

(* What the verdict is made from, when all of it is pure: a pair was       *)
(* completed, so the candidate has an ID of its own, and the costs and the *)
(* strength are the candidate's.                                           *)
LEMMA CompletedPairs ==
  ASSUME Typed, NEW o, CompletePairs(o) # {}
  PROVE  subject.id # o /\ Cardinality(CompletePairs(o)) \in 1 .. OpeningPairs + MaxExtension
<1> DEFINE last == OpeningPairs + extension - 1
           pairs == CompletePairs(o)
<1>1. subject.id # o /\ pairs \subseteq 0 .. last
  BY DEF CompletePairs
<1>2. last \in Int /\ last + 1 \in Nat /\ last + 1 <= OpeningPairs + MaxExtension
  BY PipelineConstants DEF Typed
<1>3. IsFiniteSet(0 .. last) /\ Cardinality(0 .. last) = last + 1
  BY <1>2, FS_Interval
<1> HIDE DEF last, pairs
<1>4. IsFiniteSet(pairs) /\ Cardinality(pairs) <= last + 1
  BY <1>1, <1>3, FS_Subset
<1>5. Cardinality(pairs) \in Nat /\ Cardinality(pairs) # 0
  BY <1>4, FS_CardinalityType, FS_EmptySet DEF pairs
<1>6. OpeningPairs + MaxExtension \in Nat
  BY PipelineConstants
<1>7. QED
  BY <1>1, <1>2, <1>4, <1>5, <1>6 DEF pairs

LEMMA ScoreShows ==
  ASSUME Typed, AllPure, AllDone, NEW o, Score(o).pairs # 0 \/ Score(o).interval # NoInterval
  PROVE  /\ subject.id # o /\ o \in Range(Opponents)
         /\ Score(o).pairs \in DOMAIN ConfidenceInterval
         /\ Score(o).interval = ConfidenceInterval[Score(o).pairs][subject.nature.strength]
<1> DEFINE pairs == IF o \in Range(Opponents) THEN CompletePairs(o) ELSE {}
           n == Cardinality(pairs)
<1>1. \A r \in GamesOf(o) : r.pure
  BY EvidenceIsPure
<1>2. /\ Score(o).pairs = n
      /\ Score(o).interval = IF pairs = {} THEN NoInterval
                             ELSE ConfidenceInterval[n][subject.nature.strength]
  BY <1>1, Zenon DEF Score
<1>3. pairs # {}
  BY <1>2, FS_EmptySet
<1>4. o \in Range(Opponents) /\ CompletePairs(o) # {} /\ n = Cardinality(CompletePairs(o))
  BY <1>3
<1> HIDE DEF n, pairs
<1>5. subject.id # o /\ n \in 1 .. OpeningPairs + MaxExtension
  BY <1>4, CompletedPairs
<1>6. DOMAIN ConfidenceInterval = 1 .. OpeningPairs + MaxExtension
  BY PipelineConstants
<1>7. QED
  BY <1>2, <1>3, <1>4, <1>5, <1>6

LEMMA CostsAreOwn ==
  ASSUME AllPure, AllDone, Typed, subject.id # Champion
  PROVE  /\ Evidence.fixed.elapsed = subject.nature.elapsed
         /\ Evidence.fixed.nodes = subject.nature.nodes
         /\ Evidence.fixed.memory = subject.nature.memory
<1>1. ASSUME NEW field
      PROVE  Ratio("fixed", field) = subject.nature[field]
  <2>1. \A role : \A r \in Records("fixed", Champion, role) : r.pure
    BY EvidenceIsPure
  <2>2. QED
    BY <2>1, Zenon DEF Ratio
<1>2. /\ Evidence.fixed.elapsed = Ratio("fixed", "elapsed")
      /\ Evidence.fixed.nodes = Ratio("fixed", "nodes")
      /\ Evidence.fixed.memory = Ratio("fixed", "memory")
  BY DEF Evidence, FixedEvidence
<1>3. QED
  BY <1>1, <1>2

(* The gates an acceptance passed. *)
LEMMA Gates ==
  ASSUME NEW e, Classify(e) \in Acceptance
  PROVE  /\ e.correct /\ e.artifactBinding /\ e.permissions # {}
         /\ SampleGate(e) /\ NonRegression(e) /\ MemoryGate(e)
         /\ e.champion.interval # NoInterval
         /\ \/ /\ Classify(e) = "ACCEPT_PERFORMANCE_UPGRADE" /\ e.category \in Optimization
               /\ PerformanceGate(e) /\ e.champion.interval.lower >= 48
            \/ /\ Classify(e) = "ACCEPT_STRENGTH_UPGRADE"
               /\ CommonGates(e) /\ e.champion.interval.lower > 50
            \/ /\ Classify(e) = "ACCEPT_EQUIVALENT_REPLACEMENT"
               /\ CommonGates(e) /\ e.category \notin NeedsStrength
               /\ ShowsEquality(e.champion.interval)
<1>1. /\ CorrectnessGate(e) /\ e.permissions # {} /\ e.artifactBinding
      /\ \/ e.category \in Optimization /\ Classify(e) = OptimizationVerdict(e)
         \/ Classify(e) = StrengthVerdict(e)
  BY Zenon DEF Classify, Acceptance
<1>2. ASSUME e.category \in Optimization, Classify(e) = OptimizationVerdict(e)
      PROVE  /\ Classify(e) = "ACCEPT_PERFORMANCE_UPGRADE"
             /\ PerformanceGate(e) /\ AtLeast48(e)
  BY <1>2, Zenon DEF OptimizationVerdict, Acceptance
<1>3. ASSUME Classify(e) = StrengthVerdict(e)
      PROVE  \/ Classify(e) = "ACCEPT_STRENGTH_UPGRADE" /\ StrengthGate(e)
             \/ Classify(e) = "ACCEPT_EQUIVALENT_REPLACEMENT" /\ EquivalentGate(e)
  BY <1>3, Zenon DEF StrengthVerdict, Acceptance
<1>4. CASE e.category \in Optimization /\ Classify(e) = OptimizationVerdict(e)
  BY <1>1, <1>2, <1>4, Zenon DEF PerformanceGate, AtLeast48, CorrectnessGate
<1>5. CASE Classify(e) = StrengthVerdict(e)
  BY <1>1, <1>3, <1>5, Zenon DEF StrengthGate, EquivalentGate, CommonGates, CorrectnessGate
<1>6. QED
  BY <1>1, <1>4, <1>5, Zenon

LEMMA FixedEvidenceIs ==
  LET compared == Champion \in Range(Opponents) /\ Compared("fixed", Champion) IN
  /\ FixedEvidence.compared <=> compared
  /\ FixedEvidence.authoritative <=> compared /\ Authoritative
BY DEF FixedEvidence

LEMMA TimeEvidenceIs ==
  LET compared == Champion \in Range(Opponents) /\ Compared("time", Champion) IN
  /\ TimeEvidence.compared <=> compared
  /\ TimeEvidence.regressed <=>
        /\ compared /\ subject.id # Champion
        /\ \/ subject.nature.shallower /\ \A role \in {"candidate", "opponent"} :
                \A r \in Records("time", Champion, role) : r.pure
           \/ Cardinality(TimeOuts("candidate")) > Cardinality(TimeOuts("opponent"))
BY DEF TimeEvidence

(* A verdict of acceptance on all results, each measured on what the run   *)
(* pinned, is deserved.                                                    *)
LEMMA AcceptanceIsDeserved ==
  ASSUME Typed, PlacedInv, AllDone, AllPure, Classify(Evidence) \in Acceptance
  PROVE  Deserves(Classify(Evidence))
<1> DEFINE e == Evidence
           n == subject.nature
           class == Classify(Evidence)
<1>1. /\ e.category = subject.category /\ e.permissions = subject.permissions
      /\ e.artifactBinding = subject.artifactBinding
      /\ e.champion = Score(Champion) /\ e.anchor = Score(Anchor)
      /\ e.fixed = FixedEvidence /\ e.time = TimeEvidence
      /\ e.correct => FixedDepthPassed /\ ReferencePassed
  BY DEF Evidence
<1>2. /\ e.correct /\ e.artifactBinding /\ e.permissions # {}
      /\ SampleGate(e) /\ NonRegression(e) /\ MemoryGate(e)
      /\ e.champion.interval # NoInterval
      /\ \/ /\ class = "ACCEPT_PERFORMANCE_UPGRADE" /\ e.category \in Optimization
            /\ PerformanceGate(e) /\ e.champion.interval.lower >= 48
         \/ /\ class = "ACCEPT_STRENGTH_UPGRADE"
            /\ CommonGates(e) /\ e.champion.interval.lower > 50
         \/ /\ class = "ACCEPT_EQUIVALENT_REPLACEMENT"
            /\ CommonGates(e) /\ e.category \notin NeedsStrength
            /\ ShowsEquality(e.champion.interval)
  BY Gates
<1>3. /\ n \in Nature /\ subject.category \in Category /\ subject \in Subjects
  BY PipelineConstants DEF Typed
<1>4. /\ subject.id # Champion /\ Champion \in Range(Opponents)
      /\ e.champion.pairs \in DOMAIN ConfidenceInterval
      /\ e.champion.interval = ConfidenceInterval[e.champion.pairs][n.strength]
  BY <1>1, <1>2, ScoreShows, Zenon
<1>5. subject.id # Anchor
  <2>1. e.anchor.pairs >= MinimumAnchorPairs
    BY <1>2, Zenon DEF SampleGate
  <2>2. e.anchor.pairs # 0
    BY <2>1, VerdictConstants
  <2>3. QED
    BY <1>1, <2>2, ScoreShows, Zenon
<1>6. e.champion.pairs >= MinimumPairs
  BY <1>2, Zenon DEF SampleGate
<1>7. e.fixed.elapsed = n.elapsed /\ e.fixed.nodes = n.nodes /\ e.fixed.memory = n.memory
  BY <1>4, CostsAreOwn, Zenon
<1>8. e.fixed.compared /\ Compared("fixed", Champion)
  BY <1>1, <1>2, FixedEvidenceIs, Zenon DEF NonRegression
<1>9. PICK x \in Range(FixedJobs \o TimeJobs) : x.kind = "fixed" /\ x.opponent = Champion
  BY <1>8, Zenon DEF Compared, Valid, Records
<1>10. "fixed" \in Range(Kinds.fixed) /\ x.repetition \in 0 .. Repetitions["fixed"] - 1
  BY <1>9, FixedTwins, Zenon
<1>11. n.legal /\ (subject.category \in StrictScores => n.score = "same")
  BY <1>1, <1>2, <1>4, <1>10, ComparisonSees, Zenon
<1>12. e.fixed.authoritative <=> n.measurable
  <2>1. \A role \in Sided :
          Cardinality(Valid(Records("fixed", Champion, role))) >= MinimumRepetitions
    <3>1. SUFFICES ASSUME NEW role \in Sided
                   PROVE  Cardinality(Valid(Records("fixed", Champion, role))) >= MinimumRepetitions
      OBVIOUS
    <3> DEFINE card == Cardinality(Valid(Records("fixed", Champion, role)))
    <3>2. card \in Nat /\ card >= Repetitions["fixed"]
      BY <1>1, <1>2, <1>4, <1>10, RepetitionsCount, Zenon
    <3>3. Repetitions["fixed"] >= MinimumRepetitions
      BY <1>1, <1>2, <1>3, <1>10, ProfileConstants, Zenon
    <3>4. Repetitions["fixed"] \in Nat /\ MinimumRepetitions \in Nat
      BY <1>10, PipelineConstants
    <3> HIDE DEF card
    <3>5. QED
      BY <3>2, <3>3, <3>4 DEF card
  <2>2. \A role : \A r \in Records("fixed", Champion, role) : r.pure
    BY EvidenceIsPure, Zenon
  <2>3. Authoritative <=> n.measurable
    BY <2>1, <2>2, Zenon DEF Authoritative, Sided
  <2>4. QED
    BY <1>1, <1>4, <1>8, <2>3, FixedEvidenceIs, Zenon
<1>13. n.nodes <= 105 /\ n.memory <= 120 /\ (n.measurable => n.elapsed <= 105)
  BY <1>2, <1>7, <1>12, Zenon DEF NonRegression, MemoryGate
<1>14. subject.category \in NeedsReference => n.reference
  <2>1. SUFFICES ASSUME subject.category \in NeedsReference PROVE n.reference
    OBVIOUS
  <2>2. \A j \in Range(ReferenceJobs) : cache[TaskOf(j)].pure
    BY EvidenceIsPure
  <2>3. QED
    BY <1>1, <1>2, <2>1, <2>2, Zenon DEF ReferencePassed
<1>15. subject.category \in NeedsFixedTime => ~n.shallower
  <2>1. SUFFICES ASSUME subject.category \in NeedsFixedTime PROVE ~n.shallower
    OBVIOUS
  <2>2. e.category \notin Optimization
    BY <1>1, <2>1 DEF NeedsFixedTime, Optimization
  <2>3. FixedTimeGate(e)
    BY <1>2, <2>2, Zenon DEF CommonGates
  <2>4. e.time.compared /\ ~e.time.regressed
    BY <1>1, <2>1, <2>3, Zenon DEF FixedTimeGate
  <2>5. \A role : \A r \in Records("time", Champion, role) : r.pure
    BY EvidenceIsPure, Zenon
  <2>6. QED
    BY <1>1, <1>4, <2>4, <2>5, TimeEvidenceIs, Zenon
<1> DEFINE i == ConfidenceInterval[e.champion.pairs]
<1>16. /\ i["weaker"].lower \in 0 .. 100 /\ i["equal"].lower \in 0 .. 100
       /\ i["weaker"].lower < 48 /\ i["equal"].lower <= 50
       /\ ~ShowsEquality(i["weaker"]) /\ ~ShowsEquality(i["stronger"])
  <2>1. i \in [Strength -> Interval]
    BY <1>4, PipelineConstants
  <2>2. i["weaker"] \in Interval /\ i["equal"] \in Interval
    BY <2>1 DEF Strength
  <2>3. i["weaker"].lower \in 0 .. 100 /\ i["equal"].lower \in 0 .. 100
    BY <2>2 DEF Interval
  <2>4. QED
    BY <1>4, <1>6, <2>3, IntervalsTell, Zenon
<1>17. n.strength \in Strength /\ e.champion.interval = i[n.strength]
  BY <1>3, <1>4 DEF Nature
<1> HIDE DEF e, i
<1>18. CASE /\ class = "ACCEPT_PERFORMANCE_UPGRADE"
            /\ PerformanceGate(e) /\ e.champion.interval.lower >= 48
  <2>1. n.strength # "weaker"
    BY <1>16, <1>17, <1>18
  <2>2. n.nodes <= 90 \/ (n.measurable /\ n.elapsed <= 95)
    BY <1>7, <1>12, <1>18, Zenon DEF PerformanceGate
  <2>3. /\ class # "ACCEPT_STRENGTH_UPGRADE" /\ class # "ACCEPT_EQUIVALENT_REPLACEMENT"
    BY <1>18
  <2>4. QED
    BY <1>1, <1>2, <1>4, <1>5, <1>11, <1>13, <1>14, <1>15, <2>1, <2>2, <2>3 DEF Deserves
<1>19. CASE class = "ACCEPT_STRENGTH_UPGRADE" /\ CommonGates(e) /\ e.champion.interval.lower > 50
  <2>1. n.strength = "stronger"
    BY <1>16, <1>17, <1>19 DEF Strength
  <2>2. n.measurable
    BY <1>12, <1>19, Zenon DEF CommonGates, TimingEvidence
  <2>3. QED
    BY <1>1, <1>2, <1>4, <1>5, <1>11, <1>13, <1>14, <1>15, <1>19, <2>1, <2>2 DEF Deserves
<1>20. CASE /\ class = "ACCEPT_EQUIVALENT_REPLACEMENT"
            /\ CommonGates(e) /\ e.category \notin NeedsStrength
            /\ ShowsEquality(e.champion.interval)
  <2>1. n.strength = "equal"
    BY <1>16, <1>17, <1>20, Zenon DEF Strength
  <2>2. n.measurable
    BY <1>12, <1>20, Zenon DEF CommonGates, TimingEvidence
  <2>3. QED
    BY <1>1, <1>2, <1>4, <1>5, <1>11, <1>13, <1>14, <1>15, <1>20, <2>1, <2>2 DEF Deserves
<1>21. QED
  BY <1>2, <1>18, <1>19, <1>20

(* While no altered file was put back, every acceptance is deserved.       *)
Deserved(verdict) ==
  verdict # NoVerdict /\ verdict.classification \in Acceptance =>
    Deserves(verdict.classification)

DeservedInv == ~putBack => Deserved(report) /\ Deserved(manifest)

LEMMA DeservedStep ==
  ASSUME PipelineInv, PureInv, DeservedInv, [PipelineNext]_pipelineVars
  PROVE  DeservedInv'
<1>1. SUFFICES ASSUME ~putBack' PROVE Deserved(report)' /\ Deserved(manifest)'
  BY DEF DeservedInv
<1>2. \A c : Deserves(c)' <=> Deserves(c)
  BY SubjectStays DEF Deserves
<1>3. CASE Start
  BY <1>3 DEF Start, PipelineInv, ProcessInv, Deserved
<1>4. ASSUME ~Start PROVE ~putBack
  BY <1>1, <1>4
  DEF PipelineNext, pipelineVars, Resume, Step, Kill, Alter, PutBack, Copy, WriteConfig,
      Check, Verify, Raise, Execute, Reuse, EndStage, WriteReport, WriteManifest
<1>5. CASE ~Start /\ WriteReport
  <2>1. report'.classification = Classify(Evidence) /\ UNCHANGED manifest
    BY <1>5 DEF WriteReport
  <2>2. AllDone
    BY <1>5, JudgedIsDone DEF PipelineInv, WriteReport, ProcessInv
  <2>3. AllPure
    BY <1>4, <1>5 DEF PureInv, WriteReport
  <2>4. Classify(Evidence) \in Acceptance => Deserves(Classify(Evidence))
    BY <2>2, <2>3, AcceptanceIsDeserved DEF PipelineInv
  <2>5. QED
    BY <1>2, <1>4, <1>5, <2>1, <2>4 DEF DeservedInv, Deserved
<1>6. CASE ~Start /\ WriteManifest
  <2>1. report' = report /\ manifest' = report
    BY <1>6 DEF WriteManifest
  <2>2. QED
    BY <1>2, <1>4, <1>6, <2>1 DEF DeservedInv, Deserved
<1>7. CASE ~Start /\ ~WriteReport /\ ~WriteManifest
  <2>1. report' = report /\ manifest' = manifest
    BY <1>7
    DEF PipelineNext, pipelineVars, Resume, Step, Kill, Alter, PutBack, Copy, WriteConfig,
        Check, Verify, Raise, Execute, Reuse, EndStage
  <2>2. QED
    BY <1>2, <1>4, <1>7, <2>1 DEF DeservedInv, Deserved
<1>8. QED
  BY <1>3, <1>5, <1>6, <1>7

(* A candidate is accepted for what it was when the run was created, in    *)
(* whatever way the run was interrupted and its files were altered, unless *)
(* an altered file was put back between two looks.                         *)
THEOREM AcceptancesAreDeserved == PipelineSpec => []VerdictIsDeserved
<1>1. PipelineInit => PipelineInv /\ PureInv /\ DeservedInv
  <2>1. PipelineInit => DeservedInv
    BY DEF PipelineInit, DeservedInv, Deserved
  <2>2. QED
    BY <2>1, InitInv
<1>2. PipelineInv /\ PureInv /\ DeservedInv /\ [PipelineNext]_pipelineVars =>
        (PipelineInv /\ PureInv /\ DeservedInv)'
  BY PipelineInvStep, PureStep, DeservedStep DEF PipelineInv
<1>3. DeservedInv => VerdictIsDeserved
  BY DEF DeservedInv, Deserved, VerdictIsDeserved
<1>4. QED
  BY <1>1, <1>2, <1>3, PTL DEF PipelineSpec
=============================================================================
