---------------------------- MODULE WindowProofs ----------------------------
(***************************************************************************)
(* The conversation window of the browser (ChatWindow), for any journal and*)
(* any bounds on pages and windows.                                        *)
(*                                                                         *)
(* The argument: a page is the newest of the entries before its cursor that*)
(* fit, whatever is published later, so the invariant says of each page on *)
(* its way which entries it has (Polled, Passed) and, of the window, that  *)
(* it has no hole and reaches down to the newest page (Held).  Bytes are   *)
(* added up by a recursive function; what it computes follows from its     *)
(* least position that would refute it.                                    *)
(***************************************************************************)
EXTENDS ChatWindow, NaturalsInduction, FiniteSetTheorems, TLAPS

\* A set of numbers has a least one.
LEMMA Least ==
    ASSUME NEW T \in SUBSET Nat, T # {}
    PROVE  \E x \in T : \A y \in T : x <= y
  <1> DEFINE R == OpToRel(<, Nat)
  <1>1. IsWellFoundedOn(R, Nat)
    BY Zenon, NatLessThanWellFounded
  <1> HIDE DEF R
  <1>2. PICK x \in T : \A y \in T : <<y, x>> \notin R
    BY Zenon, <1>1, WFMin
  <1>3. \A y \in T : y < x => <<y, x>> \in R
    BY SMT DEF R, OpToRel
  <1>4. \A y \in T : ~(y < x)
    BY Zenon, <1>2, <1>3
  <1>5. \A y \in T : x <= y
    BY SMT, <1>4
  <1> QED BY Zenon, <1>5

\* A bounded one also has a greatest, which is its Highest.
LEMMA MaxIs ==
    ASSUME NEW T \in SUBSET Nat, T # {}, NEW b \in Nat, \A y \in T : y <= b
    PROVE  Highest(T) \in T /\ \A y \in T : y <= Highest(T)
  <1> DEFINE U == {m \in Nat : \A y \in T : y <= m}
  <1>1. U \in SUBSET Nat /\ b \in U
    BY Zenon
  <1>2. PICK m \in U : \A u \in U : m <= u
    BY Zenon, <1>1, Least
  <1>3. m \in Nat /\ \A y \in T : y <= m
    BY Zenon
  <1>4. ASSUME m \notin T PROVE FALSE
    <2>1. \A y \in T : y <= m - 1
      BY <1>3, <1>4
    <2>2. m - 1 \in Nat
      <3>1. PICK y \in T : y \in Nat /\ y <= m - 1
        BY Zenon, <2>1
      <3> QED BY SMT, <1>3, <3>1
    <2>3. m - 1 \in U
      BY Zenon, <2>1, <2>2
    <2>4. m <= m - 1
      BY Zenon, <1>2, <2>3
    <2> QED BY <1>3, <2>4
  <1>5. m \in T /\ \A y \in T : m >= y
    <2>1. m \in T
      BY Zenon, <1>4
    <2> QED BY SMT, <1>3, <2>1
  <1>6. Highest(T) \in T /\ \A y \in T : Highest(T) >= y
    BY Zenon, <1>5 DEF Highest
  <1> QED BY SMT, <1>6

LEMMA MinIs ==
    ASSUME NEW T \in SUBSET Nat, T # {}
    PROVE  Lowest(T) \in T /\ \A y \in T : Lowest(T) <= y
  <1>1. \E x \in T : \A y \in T : x <= y
    BY Zenon, Least
  <1> QED BY Zenon, <1>1 DEF Lowest

LEMMA NotAtLeast ==
    ASSUME NEW x \in Nat, NEW y \in Nat, ~(x >= y)
    PROVE  x < y
  BY SMT

-----------------------------------------------------------------------------
(* The bytes of entries.                                                   *)

JournalEvents == [ours : BOOLEAN, weight : [1..3 -> 0..PageBytes]]

LEMMA JournalIs ==
    ASSUME NEW journal \in Journals
    PROVE  /\ journal \in Seq(JournalEvents) /\ Len(journal) \in Nat
           /\ \A n \in 1..Len(journal) : \A stage \in 1..3 : journal[n].weight[stage] \in 0..PageBytes
  <1>1. journal \in Seq(JournalEvents)
    BY Zenon, WindowAssumption DEF JournalEvents
  <1>2. Len(journal) \in Nat /\ \A n \in 1..Len(journal) : journal[n] \in JournalEvents
    BY SMT, <1>1
  <1>3. \A x \in JournalEvents : \A stage \in 1..3 : x.weight[stage] \in 0..PageBytes
    BY SMT DEF JournalEvents
  <1> QED BY Zenon, <1>1, <1>2, <1>3

\* What the entries up to n of a set weigh.
Adds(journal, S, stage, n) == IF n \in S THEN journal[n].weight[stage] ELSE 0
SumsUp(journal, S, stage, T, k) ==
  /\ T \in [0..k -> Nat] /\ T[0] = 0
  /\ \A n \in 1..k : T[n] = T[n - 1] + Adds(journal, S, stage, n)

LEMMA AddsIs ==
    ASSUME NEW journal \in Journals, NEW S, NEW stage \in 1..3, NEW n \in 1..Len(journal)
    PROVE  Adds(journal, S, stage, n) \in 0..PageBytes /\ Adds(journal, S, stage, n) \in Nat
  <1>1. journal[n].weight[stage] \in 0..PageBytes /\ PageBytes \in Nat
    BY Zenon, JournalIs, WindowAssumption
  <1> QED BY SMT, <1>1 DEF Adds

LEMMA SumsExist ==
    ASSUME NEW journal \in Journals, NEW S, NEW stage \in 1..3
    PROVE  \E T : SumsUp(journal, S, stage, T, Len(journal))
  <1> DEFINE Bad == {k \in 0..Len(journal) : ~ \E T : SumsUp(journal, S, stage, T, k)}
  <1>1. Len(journal) \in Nat /\ Len(journal) \in 0..Len(journal)
    BY SMT, JournalIs
  <1> SUFFICES ASSUME Bad # {} PROVE FALSE
    BY Zenon, <1>1
  <1>2. Bad \in SUBSET Nat
    BY SMT, <1>1
  <1>3. PICK k \in Bad : \A j \in Bad : k <= j
    BY Zenon, <1>2, Least
  <1>4. k \in 0..Len(journal) /\ ~ \E T : SumsUp(journal, S, stage, T, k)
    BY Zenon
  <1> HIDE DEF Bad
  <1>5. k # 0
    <2>1. SumsUp(journal, S, stage, [n \in 0..0 |-> 0], 0)
      BY SMT DEF SumsUp
    <2> QED BY Zenon, <1>4, <2>1
  <1>6. k \in Nat /\ k - 1 \in 0..Len(journal) /\ k \in 1..Len(journal) /\ ~(k <= k - 1)
    BY SMT, <1>1, <1>4, <1>5
  <1>7. PICK T : SumsUp(journal, S, stage, T, k - 1)
    BY Zenon, <1>3, <1>6 DEF Bad
  <1> DEFINE w == Adds(journal, S, stage, k)
             U == [n \in 0..k |-> IF n = k THEN T[k - 1] + w ELSE T[n]]
  <1>8. w \in Nat
    BY Zenon, <1>6, AddsIs
  <1>9. T \in [0..(k - 1) -> Nat] /\ T[0] = 0
        /\ \A n \in 1..(k - 1) : T[n] = T[n - 1] + Adds(journal, S, stage, n)
    BY Zenon, <1>7 DEF SumsUp
  <1> HIDE DEF w
  <1>10. U \in [0..k -> Nat] /\ U[0] = 0
    BY SMT, <1>6, <1>8, <1>9
  <1>11. ASSUME NEW n \in 1..k PROVE U[n] = U[n - 1] + Adds(journal, S, stage, n)
    <2>1. CASE n = k
      BY SMT, <1>6, <2>1 DEF w
    <2>2. CASE n # k
      <3>1. n \in 1..(k - 1) /\ U[n] = T[n] /\ U[n - 1] = T[n - 1]
        BY SMT, <1>6, <2>2
      <3> QED BY Zenon, <1>9, <3>1
    <2> QED BY Zenon, <2>1, <2>2
  <1>12. SumsUp(journal, S, stage, U, k)
    BY Zenon, <1>10, <1>11 DEF SumsUp
  <1> QED BY Zenon, <1>4, <1>12

LEMMA BytesIs ==
    ASSUME NEW journal \in Journals, NEW S, NEW stage \in 1..3
    PROVE  \E T : /\ SumsUp(journal, S, stage, T, Len(journal))
                  /\ Bytes(journal, S, stage) = T[Len(journal)]
  <1> DEFINE N == Len(journal)
             Step(f) == [n \in 0..N |->
                IF n = 0 THEN 0 ELSE f[n - 1] + IF n \in S THEN journal[n].weight[stage] ELSE 0]
             total == CHOOSE f : f = Step(f)
  <1>1. N \in Nat
    BY Zenon, JournalIs
  <1>2. PICK T : SumsUp(journal, S, stage, T, N)
    BY Zenon, SumsExist
  <1>3. Bytes(journal, S, stage) = total[N]
    BY Zenon DEF Bytes
  <1> HIDE DEF N
  <1>4. T = Step(T)
    <2>1. T \in [0..N -> Nat] /\ T[0] = 0
          /\ \A n \in 1..N : T[n] = T[n - 1] + IF n \in S THEN journal[n].weight[stage] ELSE 0
      BY Zenon, <1>2 DEF SumsUp, Adds
    <2>2. \A n \in 0..N : T[n] = Step(T)[n]
      BY SMT, <1>1, <2>1
    <2> QED BY SMT, <2>1, <2>2
  <1>5. total = Step(total)
    BY Zenon, <1>4
  <1>6. DOMAIN total = 0..N /\ total[0] = 0
        /\ \A n \in 1..N : total[n] = total[n - 1] + Adds(journal, S, stage, n)
    <2> HIDE DEF total
    <2>1. DOMAIN total = 0..N
      BY Zenon, <1>5
    <2>2. total[0] = 0
      BY SMT, <1>1, <1>5
    <2>3. ASSUME NEW n \in 1..N PROVE total[n] = total[n - 1] + Adds(journal, S, stage, n)
      <3>1. n \in 0..N /\ n # 0
        BY SMT, <1>1
      <3>2. Step(total)[n] = total[n - 1] + Adds(journal, S, stage, n)
        BY Zenon, <3>1 DEF Adds
      <3> QED BY Zenon, <1>5, <3>2
    <2> QED BY Zenon, <2>1, <2>2, <2>3
  <1>7. \A n \in 0..N : total[n] = T[n]
    <2> DEFINE Bad == {n \in 0..N : total[n] # T[n]}
    <2> SUFFICES ASSUME Bad # {} PROVE FALSE
      BY Zenon
    <2>1. Bad \in SUBSET Nat
      BY SMT, <1>1
    <2>2. PICK k \in Bad : \A j \in Bad : k <= j
      BY Zenon, <2>1, Least
    <2>3. k \in 0..N /\ total[k] # T[k]
      BY Zenon
    <2> HIDE DEF total
    <2>4. k # 0
      BY Zenon, <1>2, <1>6, <2>3 DEF SumsUp
    <2>5. k \in 1..N /\ k - 1 \in 0..N /\ ~(k <= k - 1)
      BY SMT, <1>1, <2>3, <2>4
    <2>6. total[k - 1] = T[k - 1]
      BY Zenon, <2>2, <2>5
    <2> QED BY Zenon, <1>2, <1>6, <2>3, <2>5, <2>6 DEF SumsUp
  <1>8. N \in 0..N
    BY SMT, <1>1
  <1> QED BY Zenon, <1>2, <1>3, <1>7, <1>8 DEF N

LEMMA BytesMono ==
    ASSUME NEW journal \in Journals, NEW R, NEW S \in SUBSET R, NEW stage \in 1..3
    PROVE  /\ Bytes(journal, S, stage) <= Bytes(journal, R, stage)
           /\ Bytes(journal, S, stage) \in Nat /\ Bytes(journal, R, stage) \in Nat
  <1> DEFINE N == Len(journal)
  <1>1. N \in Nat
    BY Zenon, JournalIs
  <1>2. PICK T : SumsUp(journal, S, stage, T, N) /\ Bytes(journal, S, stage) = T[N]
    BY Zenon, BytesIs
  <1>3. PICK U : SumsUp(journal, R, stage, U, N) /\ Bytes(journal, R, stage) = U[N]
    BY Zenon, BytesIs
  <1> DEFINE Bad == {n \in 0..N : ~(T[n] <= U[n])}
  <1>4. Bad = {}
    <2> SUFFICES ASSUME Bad # {} PROVE FALSE
      BY Zenon
    <2>1. Bad \in SUBSET Nat
      BY SMT, <1>1
    <2>2. PICK k \in Bad : \A j \in Bad : k <= j
      BY Zenon, <2>1, Least
    <2>3. k \in 0..N /\ ~(T[k] <= U[k])
      BY Zenon
    <2>4. k # 0
      <3>1. T[0] = 0 /\ U[0] = 0
        BY Zenon, <1>2, <1>3 DEF SumsUp
      <3> QED BY SMT, <2>3, <3>1
    <2>5. k \in 1..N /\ k - 1 \in 0..N /\ ~(k <= k - 1)
      BY SMT, <1>1, <2>3, <2>4
    <2>6. T[k - 1] <= U[k - 1]
      BY Zenon, <2>2, <2>5
    <2>7. /\ T[k] = T[k - 1] + Adds(journal, S, stage, k) /\ U[k] = U[k - 1] + Adds(journal, R, stage, k)
          /\ T[k - 1] \in Nat /\ U[k - 1] \in Nat
      BY Zenon, <1>2, <1>3, <2>5 DEF SumsUp
    <2>8. Adds(journal, S, stage, k) <= Adds(journal, R, stage, k)
          /\ Adds(journal, S, stage, k) \in Nat /\ Adds(journal, R, stage, k) \in Nat
      <3>1. Adds(journal, S, stage, k) \in Nat /\ Adds(journal, R, stage, k) \in Nat
        BY Zenon, <2>5, AddsIs
      <3>2. k \in S => k \in R
        BY Zenon
      <3> QED BY SMT, <3>1, <3>2 DEF Adds
    <2> QED BY SMT, <2>3, <2>6, <2>7, <2>8
  <1>5. N \in 0..N
    BY SMT, <1>1
  <1>6. T[N] \in Nat /\ U[N] \in Nat
    BY Zenon, <1>2, <1>3, <1>5 DEF SumsUp
  <1> QED BY Zenon, <1>2, <1>3, <1>4, <1>5, <1>6

LEMMA BytesOne ==
    ASSUME NEW journal \in Journals, NEW S, NEW one \in Nat, S \subseteq {one}, NEW stage \in 1..3
    PROVE  Bytes(journal, S, stage) <= PageBytes
  <1> DEFINE N == Len(journal)
  <1>1. N \in Nat /\ PageBytes \in Nat
    BY Zenon, JournalIs, WindowAssumption
  <1>2. PICK T : SumsUp(journal, S, stage, T, N) /\ Bytes(journal, S, stage) = T[N]
    BY Zenon, BytesIs
  <1> DEFINE Bad == {n \in 0..N : ~(T[n] <= IF one <= n THEN PageBytes ELSE 0)}
  <1>3. Bad = {}
    <2> SUFFICES ASSUME Bad # {} PROVE FALSE
      BY Zenon
    <2>1. Bad \in SUBSET Nat
      BY SMT, <1>1
    <2>2. PICK k \in Bad : \A j \in Bad : k <= j
      BY Zenon, <2>1, Least
    <2>3. k \in 0..N /\ ~(T[k] <= IF one <= k THEN PageBytes ELSE 0)
      BY Zenon
    <2>4. k # 0
      <3>1. T[0] = 0
        BY Zenon, <1>2 DEF SumsUp
      <3> QED BY SMT, <1>1, <2>3, <3>1
    <2>5. k \in 1..N /\ k - 1 \in 0..N /\ ~(k <= k - 1)
      BY SMT, <1>1, <2>3, <2>4
    <2>6. T[k - 1] <= IF one <= k - 1 THEN PageBytes ELSE 0
      BY Zenon, <2>2, <2>5
    <2>7. T[k] = T[k - 1] + Adds(journal, S, stage, k) /\ T[k - 1] \in Nat
      BY Zenon, <1>2, <2>5 DEF SumsUp
    <2>8. Adds(journal, S, stage, k) \in 0..PageBytes /\ (k # one => Adds(journal, S, stage, k) = 0)
      <3>1. Adds(journal, S, stage, k) \in 0..PageBytes
        BY Zenon, <2>5, AddsIs
      <3>2. k # one => Adds(journal, S, stage, k) = 0
        BY Zenon DEF Adds
      <3> QED BY Zenon, <3>1, <3>2
    <2> QED BY SMT, <1>1, <2>3, <2>5, <2>6, <2>7, <2>8
  <1>4. N \in 0..N
    BY SMT, <1>1
  <1>5. T[N] <= IF one <= N THEN PageBytes ELSE 0
    BY Zenon, <1>3, <1>4
  <1>6. T[N] \in Nat
    BY Zenon, <1>2, <1>4 DEF SumsUp
  <1> QED BY SMT, <1>1, <1>2, <1>5, <1>6

-----------------------------------------------------------------------------
(* Pages and windows, for a journal and sets of its positions.             *)

OwnUpTo(journal, p) == {n \in 1..p : journal[n].ours}
FitsIn(journal, S, count, stage, bytes) == Cardinality(S) <= count /\ Bytes(journal, S, stage) <= bytes
From(S, n) == {m \in S : m >= n}

LEMMA OwnIs ==
    ASSUME NEW journal \in Journals, NEW p \in 0..Len(journal), NEW S \in SUBSET OwnUpTo(journal, p)
    PROVE  S \subseteq 1..p /\ S \subseteq 1..Len(journal) /\ S \in SUBSET Nat /\ IsFiniteSet(S) /\ p \in Nat
  <1>1. Len(journal) \in Nat
    BY Zenon, JournalIs
  <1>2. p \in Nat /\ 1..p \subseteq 1..Len(journal) /\ 1..p \subseteq Nat
    BY SMT, <1>1
  <1>3. S \subseteq 1..p
    BY Zenon DEF OwnUpTo
  <1>4. IsFiniteSet(1..p)
    BY SMT, <1>2, FS_Interval
  <1>5. IsFiniteSet(S)
    BY Zenon, <1>3, <1>4, FS_Subset
  <1> QED BY Zenon, <1>2, <1>3, <1>5

LEMMA OwnNat ==
    ASSUME NEW journal \in Journals, NEW p \in 0..Len(journal)
    PROVE  OwnUpTo(journal, p) \in SUBSET Nat
  <1>1. Len(journal) \in Nat
    BY Zenon, JournalIs
  <1>2. 1..p \subseteq Nat
    BY SMT, <1>1
  <1> QED BY Zenon, <1>2 DEF OwnUpTo

LEMMA FitsPart ==
    ASSUME NEW journal \in Journals, NEW R, IsFiniteSet(R), NEW S \in SUBSET R, NEW stage \in 1..3,
           NEW count \in Nat, NEW bytes \in Nat, FitsIn(journal, R, count, stage, bytes)
    PROVE  FitsIn(journal, S, count, stage, bytes)
  <1>1. Cardinality(S) <= Cardinality(R) /\ IsFiniteSet(S)
    BY Zenon, FS_Subset
  <1>2. Cardinality(S) \in Nat /\ Cardinality(R) \in Nat
    BY Zenon, <1>1, FS_CardinalityType
  <1>3. /\ Bytes(journal, S, stage) <= Bytes(journal, R, stage)
        /\ Bytes(journal, S, stage) \in Nat /\ Bytes(journal, R, stage) \in Nat
    BY Zenon, BytesMono
  <1> QED BY SMT, <1>1, <1>2, <1>3 DEF FitsIn

\* One entry fits a page, and what fits a page fits the window.
LEMMA FitsOne ==
    ASSUME NEW journal \in Journals, NEW S, NEW one \in Nat, S \subseteq {one}, NEW stage \in 1..3
    PROVE  FitsIn(journal, S, PageEntries, stage, PageBytes)
  <1>1. Bytes(journal, S, stage) <= PageBytes
    BY Zenon, BytesOne
  <1>2. IsFiniteSet({one}) /\ Cardinality({one}) = 1
    BY Zenon, FS_Singleton
  <1>3. Cardinality(S) <= 1 /\ IsFiniteSet(S)
    BY Zenon, <1>2, FS_Subset
  <1>4. Cardinality(S) \in Nat /\ PageEntries \in Nat \ {0}
    BY Zenon, <1>3, FS_CardinalityType, WindowAssumption
  <1>5. Cardinality(S) <= PageEntries
    BY SMT, <1>3, <1>4
  <1> QED BY Zenon, <1>1, <1>5 DEF FitsIn

LEMMA FitsWindow ==
    ASSUME NEW journal \in Journals, NEW S, IsFiniteSet(S), FitsIn(journal, S, PageEntries, 3, PageBytes)
    PROVE  FitsIn(journal, S, Keep, 3, KeepBytes)
  <1>1. Cardinality(S) \in Nat
    BY Zenon, FS_CardinalityType
  <1>2. 3 \in 1..3 /\ S \in SUBSET S
    BY SMT
  <1>3. Bytes(journal, S, 3) \in Nat
    BY Zenon, <1>2, BytesMono
  <1>4. /\ PageEntries \in Nat /\ Keep \in Nat /\ Keep >= PageEntries
        /\ PageBytes \in Nat /\ KeepBytes \in Nat /\ KeepBytes >= PageBytes
    BY Zenon, WindowAssumption
  <1> QED BY SMT, <1>1, <1>3, <1>4 DEF FitsIn

LEMMA LimitsAre ==
    /\ PageEntries \in Nat /\ PageBytes \in Nat /\ Keep \in Nat /\ KeepBytes \in Nat
    /\ 1 \in 1..3 /\ 2 \in 1..3 /\ 3 \in 1..3
  BY SMT, WindowAssumption

\* The newest entries of a set that fit: everything from one of them on.
Latest(journal, S, count, stage, bytes) == {n \in S : FitsIn(journal, From(S, n), count, stage, bytes)}

LEMMA LatestIs ==
    ASSUME NEW journal \in Journals, NEW S \in SUBSET Nat, IsFiniteSet(S), NEW stage \in 1..3,
           NEW count \in Nat, NEW bytes \in Nat
    PROVE  /\ \A n \in Latest(journal, S, count, stage, bytes) : \A m \in S :
                m >= n => m \in Latest(journal, S, count, stage, bytes)
           /\ \A n \in Latest(journal, S, count, stage, bytes) :
                From(Latest(journal, S, count, stage, bytes), n) = From(S, n)
           /\ Latest(journal, S, count, stage, bytes) # {} =>
                FitsIn(journal, Latest(journal, S, count, stage, bytes), count, stage, bytes)
  <1> DEFINE F == Latest(journal, S, count, stage, bytes)
  <1>1. F \subseteq S /\ F \in SUBSET Nat
    BY Zenon DEF Latest
  <1>2. ASSUME NEW n \in F, NEW m \in S, m >= n PROVE m \in F
    <2>1. n \in S /\ FitsIn(journal, From(S, n), count, stage, bytes)
      BY Zenon DEF Latest
    <2>2. \A x \in Nat : x >= m => x >= n
      BY SMT, <1>1, <1>2
    <2>3. From(S, m) \in SUBSET From(S, n) /\ From(S, n) \subseteq S
      BY Zenon, <2>2 DEF From
    <2>4. IsFiniteSet(From(S, n))
      BY Zenon, <2>3, FS_Subset
    <2>5. FitsIn(journal, From(S, m), count, stage, bytes)
      BY Zenon, <2>1, <2>3, <2>4, FitsPart
    <2> QED BY Zenon, <2>5 DEF Latest
  <1>3. \A n \in F : From(F, n) = From(S, n)
    <2> HIDE DEF F
    <2> QED BY Zenon, <1>1, <1>2 DEF From
  <1>4. ASSUME F # {} PROVE FitsIn(journal, F, count, stage, bytes)
    <2>1. PICK n \in F : \A m \in F : n <= m
      BY Zenon, <1>1, <1>4, Least
    <2>2. \A m \in F : m >= n
      BY SMT, <1>1, <2>1
    <2>3. From(F, n) = F
      <3> HIDE DEF F
      <3> QED BY Zenon, <2>2 DEF From
    <2>4. FitsIn(journal, From(S, n), count, stage, bytes)
      BY Zenon DEF Latest
    <2>5. From(S, n) = F
      BY Zenon, <1>3, <2>3
    <2> QED BY Zenon, <2>4, <2>5
  <1> QED BY Zenon, <1>2, <1>3, <1>4

LEMMA LatestFits ==
    ASSUME NEW journal \in Journals, NEW S \in SUBSET Nat, IsFiniteSet(S), NEW stage \in 1..3,
           Latest(journal, S, PageEntries, stage, PageBytes) # {}
    PROVE  FitsIn(journal, Latest(journal, S, PageEntries, stage, PageBytes), PageEntries, stage, PageBytes)
  BY Zenon, LatestIs, LimitsAre

LEMMA LatestFrom ==
    ASSUME NEW journal \in Journals, NEW S \in SUBSET Nat, IsFiniteSet(S), NEW stage \in 1..3,
           NEW n \in Latest(journal, S, PageEntries, stage, PageBytes)
    PROVE  From(Latest(journal, S, PageEntries, stage, PageBytes), n) = From(S, n)
  <1>1. PageEntries \in Nat /\ PageBytes \in Nat
    BY Zenon, LimitsAre
  <1>2. \A m \in Latest(journal, S, PageEntries, stage, PageBytes) :
          From(Latest(journal, S, PageEntries, stage, PageBytes), m) = From(S, m)
    BY Zenon, <1>1, LatestIs
  <1> QED BY Zenon, <1>2

LEMMA LatestSome ==
    ASSUME NEW journal \in Journals, NEW S \in SUBSET Nat, NEW top \in S, \A m \in S : m <= top,
           NEW stage \in 1..3
    PROVE  top \in Latest(journal, S, PageEntries, stage, PageBytes)
  <1>1. top \in Nat /\ \A m \in S : m >= top => m = top
    BY SMT
  <1>2. From(S, top) \subseteq {top}
    BY Zenon, <1>1 DEF From
  <1>3. FitsIn(journal, From(S, top), PageEntries, stage, PageBytes)
    BY Zenon, <1>1, <1>2, FitsOne
  <1> QED BY Zenon, <1>3 DEF Latest

LEMMA LatestAll ==
    ASSUME NEW journal \in Journals, NEW S, IsFiniteSet(S), NEW stage \in 1..3,
           NEW count \in Nat, NEW bytes \in Nat, FitsIn(journal, S, count, stage, bytes)
    PROVE  Latest(journal, S, count, stage, bytes) = S
  <1>1. ASSUME NEW n \in S PROVE FitsIn(journal, From(S, n), count, stage, bytes)
    <2>1. From(S, n) \in SUBSET S
      BY Zenon DEF From
    <2> QED BY Zenon, <2>1, FitsPart
  <1> QED BY Zenon, <1>1 DEF Latest

\* The oldest entries of a set that fit, up to one of them.
UpToOf(S, n) == {m \in S : m <= n}
Earliest(journal, S) == {n \in S : FitsIn(journal, UpToOf(S, n), Keep, 3, KeepBytes)}

LEMMA EarliestIs ==
    ASSUME NEW journal \in Journals, NEW S \in SUBSET Nat, IsFiniteSet(S), NEW bound \in Nat,
           \A n \in S : n <= bound
    PROVE  /\ \A n \in Earliest(journal, S) : \A m \in S : m <= n => m \in Earliest(journal, S)
           /\ Earliest(journal, S) # {} => FitsIn(journal, Earliest(journal, S), Keep, 3, KeepBytes)
           /\ \A low \in S : (\A m \in S : low <= m) => low \in Earliest(journal, S)
  <1> DEFINE F == Earliest(journal, S)
  <1>1. F \subseteq S /\ F \in SUBSET Nat
    BY Zenon DEF Earliest
  <1>2. ASSUME NEW n \in F, NEW m \in S, m <= n PROVE m \in F
    <2>1. n \in S /\ FitsIn(journal, UpToOf(S, n), Keep, 3, KeepBytes)
      BY Zenon DEF Earliest
    <2>2. \A x \in Nat : x <= m => x <= n
      BY SMT, <1>1, <1>2
    <2>3. UpToOf(S, m) \in SUBSET UpToOf(S, n) /\ UpToOf(S, n) \subseteq S
      BY Zenon, <2>2 DEF UpToOf
    <2>4. IsFiniteSet(UpToOf(S, n))
      BY Zenon, <2>3, FS_Subset
    <2>5. FitsIn(journal, UpToOf(S, m), Keep, 3, KeepBytes)
      BY Zenon, <2>1, <2>3, <2>4, FitsPart, LimitsAre
    <2> QED BY Zenon, <2>5 DEF Earliest
  <1>3. ASSUME F # {} PROVE FitsIn(journal, F, Keep, 3, KeepBytes)
    <2>1. Highest(F) \in F /\ \A m \in F : m <= Highest(F)
      BY Zenon, <1>1, <1>3, MaxIs
    <2>2. PICK n \in F : \A m \in F : m <= n
      BY Zenon, <2>1
    <2>3. UpToOf(S, n) = F
      <3> HIDE DEF F
      <3> QED BY Zenon, <1>1, <1>2, <2>2 DEF UpToOf
    <2>4. FitsIn(journal, UpToOf(S, n), Keep, 3, KeepBytes)
      BY Zenon DEF Earliest
    <2> QED BY Zenon, <2>3, <2>4
  <1>4. ASSUME NEW low \in S, \A m \in S : low <= m PROVE low \in F
    <2>1. low \in Nat /\ \A m \in S : m <= low => m = low
      BY SMT, <1>4
    <2>2. UpToOf(S, low) \subseteq {low}
      BY Zenon, <2>1 DEF UpToOf
    <2>3. FitsIn(journal, UpToOf(S, low), PageEntries, 3, PageBytes)
      BY Zenon, <2>1, <2>2, FitsOne, LimitsAre
    <2>4. IsFiniteSet(UpToOf(S, low))
      <3>1. UpToOf(S, low) \subseteq S
        BY Zenon DEF UpToOf
      <3> QED BY Zenon, <3>1, FS_Subset
    <2>5. FitsIn(journal, UpToOf(S, low), Keep, 3, KeepBytes)
      BY Zenon, <2>3, <2>4, FitsWindow
    <2> QED BY Zenon, <2>5 DEF Earliest
  <1> QED BY Zenon, <1>2, <1>3, <1>4

\* What a page takes of B: the newest entries that fit at every stage.
PageOf(journal, B) ==
  {n \in B : \A stage \in 1..3 : FitsIn(journal, From(B, n), PageEntries, stage, PageBytes)}

\* A page is the newest part of what it was taken from, and fits the window.
LEMMA PageIs ==
    ASSUME NEW journal \in Journals, NEW p \in 0..Len(journal), NEW B \in SUBSET OwnUpTo(journal, p)
    PROVE  /\ PageOf(journal, B) \subseteq B
           /\ \A n \in PageOf(journal, B) : \A m \in B : m >= n => m \in PageOf(journal, B)
           /\ B # {} => PageOf(journal, B) # {}
           /\ FitsIn(journal, PageOf(journal, B), Keep, 3, KeepBytes)
  <1> DEFINE P == PageOf(journal, B)
  <1>1. B \in SUBSET Nat /\ IsFiniteSet(B) /\ p \in Nat /\ B \subseteq 1..p
    BY Zenon, OwnIs
  <1>2. P \subseteq B
    BY Zenon DEF PageOf
  <1>3. \A stage \in 1..3 : \A n \in P : n \in Latest(journal, B, PageEntries, stage, PageBytes)
    BY Zenon DEF PageOf, Latest
  <1>4. ASSUME NEW n \in P, NEW m \in B, m >= n PROVE m \in P
    <2>1. ASSUME NEW stage \in 1..3 PROVE FitsIn(journal, From(B, m), PageEntries, stage, PageBytes)
      <3>1. m \in Latest(journal, B, PageEntries, stage, PageBytes)
        BY Zenon, <1>1, <1>3, <1>4, LatestIs, LimitsAre
      <3> QED BY Zenon, <3>1 DEF Latest
    <2> QED BY Zenon, <2>1 DEF PageOf
  <1>5. ASSUME B # {} PROVE P # {}
    <2>1. \A m \in B : m <= p
      BY SMT, <1>1
    <2>2. Highest(B) \in B /\ \A m \in B : m <= Highest(B)
      BY Zenon, <1>1, <1>5, <2>1, MaxIs
    <2>3. PICK top \in B : \A m \in B : m <= top
      BY Zenon, <2>2
    <2>4. \A stage \in 1..3 : top \in Latest(journal, B, PageEntries, stage, PageBytes)
      BY Zenon, <1>1, <2>3, LatestSome
    <2>5. top \in P
      BY Zenon, <2>4 DEF PageOf, Latest
    <2> QED BY Zenon, <2>5
  <1>6. FitsIn(journal, P, Keep, 3, KeepBytes)
    <2>1. IsFiniteSet(P)
      BY Zenon, <1>1, <1>2, FS_Subset
    <2>2. FitsIn(journal, P, PageEntries, 3, PageBytes)
      <3>1. CASE P = {}
        <4>1. P \subseteq {p}
          BY Zenon, <3>1
        <4> QED BY Zenon, <1>1, <4>1, FitsOne, LimitsAre
      <3>2. CASE P # {}
        <4> DEFINE L == Latest(journal, B, PageEntries, 3, PageBytes)
        <4>1. P \subseteq L
          BY Zenon, <1>3, LimitsAre
        <4>2. L # {} /\ L \subseteq B
          BY Zenon, <3>2, <4>1 DEF Latest
        <4>3. FitsIn(journal, Latest(journal, B, PageEntries, 3, PageBytes), PageEntries, 3, PageBytes)
          BY Zenon, <1>1, <4>2, LatestFits, LimitsAre
        <4>4. IsFiniteSet(L)
          BY Zenon, <1>1, <4>2, FS_Subset
        <4>5. PageEntries \in Nat /\ PageBytes \in Nat /\ 3 \in 1..3 /\ P \in SUBSET L
          BY Zenon, <4>1, LimitsAre
        <4>6. FitsIn(journal, L, PageEntries, 3, PageBytes)
          BY Zenon, <4>3
        <4> HIDE DEF L, P
        <4> QED BY Zenon, <4>4, <4>5, <4>6, FitsPart
      <3> QED BY Zenon, <3>1, <3>2
    <2> QED BY Zenon, <2>1, <2>2, FitsWindow
  <1> QED BY Zenon, <1>2, <1>4, <1>5, <1>6

\* The three cuts, one after the other, leave the page.
LEMMA StagesAre ==
    ASSUME NEW journal \in Journals, NEW B \in SUBSET Nat, IsFiniteSet(B)
    PROVE  Latest(journal, Latest(journal, Latest(journal, B, PageEntries, 1, PageBytes),
                                  PageEntries, 2, PageBytes), PageEntries, 3, PageBytes)
             = PageOf(journal, B)
  <1>a. PICK K1 : K1 = Latest(journal, B, PageEntries, 1, PageBytes)
    BY Zenon
  <1>b. PICK K2 : K2 = Latest(journal, K1, PageEntries, 2, PageBytes)
    BY Zenon
  <1>c. PICK K3 : K3 = Latest(journal, K2, PageEntries, 3, PageBytes)
    BY Zenon
  <1>1. K1 \subseteq B /\ K2 \subseteq K1 /\ K3 \subseteq K2
    BY Zenon, <1>a, <1>b, <1>c DEF Latest
  <1>2. K1 \in SUBSET Nat /\ K2 \in SUBSET Nat /\ IsFiniteSet(K1) /\ IsFiniteSet(K2)
    BY Zenon, <1>1, FS_Subset
  <1>3. \A n \in K1 : From(K1, n) = From(B, n)
    <2>1. \A n \in Latest(journal, B, PageEntries, 1, PageBytes) :
            From(Latest(journal, B, PageEntries, 1, PageBytes), n) = From(B, n)
      BY Zenon, LatestFrom, LimitsAre
    <2> QED BY Zenon, <1>a, <2>1
  <1>4. \A n \in K2 : From(K2, n) = From(K1, n)
    <2>1. \A n \in Latest(journal, K1, PageEntries, 2, PageBytes) :
            From(Latest(journal, K1, PageEntries, 2, PageBytes), n) = From(K1, n)
      BY Zenon, <1>2, LatestFrom, LimitsAre
    <2> QED BY Zenon, <1>b, <2>1
  <1>5. \A n : n \in K1 <=> n \in B /\ FitsIn(journal, From(B, n), PageEntries, 1, PageBytes)
    BY Zenon, <1>a, <1>b, <1>c DEF Latest
  <1>6. \A n : n \in K2 <=> n \in K1 /\ FitsIn(journal, From(K1, n), PageEntries, 2, PageBytes)
    BY Zenon, <1>a, <1>b, <1>c DEF Latest
  <1>7. \A n : n \in K3 <=> n \in K2 /\ FitsIn(journal, From(K2, n), PageEntries, 3, PageBytes)
    BY Zenon, <1>a, <1>b, <1>c DEF Latest
  <1>8. ASSUME NEW n \in K3 PROVE n \in PageOf(journal, B)
    <2>1. n \in K2 /\ n \in K1 /\ n \in B
      BY Zenon, <1>1
    <2>2. From(K2, n) = From(B, n) /\ From(K1, n) = From(B, n)
      BY Zenon, <1>3, <1>4, <2>1
    <2>3. /\ FitsIn(journal, From(B, n), PageEntries, 1, PageBytes)
          /\ FitsIn(journal, From(B, n), PageEntries, 2, PageBytes)
          /\ FitsIn(journal, From(B, n), PageEntries, 3, PageBytes)
      BY Zenon, <1>5, <1>6, <1>7, <2>1, <2>2
    <2>4. \A stage \in 1..3 : stage = 1 \/ stage = 2 \/ stage = 3
      BY SMT
    <2> QED BY Zenon, <2>1, <2>3, <2>4 DEF PageOf
  <1>9. ASSUME NEW n \in PageOf(journal, B) PROVE n \in K3
    <2>1. /\ n \in B
          /\ FitsIn(journal, From(B, n), PageEntries, 1, PageBytes)
          /\ FitsIn(journal, From(B, n), PageEntries, 2, PageBytes)
          /\ FitsIn(journal, From(B, n), PageEntries, 3, PageBytes)
      BY Zenon, LimitsAre DEF PageOf
    <2>2. n \in K1 /\ From(K1, n) = From(B, n)
      BY Zenon, <1>3, <1>5, <2>1
    <2>3. n \in K2 /\ From(K2, n) = From(B, n)
      BY Zenon, <1>4, <1>6, <2>1, <2>2
    <2> QED BY Zenon, <1>7, <2>1, <2>3
  <1>10. K3 = PageOf(journal, B)
    BY Zenon, <1>8, <1>9
  <1> QED BY Zenon, <1>a, <1>b, <1>c, <1>10

Recent(journal, p) == PageOf(journal, OwnUpTo(journal, p))

\* The newest page does not reach further down as the journal grows.
LEMMA RecentIs ==
    ASSUME NEW journal \in Journals, NEW p \in 0..Len(journal)
    PROVE  /\ Recent(journal, p) \subseteq OwnUpTo(journal, p)
           /\ \A n \in Recent(journal, p) : \A m \in OwnUpTo(journal, p) : m >= n => m \in Recent(journal, p)
           /\ OwnUpTo(journal, p) # {} => Recent(journal, p) # {}
           /\ FitsIn(journal, Recent(journal, p), Keep, 3, KeepBytes)
  <1>1. OwnUpTo(journal, p) \in SUBSET OwnUpTo(journal, p)
    BY Zenon
  <1> QED BY Zenon, <1>1, PageIs DEF Recent

LEMMA RecentMoves ==
    ASSUME NEW journal \in Journals, NEW p \in 0..Len(journal), NEW q \in 0..Len(journal), p <= q,
           NEW n \in Recent(journal, q)
    PROVE  n \in Recent(journal, p) \/ n > p
  <1> SUFFICES ASSUME ~(n > p) PROVE n \in Recent(journal, p)
    BY Zenon
  <1> DEFINE A == OwnUpTo(journal, p)  B == OwnUpTo(journal, q)
  <1>1. n \in B /\ B \subseteq 1..q /\ IsFiniteSet(B) /\ p \in Nat /\ q \in Nat
    <2>1. A \in SUBSET OwnUpTo(journal, p) /\ B \in SUBSET OwnUpTo(journal, q)
      BY Zenon
    <2> HIDE DEF A, B
    <2>2. n \in B
      BY Zenon, RecentIs DEF B
    <2> QED BY Zenon, <2>1, <2>2, OwnIs
  <1>2. n \in A /\ A \subseteq B
    <2>1. n \in 1..p /\ 1..p \subseteq 1..q
      BY SMT, <1>1
    <2> QED BY Zenon, <1>1, <2>1 DEF OwnUpTo
  <1>3. From(A, n) \in SUBSET From(B, n) /\ From(B, n) \subseteq B
    BY Zenon, <1>2 DEF From
  <1>4. IsFiniteSet(From(B, n))
    BY Zenon, <1>1, <1>3, FS_Subset
  <1> HIDE DEF A, B
  <1>5. ASSUME NEW stage \in 1..3 PROVE FitsIn(journal, From(A, n), PageEntries, stage, PageBytes)
    <2>1. FitsIn(journal, From(B, n), PageEntries, stage, PageBytes)
      BY Zenon DEF Recent, PageOf, B
    <2>2. PageEntries \in Nat /\ PageBytes \in Nat
      BY Zenon, LimitsAre
    <2> QED BY Zenon, <1>3, <1>4, <2>1, <2>2, FitsPart
  <1> QED BY Zenon, <1>2, <1>5 DEF Recent, PageOf, A

\* A cursor names the first entry of P when B has older ones, and is 0 otherwise.
CursorOf(cursor, P, B) ==
  IF cursor = 0 THEN \A n \in B : \E m \in P : m <= n
  ELSE cursor \in P /\ (\A n \in P : cursor <= n) /\ \E n \in B : n < cursor

LEMMA CutKeeps ==
    ASSUME publications \in Journals, NEW S \in SUBSET (Nat \ {0}), IsFiniteSet(S),
           NEW bound \in Nat, \A n \in S : n <= bound,
           NEW B, S \subseteq B, NEW previous \in Nat, CursorOf(previous, S, B), NEW stage \in 1..3
    PROVE  \E cursor \in Nat :
             /\ Cut([entries |-> S, previous |-> previous], stage)
                  = [entries |-> Latest(publications, S, PageEntries, stage, PageBytes), previous |-> cursor]
             /\ CursorOf(cursor, Latest(publications, S, PageEntries, stage, PageBytes), B)
  <1> DEFINE kept == Latest(publications, S, PageEntries, stage, PageBytes)
             cursor == IF kept = S \/ kept = {} THEN previous ELSE Lowest(kept)
  <1>1. Fitting(S, PageEntries, stage, PageBytes) = kept
    BY Zenon DEF Fitting, Fits, Latest, FitsIn, From
  <1>2. Cut([entries |-> S, previous |-> previous], stage) = [entries |-> kept, previous |-> cursor]
    <2>1. [entries |-> S, previous |-> previous].entries = S
          /\ [entries |-> S, previous |-> previous].previous = previous
      BY SMT
    <2> HIDE DEF kept
    <2> QED BY Zenon, <1>1, <2>1 DEF Cut
  <1>3. kept \subseteq S /\ S \in SUBSET Nat /\ kept \in SUBSET Nat /\ 0 \notin kept
    BY Zenon DEF Latest
  <1>4. \A n \in kept : \A m \in S : m >= n => m \in kept
    <2>1. PageEntries \in Nat /\ PageBytes \in Nat
      BY Zenon, LimitsAre
    <2> QED BY Zenon, <1>3, <2>1, LatestIs
  <1>5. kept = {} => S = {}
    <2>1. ASSUME S # {} PROVE kept # {}
      <3>1. Highest(S) \in S /\ \A m \in S : m <= Highest(S)
        BY Zenon, <1>3, <2>1, MaxIs
      <3>2. PICK top \in S : \A m \in S : m <= top
        BY Zenon, <3>1
      <3>3. top \in kept
        BY Zenon, <1>3, <3>2, LatestSome
      <3> QED BY Zenon, <3>3
    <2> QED BY Zenon, <2>1
  <1> HIDE DEF kept
  <1>6. CASE kept = S
    <2>1. cursor = previous
      BY Zenon, <1>6
    <2> QED BY Zenon, <1>2, <1>6, <2>1 DEF kept
  <1>7. CASE kept # S
    <2>1. kept # {}
      BY Zenon, <1>5, <1>7
    <2>2. Lowest(kept) \in kept /\ \A y \in kept : Lowest(kept) <= y
      BY Zenon, <1>3, <2>1, MinIs
    <2>3. cursor = Lowest(kept)
      BY Zenon, <1>7, <2>1
    <2> HIDE DEF cursor
    <2>4. cursor \in kept /\ (\A y \in kept : cursor <= y) /\ cursor \in Nat /\ cursor # 0
      BY Zenon, <1>3, <2>2, <2>3
    <2>5. PICK n \in S : n \notin kept
      BY Zenon, <1>3, <1>7
    <2>6. n < cursor /\ n \in B
      <3>1. ~(n >= cursor) /\ n \in Nat
        BY Zenon, <1>3, <1>4, <2>4, <2>5
      <3> QED BY SMT, <2>4, <3>1
    <2>7. CursorOf(cursor, kept, B)
      BY Zenon, <2>4, <2>6 DEF CursorOf
    <2> QED BY Zenon, <1>2, <2>4, <2>7 DEF kept
  <1> QED BY Zenon, <1>6, <1>7

LEMMA CutsKeep ==
    ASSUME publications \in Journals, NEW B \in SUBSET (Nat \ {0}), IsFiniteSet(B),
           NEW bound \in Nat, \A n \in B : n <= bound
    PROVE  \E cursor \in Nat :
             /\ Cut(Cut(Cut([entries |-> B, previous |-> 0], 1), 2), 3)
                  = [entries |-> PageOf(publications, B), previous |-> cursor]
             /\ CursorOf(cursor, PageOf(publications, B), B)
  <1>0. B \in SUBSET Nat
    BY Zenon
  <1>1. CursorOf(0, B, B) /\ 0 \in Nat
    <2>1. \A n \in B : n <= n
      BY SMT, <1>0
    <2>2. 0 \in Nat
      BY SMT
    <2> QED BY Zenon, <2>1, <2>2 DEF CursorOf
  <1> DEFINE K1 == Latest(publications, B, PageEntries, 1, PageBytes)
             K2 == Latest(publications, K1, PageEntries, 2, PageBytes)
             K3 == Latest(publications, K2, PageEntries, 3, PageBytes)
  <1>2. K1 = Latest(publications, B, PageEntries, 1, PageBytes) /\ K1 \subseteq B
    BY Zenon DEF Latest
  <1>3. K2 = Latest(publications, K1, PageEntries, 2, PageBytes) /\ K2 \subseteq K1
    <2> HIDE DEF K1
    <2> QED BY Zenon DEF Latest
  <1>4. K3 = Latest(publications, K2, PageEntries, 3, PageBytes) /\ K3 \subseteq K2
    <2> HIDE DEF K1, K2
    <2> QED BY Zenon DEF Latest
  <1> HIDE DEF K1, K2, K3
  <1>5. K3 = PageOf(publications, B)
    BY Zenon, <1>0, StagesAre DEF K1, K2, K3
  <1>6. \E a \in Nat : Cut([entries |-> B, previous |-> 0], 1) = [entries |-> K1, previous |-> a]
                       /\ CursorOf(a, K1, B)
    <2>1. B \subseteq B
      BY Zenon
    <2>2. \E a \in Nat :
             /\ Cut([entries |-> B, previous |-> 0], 1)
                  = [entries |-> Latest(publications, B, PageEntries, 1, PageBytes), previous |-> a]
             /\ CursorOf(a, Latest(publications, B, PageEntries, 1, PageBytes), B)
      BY Zenon, <1>1, <2>1, CutKeeps, LimitsAre
    <2> QED BY Zenon, <1>2, <2>2
  <1>7. PICK a \in Nat : Cut([entries |-> B, previous |-> 0], 1) = [entries |-> K1, previous |-> a]
                         /\ CursorOf(a, K1, B)
    BY Zenon, <1>6
  <1>8. /\ K1 \in SUBSET (Nat \ {0}) /\ IsFiniteSet(K1) /\ \A n \in K1 : n <= bound
        /\ K2 \in SUBSET (Nat \ {0}) /\ IsFiniteSet(K2) /\ \A n \in K2 : n <= bound
        /\ K2 \subseteq B
    BY Zenon, <1>2, <1>3, FS_Subset
  <1>9. \E b \in Nat : Cut([entries |-> K1, previous |-> a], 2) = [entries |-> K2, previous |-> b]
                       /\ CursorOf(b, K2, B)
    <2>1. \E b \in Nat :
             /\ Cut([entries |-> K1, previous |-> a], 2)
                  = [entries |-> Latest(publications, K1, PageEntries, 2, PageBytes), previous |-> b]
             /\ CursorOf(b, Latest(publications, K1, PageEntries, 2, PageBytes), B)
      BY Zenon, <1>2, <1>7, <1>8, CutKeeps, LimitsAre
    <2> QED BY Zenon, <1>3, <2>1
  <1>10. PICK b \in Nat : Cut([entries |-> K1, previous |-> a], 2) = [entries |-> K2, previous |-> b]
                          /\ CursorOf(b, K2, B)
    BY Zenon, <1>9
  <1>11. \E c \in Nat : Cut([entries |-> K2, previous |-> b], 3) = [entries |-> K3, previous |-> c]
                        /\ CursorOf(c, K3, B)
    <2>1. \E c \in Nat :
             /\ Cut([entries |-> K2, previous |-> b], 3)
                  = [entries |-> Latest(publications, K2, PageEntries, 3, PageBytes), previous |-> c]
             /\ CursorOf(c, Latest(publications, K2, PageEntries, 3, PageBytes), B)
      BY Zenon, <1>8, <1>10, CutKeeps, LimitsAre
    <2> QED BY Zenon, <1>4, <2>1
  <1> QED BY Zenon, <1>5, <1>7, <1>10, <1>11

\* What the store answers to a read.
LEMMA AnsweredIs ==
    ASSUME publications \in Journals, published \in 0..Len(publications), NEW read,
           NEW B \in SUBSET Ours, {n \in Ours : read.before = 0 \/ n < read.before} = B
    PROVE  \E cursor \in Nat :
             /\ Answered(read) = [at |-> "answered", before |-> read.before,
                                  page |-> PageOf(publications, B), previous |-> cursor]
             /\ CursorOf(cursor, PageOf(publications, B), B)
  <1>1. B \in SUBSET OwnUpTo(publications, published)
    BY Zenon DEF Ours, OwnUpTo
  <1>2. chat_page_before(read.before) = Cut(Cut([entries |-> B, previous |-> 0], 1), 2)
    BY Zenon DEF chat_page_before
  <1>3. PICK C : C = B
    BY Zenon
  <1>4. \E cursor \in Nat :
             /\ Cut(Cut(Cut([entries |-> C, previous |-> 0], 1), 2), 3)
                  = [entries |-> PageOf(publications, C), previous |-> cursor]
             /\ CursorOf(cursor, PageOf(publications, C), C)
    <2>0. C \in SUBSET OwnUpTo(publications, published)
      BY Zenon, <1>1, <1>3
    <2>1. C \subseteq 1..published /\ IsFiniteSet(C) /\ published \in Nat
      BY Zenon, <2>0, OwnIs
    <2>2. C \in SUBSET (Nat \ {0}) /\ \A n \in C : n <= published
      BY SMT, <2>1
    <2> QED BY Zenon, <2>1, <2>2, CutsKeep
  <1>5. PICK cursor \in Nat :
             /\ Cut(Cut(Cut([entries |-> B, previous |-> 0], 1), 2), 3)
                  = [entries |-> PageOf(publications, B), previous |-> cursor]
             /\ CursorOf(cursor, PageOf(publications, B), B)
    BY Zenon, <1>3, <1>4
  <1>6. PICK P : P = PageOf(publications, B)
    BY Zenon
  <1>7. [entries |-> P, previous |-> cursor].entries = P /\ [entries |-> P, previous |-> cursor].previous = cursor
    BY SMT
  <1>8. bounded(chat_page_before(read.before)) = [entries |-> P, previous |-> cursor]
    BY Zenon, <1>2, <1>5, <1>6 DEF bounded
  <1>9. Answered(read) = [at |-> "answered", before |-> read.before, page |-> P, previous |-> cursor]
    BY Zenon, <1>7, <1>8 DEF Answered
  <1> QED BY Zenon, <1>5, <1>6, <1>9

-----------------------------------------------------------------------------
(* The window, as an invariant of its parts.                               *)

NoHole(E, B) == \A a, b \in E : \A n \in B : a <= n /\ n <= b => n \in E

\* The window reaches down to the page, and a torn one reaches below it.
Above(E, rent, P) ==
  /\ E # {} => \E e \in E : \A n \in P : e <= n
  /\ rent => \E e \in E : \A n \in P : e < n

Held(journal, p, E, cursor, rent) ==
  /\ E \subseteq OwnUpTo(journal, p) /\ cursor \in Nat /\ (E = {} => cursor = 0)
  /\ FitsIn(journal, E, Keep, 3, KeepBytes)
  /\ E # {} => CursorOf(cursor, E, OwnUpTo(journal, p))
  /\ ~rent => NoHole(E, OwnUpTo(journal, p))
  /\ Above(E, rent, Recent(journal, p))

\* A newest page that was answered when p entries were published.
Polled(journal, p, E, rent, page, cursor) ==
  /\ page = Recent(journal, p) /\ cursor \in Nat /\ CursorOf(cursor, page, OwnUpTo(journal, p))
  /\ E \subseteq 1..p
  /\ Above(E, rent, page)

\* An older page is being read from a cursor.
OlderThan(journal, p, before) == {n \in OwnUpTo(journal, p) : n < before}
Reading(journal, p, E, shifted, before) ==
  /\ E # {} /\ before \in 1..p /\ OlderThan(journal, p, before) # {}
  /\ \A e \in E : before <= e
  /\ \A n \in Recent(journal, p) : before <= n
  /\ ~shifted => before \in E

\* That page, once it is answered.
Passed(journal, p, before, page, cursor) ==
  /\ page = PageOf(journal, OlderThan(journal, p, before))
  /\ cursor \in Nat /\ CursorOf(cursor, page, OlderThan(journal, p, before))

PollFact ==
  /\ poll.at = "sent" => poll.before = 0
  /\ poll.at = "answered" => \E p \in 0..published :
        /\ Polled(publications, p, entries, torn, poll.page, poll.previous)
        /\ olderRead.at # "idle" => \A n \in poll.page : olderRead.before <= n
OlderFact ==
  /\ olderRead.at # "idle" => Reading(publications, published, entries, moved, olderRead.before)
  /\ olderRead.at = "answered" =>
        Passed(publications, published, olderRead.before, olderRead.page, olderRead.previous)

WindowInv ==
  /\ publications \in Journals /\ published \in 0..Len(publications)
  /\ Held(publications, published, entries, older, torn)
  /\ PollFact
  /\ OlderFact

-----------------------------------------------------------------------------
(* The same journal with more of it published.                             *)

LEMMA OwnGrows ==
    ASSUME NEW journal \in Journals, NEW p \in 0..Len(journal), NEW q \in 0..Len(journal), q <= p
    PROVE  /\ OwnUpTo(journal, q) \subseteq OwnUpTo(journal, p)
           /\ \A n \in OwnUpTo(journal, p) : n \in OwnUpTo(journal, q) \/ n > q
           /\ OwnUpTo(journal, p) \in SUBSET Nat /\ q \in Nat /\ p \in Nat
  <1>1. Len(journal) \in Nat
    BY Zenon, JournalIs
  <1>2. q \in Nat /\ p \in Nat /\ 1..q \subseteq 1..p /\ 1..p \subseteq Nat /\ \A n \in 1..p : n \in 1..q \/ n > q
    BY SMT, <1>1
  <1> QED BY Zenon, <1>2 DEF OwnUpTo

LEMMA CursorWider ==
    ASSUME NEW q \in Nat, NEW P \in SUBSET Nat, P # {}, \A m \in P : m <= q, NEW A, NEW B \in SUBSET Nat,
           A \subseteq B, \A n \in B : n \in A \/ n > q, NEW cursor, CursorOf(cursor, P, A)
    PROVE  CursorOf(cursor, P, B)
  <1>1. CASE cursor = 0
    <2>1. PICK m \in P : TRUE
      BY Zenon
    <2>2. \A n \in B : n > q => m <= n
      BY SMT, <2>1
    <2>3. \A n \in A : \E x \in P : x <= n
      BY Zenon, <1>1 DEF CursorOf
    <2>4. \A n \in B : \E x \in P : x <= n
      BY Zenon, <2>2, <2>3
    <2> QED BY Zenon, <1>1, <2>4 DEF CursorOf
  <1>2. CASE cursor # 0
    BY Zenon, <1>2 DEF CursorOf
  <1> QED BY Zenon, <1>1, <1>2

LEMMA HoleWider ==
    ASSUME NEW q \in Nat, NEW E \in SUBSET Nat, \A m \in E : m <= q, NEW A, NEW B \in SUBSET Nat,
           \A n \in B : n \in A \/ n > q, NoHole(E, A)
    PROVE  NoHole(E, B)
  <1> SUFFICES ASSUME NEW a \in E, NEW b \in E, NEW n \in B, a <= n, n <= b PROVE n \in E
    BY Zenon DEF NoHole
  <1>1. ~(n > q)
    <2>1. b <= q /\ b \in Nat /\ n \in Nat
      BY Zenon
    <2> QED BY SMT, <2>1
  <1> QED BY Zenon, <1>1 DEF NoHole

LEMMA AboveMoves ==
    ASSUME NEW q \in Nat, NEW E \in SUBSET Nat, \A m \in E : m <= q, NEW P, NEW R \in SUBSET Nat,
           \A n \in R : n \in P \/ n > q, NEW rent, Above(E, rent, P)
    PROVE  Above(E, rent, R)
  <1>1. \A e \in E : \A n \in R : n > q => e <= n /\ e < n
    BY SMT
  <1> QED BY Zenon, <1>1 DEF Above

LEMMA HeldGrows ==
    ASSUME NEW journal \in Journals, NEW p \in 0..Len(journal), NEW r \in 0..Len(journal), p <= r,
           NEW E, NEW cursor, NEW rent, Held(journal, p, E, cursor, rent)
    PROVE  Held(journal, r, E, cursor, rent)
  <1> DEFINE A == OwnUpTo(journal, p)  B == OwnUpTo(journal, r)
  <1>1. A \subseteq B /\ (\A n \in B : n \in A \/ n > p) /\ B \in SUBSET Nat /\ p \in Nat
    BY Zenon, OwnGrows
  <1>2. E \in SUBSET A /\ E \in SUBSET Nat /\ \A m \in E : m <= p
    <2>1. E \in SUBSET OwnUpTo(journal, p)
      BY Zenon DEF Held
    <2>2. E \subseteq 1..p /\ E \in SUBSET Nat
      BY Zenon, <2>1, OwnIs
    <2> QED BY SMT, <1>1, <2>1, <2>2
  <1>3. E # {} => CursorOf(cursor, E, B)
    <2>1. ASSUME E # {} PROVE CursorOf(cursor, E, A)
      BY Zenon, <2>1 DEF Held
    <2> HIDE DEF A, B
    <2> QED BY Zenon, <1>1, <1>2, <2>1, CursorWider
  <1>4. ~rent => NoHole(E, B)
    <2>1. ~rent => NoHole(E, A)
      BY Zenon DEF Held
    <2> HIDE DEF A, B
    <2> QED BY Zenon, <1>1, <1>2, <2>1, HoleWider
  <1>5. Above(E, rent, Recent(journal, r))
    <2>1. \A n \in Recent(journal, r) : n \in Recent(journal, p) \/ n > p
      BY Zenon, RecentMoves
    <2>2. Recent(journal, r) \in SUBSET Nat
      BY Zenon, <1>1, RecentIs
    <2>3. Above(E, rent, Recent(journal, p))
      BY Zenon DEF Held
    <2> QED BY Zenon, <1>1, <1>2, <2>1, <2>2, <2>3, AboveMoves
  <1> QED BY Zenon, <1>1, <1>2, <1>3, <1>4, <1>5 DEF Held

LEMMA OlderSame ==
    ASSUME NEW journal \in Journals, NEW p \in 0..Len(journal), NEW r \in 0..Len(journal), p <= r,
           NEW before \in 1..p
    PROVE  OlderThan(journal, r, before) = OlderThan(journal, p, before)
  <1>1. /\ OwnUpTo(journal, p) \subseteq OwnUpTo(journal, r) /\ OwnUpTo(journal, r) \in SUBSET Nat
        /\ \A n \in OwnUpTo(journal, r) : n \in OwnUpTo(journal, p) \/ n > p
        /\ p \in Nat
    BY Zenon, OwnGrows
  <1>2. \A n \in Nat : n > p => ~(n < before)
    BY SMT, <1>1
  <1> QED BY Zenon, <1>1, <1>2 DEF OlderThan

LEMMA ReadingGrows ==
    ASSUME NEW journal \in Journals, NEW p \in 0..Len(journal), NEW r \in 0..Len(journal), p <= r,
           NEW E, NEW shifted, NEW before, Reading(journal, p, E, shifted, before)
    PROVE  Reading(journal, r, E, shifted, before)
  <1>1. before \in 1..p
    BY Zenon DEF Reading
  <1>2. OlderThan(journal, r, before) = OlderThan(journal, p, before)
    BY Zenon, <1>1, OlderSame
  <1>3. p \in Nat /\ r \in Nat /\ OwnUpTo(journal, r) \in SUBSET Nat
    BY Zenon, OwnGrows
  <1>4. before \in 1..r /\ \A n \in Nat : n > p => before <= n
    BY SMT, <1>1, <1>3
  <1>5. ASSUME NEW n \in Recent(journal, r) PROVE before <= n
    <2>1. n \in Recent(journal, p) \/ n > p
      BY Zenon, RecentMoves
    <2>2. n \in Nat
      BY Zenon, <1>3, RecentIs
    <2> QED BY Zenon, <1>4, <2>1, <2>2 DEF Reading
  <1> QED BY Zenon, <1>2, <1>4, <1>5 DEF Reading

LEMMA ReadingStarts ==
    ASSUME NEW journal \in Journals, NEW p \in 0..Len(journal), NEW E, NEW cursor, NEW rent,
           Held(journal, p, E, cursor, rent), cursor # 0
    PROVE  /\ Reading(journal, p, E, FALSE, cursor)
           /\ \A P \in SUBSET Nat : Above(E, rent, P) => \A n \in P : cursor <= n
  <1>1. /\ E # {} /\ cursor \in E /\ (\A e \in E : cursor <= e)
        /\ \E n \in OwnUpTo(journal, p) : n < cursor
    BY Zenon DEF Held, CursorOf
  <1>2. E \in SUBSET OwnUpTo(journal, p)
    BY Zenon DEF Held
  <1>3. E \subseteq 1..p /\ E \in SUBSET Nat
    BY Zenon, <1>2, OwnIs
  <1>4. ASSUME NEW P \in SUBSET Nat, Above(E, rent, P), NEW n \in P PROVE cursor <= n
    <2>1. PICK e \in E : \A m \in P : e <= m
      BY Zenon, <1>1, <1>4 DEF Above
    <2>2. cursor <= e /\ e <= n /\ cursor \in Nat /\ e \in Nat /\ n \in Nat
      BY Zenon, <1>1, <1>3, <2>1
    <2> QED BY SMT, <2>2
  <1>5. \A n \in Recent(journal, p) : cursor <= n
    <2>1. Above(E, rent, Recent(journal, p))
      BY Zenon DEF Held
    <2>2. Recent(journal, p) \in SUBSET Nat
      BY Zenon, OwnNat, RecentIs
    <2> QED BY Zenon, <1>4, <2>1, <2>2
  <1>6. OlderThan(journal, p, cursor) # {}
    BY Zenon, <1>1 DEF OlderThan
  <1> QED BY Zenon, <1>1, <1>3, <1>4, <1>5, <1>6 DEF Reading

-----------------------------------------------------------------------------
(* A newest page that meets the window.                                    *)

\* What a page answered at q says of the window when more entries are published.
Met(E, page, q, A, B, R) ==
  /\ q \in Nat /\ E \subseteq A /\ page \subseteq A /\ A \in SUBSET Nat /\ IsFiniteSet(A)
  /\ \A n \in A : n <= q /\ n # 0
  /\ \A n \in page : \A m \in A : m >= n => m \in page
  /\ page = {} => A = {}
  /\ A \subseteq B /\ (\A n \in B : n \in A \/ n > q) /\ B \in SUBSET Nat
  /\ R \in SUBSET Nat /\ \A n \in R : n \in page \/ n > q

LEMMA PolledIs ==
    ASSUME NEW journal \in Journals, NEW p \in 0..Len(journal), NEW q \in 0..p,
           NEW E, NEW cursor, NEW rent, Held(journal, p, E, cursor, rent),
           NEW page, NEW previous, Polled(journal, q, E, rent, page, previous)
    PROVE  Met(E, page, q, OwnUpTo(journal, q), OwnUpTo(journal, p), Recent(journal, p))
           /\ FitsIn(journal, page, Keep, 3, KeepBytes)
  <1>1. Len(journal) \in Nat
    BY Zenon, JournalIs
  <1>2. q \in 0..Len(journal) /\ q <= p /\ q \in Nat
    BY SMT, <1>1
  <1> DEFINE Q == OwnUpTo(journal, q)
  <1>3. Q \subseteq 1..q /\ Q \in SUBSET Nat /\ IsFiniteSet(Q)
    <2>1. Q \in SUBSET OwnUpTo(journal, q)
      BY Zenon
    <2> HIDE DEF Q
    <2> QED BY Zenon, <1>2, <2>1, OwnIs
  <1>4. \A n \in Q : n <= q /\ n # 0
    <2> HIDE DEF Q
    <2> QED BY SMT, <1>2, <1>3
  <1>5. E \subseteq Q
    BY Zenon DEF Held, Polled, OwnUpTo
  <1>6. page = Recent(journal, q)
    BY Zenon DEF Polled
  <1>7. /\ Recent(journal, q) \subseteq Q
        /\ \A n \in Recent(journal, q) : \A m \in Q : m >= n => m \in Recent(journal, q)
        /\ Q # {} => Recent(journal, q) # {}
        /\ FitsIn(journal, Recent(journal, q), Keep, 3, KeepBytes)
    BY Zenon, <1>2, RecentIs
  <1>8. Q \subseteq OwnUpTo(journal, p) /\ (\A n \in OwnUpTo(journal, p) : n \in Q \/ n > q)
        /\ OwnUpTo(journal, p) \in SUBSET Nat
    BY Zenon, <1>2, OwnGrows
  <1>9. \A n \in Recent(journal, p) : n \in Recent(journal, q) \/ n > q
    BY Zenon, <1>2, RecentMoves
  <1>10. Recent(journal, p) \in SUBSET Nat
    BY Zenon, <1>8, RecentIs
  <1> HIDE DEF Q
  <1> QED BY Zenon, <1>2, <1>3, <1>4, <1>5, <1>6, <1>7, <1>8, <1>9, <1>10 DEF Q, Met

\* The page replaces the window.
LEMMA ReplaceKeeps ==
    ASSUME NEW journal \in Journals, NEW p \in 0..Len(journal), NEW q \in 0..p,
           NEW E, NEW cursor, NEW rent, Held(journal, p, E, cursor, rent),
           NEW page, NEW previous, Polled(journal, q, E, rent, page, previous)
    PROVE  Held(journal, p, page, previous, FALSE) /\ (E # {} => page # {})
  <1> DEFINE A == OwnUpTo(journal, q)  B == OwnUpTo(journal, p)
  <1>1. /\ q \in Nat /\ E \subseteq A /\ page \subseteq A /\ A \in SUBSET Nat
        /\ (\A n \in A : n <= q /\ n # 0)
        /\ (\A n \in page : \A m \in A : m >= n => m \in page)
        /\ (page = {} => A = {}) /\ FitsIn(journal, page, Keep, 3, KeepBytes)
        /\ A \subseteq B /\ (\A n \in B : n \in A \/ n > q) /\ B \in SUBSET Nat
        /\ Recent(journal, p) \in SUBSET Nat /\ \A n \in Recent(journal, p) : n \in page \/ n > q
    <2>1. Met(E, page, q, A, B, Recent(journal, p)) /\ FitsIn(journal, page, Keep, 3, KeepBytes)
      BY Zenon, PolledIs
    <2> HIDE DEF A, B
    <2> QED BY Zenon, <2>1 DEF Met
  <1>2. previous \in Nat /\ CursorOf(previous, page, A)
    BY Zenon DEF Polled
  <1> HIDE DEF A, B
  <1>3. page \in SUBSET Nat /\ \A n \in page : n <= q
    BY Zenon, <1>1
  <1>4. page = {} => previous = 0
    BY Zenon, <1>2 DEF CursorOf
  <1>5. page # {} => CursorOf(previous, page, B)
    BY Zenon, <1>1, <1>2, <1>3, CursorWider
  <1>6. NoHole(page, A)
    <2>1. \A a \in page : \A n \in A : a <= n => n >= a
      BY SMT, <1>1, <1>3
    <2> QED BY Zenon, <1>1, <2>1 DEF NoHole
  <1>7. NoHole(page, B)
    <2>1. q \in Nat /\ B \in SUBSET Nat /\ \A n \in B : n \in A \/ n > q
      BY Zenon, <1>1
    <2> QED BY Zenon, <1>3, <1>6, <2>1, HoleWider
  <1>8. Above(page, FALSE, page)
    <2>1. page # {} => \E e \in page : \A n \in page : e <= n
      BY Zenon, <1>3, Least
    <2> QED BY Zenon, <2>1 DEF Above
  <1>9. Above(page, FALSE, Recent(journal, p))
    <2>1. q \in Nat /\ Recent(journal, p) \in SUBSET Nat /\ \A n \in Recent(journal, p) : n \in page \/ n > q
      BY Zenon, <1>1
    <2> QED BY Zenon, <1>3, <1>8, <2>1, AboveMoves
  <1>10. E # {} => page # {}
    BY Zenon, <1>1
  <1>11. page \subseteq OwnUpTo(journal, p)
    BY Zenon, <1>1 DEF B
  <1> QED BY Zenon, <1>1, <1>2, <1>4, <1>5, <1>7, <1>9, <1>10, <1>11 DEF Held, B

\* The page is merged with a window it meets, or with an empty one.
\* A page that meets a window is merged with it.
MergesTo(journal, E, cursor, rent, page, previous, K, next, torns) ==
  /\ ~(E # {} /\ page # {} /\ page \cap E = {} /\ Lowest(page) > Highest(E))
  /\ K = Latest(journal, E \cup page, Keep, 3, KeepBytes)
  /\ next = IF K # E \cup page THEN Lowest(K) ELSE IF E = {} THEN previous ELSE cursor
  /\ (torns => rent) /\ (torns => ~(K \subseteq page)) /\ (~torns => ~rent \/ K \subseteq page)

LEMMA MergeKeeps ==
    ASSUME NEW journal \in Journals, NEW p \in 0..Len(journal), NEW q \in 0..p,
           NEW E, NEW cursor, NEW rent, Held(journal, p, E, cursor, rent),
           NEW page, NEW previous, Polled(journal, q, E, rent, page, previous),
           NEW K, NEW next, NEW torns, MergesTo(journal, E, cursor, rent, page, previous, K, next, torns)
    PROVE  Held(journal, p, K, next, torns) /\ K \subseteq E \cup page /\ (E # {} => K # {})
  <1> SUFFICES ASSUME ~(E # {} /\ page # {} /\ page \cap E = {} /\ Lowest(page) > Highest(E)),
                      K = Latest(journal, E \cup page, Keep, 3, KeepBytes),
                      next = IF K # E \cup page THEN Lowest(K) ELSE IF E = {} THEN previous ELSE cursor,
                      torns => rent, torns => ~(K \subseteq page), ~torns => ~rent \/ K \subseteq page
               PROVE  Held(journal, p, K, next, torns) /\ K \subseteq E \cup page /\ (E # {} => K # {})
    BY Zenon DEF MergesTo
  <1> DEFINE A == OwnUpTo(journal, q)  B == OwnUpTo(journal, p)
  <1>1. /\ q \in Nat /\ E \subseteq A /\ page \subseteq A /\ A \in SUBSET Nat /\ IsFiniteSet(A)
        /\ (\A n \in A : n <= q /\ n # 0)
        /\ (\A n \in page : \A m \in A : m >= n => m \in page)
        /\ (page = {} => A = {}) /\ FitsIn(journal, page, Keep, 3, KeepBytes)
        /\ A \subseteq B /\ (\A n \in B : n \in A \/ n > q) /\ B \in SUBSET Nat
        /\ Recent(journal, p) \in SUBSET Nat /\ \A n \in Recent(journal, p) : n \in page \/ n > q
    <2>1. Met(E, page, q, A, B, Recent(journal, p)) /\ FitsIn(journal, page, Keep, 3, KeepBytes)
      BY Zenon, PolledIs
    <2> HIDE DEF A, B
    <2> QED BY Zenon, <2>1 DEF Met
  <1>2. previous \in Nat /\ CursorOf(previous, page, A) /\ Above(E, rent, page)
    BY Zenon DEF Polled
  <1>3. cursor \in Nat /\ (E # {} => CursorOf(cursor, E, B)) /\ (~rent => NoHole(E, B))
    BY Zenon DEF Held
  <1>4. PICK S : S = E \cup page
    BY Zenon
  <1> HIDE DEF A, B
  <1>5. S \subseteq A /\ S \in SUBSET Nat /\ IsFiniteSet(S) /\ page \subseteq S /\ E \subseteq S
        /\ \A n \in S : n \in E \/ n \in page
    <2>1. S \subseteq A
      BY Zenon, <1>1, <1>4
    <2>2. IsFiniteSet(S)
      BY Zenon, <1>1, <2>1, FS_Subset
    <2> QED BY Zenon, <1>1, <1>4, <2>1, <2>2
  <1>6. /\ K \subseteq S
        /\ \A n \in K : \A m \in S : m >= n => m \in K
        /\ K # {} => FitsIn(journal, K, Keep, 3, KeepBytes)
        /\ \A n : n \in K <=> n \in S /\ FitsIn(journal, From(S, n), Keep, 3, KeepBytes)
    <2>1. K = Latest(journal, S, Keep, 3, KeepBytes)
      BY Zenon, <1>4
    <2>2. Keep \in Nat /\ KeepBytes \in Nat /\ 3 \in 1..3
      BY Zenon, LimitsAre
    <2>3. /\ \A n \in Latest(journal, S, Keep, 3, KeepBytes) : \A m \in S :
                m >= n => m \in Latest(journal, S, Keep, 3, KeepBytes)
          /\ Latest(journal, S, Keep, 3, KeepBytes) # {} =>
                FitsIn(journal, Latest(journal, S, Keep, 3, KeepBytes), Keep, 3, KeepBytes)
      BY Zenon, <1>5, <2>2, LatestIs
    <2>4. \A n : n \in Latest(journal, S, Keep, 3, KeepBytes)
                   <=> n \in S /\ FitsIn(journal, From(S, n), Keep, 3, KeepBytes)
      BY Zenon DEF Latest
    <2> QED BY Zenon, <2>1, <2>3, <2>4
  <1>7. page \subseteq K
    <2> SUFFICES ASSUME NEW n \in page PROVE n \in K
      BY Zenon
    <2>1. From(S, n) \in SUBSET page
      BY Zenon, <1>1, <1>5 DEF From
    <2>2. IsFiniteSet(page)
      BY Zenon, <1>1, FS_Subset
    <2>3. Keep \in Nat /\ KeepBytes \in Nat /\ 3 \in 1..3
      BY Zenon, LimitsAre
    <2>4. FitsIn(journal, From(S, n), Keep, 3, KeepBytes)
      BY Zenon, <1>1, <2>1, <2>2, <2>3, FitsPart
    <2> QED BY Zenon, <1>5, <1>6, <2>4
  <1>8. K \in SUBSET Nat /\ K \subseteq A /\ (\A n \in K : n <= q) /\ (page = {} => E = {})
    BY Zenon, <1>1, <1>5, <1>6
  <1>9. FitsIn(journal, K, Keep, 3, KeepBytes) /\ (E # {} => K # {})
    <2>1. CASE K = {}
      <3>1. page = {} /\ E = {}
        BY Zenon, <1>7, <1>8, <2>1
      <3>2. K = page
        BY Zenon, <2>1, <3>1
      <3> QED BY Zenon, <1>1, <3>1, <3>2
    <2>2. CASE K # {}
      BY Zenon, <1>6, <2>2
    <2> QED BY Zenon, <2>1, <2>2
  <1>10. ASSUME E # {} PROVE \E x \in E : x \in page
    <2> SUFFICES ASSUME page \cap E = {} PROVE FALSE
      BY Zenon
    <2>1. page # {} /\ page \in SUBSET Nat /\ E \in SUBSET Nat
      BY Zenon, <1>1, <1>8, <1>10
    <2>2. \A y \in E : y <= q
      BY Zenon, <1>1
    <2>3. Highest(E) \in E
      BY Zenon, <1>1, <1>10, <2>1, <2>2, MaxIs
    <2>4. Lowest(page) \in page
      BY Zenon, <2>1, MinIs
    <2>5. ~(Lowest(page) > Highest(E))
      BY Zenon, <1>10, <2>1
    <2>6. Highest(E) >= Lowest(page)
      <3>1. Highest(E) \in Nat /\ Lowest(page) \in Nat
        BY Zenon, <2>1, <2>3, <2>4
      <3> QED BY SMT, <2>5, <3>1
    <2>7. Highest(E) \in page
      BY Zenon, <1>1, <2>3, <2>4, <2>6
    <2> QED BY Zenon, <2>3, <2>7
  <1>11. ~torns => NoHole(K, B)
    <2>1. ASSUME ~rent PROVE NoHole(S, A)
      <3> SUFFICES ASSUME NEW a \in S, NEW b \in S, NEW n \in A, a <= n, n <= b PROVE n \in S
        BY Zenon DEF NoHole
      <3>1. CASE \E m \in page : n >= m
        BY Zenon, <1>1, <1>5, <3>1
      <3>2. CASE ~ \E m \in page : n >= m
        <4>1. a \in Nat /\ n \in Nat /\ n >= a
          BY SMT, <1>1, <1>5
        <4>2. a \in E
          BY Zenon, <1>5, <3>2, <4>1
        <4>3. PICK x \in E : x \in page
          BY Zenon, <1>10, <4>2
        <4>4. n <= x
          <5>1. ~(n >= x) /\ x \in Nat
            BY Zenon, <1>1, <3>2, <4>3
          <5> QED BY SMT, <4>1, <5>1
        <4>5. NoHole(E, B) /\ n \in B
          BY Zenon, <1>1, <1>3, <2>1
        <4>6. n \in E
          BY Zenon, <4>2, <4>3, <4>4, <4>5 DEF NoHole
        <4> QED BY Zenon, <1>5, <4>6
      <3> QED BY Zenon, <3>1, <3>2
    <2>2. ASSUME ~rent PROVE NoHole(K, A)
      <3> SUFFICES ASSUME NEW a \in K, NEW b \in K, NEW n \in A, a <= n, n <= b PROVE n \in K
        BY Zenon DEF NoHole
      <3>1. n \in S
        BY Zenon, <1>6, <2>1, <2>2 DEF NoHole
      <3>2. n >= a
        BY SMT, <1>1, <1>8
      <3> QED BY Zenon, <1>6, <3>1, <3>2
    <2>3. ASSUME K \subseteq page PROVE NoHole(K, A)
      <3> SUFFICES ASSUME NEW a \in K, NEW b \in K, NEW n \in A, a <= n, n <= b PROVE n \in K
        BY Zenon DEF NoHole
      <3>1. n >= a
        BY SMT, <1>1, <1>8
      <3>2. n \in page
        BY Zenon, <1>1, <2>3, <3>1
      <3> QED BY Zenon, <1>7, <3>2
    <2>4. ASSUME NoHole(K, A) PROVE NoHole(K, B)
      BY Zenon, <1>1, <1>8, <2>4, HoleWider
    <2> QED BY Zenon, <2>2, <2>3, <2>4
  <1>12. Above(K, torns, page)
    <2>1. ASSUME K # {} PROVE \E e \in K : \A n \in page : e <= n
      <3>1. PICK e \in K : \A n \in K : e <= n
        BY Zenon, <1>8, <2>1, Least
      <3> QED BY Zenon, <1>7, <3>1
    <2>2. ASSUME torns PROVE \E e \in K : \A n \in page : e < n
      <3>1. PICK e \in K : e \notin page
        BY Zenon, <2>2
      <3>2. ASSUME NEW n \in page PROVE e < n
        <4>1. ~(e >= n) /\ e \in Nat /\ n \in Nat
          BY Zenon, <1>1, <1>8, <3>1
        <4> QED BY SMT, <4>1
      <3> QED BY Zenon, <3>2
    <2> QED BY Zenon, <2>1, <2>2 DEF Above
  <1>13. Above(K, torns, Recent(journal, p))
    <2>1. q \in Nat /\ Recent(journal, p) \in SUBSET Nat /\ \A n \in Recent(journal, p) : n \in page \/ n > q
      BY Zenon, <1>1
    <2>2. K \in SUBSET Nat /\ \A n \in K : n <= q
      BY Zenon, <1>8
    <2> QED BY ZenonT(60), <1>12, <2>1, <2>2, AboveMoves
  <1>14. next \in Nat /\ (K = {} => next = 0) /\ (K # {} => CursorOf(next, K, B))
    <2>1. CASE K # S
      <3>1. next = Lowest(K)
        BY Zenon, <1>4, <2>1
      <3>2. K # {}
        <4>1. ASSUME K = {} PROVE FALSE
          <5>1. page = {} /\ E = {}
            BY Zenon, <1>7, <1>8, <4>1
          <5> QED BY Zenon, <1>5, <2>1, <4>1, <5>1
        <4> QED BY Zenon, <4>1
      <3>3. Lowest(K) \in K /\ \A y \in K : Lowest(K) <= y
        BY Zenon, <1>8, <3>2, MinIs
      <3>4. next \in K /\ (\A y \in K : next <= y) /\ next # 0 /\ next \in Nat
        BY Zenon, <1>1, <1>8, <3>1, <3>3
      <3>5. PICK n \in S : n \notin K
        BY Zenon, <1>6, <2>1
      <3>6. n < next
        <4>1. ~(n >= next) /\ n \in Nat
          BY Zenon, <1>5, <1>6, <3>4, <3>5
        <4> QED BY Zenon, <3>4, <4>1, NotAtLeast
      <3>7. n \in B
        BY Zenon, <1>1, <1>5
      <3>8. CursorOf(next, K, B)
        BY Zenon, <3>4, <3>6, <3>7 DEF CursorOf
      <3> QED BY Zenon, <3>2, <3>4, <3>8
    <2>2. CASE K = S /\ E = {}
      <3>1. next = previous /\ K = page
        BY Zenon, <1>4, <2>2
      <3>2. page # {} => CursorOf(previous, page, B)
        <4>1. page \in SUBSET Nat /\ \A n \in page : n <= q
          BY Zenon, <1>1
        <4> QED BY Zenon, <1>1, <1>2, <4>1, CursorWider
      <3>3. page = {} => previous = 0
        BY Zenon, <1>2 DEF CursorOf
      <3> QED BY Zenon, <1>2, <3>1, <3>2, <3>3
    <2>3. CASE K = S /\ E # {}
      <3>1. next = cursor /\ CursorOf(cursor, E, B)
        BY Zenon, <1>3, <1>4, <2>3
      <3>2. PICK e \in E : \A n \in page : e <= n
        BY Zenon, <1>2, <2>3 DEF Above
      <3>3. CASE cursor = 0
        <4>1. \A n \in B : \E m \in S : m <= n
          BY Zenon, <1>5, <3>1, <3>3 DEF CursorOf
        <4> QED BY Zenon, <1>3, <1>9, <2>3, <3>1, <3>3, <4>1 DEF CursorOf
      <3>4. CASE cursor # 0
        <4>1. cursor \in E /\ (\A n \in E : cursor <= n) /\ \E n \in B : n < cursor
          BY Zenon, <3>1, <3>4 DEF CursorOf
        <4>2. ASSUME NEW n \in page PROVE cursor <= n
          <5>1. cursor <= e /\ e <= n /\ cursor \in Nat /\ e \in Nat /\ n \in Nat
            BY Zenon, <1>1, <3>2, <4>1
          <5> QED BY SMT, <5>1
        <4>3. \A n \in S : cursor <= n
          BY Zenon, <1>5, <4>1, <4>2
        <4>4. CursorOf(cursor, S, B)
          BY Zenon, <1>5, <3>4, <4>1, <4>3 DEF CursorOf
        <4> QED BY Zenon, <1>3, <1>9, <2>3, <3>1, <4>4
      <3> QED BY Zenon, <3>3, <3>4
    <2> QED BY Zenon, <2>1, <2>2, <2>3
  <1>15. K \subseteq OwnUpTo(journal, p) /\ K \subseteq E \cup page
    BY Zenon, <1>1, <1>4, <1>6, <1>8 DEF B
  <1> QED BY Zenon, <1>9, <1>11, <1>13, <1>14, <1>15 DEF Held, B

\* Entries of the page come into the window, and its first entry stays.
MovesTo(E, page, before, shifted, K, shifts) ==
  /\ (\A n \in page : before <= n) /\ K \subseteq E \cup page /\ (E # {} => K # {})
  /\ ~shifts => ~shifted /\ Lowest(E) \in K

LEMMA ReadingMoves ==
    ASSUME NEW journal \in Journals, NEW p \in 0..Len(journal), NEW E, E \subseteq OwnUpTo(journal, p),
           NEW shifted, NEW before, Reading(journal, p, E, shifted, before),
           NEW page, NEW K, NEW shifts, MovesTo(E, page, before, shifted, K, shifts)
    PROVE  Reading(journal, p, K, shifts, before)
  <1> SUFFICES ASSUME \A n \in page : before <= n, K \subseteq E \cup page, E # {} => K # {},
                      ~shifts => ~shifted /\ Lowest(E) \in K
               PROVE  Reading(journal, p, K, shifts, before)
    BY Zenon DEF MovesTo
  <1>1. E # {} /\ (\A e \in E : before <= e) /\ (~shifted => before \in E)
    BY Zenon DEF Reading
  <1>2. E \in SUBSET Nat
    BY Zenon, OwnNat
  <1>3. ASSUME ~shifts PROVE before \in K
    <2>1. Lowest(E) \in E /\ \A y \in E : Lowest(E) <= y
      BY Zenon, <1>1, <1>2, MinIs
    <2>2. before \in E /\ Lowest(E) \in K
      BY Zenon, <1>1, <1>3
    <2>3. before <= Lowest(E) /\ Lowest(E) <= before /\ before \in Nat /\ Lowest(E) \in Nat
      BY Zenon, <1>1, <1>2, <2>1, <2>2
    <2>4. before = Lowest(E)
      BY SMT, <2>3
    <2> QED BY Zenon, <2>2, <2>4
  <1> QED BY Zenon, <1>1, <1>3 DEF Reading

-----------------------------------------------------------------------------
(* An older page.                                                          *)

\* An older page is put before the window.
OpensTo(journal, E, rent, shifted, page, K, torns) ==
  K = Earliest(journal, E \cup page) /\ (~torns => ~rent /\ ~shifted)

LEMMA OlderKeeps ==
    ASSUME NEW journal \in Journals, NEW p \in 0..Len(journal),
           NEW E, NEW cursor, NEW rent, Held(journal, p, E, cursor, rent),
           NEW shifted, NEW before, Reading(journal, p, E, shifted, before),
           NEW page, NEW previous, Passed(journal, p, before, page, previous),
           NEW K, NEW torns, OpensTo(journal, E, rent, shifted, page, K, torns)
    PROVE  /\ Held(journal, p, K, previous, torns)
           /\ \A P \in SUBSET Nat : (\A n \in P : before <= n) => Above(K, torns, P)
           /\ \A q \in Nat : E \subseteq 1..q => K \subseteq 1..q
  <1> SUFFICES ASSUME K = Earliest(journal, E \cup page), ~torns => ~rent /\ ~shifted
               PROVE  /\ Held(journal, p, K, previous, torns)
                      /\ \A P \in SUBSET Nat : (\A n \in P : before <= n) => Above(K, torns, P)
                      /\ \A q \in Nat : E \subseteq 1..q => K \subseteq 1..q
    BY Zenon DEF OpensTo
  <1> DEFINE O == OwnUpTo(journal, p)  B == OlderThan(journal, p, before)
  <1>1. E \subseteq O /\ O \in SUBSET Nat /\ p \in Nat /\ O \subseteq 1..p /\ IsFiniteSet(O)
    <2>1. O \in SUBSET OwnUpTo(journal, p)
      BY Zenon
    <2>2. E \subseteq O
      BY Zenon DEF Held
    <2> HIDE DEF O
    <2> QED BY Zenon, <2>1, <2>2, OwnIs
  <1>2. /\ E # {} /\ before \in 1..p /\ B # {} /\ (\A e \in E : before <= e)
        /\ (\A n \in Recent(journal, p) : before <= n) /\ (~shifted => before \in E)
    BY Zenon DEF Reading
  <1>3. page = PageOf(journal, B) /\ previous \in Nat /\ CursorOf(previous, page, B)
    BY Zenon DEF Passed
  <1>4. B \in SUBSET O /\ \A n \in O : n \in B <=> n < before
    BY Zenon DEF OlderThan
  <1>5. page \subseteq B /\ (\A n \in page : \A m \in B : m >= n => m \in page) /\ page # {}
    <2>1. /\ PageOf(journal, B) \subseteq B
          /\ \A n \in PageOf(journal, B) : \A m \in B : m >= n => m \in PageOf(journal, B)
          /\ B # {} => PageOf(journal, B) # {}
      <3> HIDE DEF B
      <3> QED BY Zenon, <1>4, PageIs DEF O
    <2> QED BY Zenon, <1>2, <1>3, <2>1
  <1>6. ~rent => NoHole(E, O)
    BY Zenon DEF Held
  <1> HIDE DEF O, B
  <1>7. before \in Nat
    BY SMT, <1>1, <1>2
  <1>8. page \in SUBSET Nat /\ E \in SUBSET Nat /\ \A n \in page : n < before
    BY Zenon, <1>1, <1>4, <1>5
  <1>9. \A n \in page : \A e \in Nat : before <= e => n <= e /\ n < e
    BY SMT, <1>7, <1>8
  <1>10. PICK S : S = E \cup page
    BY Zenon
  <1>11. /\ S \subseteq O /\ S \in SUBSET Nat /\ IsFiniteSet(S) /\ page \subseteq S /\ E \subseteq S
         /\ (\A n \in S : n \in E \/ n \in page) /\ \A n \in S : n <= p
    <2>1. S \subseteq O
      BY Zenon, <1>1, <1>4, <1>5, <1>10
    <2>2. IsFiniteSet(S)
      BY Zenon, <1>1, <2>1, FS_Subset
    <2>3. \A n \in O : n <= p
      BY SMT, <1>1
    <2> QED BY Zenon, <1>1, <1>10, <2>1, <2>2, <2>3
  <1>12. /\ K \subseteq S
         /\ \A n \in K : \A m \in S : m <= n => m \in K
         /\ K # {} => FitsIn(journal, K, Keep, 3, KeepBytes)
         /\ \A low \in S : (\A m \in S : low <= m) => low \in K
    <2>1. K = Earliest(journal, S)
      BY Zenon, <1>10
    <2>2. /\ \A n \in Earliest(journal, S) : \A m \in S : m <= n => m \in Earliest(journal, S)
          /\ Earliest(journal, S) # {} => FitsIn(journal, Earliest(journal, S), Keep, 3, KeepBytes)
          /\ \A low \in S : (\A m \in S : low <= m) => low \in Earliest(journal, S)
      BY Zenon, <1>1, <1>11, EarliestIs
    <2>3. Earliest(journal, S) \subseteq S
      BY Zenon DEF Earliest
    <2> QED BY Zenon, <2>1, <2>2, <2>3
  <1>13. ASSUME NEW low \in page, \A n \in page : low <= n PROVE low \in K /\ \A n \in S : low <= n
    <2>1. \A n \in S : low <= n
      BY Zenon, <1>2, <1>8, <1>9, <1>11, <1>13
    <2> QED BY Zenon, <1>11, <1>12, <2>1
  <1>14. PICK low \in page : \A n \in page : low <= n
    BY Zenon, <1>5, <1>8, Least
  <1>15. low \in K /\ (\A n \in S : low <= n) /\ low \in Nat /\ low < before
    BY Zenon, <1>8, <1>13, <1>14
  <1>16. ASSUME ~torns PROVE NoHole(K, O)
    <2> SUFFICES ASSUME NEW a \in K, NEW b \in K, NEW n \in O, a <= n, n <= b PROVE n \in K
      BY Zenon DEF NoHole
    <2>1. a \in Nat /\ b \in Nat /\ n \in Nat /\ a \in S /\ b \in S
      BY Zenon, <1>1, <1>11, <1>12
    <2>2. before \in E /\ NoHole(E, O)
      BY Zenon, <1>2, <1>6, <1>16
    <2>3. CASE n < before
      <3>1. ~(before <= a) /\ n >= a
        BY SMT, <1>7, <2>1, <2>3
      <3>2. a \in page
        BY Zenon, <1>2, <1>11, <2>1, <3>1
      <3>3. n \in page
        BY Zenon, <1>4, <1>5, <2>3, <3>1, <3>2
      <3> QED BY Zenon, <1>11, <1>12, <3>3
    <2>4. CASE ~(n < before)
      <3>1. before <= n /\ ~(b < before)
        BY SMT, <1>7, <2>1, <2>4
      <3>2. b \in E
        BY Zenon, <1>8, <1>11, <2>1, <3>1
      <3>3. n \in E
        BY Zenon, <2>2, <3>1, <3>2 DEF NoHole
      <3> QED BY Zenon, <1>11, <1>12, <3>3
    <2> QED BY Zenon, <2>3, <2>4
  <1>17. CursorOf(previous, K, O)
    <2>1. CASE previous = 0
      <3> SUFFICES ASSUME NEW n \in O PROVE low <= n
        BY Zenon, <1>15, <2>1 DEF CursorOf
      <3>1. n \in Nat
        BY Zenon, <1>1
      <3>2. CASE n \in B
        <4>1. PICK m \in page : m <= n
          BY Zenon, <1>3, <2>1, <3>2 DEF CursorOf
        <4>2. low <= m /\ m \in Nat
          BY Zenon, <1>8, <1>14
        <4> QED BY SMT, <1>15, <3>1, <4>1, <4>2
      <3>3. CASE n \notin B
        <4>1. ~(n < before)
          BY Zenon, <1>4, <3>3
        <4> QED BY SMT, <1>7, <1>15, <3>1, <4>1
      <3> QED BY Zenon, <3>2, <3>3
    <2>2. CASE previous # 0
      <3>1. previous \in page /\ (\A n \in page : previous <= n) /\ \E n \in B : n < previous
        BY Zenon, <1>3, <2>2 DEF CursorOf
      <3>2. previous \in K /\ \A n \in S : previous <= n
        BY Zenon, <1>13, <3>1
      <3>3. \E n \in O : n < previous
        BY Zenon, <1>4, <3>1
      <3> QED BY Zenon, <1>12, <2>2, <3>2, <3>3 DEF CursorOf
    <2> QED BY Zenon, <2>1, <2>2
  <1>18. ASSUME NEW P \in SUBSET Nat, \A n \in P : before <= n PROVE Above(K, torns, P)
    <2>1. \A n \in P : low <= n /\ low < n
      BY Zenon, <1>9, <1>18
    <2> QED BY Zenon, <1>15, <2>1 DEF Above
  <1>19. Above(K, torns, Recent(journal, p))
    <2>1. Recent(journal, p) \in SUBSET Nat
      BY Zenon, OwnNat, RecentIs
    <2> QED BY Zenon, <1>2, <1>18, <2>1
  <1>20. ASSUME NEW q \in Nat, E \subseteq 1..q PROVE K \subseteq 1..q
    <2>1. PICK e \in E : e \in 1..q /\ before <= e
      BY Zenon, <1>2, <1>20
    <2>2. O \subseteq 1..p
      BY Zenon, <1>1
    <2>3. ASSUME NEW n \in page PROVE n \in 1..q
      <3>1. n < before /\ n \in 1..p
        BY Zenon, <1>4, <1>5, <1>8, <2>2
      <3> QED BY SMT, <1>1, <1>7, <2>1, <3>1
    <2> QED BY Zenon, <1>11, <1>12, <1>20, <2>3
  <1>21. K \subseteq OwnUpTo(journal, p) /\ K # {} /\ FitsIn(journal, K, Keep, 3, KeepBytes)
    BY Zenon, <1>11, <1>12, <1>15 DEF O
  <1>22. Held(journal, p, K, previous, torns)
    BY Zenon, <1>3, <1>16, <1>17, <1>19, <1>21 DEF Held, O
  <1> QED BY Zenon, <1>18, <1>20, <1>22

-----------------------------------------------------------------------------
(* The steps.                                                              *)

LEMMA ReadsAre ==
    /\ NoPageRead.at = "idle" /\ "idle" # "sent" /\ "idle" # "answered" /\ "sent" # "answered"
    /\ \A before : ReadSent(before).at = "sent" /\ ReadSent(before).before = before
    /\ \A before, page, cursor :
          LET read == [at |-> "answered", before |-> before, page |-> page, previous |-> cursor]
          IN  read.at = "answered" /\ read.before = before /\ read.page = page /\ read.previous = cursor
  BY SMT DEF NoPageRead, ReadSent

LEMMA HeldSame ==
    ASSUME NEW journal, NEW p, NEW E, NEW cursor, NEW rent, NEW torns, rent <=> torns,
           Held(journal, p, E, cursor, rent)
    PROVE  Held(journal, p, E, cursor, torns)
  BY Zenon DEF Held, Above

LEMMA OursIs == Ours = OwnUpTo(publications, published)
  BY Zenon DEF Ours, OwnUpTo

\* A step that leaves the window alone.
WindowSame ==
  /\ publications' = publications /\ published' = published /\ entries' = entries
  /\ older' = older /\ torn' = torn

LEMMA WindowStays ==
    ASSUME WindowInv, WindowSame, PollFact', OlderFact'
    PROVE  WindowInv'
  BY Zenon DEF WindowInv, WindowSame

LEMMA WindowStart == ASSUME WindowInit PROVE WindowInv
  <1>1. /\ publications \in Journals /\ published = 0 /\ entries = {} /\ older = 0 /\ torn = FALSE
        /\ poll = ReadSent(0) /\ olderRead = NoPageRead
    BY Zenon DEF WindowInit
  <1>2. Len(publications) \in Nat
    BY Zenon, <1>1, JournalIs
  <1>3. 0 \in 0..Len(publications) /\ 0 \in Nat
    BY SMT, <1>2
  <1>4. FitsIn(publications, {}, Keep, 3, KeepBytes)
    <2>1. {} \subseteq {0} /\ IsFiniteSet({})
      BY Zenon, FS_EmptySet
    <2>2. FitsIn(publications, {}, PageEntries, 3, PageBytes)
      BY Zenon, <1>1, <1>3, <2>1, FitsOne, LimitsAre
    <2> QED BY Zenon, <1>1, <2>1, <2>2, FitsWindow
  <1>5. Held(publications, 0, {}, 0, FALSE)
    BY Zenon, <1>3, <1>4 DEF Held, NoHole, Above
  <1>6. PollFact
    BY Zenon, <1>1, ReadsAre DEF PollFact
  <1>7. OlderFact
    BY Zenon, <1>1, ReadsAre DEF OlderFact
  <1> QED BY Zenon, <1>1, <1>3, <1>5, <1>6, <1>7 DEF WindowInv

LEMMA PublishNextKeeps == ASSUME WindowInv, PublishNext PROVE WindowInv'
  <1>1. /\ published < Len(publications) /\ published' = published + 1 /\ publications' = publications
        /\ entries' = entries /\ older' = older /\ torn' = torn /\ poll' = poll
        /\ olderRead' = olderRead /\ moved' = moved
    BY Zenon DEF PublishNext
  <1>2. publications \in Journals /\ published \in 0..Len(publications)
        /\ Held(publications, published, entries, older, torn)
    BY Zenon DEF WindowInv
  <1>3. Len(publications) \in Nat
    BY Zenon, <1>2, JournalIs
  <1>4. PICK r : r = published + 1
    BY Zenon
  <1>5. r \in 0..Len(publications) /\ published <= r /\ \A q \in 0..published : q \in 0..r
    BY SMT, <1>1, <1>2, <1>3, <1>4
  <1>6. Held(publications, r, entries, older, torn)
    BY Zenon, <1>2, <1>5, HeldGrows
  <1>7. PollFact'
    BY Zenon, <1>1, <1>4, <1>5 DEF WindowInv, PollFact
  <1>8. OlderFact'
    <2>1. ASSUME olderRead.at # "idle"
          PROVE  Reading(publications, r, entries, moved, olderRead.before)
      <3>1. Reading(publications, published, entries, moved, olderRead.before)
        BY Zenon, <2>1 DEF WindowInv, OlderFact
      <3> QED BY Zenon, <1>2, <1>5, <3>1, ReadingGrows
    <2>2. ASSUME olderRead.at = "answered"
          PROVE  Passed(publications, r, olderRead.before, olderRead.page, olderRead.previous)
      <3>1. Passed(publications, published, olderRead.before, olderRead.page, olderRead.previous)
            /\ olderRead.before \in 1..published
        BY Zenon, <2>2, ReadsAre DEF WindowInv, OlderFact, Reading
      <3>2. OlderThan(publications, r, olderRead.before) = OlderThan(publications, published, olderRead.before)
        BY Zenon, <1>2, <1>5, <3>1, OlderSame
      <3> QED BY Zenon, <3>1, <3>2 DEF Passed
    <2> QED BY Zenon, <1>1, <1>4, <2>1, <2>2 DEF OlderFact
  <1> QED BY Zenon, <1>1, <1>2, <1>4, <1>5, <1>6, <1>7, <1>8 DEF WindowInv

LEMMA ScrollKeeps == ASSUME WindowInv, Scroll PROVE WindowInv'
  <1>1. WindowSame /\ poll' = poll /\ olderRead' = olderRead /\ moved' = moved
    BY Zenon DEF Scroll, WindowSame
  <1>2. PollFact' /\ OlderFact'
    BY Zenon, <1>1 DEF WindowInv, WindowSame, PollFact, OlderFact
  <1> QED BY Zenon, <1>1, <1>2, WindowStays

\* The reads are dropped, or the newest page is read anew.
LEMMA ReadsDropped ==
    ASSUME WindowInv, WindowSame, poll' = NoPageRead \/ poll' = ReadSent(0), olderRead' = NoPageRead
    PROVE  WindowInv'
  <1>1. PollFact' /\ OlderFact'
    BY Zenon, ReadsAre DEF PollFact, OlderFact
  <1> QED BY Zenon, <1>1, WindowStays

LEMMA PollDropped ==
    ASSUME WindowInv, WindowSame, poll' = NoPageRead \/ poll' = ReadSent(0), olderRead' = olderRead,
           moved' = moved
    PROVE  WindowInv'
  <1>1. PollFact'
    BY Zenon, ReadsAre DEF PollFact
  <1>2. OlderFact'
    BY Zenon DEF WindowInv, WindowSame, OlderFact
  <1> QED BY Zenon, <1>1, <1>2, WindowStays

LEMMA OlderFailsKeeps == ASSUME WindowInv, OlderFails PROVE WindowInv'
  <1>1. WindowSame /\ poll' = poll /\ olderRead' = NoPageRead
    BY Zenon DEF OlderFails, WindowSame
  <1>2. OlderFact'
    BY Zenon, <1>1, ReadsAre DEF OlderFact
  <1>3. PollFact'
    BY Zenon, <1>1, ReadsAre DEF WindowInv, WindowSame, PollFact
  <1> QED BY Zenon, <1>1, <1>2, <1>3, WindowStays

LEMMA PollAnsweredKeeps == ASSUME WindowInv, PollAnswered PROVE WindowInv'
  <1>1. poll.at = "sent" /\ poll' = Answered(poll) /\ WindowSame /\ olderRead' = olderRead /\ moved' = moved
    BY Zenon DEF PollAnswered, WindowSame
  <1>2. publications \in Journals /\ published \in 0..Len(publications)
        /\ Held(publications, published, entries, older, torn)
    BY Zenon DEF WindowInv
  <1>3. poll.before = 0
    BY Zenon, <1>1 DEF WindowInv, PollFact
  <1>4. {n \in Ours : poll.before = 0 \/ n < poll.before} = Ours /\ Ours \in SUBSET Ours
    BY Zenon, <1>3
  <1>5. PICK cursor \in Nat :
             /\ Answered(poll) = [at |-> "answered", before |-> poll.before,
                                  page |-> PageOf(publications, Ours), previous |-> cursor]
             /\ CursorOf(cursor, PageOf(publications, Ours), Ours)
    BY Zenon, <1>2, <1>4, AnsweredIs
  <1>6. PageOf(publications, Ours) = Recent(publications, published)
    BY Zenon, OursIs DEF Recent
  <1>7. poll'.at = "answered" /\ poll'.page = Recent(publications, published) /\ poll'.previous = cursor
    BY SMT, <1>1, <1>5, <1>6
  <1>8. published \in 0..published /\ published \in Nat
    <2>1. Len(publications) \in Nat
      BY Zenon, <1>2, JournalIs
    <2> QED BY SMT, <1>2, <2>1
  <1>9. Polled(publications, published, entries, torn, Recent(publications, published), cursor)
    <2>1. CursorOf(cursor, Recent(publications, published), OwnUpTo(publications, published))
      BY Zenon, <1>5, <1>6, OursIs
    <2>2. entries \subseteq 1..published /\ Above(entries, torn, Recent(publications, published))
      BY Zenon, <1>2 DEF Held, OwnUpTo
    <2> QED BY Zenon, <2>1, <2>2 DEF Polled
  <1>10. ASSUME olderRead.at # "idle" PROVE \A n \in Recent(publications, published) : olderRead.before <= n
    BY Zenon, <1>10 DEF WindowInv, OlderFact, Reading
  <1>11. PollFact'
    BY Zenon, <1>1, <1>7, <1>8, <1>9, <1>10, ReadsAre DEF PollFact, WindowSame
  <1>12. OlderFact'
    BY Zenon, <1>1 DEF WindowInv, WindowSame, OlderFact
  <1> QED BY Zenon, <1>1, <1>11, <1>12, WindowStays

LEMMA LoadOlderKeeps == ASSUME WindowInv, loadOlder PROVE WindowInv'
  <1>1. /\ older # 0 /\ olderRead' = ReadSent(older) /\ moved' = FALSE /\ WindowSame /\ poll' = poll
    BY Zenon DEF loadOlder, WindowSame
  <1>2. publications \in Journals /\ published \in 0..Len(publications)
        /\ Held(publications, published, entries, older, torn)
    BY Zenon DEF WindowInv
  <1>3. /\ Reading(publications, published, entries, FALSE, older)
        /\ \A P \in SUBSET Nat : Above(entries, torn, P) => \A n \in P : older <= n
    BY Zenon, <1>1, <1>2, ReadingStarts
  <1>4. olderRead'.at = "sent" /\ olderRead'.before = older
    BY Zenon, <1>1, ReadsAre
  <1>5. OlderFact'
    BY Zenon, <1>1, <1>3, <1>4, ReadsAre DEF OlderFact, WindowSame
  <1>6. PollFact'
    <2>1. ASSUME poll.at = "answered"
          PROVE  \E q \in 0..published : Polled(publications, q, entries, torn, poll.page, poll.previous)
                                         /\ \A n \in poll.page : older <= n
      <3>1. PICK q \in 0..published : Polled(publications, q, entries, torn, poll.page, poll.previous)
        BY Zenon, <2>1 DEF WindowInv, PollFact
      <3>2. poll.page \in SUBSET Nat /\ Above(entries, torn, poll.page)
        <4>1. Met(entries, poll.page, q, OwnUpTo(publications, q), OwnUpTo(publications, published),
                  Recent(publications, published))
          BY Zenon, <1>2, <3>1, PolledIs
        <4>2. Above(entries, torn, poll.page)
          BY Zenon, <3>1 DEF Polled
        <4> QED BY Zenon, <4>1, <4>2 DEF Met
      <3> QED BY Zenon, <1>3, <3>1, <3>2
    <2>2. poll.at = "sent" => poll.before = 0
      BY Zenon DEF WindowInv, PollFact
    <2> QED BY Zenon, <1>1, <1>4, <2>1, <2>2 DEF PollFact, WindowSame
  <1> QED BY Zenon, <1>1, <1>5, <1>6, WindowStays

LEMMA OlderAnsweredKeeps == ASSUME WindowInv, OlderAnswered PROVE WindowInv'
  <1>1. olderRead.at = "sent" /\ olderRead' = Answered(olderRead) /\ WindowSame /\ poll' = poll /\ moved' = moved
    BY Zenon DEF OlderAnswered, WindowSame
  <1>2. publications \in Journals /\ published \in 0..Len(publications)
    BY Zenon DEF WindowInv
  <1>3. Reading(publications, published, entries, moved, olderRead.before) /\ olderRead.at # "idle"
    BY Zenon, <1>1, ReadsAre DEF WindowInv, OlderFact
  <1>4. olderRead.before # 0
    <2>1. olderRead.before \in 1..published
      BY Zenon, <1>3 DEF Reading
    <2> QED BY SMT, <2>1
  <1>5. PICK B : B = OlderThan(publications, published, olderRead.before)
    BY Zenon
  <1>6. {n \in Ours : olderRead.before = 0 \/ n < olderRead.before} = B /\ B \in SUBSET Ours
    BY Zenon, <1>4, <1>5, OursIs DEF OlderThan
  <1>7. PICK cursor \in Nat :
             /\ Answered(olderRead) = [at |-> "answered", before |-> olderRead.before,
                                       page |-> PageOf(publications, B), previous |-> cursor]
             /\ CursorOf(cursor, PageOf(publications, B), B)
    BY Zenon, <1>2, <1>6, AnsweredIs
  <1>8. /\ olderRead'.at = "answered" /\ olderRead'.before = olderRead.before
        /\ olderRead'.page = PageOf(publications, B) /\ olderRead'.previous = cursor
    BY SMT, <1>1, <1>7
  <1>9. Passed(publications, published, olderRead.before, PageOf(publications, B), cursor)
    BY Zenon, <1>5, <1>7 DEF Passed
  <1>10. OlderFact'
    BY Zenon, <1>1, <1>3, <1>8, <1>9, ReadsAre DEF OlderFact, WindowSame
  <1>11. PollFact'
    BY Zenon, <1>1, <1>3, <1>8 DEF WindowInv, PollFact, WindowSame
  <1> QED BY Zenon, <1>1, <1>10, <1>11, WindowStays

LEMMA PollAppliedKeeps == ASSUME WindowInv, PollApplied PROVE WindowInv'
  <1> DEFINE next == poll.page
  <1>1. /\ poll.at = "answered" /\ poll' = NoPageRead
        /\ \/ ReplaceLatest(next, poll.previous)
           \/ UNCHANGED <<entries, older>>
           \/ ~newerWindow(next) /\ MergeLatest(next, poll.previous)
        /\ moved' = (moved \/ (olderRead # NoPageRead /\ ~ (Lowest(entries) \in entries')))
        /\ torn' = (torn /\ ~ (entries' \subseteq next))
        /\ publications' = publications /\ published' = published /\ olderRead' = olderRead
    BY Zenon DEF PollApplied
  <1>2. publications \in Journals /\ published \in 0..Len(publications)
        /\ Held(publications, published, entries, older, torn)
    BY Zenon DEF WindowInv
  <1>3. PICK q \in 0..published :
           /\ Polled(publications, q, entries, torn, next, poll.previous)
           /\ olderRead.at # "idle" => \A n \in next : olderRead.before <= n
    BY Zenon, <1>1 DEF WindowInv, PollFact
  <1>4. torn => ~(entries \subseteq next)
    <2>1. ASSUME torn, entries \subseteq next PROVE FALSE
      <3>1. PICK e \in entries : \A n \in next : e < n
        BY Zenon, <1>3, <2>1 DEF Polled, Above
      <3>2. e < e
        BY Zenon, <2>1, <3>1
      <3>3. e \in Nat
        BY Zenon, <1>2, OwnNat DEF Held
      <3> QED BY SMT, <3>2, <3>3
    <2> QED BY Zenon, <2>1
  <1>5. ASSUME entries' = entries, older' = older
        PROVE  Held(publications, published, entries', older', torn')
    <2>1. torn <=> torn'
      BY Zenon, <1>1, <1>4, <1>5
    <2> QED BY Zenon, <1>2, <1>5, <2>1, HeldSame
  <1>6. /\ Held(publications, published, entries', older', torn')
        /\ entries' \subseteq entries \cup next /\ (entries # {} => entries' # {})
    <2>1. CASE ReplaceLatest(next, poll.previous)
      <3>1. entries' = next /\ older' = poll.previous
        BY Zenon, <2>1 DEF ReplaceLatest
      <3>2. Held(publications, published, next, poll.previous, FALSE) /\ (entries # {} => next # {})
        BY Zenon, <1>2, <1>3, ReplaceKeeps
      <3>3. FALSE <=> torn'
        BY Zenon, <1>1, <3>1
      <3>4. Held(publications, published, next, poll.previous, torn')
        BY Zenon, <3>2, <3>3, HeldSame
      <3> QED BY Zenon, <3>1, <3>2, <3>4
    <2>2. CASE UNCHANGED <<entries, older>>
      BY Zenon, <1>5, <2>2
    <2>3. CASE ~newerWindow(next) /\ MergeLatest(next, poll.previous)
      <3>1. CASE ~pinned /\ entries # {}
        <4>1. entries \cup (next \cap entries) = entries
          BY Zenon
        <4>2. boundLatest(entries) = Latest(publications, entries, Keep, 3, KeepBytes)
          BY Zenon DEF boundLatest, Fitting, Fits, Latest, FitsIn, From
        <4>3. entries \in SUBSET OwnUpTo(publications, published)
              /\ FitsIn(publications, entries, Keep, 3, KeepBytes)
          BY Zenon, <1>2 DEF Held
        <4>4. IsFiniteSet(entries)
          BY Zenon, <1>2, <4>3, OwnIs
        <4>5. Latest(publications, entries, Keep, 3, KeepBytes) = entries
          BY Zenon, <1>2, <4>3, <4>4, LatestAll, LimitsAre
        <4>6. entries' = entries /\ older' = older
          BY Zenon, <2>3, <3>1, <4>1, <4>2, <4>5 DEF MergeLatest
        <4> QED BY Zenon, <1>5, <4>6
      <3>2. CASE ~(~pinned /\ entries # {})
        <4> DEFINE merged == entries \cup next
        <4>1. boundLatest(merged) = Latest(publications, merged, Keep, 3, KeepBytes)
          BY Zenon DEF boundLatest, Fitting, Fits, Latest, FitsIn, From
        <4>2. /\ entries' = boundLatest(merged)
              /\ older' = IF boundLatest(merged) # merged THEN Lowest(boundLatest(merged))
                          ELSE IF entries = {} THEN poll.previous ELSE older
          BY Zenon, <2>3, <3>2 DEF MergeLatest
        <4>3. ~(entries # {} /\ next # {} /\ next \cap entries = {} /\ Lowest(next) > Highest(entries))
          BY Zenon, <2>3 DEF newerWindow
        <4>4. PICK K : K = entries'
          BY Zenon
        <4>5. PICK cursor : cursor = older'
          BY Zenon
        <4>6. PICK torns : torns = torn'
          BY Zenon
        <4>7. K = Latest(publications, entries \cup next, Keep, 3, KeepBytes)
          BY Zenon, <4>1, <4>2, <4>4
        <4>8. cursor = IF K # entries \cup next THEN Lowest(K) ELSE IF entries = {} THEN poll.previous ELSE older
          BY Zenon, <4>2, <4>4, <4>5
        <4>9. (torns => torn) /\ (torns => ~(K \subseteq next)) /\ (~torns => ~torn \/ K \subseteq next)
          BY Zenon, <1>1, <4>4, <4>6
        <4>10. /\ Held(publications, published, K, cursor, torns)
               /\ K \subseteq entries \cup next /\ (entries # {} => K # {})
          <5> HIDE DEF next
          <5>1. MergesTo(publications, entries, older, torn, next, poll.previous, K, cursor, torns)
            BY SMT, <4>3, <4>7, <4>8, <4>9 DEF MergesTo
          <5>2. /\ publications \in Journals /\ published \in 0..Len(publications) /\ q \in 0..published
                /\ Held(publications, published, entries, older, torn)
                /\ Polled(publications, q, entries, torn, next, poll.previous)
            BY Zenon, <1>2, <1>3
          <5> QED BY SMTT(60), <5>1, <5>2, MergeKeeps
        <4> QED BY Zenon, <4>4, <4>5, <4>6, <4>10
      <3> QED BY Zenon, <3>1, <3>2
    <2> QED BY Zenon, <1>1, <2>1, <2>2, <2>3
  <1>7. PollFact'
    BY Zenon, <1>1, ReadsAre DEF PollFact
  <1>8. OlderFact'
    <2>1. ASSUME olderRead.at # "idle"
          PROVE  Reading(publications, published, entries', moved', olderRead.before)
      <3>1. Reading(publications, published, entries, moved, olderRead.before)
        BY Zenon, <2>1 DEF WindowInv, OlderFact
      <3>2. olderRead # NoPageRead
        BY Zenon, <2>1, ReadsAre
      <3>3. PICK K : K = entries'
        BY Zenon
      <3>4. PICK shifts : shifts = moved'
        BY Zenon
      <3>5. ~shifts => ~moved /\ Lowest(entries) \in K
        BY Zenon, <1>1, <3>2, <3>3, <3>4
      <3>6. K \subseteq entries \cup next /\ (entries # {} => K # {}) /\ \A n \in next : olderRead.before <= n
        BY Zenon, <1>3, <1>6, <2>1, <3>3
      <3>7. entries \subseteq OwnUpTo(publications, published)
        BY Zenon, <1>2 DEF Held
      <3>8. Reading(publications, published, K, shifts, olderRead.before)
        <4>1. MovesTo(entries, next, olderRead.before, moved, K, shifts)
          BY Zenon, <3>5, <3>6 DEF MovesTo
        <4> HIDE DEF next
        <4> QED BY Zenon, <1>2, <3>1, <3>7, <4>1, ReadingMoves
      <3> QED BY Zenon, <3>3, <3>4, <3>8
    <2>2. olderRead.at = "answered" =>
             Passed(publications, published, olderRead.before, olderRead.page, olderRead.previous)
      BY Zenon DEF WindowInv, OlderFact
    <2> QED BY Zenon, <1>1, <2>1, <2>2 DEF OlderFact
  <1> QED BY Zenon, <1>1, <1>2, <1>6, <1>7, <1>8 DEF WindowInv

LEMMA OlderAppliedKeeps == ASSUME WindowInv, OlderApplied PROVE WindowInv'
  <1> DEFINE merged == entries \cup olderRead.page
  <1>1. /\ olderRead.at = "answered" /\ entries' = boundOldest(merged) /\ older' = olderRead.previous
        /\ olderRead' = NoPageRead /\ torn' = (torn \/ moved)
        /\ publications' = publications /\ published' = published /\ poll' = poll
    BY Zenon DEF OlderApplied
  <1>2. publications \in Journals /\ published \in 0..Len(publications)
        /\ Held(publications, published, entries, older, torn)
    BY Zenon DEF WindowInv
  <1>3. /\ olderRead.at # "idle"
        /\ Reading(publications, published, entries, moved, olderRead.before)
        /\ Passed(publications, published, olderRead.before, olderRead.page, olderRead.previous)
    BY Zenon, <1>1, ReadsAre DEF WindowInv, OlderFact
  <1>4. boundOldest(merged) = Earliest(publications, merged)
    BY Zenon DEF boundOldest, Fits, Earliest, FitsIn, UpToOf
  <1>5. PICK K : K = entries'
    BY Zenon
  <1>6. PICK torns : torns = torn'
    BY Zenon
  <1>7. K = Earliest(publications, entries \cup olderRead.page) /\ (~torns => ~torn /\ ~moved)
    BY Zenon, <1>1, <1>4, <1>5, <1>6
  <1>8. /\ Held(publications, published, K, olderRead.previous, torns)
        /\ \A P \in SUBSET Nat : (\A n \in P : olderRead.before <= n) => Above(K, torns, P)
        /\ \A q \in Nat : entries \subseteq 1..q => K \subseteq 1..q
    <2>1. OpensTo(publications, entries, torn, moved, olderRead.page, K, torns)
      BY Zenon, <1>7 DEF OpensTo
    <2> QED BY Zenon, <1>2, <1>3, <2>1, OlderKeeps
  <1>9. PollFact'
    <2>1. ASSUME poll.at = "answered"
          PROVE  \E q \in 0..published : Polled(publications, q, K, torns, poll.page, poll.previous)
      <3>1. PICK q \in 0..published : /\ Polled(publications, q, entries, torn, poll.page, poll.previous)
                                      /\ \A n \in poll.page : olderRead.before <= n
        BY Zenon, <1>3, <2>1 DEF WindowInv, PollFact
      <3>2. poll.page \in SUBSET Nat /\ q \in Nat
        <4>1. Met(entries, poll.page, q, OwnUpTo(publications, q), OwnUpTo(publications, published),
                  Recent(publications, published))
          BY Zenon, <1>2, <3>1, PolledIs
        <4> QED BY Zenon, <4>1 DEF Met
      <3>3. Above(K, torns, poll.page)
        BY Zenon, <1>8, <3>1, <3>2
      <3>4. K \subseteq 1..q
        BY Zenon, <1>8, <3>1, <3>2 DEF Polled
      <3>5. Polled(publications, q, K, torns, poll.page, poll.previous)
        BY Zenon, <3>1, <3>3, <3>4 DEF Polled
      <3> QED BY Zenon, <3>5
    <2>2. poll.at = "sent" => poll.before = 0
      BY Zenon DEF WindowInv, PollFact
    <2> QED BY Zenon, <1>1, <1>5, <1>6, <2>1, <2>2, ReadsAre DEF PollFact
  <1>10. OlderFact'
    BY Zenon, <1>1, ReadsAre DEF OlderFact
  <1> QED BY Zenon, <1>1, <1>2, <1>5, <1>6, <1>8, <1>9, <1>10 DEF WindowInv

LEMMA WindowStep == WindowInv /\ [WindowNext]_windowVars => WindowInv'
  <1> SUFFICES ASSUME WindowInv, [WindowNext]_windowVars PROVE WindowInv'
    BY Zenon
  <1>1. CASE UNCHANGED windowVars
    <2>1. WindowSame /\ poll' = poll /\ olderRead' = olderRead /\ moved' = moved
      BY Zenon, <1>1 DEF windowVars, WindowSame
    <2>2. PollFact' /\ OlderFact'
      BY Zenon, <2>1 DEF WindowInv, WindowSame, PollFact, OlderFact
    <2> QED BY Zenon, <2>1, <2>2, WindowStays
  <1>2. CASE Restart \/ returnToLatest
    <2>1. WindowSame /\ poll' = ReadSent(0) /\ olderRead' = NoPageRead
      BY Zenon, <1>2 DEF Restart, returnToLatest, Effect, WindowSame
    <2> QED BY Zenon, <2>1, ReadsDropped
  <1>3. CASE Disconnected
    <2>1. WindowSame /\ poll' = NoPageRead /\ olderRead' = NoPageRead
      BY Zenon, <1>3 DEF Disconnected, WindowSame
    <2> QED BY Zenon, <2>1, ReadsDropped
  <1>4. CASE PollSend \/ PollFails
    <2>1. WindowSame /\ (poll' = NoPageRead \/ poll' = ReadSent(0)) /\ olderRead' = olderRead /\ moved' = moved
      BY Zenon, <1>4 DEF PollSend, PollFails, WindowSame
    <2> QED BY Zenon, <2>1, PollDropped
  <1> QED BY Zenon, <1>1, <1>2, <1>3, <1>4, PublishNextKeeps, ScrollKeeps, PollAnsweredKeeps,
             PollAppliedKeeps, LoadOlderKeeps, OlderAnsweredKeeps, OlderFailsKeeps, OlderAppliedKeeps
          DEF WindowNext

\* The inductive invariant of the conversation window (useConversationHistory.ts,
\* chat-timeline.ts): the window is whole and knows where it ends, it reaches down
\* to every newest page the store can answer, and each read in flight was sent
\* from a cursor the window had.
THEOREM WindowInvariant == WindowSpec => []WindowInv
  <1>1. WindowInit => WindowInv
    BY Zenon, WindowStart
  <1> QED BY PTL, <1>1, WindowStep DEF WindowSpec

\* Whatever is published, polled, read and evicted, the window has no hole that an
\* older page read across a move of the window did not tear, and "Load older
\* messages" continues at its first entry (useConversationHistory.ts).
THEOREM WindowsWhole == WindowSpec => []WindowWhole
  <1>1. ASSUME WindowInv PROVE WindowWhole
    <2> SUFFICES ASSUME entries # {}
                 PROVE  /\ ~torn => \A n \in Ours : n \in Lowest(entries)..Highest(entries) => n \in entries
                        /\ IF older = 0 THEN \A n \in Ours : n >= Lowest(entries) ELSE older = Lowest(entries)
      BY Zenon DEF WindowWhole
    <2>1. /\ publications \in Journals /\ published \in 0..Len(publications)
          /\ entries \in SUBSET OwnUpTo(publications, published)
          /\ CursorOf(older, entries, Ours) /\ (~torn => NoHole(entries, Ours))
      BY Zenon, <1>1, OursIs DEF WindowInv, Held
    <2>2. entries \in SUBSET Nat /\ entries \subseteq 1..published /\ published \in Nat
      BY Zenon, <2>1, OwnIs
    <2>3. Ours \in SUBSET Nat
      BY Zenon, <2>1, OursIs, OwnNat
    <2>4. \A y \in entries : y <= published
      BY SMT, <2>2
    <2>5. Highest(entries) \in entries
      BY Zenon, <2>2, <2>4, MaxIs
    <2>6. Lowest(entries) \in entries /\ \A y \in entries : Lowest(entries) <= y
      BY Zenon, <2>2, MinIs
    <2>7. ASSUME ~torn, NEW n \in Ours, n \in Lowest(entries)..Highest(entries) PROVE n \in entries
      <3>1. Lowest(entries) \in Nat /\ Highest(entries) \in Nat
        BY Zenon, <2>2, <2>5, <2>6
      <3>2. Lowest(entries) <= n /\ n <= Highest(entries)
        BY SMT, <2>7, <3>1
      <3> QED BY Zenon, <2>1, <2>5, <2>6, <2>7, <3>2 DEF NoHole
    <2>8. CASE older = 0
      <3>1. ASSUME NEW n \in Ours PROVE n >= Lowest(entries)
        <4>1. PICK m \in entries : m <= n
          BY Zenon, <2>1, <2>8 DEF CursorOf
        <4>2. Lowest(entries) <= m /\ Lowest(entries) \in Nat /\ m \in Nat /\ n \in Nat
          BY Zenon, <2>2, <2>3, <2>6
        <4> QED BY SMT, <4>1, <4>2
      <3> QED BY Zenon, <2>7, <2>8, <3>1
    <2>9. CASE older # 0
      <3>1. older \in entries /\ \A y \in entries : older <= y
        BY Zenon, <2>1, <2>9 DEF CursorOf
      <3>2. older <= Lowest(entries) /\ Lowest(entries) <= older /\ older \in Nat /\ Lowest(entries) \in Nat
        BY Zenon, <2>2, <2>6, <3>1
      <3>3. older = Lowest(entries)
        BY SMT, <3>2
      <3> QED BY Zenon, <2>7, <2>9, <3>3
    <2> QED BY Zenon, <2>8, <2>9
  <1> QED BY PTL, <1>1, WindowInvariant
=============================================================================
