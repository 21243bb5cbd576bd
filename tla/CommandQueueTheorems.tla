----------------------- MODULE CommandQueueTheorems -----------------------
(***************************************************************************)
(* Facts about the operations of CommandQueue, for every queue: what they  *)
(* return and what they do to the order of the queue.                      *)
(***************************************************************************)
EXTENDS CommandQueue, Integers, SequenceTheorems, FiniteSetTheorems,
        WellFoundedInduction, TLAPS

(* A nonempty set of naturals has a least element.                         *)
LEMMA LeastNatural ==
    ASSUME NEW T \in SUBSET Nat, T # {}
    PROVE  \E x \in T : \A y \in T : x <= y
<1>1. \E x \in T : \A y \in T : ~ (<<y, x>> \in OpToRel(<, Nat))
  BY NatLessThanWellFounded, WFMin
<1>2. PICK x \in T : \A y \in T : ~ (<<y, x>> \in OpToRel(<, Nat))
  BY <1>1
<1>3. \A y \in T : ~ (y < x)
  BY <1>2 DEF OpToRel
<1>4. \A y \in T : x <= y
  BY <1>3
<1> QED BY <1>4

Rank(K, i) == Cardinality({j \in K : j <= i})

(* A set of positions of a sequence is finite.                             *)
LEMMA PositionsFinite ==
    ASSUME NEW n \in Nat, NEW K \in SUBSET (1 .. n)
    PROVE  IsFiniteSet(K) /\ Cardinality(K) \in Nat
<1>1. IsFiniteSet(1 .. n)
  BY FS_Interval
<1>2. IsFiniteSet(K)
  BY <1>1, FS_Subset
<1> QED BY <1>2, FS_CardinalityType

(* The rank of a position grows with the position and never exceeds it.    *)
LEMMA RankMonotonic ==
    ASSUME NEW n \in Nat, NEW K \in SUBSET (1 .. n),
           NEW i \in 1 .. n, NEW j \in 1 .. n, j <= i
    PROVE  /\ Rank(K, i) \in Nat /\ Rank(K, j) \in Nat
           /\ Rank(K, j) <= Rank(K, i)
           /\ Rank(K, i) <= i
<1> DEFINE I == {k \in K : k <= i}  J == {k \in K : k <= j}
<1>1. \A k \in K : k \in Int /\ 1 <= k
  OBVIOUS
<1>0. i \in Nat /\ j \in Nat
  OBVIOUS
<1>2. I \in SUBSET (1 .. i) /\ J \in SUBSET (1 .. j)
  <2>1. ASSUME NEW k \in I PROVE k \in 1 .. i
    BY <1>0, <1>1
  <2>2. ASSUME NEW k \in J PROVE k \in 1 .. j
    BY <1>0, <1>1
  <2> QED BY <2>1, <2>2
<1>3. \A k \in K : k <= j => k <= i
  BY <1>1
<1>4. J \in SUBSET I
  BY <1>3
<1> HIDE DEF I, J
<1>5. /\ IsFiniteSet(I) /\ Cardinality(I) \in Nat
      /\ IsFiniteSet(J) /\ Cardinality(J) \in Nat
  BY <1>0, <1>2, PositionsFinite
<1>6. Cardinality(J) <= Cardinality(I)
  BY <1>4, <1>5, FS_Subset
<1>7. IsFiniteSet(1 .. i) /\ Cardinality(1 .. i) = i
  BY FS_Interval
<1>8. Cardinality(I) <= i
  BY <1>2, <1>7, FS_Subset
<1>9. Rank(K, i) = Cardinality(I) /\ Rank(K, j) = Cardinality(J)
  BY DEF Rank, I, J
<1> QED BY <1>5, <1>6, <1>8, <1>9

(* Every rank up to the size of a set of positions is taken: the step from *)
(* the positions below n to those below n + 1.                             *)
HasRanks(n) == \A K \in SUBSET (1 .. n) :
                  \A r \in 1 .. Cardinality(K) : \E i \in K : Rank(K, i) = r

(* The induction step from n positions to one more.                        *)
LEMMA RanksStep ==
    ASSUME NEW n \in Nat, HasRanks(n)
    PROVE  HasRanks(n + 1)
<1> SUFFICES ASSUME NEW K \in SUBSET (1 .. n + 1), NEW r \in 1 .. Cardinality(K)
             PROVE  \E i \in K : Rank(K, i) = r
  BY DEF HasRanks
<1> DEFINE K0 == K \ {n + 1}
<1>1. K0 \in SUBSET (1 .. n)
  OBVIOUS
<1>2. IsFiniteSet(K0) /\ Cardinality(K0) \in Nat
  BY <1>1, PositionsFinite
<1>3. CASE n + 1 \notin K
  <2>1. K \in SUBSET (1 .. n)
    BY <1>3
  <2> QED BY <2>1 DEF HasRanks
<1>4. CASE n + 1 \in K
  <2>1. K = K0 \cup {n + 1}
    BY <1>4
  <2>2. Cardinality(K) = Cardinality(K0) + 1
    BY <1>2, <2>1, FS_AddElement
  <2>3. CASE r <= Cardinality(K0)
    <3>1. r \in 1 .. Cardinality(K0)
      BY <2>3, <1>2, <2>2
    <3>2. PICK i \in K0 : Rank(K0, i) = r
      BY <3>1, <1>1 DEF HasRanks
    <3>3. {j \in K : j <= i} = {j \in K0 : j <= i}
      BY <1>1
    <3> QED BY <3>2, <3>3 DEF Rank
  <2>4. CASE r = Cardinality(K)
    <3>1. \A j \in K : j <= n + 1
      OBVIOUS
    <3>2. {j \in K : j <= n + 1} = K
      BY <3>1
    <3> QED BY <3>2, <2>4, <1>4 DEF Rank
  <2> QED BY <2>2, <2>3, <2>4, <1>2
<1> QED BY <1>3, <1>4

(* Kept positions have consecutive ranks, in sequences of any length.      *)
LEMMA AllRanks == \A n \in Nat : HasRanks(n)
<1> DEFINE Bad == {n \in Nat : ~ HasRanks(n)}
<1> SUFFICES ASSUME Bad # {} PROVE FALSE
  OBVIOUS
<1>1. PICK n \in Bad : \A m \in Bad : n <= m
  BY LeastNatural
<1>2. HasRanks(0)
  <2>1. 1 .. 0 = {}
    OBVIOUS
  <2>2. ASSUME NEW K \in SUBSET (1 .. 0) PROVE 1 .. Cardinality(K) = {}
    <3>1. K = {}
      BY <2>1
    <3>2. Cardinality(K) = 0
      BY <3>1, FS_EmptySet
    <3> QED BY <3>2
  <2> QED BY <2>2 DEF HasRanks
<1>3. n # 0 /\ n - 1 \in Nat
  BY <1>1, <1>2
<1>4. HasRanks(n - 1)
  BY <1>1, <1>3
<1>5. HasRanks((n - 1) + 1)
  BY <1>3, <1>4, RanksStep
<1> QED BY <1>1, <1>5

(***************************************************************************)
(* KeepAt returns the elements at the positions K, in their order.         *)
(***************************************************************************)
LEMMA KeepAtProperties ==
    ASSUME NEW S, NEW q \in Seq(S), NEW K \in SUBSET (1 .. Len(q))
    PROVE  /\ KeepAt(q, K) \in Seq(S)
           /\ Len(KeepAt(q, K)) = Cardinality(K)
           /\ Cardinality(K) \in Nat
           /\ \A n \in 1 .. Cardinality(K) :
                 /\ Nth(K, n) \in K
                 /\ n <= Nth(K, n)
                 /\ KeepAt(q, K)[n] = q[Nth(K, n)]
           /\ \A m, n \in 1 .. Cardinality(K) : m < n => Nth(K, m) < Nth(K, n)
<1> DEFINE len == Len(q)
<1>1. len \in Nat /\ q \in [1 .. len -> S]
  BY LenProperties
<1> HIDE DEF len
<1>2. K \in SUBSET (1 .. len)
  BY DEF len
<1>3. IsFiniteSet(K) /\ Cardinality(K) \in Nat
  BY <1>1, <1>2, PositionsFinite
<1>4. ASSUME NEW n \in 1 .. Cardinality(K)
      PROVE  Nth(K, n) \in K /\ Rank(K, Nth(K, n)) = n
  <2>1. \E i \in K : Rank(K, i) = n
    BY <1>1, <1>2, AllRanks DEF HasRanks
  <2> QED BY <2>1 DEF Nth, Rank
<1>5. ASSUME NEW n \in 1 .. Cardinality(K)
      PROVE  n <= Nth(K, n)
  <2> DEFINE i == Nth(K, n)
  <2>1. i \in 1 .. len /\ Rank(K, i) = n
    BY <1>2, <1>4
  <2> HIDE DEF i
  <2> QED BY <2>1, <1>1, <1>2, RankMonotonic DEF i
<1>6. ASSUME NEW m \in 1 .. Cardinality(K), NEW n \in 1 .. Cardinality(K), m < n
      PROVE  Nth(K, m) < Nth(K, n)
  <2> DEFINE i == Nth(K, m)  j == Nth(K, n)
  <2>1. i \in K /\ j \in K /\ Rank(K, i) = m /\ Rank(K, j) = n
    BY <1>4
  <2> HIDE DEF i, j
  <2>2. i \in 1 .. len /\ j \in 1 .. len
    BY <2>1, <1>2
  <2>3. ~ (j <= i)
    BY <1>1, <1>2, <2>1, <2>2, <1>6, RankMonotonic
  <2> QED BY <2>2, <2>3, <1>1 DEF i, j
<1>7. \A n \in 1 .. Cardinality(K) : q[Nth(K, n)] \in S
  BY <1>1, <1>2, <1>4
<1>8. KeepAt(q, K) \in [1 .. Cardinality(K) -> S]
  BY <1>7 DEF KeepAt
<1>9. KeepAt(q, K) \in Seq(S) /\ Len(KeepAt(q, K)) = Cardinality(K)
  BY <1>3, <1>8
<1>10. \A n \in 1 .. Cardinality(K) : KeepAt(q, K)[n] = q[Nth(K, n)]
  BY DEF KeepAt
<1> QED BY <1>3, <1>4, <1>5, <1>6, <1>9, <1>10

(* InsertAt puts one element at position i and moves the rest up.          *)
LEMMA InsertAtProperties ==
    ASSUME NEW S, NEW q \in Seq(S), NEW c \in S, NEW i \in 1 .. Len(q) + 1
    PROVE  /\ InsertAt(q, i, c) \in Seq(S)
           /\ Len(InsertAt(q, i, c)) = Len(q) + 1
           /\ \A n \in 1 .. i - 1 : InsertAt(q, i, c)[n] = q[n]
           /\ InsertAt(q, i, c)[i] = c
           /\ \A n \in i + 1 .. Len(q) + 1 : InsertAt(q, i, c)[n] = q[n - 1]
<1> DEFINE l == SubSeq(q, 1, i - 1)  r == SubSeq(q, i, Len(q))
<1>1. Len(q) \in Nat /\ \A n \in 1 .. Len(q) : q[n] \in S
  BY LenProperties, ElementOfSeq
<1>2. /\ l \in Seq(S) /\ Len(l) = i - 1
      /\ \A n \in 1 .. i - 1 : l[n] = q[n]
  BY <1>1, SubSeqProperties
<1>3. /\ r \in Seq(S) /\ Len(r) = Len(q) - i + 1
      /\ \A n \in 1 .. Len(q) - i + 1 : r[n] = q[i + n - 1]
  BY <1>1, SubSeqProperties
<1>4. <<c>> \in Seq(S) /\ Len(<<c>>) = 1 /\ <<c>>[1] = c
  OBVIOUS
<1> HIDE DEF l, r
<1>5. /\ l \o <<c>> \in Seq(S) /\ Len(l \o <<c>>) = i
      /\ \A n \in 1 .. i : (l \o <<c>>)[n] = IF n <= i - 1 THEN l[n] ELSE <<c>>[n - (i - 1)]
  BY <1>2, <1>4, ConcatProperties
<1>6. /\ (l \o <<c>>) \o r \in Seq(S)
      /\ Len((l \o <<c>>) \o r) = i + Len(r)
      /\ \A n \in 1 .. i + Len(r) :
            ((l \o <<c>>) \o r)[n] = IF n <= i THEN (l \o <<c>>)[n] ELSE r[n - i]
  BY <1>3, <1>5, ConcatProperties
<1>7. InsertAt(q, i, c) = (l \o <<c>>) \o r
  BY DEF InsertAt, l, r
<1> QED BY <1>1, <1>2, <1>3, <1>4, <1>5, <1>6, <1>7
-----------------------------------------------------------------------------
(* Keeping only some positions puts no command before another one.         *)
LEMMA KeepAtFewBefore ==
    ASSUME NEW S, NEW q \in Seq(S), NEW K \in SUBSET (1 .. Len(q)), NEW high,
           FewBefore(q, high)
    PROVE  FewBefore(KeepAt(q, K), high)
<1> DEFINE p == KeepAt(q, K)
<1>1. /\ Len(q) \in Nat /\ Len(p) \in Nat /\ Len(p) = Cardinality(K)
      /\ \A n \in 1 .. Len(p) : Nth(K, n) \in 1 .. Len(q) /\ p[n] = q[Nth(K, n)]
      /\ \A m, n \in 1 .. Len(p) : m < n => Nth(K, m) < Nth(K, n)
  BY KeepAtProperties, LenProperties
<1> HIDE DEF p
<1> SUFFICES ASSUME NEW k \in 1 .. Len(p), NEW m \in 1 .. Len(p), NEW n \in 1 .. Len(p),
                    k < m, m < n, p[n] \in high
             PROVE  p[k] \in high \/ p[m] \in high
  BY DEF FewBefore, p
<1>2. /\ Nth(K, k) < Nth(K, m) /\ Nth(K, m) < Nth(K, n) /\ q[Nth(K, n)] \in high
      /\ p[k] = q[Nth(K, k)] /\ p[m] = q[Nth(K, m)]
      /\ Nth(K, k) \in 1 .. Len(q) /\ Nth(K, m) \in 1 .. Len(q)
      /\ Nth(K, n) \in 1 .. Len(q)
  BY <1>1
<1> QED BY <1>2 DEF FewBefore

(* pop: the result is a queue, and no command gets before another one.     *)
LEMMA PopProperties ==
    ASSUME NEW S, NEW q \in Seq(S), NEW high, FewBefore(q, high)
    PROVE  Pop(q) \in Seq(S) /\ FewBefore(Pop(q), high)
<1>1. CASE q = <<>>
  BY <1>1 DEF Pop
<1>2. CASE q # <<>>
  <2> DEFINE p == Pop(q)
  <2>1. /\ p \in Seq(S) /\ Len(p) = Len(q) - 1 /\ Len(q) \in Nat
        /\ \A i \in 1 .. Len(q) - 1 : p[i] = q[i + 1]
    BY <1>2, HeadTailProperties, LenProperties DEF Pop
  <2> HIDE DEF p
  <2>2. ASSUME NEW k \in 1 .. Len(p), NEW m \in 1 .. Len(p), NEW n \in 1 .. Len(p),
               k < m, m < n, p[n] \in high
        PROVE  p[k] \in high \/ p[m] \in high
    <3>1. /\ k + 1 \in 1 .. Len(q) /\ m + 1 \in 1 .. Len(q) /\ n + 1 \in 1 .. Len(q)
          /\ k + 1 < m + 1 /\ m + 1 < n + 1
          /\ p[k] = q[k + 1] /\ p[m] = q[m + 1] /\ q[n + 1] \in high
      BY <2>1, <2>2
    <3> QED BY <3>1 DEF FewBefore
  <2>3. FewBefore(p, high)
    BY <2>2 DEF FewBefore
  <2> QED BY <2>1, <2>3 DEF p
<1> QED BY <1>1, <1>2

(* There is a place to insert at, and it is what the code looks for.       *)
LEMMA InsertPositionProperties ==
    ASSUME NEW S, NEW q \in Seq(S), NEW high, NEW preserveFront \in BOOLEAN
    PROVE  LET from == FirstFree(q, preserveFront)
               i == InsertPosition(q, high, preserveFront)
           IN  /\ i \in from .. Len(q) + 1
               /\ \A j \in from .. i - 1 : q[j] \in high
               /\ i = Len(q) + 1 \/ q[i] \notin high
<1> DEFINE from == FirstFree(q, preserveFront)
           T == {i \in from .. Len(q) + 1 : i = Len(q) + 1 \/ q[i] \notin high}
<1>1. Len(q) \in Nat /\ from \in {1, 2} /\ from <= Len(q) + 1
  BY LenProperties, EmptySeq DEF FirstFree
<1>2. T \in SUBSET Nat /\ Len(q) + 1 \in T
  BY <1>1
<1>3. PICK i \in T : \A j \in T : i <= j
  BY <1>2, LeastNatural
<1>4. i \in from .. Len(q) + 1 /\ (i = Len(q) + 1 \/ q[i] \notin high)
  BY <1>3
<1> HIDE DEF from
<1>5. ASSUME NEW j \in from .. i - 1 PROVE q[j] \in high
  BY <1>1, <1>3, <1>4
<1> QED BY <1>4, <1>5 DEF InsertPosition, from

(* Inserting a command of high behind commands of high only, the front     *)
(* perhaps excepted.                                                       *)
LEMMA InsertFewBefore ==
    ASSUME NEW S, NEW q \in Seq(S), NEW c \in S, NEW i \in 1 .. Len(q) + 1,
           NEW high, NEW from \in {1, 2}, c \in high,
           \A j \in from .. i - 1 : q[j] \in high,
           FewBefore(q, high)
    PROVE  FewBefore(InsertAt(q, i, c), high)
<1> DEFINE p == InsertAt(q, i, c)
<1>1. Len(q) \in Nat
  BY LenProperties
<1>2. p \in Seq(S) /\ Len(p) = Len(q) + 1 /\ p[i] = c
  BY InsertAtProperties, SMT
<1>3. \A n \in 1 .. i - 1 : p[n] = q[n]
  BY InsertAtProperties, SMT
<1>4. \A n \in i + 1 .. Len(q) + 1 : p[n] = q[n - 1]
  BY InsertAtProperties, SMT
<1> HIDE DEF p
<1> SUFFICES ASSUME NEW k \in 1 .. Len(p), NEW m \in 1 .. Len(p), NEW n \in 1 .. Len(p),
                    k < m, m < n, p[n] \in high, p[k] \notin high
             PROVE  p[m] \in high
  BY DEF FewBefore, p
<1>5. CASE m < i
  BY <1>1, <1>2, <1>3, <1>5
<1>6. CASE m = i
  BY <1>2, <1>6
<1>7. CASE m > i
  <2>1. /\ p[m] = q[m - 1] /\ p[n] = q[n - 1]
        /\ m - 1 \in 1 .. Len(q) /\ n - 1 \in 1 .. Len(q) /\ m - 1 < n - 1
    BY <1>1, <1>2, <1>4, <1>7
  <2>2. CASE k < i
    <3>1. p[k] = q[k] /\ k \in 1 .. Len(q) /\ k < m - 1
      BY <1>1, <1>2, <1>3, <1>7, <2>2
    <3> QED BY <2>1, <3>1 DEF FewBefore
  <2>3. CASE k > i
    <3>1. p[k] = q[k - 1] /\ k - 1 \in 1 .. Len(q) /\ k - 1 < m - 1
      BY <1>1, <1>2, <1>4, <2>3
    <3> QED BY <2>1, <3>1 DEF FewBefore
  <2> QED BY <1>2, <2>2, <2>3
<1> QED BY <1>1, <1>2, <1>5, <1>6, <1>7

(* pushPriority with a command of high, whatever the caller believes of    *)
(* the front: if no command of high had two others in front of it, none    *)
(* has afterwards.                                                         *)
LEMMA PushPriorityProperties ==
    ASSUME NEW S, NEW q \in Seq(S), NEW high, NEW preserveFront \in BOOLEAN,
           NEW c \in S, c \in high, FewBefore(q, high)
    PROVE  /\ PushPriority(q, c, high, preserveFront) \in Seq(S)
           /\ FewBefore(PushPriority(q, c, high, preserveFront), high)
<1> DEFINE from == FirstFree(q, preserveFront)
           i == InsertPosition(q, high, preserveFront)
<1>1. Len(q) \in Nat /\ from \in {1, 2}
  BY LenProperties DEF FirstFree
<1>2. /\ i \in from .. Len(q) + 1
      /\ \A j \in from .. i - 1 : q[j] \in high
  BY InsertPositionProperties
<1>3. PushPriority(q, c, high, preserveFront) = InsertAt(q, i, c)
  BY DEF PushPriority
<1> HIDE DEF from, i
<1>4. i \in 1 .. Len(q) + 1
  BY <1>1, <1>2
<1>5. InsertAt(q, i, c) \in Seq(S)
  BY <1>4, InsertAtProperties, SMT
<1>6. FewBefore(InsertAt(q, i, c), high)
  BY <1>1, <1>2, <1>4, InsertFewBefore, SMT
<1> QED BY <1>3, <1>5, <1>6

(* push with a command that is not of high.                                *)
LEMMA PushFewBefore ==
    ASSUME NEW S, NEW q \in Seq(S), NEW high,
           NEW c \in S, c \notin high, FewBefore(q, high)
    PROVE  Append(q, c) \in Seq(S) /\ FewBefore(Append(q, c), high)
<1> DEFINE p == Append(q, c)
<1>1. /\ p \in Seq(S) /\ Len(p) = Len(q) + 1 /\ Len(q) \in Nat
      /\ \A i \in 1 .. Len(q) : p[i] = q[i]
      /\ p[Len(q) + 1] = c
  BY AppendProperties, LenProperties
<1> HIDE DEF p
<1> SUFFICES ASSUME NEW k \in 1 .. Len(p), NEW m \in 1 .. Len(p), NEW n \in 1 .. Len(p),
                    k < m, m < n, p[n] \in high
             PROVE  p[k] \in high \/ p[m] \in high
  BY <1>1 DEF FewBefore, p
<1>2. n # Len(q) + 1
  BY <1>1
<1>3. /\ k \in 1 .. Len(q) /\ m \in 1 .. Len(q) /\ n \in 1 .. Len(q) /\ q[n] \in high
      /\ p[m] = q[m] /\ p[k] = q[k]
  BY <1>1, <1>2
<1> QED BY <1>3 DEF FewBefore

(* Only which of the queued commands are of high matters.                  *)
LEMMA FewBeforeCongruent ==
    ASSUME NEW S, NEW q \in Seq(S), NEW h1, NEW h2,
           \A c \in Range(q) : c \in h1 <=> c \in h2,
           FewBefore(q, h1)
    PROVE  FewBefore(q, h2)
<1>1. Len(q) \in Nat /\ \A i \in 1 .. Len(q) : q[i] \in Range(q)
  BY LenProperties DEF Range
<1> QED BY <1>1 DEF FewBefore

-----------------------------------------------------------------------------
(* What the operations do to the commands that are in the queue.           *)

(* No command is in the queue twice.                                       *)
Distinct(q) == \A m, n \in 1 .. Len(q) : q[m] = q[n] => m = n

(* The elements of a sequence are those at its positions.                  *)
LEMMA RangeMembers ==
    ASSUME NEW S, NEW q \in Seq(S)
    PROVE  /\ Len(q) \in Nat
           /\ \A n \in 1 .. Len(q) : q[n] \in Range(q)
           /\ \A c \in Range(q) : c \in S /\ \E n \in 1 .. Len(q) : q[n] = c
           /\ q # <<>> => /\ Len(q) >= 1 /\ Head(q) = q[1]
                          /\ Head(q) \in Range(q)
<1>1. Len(q) \in Nat /\ q \in [1 .. Len(q) -> S]
  BY LenProperties
<1>2. \A n \in 1 .. Len(q) : q[n] \in Range(q)
  BY <1>1 DEF Range
<1>3. \A c \in Range(q) : c \in S /\ \E n \in 1 .. Len(q) : q[n] = c
  BY <1>1 DEF Range
<1>4. q # <<>> => Len(q) >= 1 /\ Head(q) = q[1]
  BY <1>1, EmptySeq, HeadTailProperties
<1> QED BY <1>1, <1>2, <1>3, <1>4

(* A kept position is the n-th one for some n.                             *)
LEMMA EveryPositionKept ==
    ASSUME NEW S, NEW q \in Seq(S), NEW K \in SUBSET (1 .. Len(q)), NEW i \in K
    PROVE  \E n \in 1 .. Cardinality(K) : Nth(K, n) = i
<1> DEFINE len == Len(q)  r == Rank(K, i)
<1>1. len \in Nat
  BY LenProperties
<1>2. K \in SUBSET (1 .. len) /\ i \in 1 .. len
  OBVIOUS
<1> HIDE DEF len
<1>3. IsFiniteSet(K) /\ Cardinality(K) \in Nat
  BY <1>1, <1>2, PositionsFinite
<1>4. ASSUME NEW j \in K, NEW k \in K, j < k
      PROVE  Rank(K, j) < Rank(K, k)
  <2> DEFINE J == {m \in K : m <= j}  I == {m \in K : m <= k}
  <2>1. IsFiniteSet(J) /\ IsFiniteSet(I)
    BY <1>3, FS_Subset
  <2>a. \A m \in K : m \in Nat
    BY <1>1, <1>2
  <2>b. ~ (k <= j) /\ k <= k /\ \A m \in K : m <= j => m <= k
    BY <1>4, <2>a
  <2>2. k \notin J /\ J \cup {k} \subseteq I
    BY <2>b
  <2> HIDE DEF I, J
  <2>3. IsFiniteSet(J \cup {k}) /\ Cardinality(J \cup {k}) = Cardinality(J) + 1
    BY <2>1, <2>2, FS_AddElement
  <2>4. Cardinality(J \cup {k}) <= Cardinality(I)
    BY <2>1, <2>2, FS_Subset
  <2>5. Cardinality(J) \in Nat /\ Cardinality(I) \in Nat
    BY <2>1, FS_CardinalityType
  <2>6. Rank(K, j) = Cardinality(J) /\ Rank(K, k) = Cardinality(I)
    BY DEF Rank, I, J
  <2> QED BY <2>3, <2>4, <2>5, <2>6
<1>5. r \in 1 .. Cardinality(K)
  <2> DEFINE I == {m \in K : m <= i}
  <2>1. I \subseteq K /\ i \in I
    BY <1>1, <1>2
  <2> HIDE DEF I
  <2>2. Cardinality(I) <= Cardinality(K) /\ IsFiniteSet(I)
    BY <1>3, <2>1, FS_Subset
  <2>3. Cardinality(I) \in Nat /\ Cardinality(I) # 0
    BY <2>1, <2>2, FS_CardinalityType, FS_EmptySet
  <2>4. r = Cardinality(I)
    BY DEF Rank, I
  <2> QED BY <1>3, <2>2, <2>3, <2>4
<1>6. \E j \in K : Cardinality({m \in K : m <= j}) = r
  BY DEF Rank
<1>7. Nth(K, r) \in K /\ Rank(K, Nth(K, r)) = r
  BY <1>6 DEF Nth, Rank
<1>8. \A j \in K : j \in Nat
  BY <1>1, <1>2
<1>9. ASSUME NEW j \in K, Rank(K, j) = Rank(K, i) PROVE j = i
  <2>1. Rank(K, i) \in Nat
    BY <1>1, <1>2, RankMonotonic
  <2>2. ~ (j < i) /\ ~ (i < j)
    BY <1>4, <1>9, <2>1
  <2> QED BY <1>8, <2>2
<1> QED BY <1>5, <1>7, <1>9

(* Keeping positions keeps the commands at them and no others, keeps the   *)
(* commands apart, and keeps the front when it keeps the first position.   *)
LEMMA KeepAtMembers ==
    ASSUME NEW S, NEW q \in Seq(S), NEW K \in SUBSET (1 .. Len(q))
    PROVE  /\ \A c \in Range(KeepAt(q, K)) : \E i \in K : c = q[i]
           /\ \A i \in K : q[i] \in Range(KeepAt(q, K))
           /\ Distinct(q) => Distinct(KeepAt(q, K))
           /\ 1 \in K => KeepAt(q, K) # <<>> /\ Head(KeepAt(q, K)) = Head(q)
<1> DEFINE k == KeepAt(q, K)
<1>1. /\ k \in Seq(S) /\ Len(k) = Cardinality(K) /\ Len(k) \in Nat /\ Len(q) \in Nat
      /\ \A n \in 1 .. Len(k) : Nth(K, n) \in K /\ n <= Nth(K, n) /\ k[n] = q[Nth(K, n)]
      /\ \A m, n \in 1 .. Len(k) : m < n => Nth(K, m) < Nth(K, n)
  BY KeepAtProperties, LenProperties
<1>2. \A i \in K : \E n \in 1 .. Len(k) : Nth(K, n) = i
  BY <1>1, EveryPositionKept
<1>3. \A i \in K : i \in 1 .. Len(q)
  OBVIOUS
<1> HIDE DEF k
<1>4. \A c \in Range(k) : \E n \in 1 .. Len(k) : c = k[n]
  BY <1>1, RangeMembers
<1>5. \A c \in Range(k) : \E i \in K : c = q[i]
  BY <1>1, <1>4
<1>6. \A n \in 1 .. Len(k) : k[n] \in Range(k)
  BY <1>1, RangeMembers
<1>7. \A i \in K : q[i] \in Range(k)
  BY <1>1, <1>2, <1>6
<1>8. ASSUME Distinct(q) PROVE Distinct(k)
  <2> SUFFICES ASSUME NEW m \in 1 .. Len(k), NEW n \in 1 .. Len(k), k[m] = k[n]
               PROVE  m = n
    BY DEF Distinct
  <2>1. q[Nth(K, m)] = q[Nth(K, n)] /\ Nth(K, m) \in 1 .. Len(q) /\ Nth(K, n) \in 1 .. Len(q)
    BY <1>1, <1>3
  <2>2. Nth(K, m) = Nth(K, n)
    BY <1>8, <2>1 DEF Distinct
  <2>3. ~ (m < n) /\ ~ (n < m)
    BY <1>1, <2>1, <2>2
  <2> QED BY <1>1, <2>3
<1>9. ASSUME 1 \in K PROVE k # <<>> /\ Head(k) = Head(q)
  <2>1. PICK n \in 1 .. Len(k) : Nth(K, n) = 1
    BY <1>2, <1>9
  <2>2. n = 1
    BY <1>1, <2>1
  <2>3. k[1] = q[1] /\ k # <<>> /\ q # <<>>
    BY <1>1, <1>3, <1>9, <2>1, <2>2, EmptySeq
  <2> QED BY <1>1, <2>3, RangeMembers
<1> QED BY <1>5, <1>7, <1>8, <1>9 DEF k

(* removeDuplicatedEntries: everything else stays, and so does the front   *)
(* that is preserved; of the similar commands only that front stays.       *)
LEMMA RemoveDuplicatedMembers ==
    ASSUME NEW S, NEW q \in Seq(S), NEW similar, NEW preserveFront \in BOOLEAN
    PROVE  LET p == RemoveDuplicatedEntries(q, similar, preserveFront)
           IN  /\ p \in Seq(S)
               /\ Range(p) \subseteq Range(q)
               /\ \A c \in Range(q) : c \notin similar => c \in Range(p)
               /\ \A c \in Range(p) : c \in similar => preserveFront /\ c = Head(q)
               /\ Distinct(q) => Distinct(p)
               /\ q # <<>> /\ (preserveFront \/ Head(q) \notin similar)
                     => p # <<>> /\ Head(p) = Head(q)
<1> DEFINE K == {i \in 1 .. Len(q) : i < FirstFree(q, preserveFront) \/ q[i] \notin similar}
           p == KeepAt(q, K)
<1>1. RemoveDuplicatedEntries(q, similar, preserveFront) = p
  BY DEF RemoveDuplicatedEntries
<1>2. K \in SUBSET (1 .. Len(q)) /\ Len(q) \in Nat
  BY RangeMembers
<1>3. /\ \A c \in Range(q) : c \in S /\ \E i \in 1 .. Len(q) : q[i] = c
      /\ \A i \in 1 .. Len(q) : q[i] \in Range(q)
      /\ q # <<>> => Len(q) >= 1 /\ Head(q) = q[1]
  BY RangeMembers
<1>4. FirstFree(q, preserveFront) = IF preserveFront /\ q # <<>> THEN 2 ELSE 1
  BY DEF FirstFree
<1>5. \A i \in 1 .. Len(q) :
         i \in K <=> (preserveFront /\ q # <<>> /\ i = 1) \/ q[i] \notin similar
  BY <1>2, <1>4
<1> HIDE DEF K
<1>6. /\ p \in Seq(S)
      /\ \A c \in Range(p) : \E i \in K : c = q[i]
      /\ \A i \in K : q[i] \in Range(p)
      /\ Distinct(q) => Distinct(p)
      /\ 1 \in K => p # <<>> /\ Head(p) = Head(q)
  BY <1>2, KeepAtProperties, KeepAtMembers
<1> HIDE DEF p
<1>7. Range(p) \subseteq Range(q)
  BY <1>2, <1>3, <1>6
<1>8. \A c \in Range(q) : c \notin similar => c \in Range(p)
  BY <1>3, <1>5, <1>6
<1>9. \A c \in Range(p) : c \in similar => preserveFront /\ c = Head(q)
  BY <1>2, <1>3, <1>5, <1>6
<1>10. q # <<>> /\ (preserveFront \/ Head(q) \notin similar) => 1 \in K
  BY <1>2, <1>3, <1>5
<1> QED BY <1>1, <1>6, <1>7, <1>8, <1>9, <1>10

(* removeAllEntriesForInverter: the others stay, and so does a front that  *)
(* is not of the inverter.                                                 *)
LEMMA RemoveAllMembers ==
    ASSUME NEW S, NEW q \in Seq(S), NEW mine
    PROVE  LET p == RemoveAllEntries(q, mine)
           IN  /\ p \in Seq(S)
               /\ Range(p) = Range(q) \ mine
               /\ Distinct(q) => Distinct(p)
               /\ q # <<>> /\ Head(q) \notin mine => p # <<>> /\ Head(p) = Head(q)
<1> DEFINE K == {i \in 1 .. Len(q) : q[i] \notin mine}
           p == KeepAt(q, K)
<1>1. RemoveAllEntries(q, mine) = p
  BY DEF RemoveAllEntries
<1>2. /\ K \in SUBSET (1 .. Len(q)) /\ Len(q) \in Nat
      /\ \A i \in 1 .. Len(q) : i \in K <=> q[i] \notin mine
  BY RangeMembers
<1>3. /\ \A c \in Range(q) : c \in S /\ \E i \in 1 .. Len(q) : q[i] = c
      /\ \A i \in 1 .. Len(q) : q[i] \in Range(q)
      /\ q # <<>> => Len(q) >= 1 /\ Head(q) = q[1]
  BY RangeMembers
<1> HIDE DEF K
<1>4. /\ p \in Seq(S)
      /\ \A c \in Range(p) : \E i \in K : c = q[i]
      /\ \A i \in K : q[i] \in Range(p)
      /\ Distinct(q) => Distinct(p)
      /\ 1 \in K => p # <<>> /\ Head(p) = Head(q)
  BY <1>2, KeepAtProperties, KeepAtMembers
<1> HIDE DEF p
<1>5. \A c : c \in Range(p) <=> c \in Range(q) /\ c \notin mine
  BY <1>2, <1>3, <1>4
<1>6. q # <<>> /\ Head(q) \notin mine => 1 \in K
  BY <1>2, <1>3
<1> QED BY <1>1, <1>4, <1>5, <1>6

(* pop: the front goes, nothing else.                                      *)
LEMMA PopMembers ==
    ASSUME NEW S, NEW q \in Seq(S), Distinct(q)
    PROVE  /\ Pop(q) \in Seq(S)
           /\ Distinct(Pop(q))
           /\ Range(Pop(q)) = IF q = <<>> THEN {} ELSE Range(q) \ {Head(q)}
<1>1. CASE q = <<>>
  <2>1. Pop(q) = <<>> /\ Range(<<>>) = {}
    BY <1>1 DEF Pop, Range
  <2>2. <<>> \in Seq(S) /\ Len(<<>>) = 0
    BY EmptySeq
  <2>3. Distinct(<<>>)
    BY <2>2 DEF Distinct
  <2> QED BY <1>1, <2>1, <2>2, <2>3
<1>2. CASE q # <<>>
  <2> DEFINE p == Pop(q)
  <2>1. /\ p \in Seq(S) /\ Len(p) = Len(q) - 1
        /\ \A i \in 1 .. Len(q) - 1 : p[i] = q[i + 1]
    BY <1>2, HeadTailProperties DEF Pop
  <2>2. /\ Len(q) \in Nat /\ Len(q) >= 1 /\ Head(q) = q[1]
        /\ \A n \in 1 .. Len(q) : q[n] \in Range(q)
        /\ \A c \in Range(q) : \E n \in 1 .. Len(q) : q[n] = c
    BY <1>2, RangeMembers
  <2>3. /\ \A n \in 1 .. Len(p) : p[n] \in Range(p)
        /\ \A c \in Range(p) : \E n \in 1 .. Len(p) : p[n] = c
    BY <2>1, RangeMembers
  <2> HIDE DEF p
  <2>4. \A i \in 1 .. Len(p) : i + 1 \in 1 .. Len(q) /\ p[i] = q[i + 1]
    BY <2>1, <2>2
  <2>5. Distinct(p)
    BY <2>1, <2>2, <2>4 DEF Distinct
  <2>6. ASSUME NEW c \in Range(p) PROVE c \in Range(q) /\ c # Head(q)
    <3>1. PICK i \in 1 .. Len(p) : p[i] = c
      BY <2>3
    <3>2. i + 1 \in 1 .. Len(q) /\ q[i + 1] = c /\ i + 1 # 1
      BY <2>1, <2>2, <2>4, <3>1
    <3> QED BY <2>2, <3>2 DEF Distinct
  <2>7. ASSUME NEW c \in Range(q), c # Head(q) PROVE c \in Range(p)
    <3>1. PICK n \in 1 .. Len(q) : q[n] = c
      BY <2>2
    <3>2. n # 1
      BY <2>2, <2>7, <3>1
    <3>3. n - 1 \in 1 .. Len(p) /\ (n - 1) + 1 = n
      BY <2>1, <2>2, <3>2
    <3>4. p[n - 1] = c
      BY <2>4, <3>1, <3>3
    <3> QED BY <2>3, <3>3, <3>4
  <2> QED BY <1>2, <2>1, <2>5, <2>6, <2>7 DEF p
<1> QED BY <1>1, <1>2

(* Both ways to add a command add that command only.  A front that is on   *)
(* the air, or that has itself high priority, stays the front.             *)
LEMMA AppendMembers ==
    ASSUME NEW S, NEW q \in Seq(S), NEW c \in S
    PROVE  /\ Append(q, c) \in Seq(S)
           /\ Range(Append(q, c)) = Range(q) \cup {c}
           /\ Distinct(q) /\ c \notin Range(q) => Distinct(Append(q, c))
           /\ Append(q, c) # <<>>
           /\ q # <<>> => Head(Append(q, c)) = Head(q)
<1> DEFINE p == Append(q, c)
<1>1. /\ p \in Seq(S) /\ Len(p) = Len(q) + 1 /\ Len(q) \in Nat
      /\ \A i \in 1 .. Len(q) : p[i] = q[i]
      /\ p[Len(q) + 1] = c
  BY AppendProperties, LenProperties
<1>2. /\ \A n \in 1 .. Len(q) : q[n] \in Range(q)
      /\ \A d \in Range(q) : \E n \in 1 .. Len(q) : q[n] = d
      /\ q # <<>> => Len(q) >= 1 /\ Head(q) = q[1]
  BY RangeMembers
<1>3. /\ \A n \in 1 .. Len(p) : p[n] \in Range(p)
      /\ \A d \in Range(p) : \E n \in 1 .. Len(p) : p[n] = d
      /\ p # <<>> => Head(p) = p[1]
  BY <1>1, RangeMembers
<1>4. p # <<>>
  BY <1>1, EmptySeq
<1> HIDE DEF p
<1>5. \A d \in Range(p) : d \in Range(q) \cup {c}
  BY <1>1, <1>2, <1>3
<1>6. \A d \in Range(q) \cup {c} : d \in Range(p)
  BY <1>1, <1>2, <1>3
<1>7. Distinct(q) /\ c \notin Range(q) => Distinct(p)
  BY <1>1, <1>2 DEF Distinct
<1>8. q # <<>> => Head(p) = Head(q)
  BY <1>1, <1>2, <1>3, <1>4
<1> QED BY <1>1, <1>4, <1>5, <1>6, <1>7, <1>8 DEF p

LEMMA PushPriorityMembers ==
    ASSUME NEW S, NEW q \in Seq(S), NEW c \in S, NEW high,
           NEW preserveFront \in BOOLEAN, NEW p, p = PushPriority(q, c, high, preserveFront)
    PROVE  /\ p \in Seq(S)
           /\ Range(p) = Range(q) \cup {c}
           /\ Distinct(q) /\ c \notin Range(q) => Distinct(p)
           /\ p # <<>>
           /\ q # <<>> /\ (preserveFront \/ Head(q) \in high) => Head(p) = Head(q)
<1> DEFINE i == InsertPosition(q, high, preserveFront)
<1>0. p = InsertAt(q, i, c)
  BY DEF PushPriority
<1>1. /\ \A n \in 1 .. Len(q) : q[n] \in Range(q)
      /\ \A d \in Range(q) : \E n \in 1 .. Len(q) : q[n] = d
      /\ q # <<>> => Len(q) >= 1 /\ Head(q) = q[1]
      /\ Len(q) \in Nat
  BY RangeMembers
<1>2. /\ i \in 1 .. Len(q) + 1
      /\ q # <<>> /\ (preserveFront \/ Head(q) \in high) => i # 1
  BY <1>1, InsertPositionProperties DEF FirstFree
<1> HIDE DEF i
<1>3. p \in Seq(S) /\ Len(p) = Len(q) + 1 /\ p[i] = c
  BY <1>0, <1>2, InsertAtProperties, SMT
<1>4. \A n \in 1 .. i - 1 : p[n] = q[n]
  BY <1>0, <1>2, InsertAtProperties, SMT
<1>5. \A n \in i + 1 .. Len(q) + 1 : p[n] = q[n - 1]
  <2>1. \A n \in i + 1 .. Len(q) + 1 : InsertAt(q, i, c)[n] = q[n - 1]
    BY <1>2, InsertAtProperties, SMT
  <2> QED BY <1>0, <2>1
<1>6. /\ \A n \in 1 .. Len(p) : p[n] \in Range(p)
      /\ \A d \in Range(p) : \E n \in 1 .. Len(p) : p[n] = d
      /\ p # <<>> => Head(p) = p[1]
  BY <1>3, RangeMembers
<1>7. p # <<>>
  BY <1>1, <1>3, EmptySeq
<1>8. ASSUME NEW n \in 1 .. Len(p)
      PROVE  \/ n = i /\ p[n] = c
             \/ n < i /\ n \in 1 .. Len(q) /\ p[n] = q[n]
             \/ n > i /\ n - 1 \in 1 .. Len(q) /\ p[n] = q[n - 1]
  BY <1>1, <1>2, <1>3, <1>4, <1>5
<1>9. ASSUME NEW d \in Range(p) PROVE d \in Range(q) \cup {c}
  BY <1>1, <1>6, <1>8
<1>10. ASSUME NEW d \in Range(q) \cup {c} PROVE d \in Range(p)
  <2>1. CASE d = c
    BY <1>1, <1>2, <1>3, <1>6, <2>1
  <2>2. CASE d \in Range(q)
    <3>1. PICK n \in 1 .. Len(q) : q[n] = d
      BY <1>1, <2>2
    <3>2. CASE n < i
      <4>1. n \in 1 .. i - 1 /\ n \in 1 .. Len(p)
        BY <1>1, <1>2, <1>3, <3>2
      <4> QED BY <1>4, <1>6, <3>1, <4>1
    <3>3. CASE n >= i
      <4>1. n + 1 \in i + 1 .. Len(q) + 1 /\ n + 1 \in 1 .. Len(p) /\ (n + 1) - 1 = n
        BY <1>1, <1>2, <1>3, <3>3
      <4>2. p[n + 1] = q[n]
        BY <1>5, <4>1
      <4> QED BY <1>6, <3>1, <4>1, <4>2
    <3> QED BY <1>1, <1>2, <3>2, <3>3
  <2> QED BY <2>1, <2>2
<1>11. ASSUME Distinct(q), c \notin Range(q) PROVE Distinct(p)
  <2> SUFFICES ASSUME NEW m \in 1 .. Len(p), NEW n \in 1 .. Len(p), p[m] = p[n], m # n
               PROVE  FALSE
    BY DEF Distinct
  <2>1. p[m] # c \/ p[n] # c
    BY <1>1, <1>2, <1>3, <1>8, <1>11
  <2>2. m # i /\ n # i
    BY <1>1, <1>3, <1>8, <1>11
  <2>3. \A j \in 1 .. Len(q), k \in 1 .. Len(q) : q[j] = q[k] => j = k
    BY <1>11 DEF Distinct
  <2> DEFINE old(k) == IF k < i THEN k ELSE k - 1
  <2>4. /\ old(m) \in 1 .. Len(q) /\ p[m] = q[old(m)]
        /\ old(n) \in 1 .. Len(q) /\ p[n] = q[old(n)]
    BY <1>1, <1>2, <1>3, <1>8, <2>2
  <2>5. old(m) # old(n)
    BY <1>1, <1>2, <1>3, <2>2
  <2> QED BY <2>3, <2>4, <2>5
<1>12. q # <<>> /\ (preserveFront \/ Head(q) \in high) => Head(p) = Head(q)
  BY <1>1, <1>2, <1>4, <1>6, <1>7
<1> QED BY <1>3, <1>7, <1>9, <1>10, <1>11, <1>12
=============================================================================
