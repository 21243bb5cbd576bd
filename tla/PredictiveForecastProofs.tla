---------------------- MODULE PredictiveForecastProofs ----------------------
(***************************************************************************)
(* The planner's forecast is sound, for every set of setpoints, all time   *)
(* limits and any number of requests and of commands under way, before     *)
(* millis() starts again.                                                  *)
(*                                                                         *)
(* The argument has three parts.  What the deltas of a set of requests add *)
(* up to depends on the set alone, so that a stretch of a linked chain     *)
(* adds up to its two ends.  The inverter and the meter follow the chain:  *)
(* each stands after some of the requests that were transmitted, and what  *)
(* the inverter is still to reach are the others, in order (Tracked).      *)
(* Every step of the limiter, the radio, the meter and the inverter keeps  *)
(* them so (ForecastInv), until the history strays.                        *)
(***************************************************************************)
EXTENDS PredictiveLedgerProofs, FiniteSetTheorems

(* A nonempty set of numbers has a least one.                              *)
LEMMA LeastNatural ==
    ASSUME NEW T \in SUBSET Nat, T # {}
    PROVE  \E t \in T : \A u \in T : t <= u
<1>1. \E t \in T : \A u \in T : ~ (<<u, t>> \in OpToRel(<, Nat))
  BY NatLessThanWellFounded, WFMin
<1>2. PICK t \in T : \A u \in T : ~ (u < t)
  BY <1>1 DEF OpToRel
<1> QED BY <1>2

(* f adds up the deltas of each set of S, in the order of CHOOSE.          *)
One(s) == CHOOSE x \in s : TRUE

Move(s) == ledger[s].goal - ledger[s].base

Adds(f, S) ==
    f = [s \in SUBSET S |-> IF s = {} THEN 0 ELSE Move(One(s)) + f[s \ {One(s)}]]

LEMMA AddsExists ==
    ASSUME NEW S, IsFiniteSet(S)
    PROVE  \E f : Adds(f, S)
<1> DEFINE Small(n) == {s \in SUBSET S : Cardinality(s) <= n}
           Start(f, n) == f = [s \in Small(n) |->
                IF s = {} THEN 0 ELSE Move(One(s)) + f[s \ {One(s)}]]
           Bad == {n \in Nat : ~ \E f : Start(f, n)}
<1>1. \A s \in SUBSET S : IsFiniteSet(s) /\ Cardinality(s) \in Nat
                          /\ Cardinality(s) <= Cardinality(S)
  BY FS_Subset, FS_CardinalityType
<1>2. \A s \in SUBSET S : s # {} => /\ One(s) \in s /\ s \ {One(s)} \in SUBSET S
                                    /\ Cardinality(s \ {One(s)}) = Cardinality(s) - 1
  <2> SUFFICES ASSUME NEW s \in SUBSET S, s # {}
               PROVE  /\ One(s) \in s /\ s \ {One(s)} \in SUBSET S
                      /\ Cardinality(s \ {One(s)}) = Cardinality(s) - 1
    OBVIOUS
  <2>1. One(s) \in s
    BY DEF One
  <2> QED BY <1>1, <2>1, FS_RemoveElement
<1>3. \A s \in SUBSET S : Cardinality(s) = 0 <=> s = {}
  BY <1>1, FS_EmptySet
<1>4. 0 \notin Bad
  <2> DEFINE f == [s \in Small(0) |-> 0]
  <2>1. \A s \in Small(0) : s = {}
    BY <1>1, <1>3
  <2>2. Start(f, 0)
    BY <2>1
  <2> QED BY <2>2
<1>5. ASSUME NEW n \in Nat, n \notin Bad PROVE n + 1 \notin Bad
  <2>1. PICK f : Start(f, n)
    BY <1>5
  <2> DEFINE g == [s \in Small(n + 1) |->
                     IF s = {} THEN 0 ELSE Move(One(s)) + f[s \ {One(s)}]]
  <2>2. \A s \in Small(n + 1) : s # {} => s \ {One(s)} \in Small(n)
    BY <1>1, <1>2
  <2>3. \A s \in Small(n) : s \in Small(n + 1)
    BY <1>1
  <2> HIDE DEF Small
  <2>4. \A s \in Small(n) : f[s] = IF s = {} THEN 0 ELSE Move(One(s)) + f[s \ {One(s)}]
    BY <2>1
  <2>5. \A s \in Small(n) : g[s] = f[s]
    BY <2>3, <2>4
  <2>6. \A s \in Small(n + 1) :
           g[s] = IF s = {} THEN 0 ELSE Move(One(s)) + g[s \ {One(s)}]
    BY <2>2, <2>5
  <2>7. Start(g, n + 1)
    BY <2>6, Zenon
  <2> QED BY <2>7
<1>6. Bad = {}
  <2> SUFFICES ASSUME Bad # {} PROVE FALSE
    OBVIOUS
  <2>1. PICK t \in Bad : \A u \in Bad : t <= u
    BY LeastNatural
  <2>2. t # 0 /\ t \in Nat
    BY <1>4, <2>1
  <2> HIDE DEF Bad
  <2>3. t - 1 \in Nat /\ t - 1 \notin Bad
    BY <2>1, <2>2
  <2>4. t - 1 + 1 \notin Bad
    BY <1>5, <2>3
  <2> QED BY <2>1, <2>2, <2>4
<1>7. Cardinality(S) \in Nat /\ Small(Cardinality(S)) = SUBSET S
  BY <1>1
<1>8. PICK f : Start(f, Cardinality(S))
  BY <1>6, <1>7
<1> QED BY <1>7, <1>8 DEF Adds

(* The order does not matter.                                              *)
LEMMA AddsOne ==
    ASSUME NEW S, IsFiniteSet(S), S \subseteq DOMAIN ledger, ModelOK,
           NEW f, Adds(f, S)
    PROVE  /\ f[{}] = 0
           /\ \A s \in SUBSET S : f[s] \in Int
           /\ \A s \in SUBSET S : \A x \in s : f[s] = Move(x) + f[s \ {x}]
<1>1. \A s \in SUBSET S : IsFiniteSet(s) /\ Cardinality(s) \in Nat
  BY FS_Subset, FS_CardinalityType
<1>2. ASSUME NEW s \in SUBSET S, NEW x \in s
      PROVE  s \ {x} \in SUBSET S /\ Cardinality(s \ {x}) < Cardinality(s)
  <2>1. Cardinality(s \ {x}) = Cardinality(s) - 1
    BY <1>1, FS_RemoveElement
  <2> QED BY <1>1, <2>1
<1>3. \A s \in SUBSET S : s # {} => One(s) \in s
  BY DEF One
<1>4. \A s \in SUBSET S : f[s] = IF s = {} THEN 0 ELSE Move(One(s)) + f[s \ {One(s)}]
  BY DEF Adds
<1>5. \A x \in S : Move(x) \in Int
  <2> SUFFICES ASSUME NEW x \in S PROVE Move(x) \in Int
    OBVIOUS
  <2>1. ledger[x] \in Request
    BY DEF ModelOK, IsLedger
  <2>2. ledger[x].goal \in Nat /\ ledger[x].base \in Nat
    BY <2>1, LedgerAssumption DEF Request
  <2> QED BY <2>2 DEF Move
<1> DEFINE Good(s) == f[s] \in Int /\ \A x \in s : f[s] = Move(x) + f[s \ {x}]
<1>6. ASSUME NEW s \in SUBSET S,
             \A r \in SUBSET S : Cardinality(r) < Cardinality(s) => Good(r)
      PROVE  Good(s)
  <2>1. CASE s = {}
    <3>1. f[s] = 0
      BY <1>4, <2>1
    <3> QED BY <2>1, <3>1
  <2>2. CASE s # {}
    <3> DEFINE c == One(s)
    <3>1. c \in s /\ c \in S
      BY <1>3, <2>2
    <3>2. f[s] = Move(c) + f[s \ {c}]
      BY <1>4, <2>2
    <3> HIDE DEF c
    <3>3. Good(s \ {c})
      BY <1>2, <1>6, <3>1
    <3>4. f[s] \in Int
      BY <1>5, <3>1, <3>2, <3>3
    <3>5. ASSUME NEW x \in s PROVE f[s] = Move(x) + f[s \ {x}]
      <4>1. CASE x = c
        BY <3>2, <4>1
      <4>2. CASE x # c
        <5>1. Good(s \ {x})
          BY <1>2, <1>6
        <5>2. f[s \ {c}] = Move(x) + f[(s \ {c}) \ {x}]
          BY <3>3, <4>2
        <5>3. f[s \ {x}] = Move(c) + f[(s \ {x}) \ {c}]
          BY <3>1, <4>2, <5>1
        <5>4. (s \ {c}) \ {x} = (s \ {x}) \ {c}
          OBVIOUS
        <5>5. f[(s \ {x}) \ {c}] \in Int
          <6>1. s \ {x} \in SUBSET S /\ c \in s \ {x}
            BY <3>1, <4>2
          <6>2. Cardinality((s \ {x}) \ {c}) < Cardinality(s \ {x})
                /\ Cardinality(s \ {x}) < Cardinality(s)
            BY <1>2, <6>1
          <6>3. Cardinality((s \ {x}) \ {c}) < Cardinality(s)
            BY <1>1, <6>1, <6>2
          <6> QED BY <1>6, <6>1, <6>3
        <5>6. Move(x) \in Int /\ Move(c) \in Int
          BY <1>5, <3>1
        <5> DEFINE rest == f[(s \ {x}) \ {c}]
        <5>7. f[s \ {c}] = Move(x) + rest /\ f[s \ {x}] = Move(c) + rest
          BY <5>2, <5>3, <5>4
        <5>8. rest \in Int
          BY <5>5
        <5> HIDE DEF rest, Good
        <5> QED BY <3>2, <5>6, <5>7, <5>8
      <4> QED BY <4>1, <4>2
    <3> QED BY <3>4, <3>5
  <2> QED BY <2>1, <2>2
<1> DEFINE Bad == {n \in Nat : \E s \in SUBSET S : Cardinality(s) = n /\ ~ Good(s)}
<1>7. Bad = {}
  <2> SUFFICES ASSUME Bad # {} PROVE FALSE
    OBVIOUS
  <2>1. PICK t \in Bad : \A u \in Bad : t <= u
    BY LeastNatural
  <2>2. PICK s \in SUBSET S : Cardinality(s) = t /\ ~ Good(s)
    OBVIOUS
  <2>3. ASSUME NEW r \in SUBSET S, Cardinality(r) < Cardinality(s), ~ Good(r)
        PROVE  FALSE
    <3>1. Cardinality(r) \in Bad
      BY <1>1, <2>3
    <3> HIDE DEF Bad, Good
    <3> QED BY <1>1, <2>1, <2>2, <2>3, <3>1
  <2> HIDE DEF Good
  <2> QED BY <1>6, <2>2, <2>3
<1>8. \A s \in SUBSET S : Good(s)
  BY <1>1, <1>7
<1> QED BY <1>4, <1>8

(* Nor do the sets that are left out.                                      *)
LEMMA AddsSame ==
    ASSUME NEW S, IsFiniteSet(S), S \subseteq DOMAIN ledger, ModelOK,
           NEW T \in SUBSET S, NEW f, NEW g, Adds(f, S), Adds(g, T)
    PROVE  \A s \in SUBSET T : f[s] = g[s]
<1>1. IsFiniteSet(T) /\ T \subseteq DOMAIN ledger
  BY FS_Subset
<1>2. \A s \in SUBSET T : IsFiniteSet(s) /\ Cardinality(s) \in Nat
  BY <1>1, FS_Subset, FS_CardinalityType
<1>3. f[{}] = 0 /\ \A s \in SUBSET S : \A x \in s : f[s] = Move(x) + f[s \ {x}]
  BY AddsOne
<1>4. g[{}] = 0 /\ \A s \in SUBSET T : \A x \in s : g[s] = Move(x) + g[s \ {x}]
  BY <1>1, AddsOne
<1> DEFINE Bad == {n \in Nat : \E s \in SUBSET T : Cardinality(s) = n /\ f[s] # g[s]}
<1>5. Bad = {}
  <2> SUFFICES ASSUME Bad # {} PROVE FALSE
    OBVIOUS
  <2>1. PICK t \in Bad : \A u \in Bad : t <= u
    BY LeastNatural
  <2>2. PICK s \in SUBSET T : Cardinality(s) = t /\ f[s] # g[s]
    OBVIOUS
  <2>3. PICK x \in s : TRUE
    BY <1>3, <1>4, <2>2
  <2>4. s \ {x} \in SUBSET T /\ Cardinality(s \ {x}) = Cardinality(s) - 1
    BY <1>2, FS_RemoveElement
  <2>5. f[s \ {x}] = g[s \ {x}]
    <3>1. SUFFICES ASSUME f[s \ {x}] # g[s \ {x}] PROVE FALSE
      OBVIOUS
    <3>2. Cardinality(s \ {x}) \in Bad
      BY <1>2, <2>4, <3>1
    <3> HIDE DEF Bad
    <3> QED BY <1>2, <2>1, <2>2, <2>4, <3>2
  <2>6. s \in SUBSET S
    OBVIOUS
  <2> QED BY <1>3, <1>4, <2>2, <2>5, <2>6
<1>6. \A s \in SUBSET T : f[s] = g[s]
  BY <1>2, <1>5
<1> QED BY <1>6

(* What a set of requests adds up to is such a sum.                        *)
LEMMA ChangeAdds ==
    ASSUME NEW P, IsFiniteSet(P)
    PROVE  \E f : Adds(f, P) /\ Change(P) = f[P]
<1> DEFINE f == CHOOSE f : Adds(f, P)
<1>1. Adds(f, P)
  BY AddsExists
<1>2. Change(P) = f[P]
  BY DEF Change, MapThenSumSet, MapThenFoldSet, Adds, Move, One
<1> QED BY <1>1, <1>2

(* The change of a set of requests is the sum of their deltas.             *)
LEMMA ChangeProperties ==
    ASSUME NEW P, IsFiniteSet(P), P \subseteq DOMAIN ledger, ModelOK
    PROVE  /\ Change({}) = 0 /\ Change(P) \in Int
           /\ \A x \in P : Change(P) = Move(x) + Change(P \ {x})
<1>1. PICK f : Adds(f, P) /\ Change(P) = f[P]
  BY ChangeAdds
<1>2. /\ f[{}] = 0 /\ f[P] \in Int
      /\ \A x \in P : f[P] = Move(x) + f[P \ {x}]
  BY <1>1, AddsOne
<1>3. ASSUME NEW T \in SUBSET P PROVE Change(T) = f[T]
  <2>1. IsFiniteSet(T)
    BY FS_Subset
  <2>2. PICK g : Adds(g, T) /\ Change(T) = g[T]
    BY <2>1, ChangeAdds
  <2> QED BY <1>1, <2>2, AddsSame
<1> QED BY <1>1, <1>2, <1>3

-----------------------------------------------------------------------------
(* x is the setpoint where the chain stands after the requests before n:   *)
(* the target of the last of them, and the base of the next one.           *)
Standing(l, basis, n, x) ==
    /\ \A s \in Pending(l) :
          s < n /\ (\A r \in Pending(l) : r < n => r <= s) => l[s].goal = x
    /\ \A s \in Pending(l) :
          s >= n /\ (\A r \in Pending(l) : r >= n => r >= s) => l[s].base = x
    /\ Pending(l) = {} => x = basis

(* There is a last request before n, if any, and a next one.               *)
LEMMA Nearest ==
    ASSUME NEW k \in Nat \ {0}, NEW l, IsLedger(l, k), NEW n \in Nat
    PROVE  /\ (\E s \in Pending(l) : s < n) =>
                 \E s \in Pending(l) : s < n /\ \A r \in Pending(l) : r < n => r <= s
           /\ (\E s \in Pending(l) : s >= n) =>
                 \E s \in Pending(l) : s >= n /\ \A r \in Pending(l) : r >= n => r >= s
<1>1. Pending(l) \in SUBSET (1 .. k - 1) /\ k - 1 \in Nat
  BY DEF Pending, IsLedger
<1>2. ASSUME NEW q \in Pending(l), q < n
      PROVE  \E s \in Pending(l) : s < n /\ \A r \in Pending(l) : r < n => r <= s
  <2> DEFINE S == {s \in Pending(l) : s < n}
  <2>1. S \in SUBSET (1 .. k - 1) /\ S # {}
    BY <1>1, <1>2
  <2>2. Max(S) \in S /\ \A y \in S : y <= Max(S)
    BY <1>1, <2>1, MaxProperties
  <2> QED BY <2>2
<1>3. ASSUME NEW q \in Pending(l), q >= n
      PROVE  \E s \in Pending(l) : s >= n /\ \A r \in Pending(l) : r >= n => r >= s
  <2> DEFINE S == {s \in Pending(l) : s >= n}
  <2>1. S \in SUBSET Nat /\ S # {}
    BY <1>1, <1>3
  <2>2. \E t \in S : \A u \in S : t <= u
    BY <2>1, LeastNatural
  <2>3. PICK t \in S : \A u \in S : t <= u
    BY <2>2
  <2>4. \A r \in Pending(l) : r >= n => r >= t
    BY <1>1, <2>3
  <2> QED BY <2>3, <2>4
<1> QED BY <1>2, <1>3

(* There is one such setpoint only.                                        *)
LEMMA StandingUnique ==
    ASSUME NEW k \in Nat \ {0}, NEW l, IsLedger(l, k), NEW n \in Nat,
           NEW basis, NEW x, NEW y,
           Standing(l, basis, n, x), Standing(l, basis, n, y)
    PROVE  x = y
<1>1. \A s \in Pending(l) : s \in Nat
  BY DEF Pending, IsLedger
<1>2. CASE \E s \in Pending(l) : s < n
  <2>1. PICK s \in Pending(l) : s < n /\ \A r \in Pending(l) : r < n => r <= s
    BY <1>2, Nearest
  <2> QED BY <2>1 DEF Standing
<1>3. CASE \E s \in Pending(l) : s >= n
  <2>1. PICK s \in Pending(l) : s >= n /\ \A r \in Pending(l) : r >= n => r >= s
    BY <1>3, Nearest
  <2> QED BY <2>1 DEF Standing
<1>4. CASE Pending(l) = {}
  BY <1>4 DEF Standing
<1> QED BY <1>1, <1>2, <1>3, <1>4

(* Neighbours of a linked chain meet.                                      *)
LEMMA LinkedNeighbours ==
    ASSUME NEW k \in Nat \ {0}, NEW l, IsLedger(l, k), NEW basis, Linked(l, basis),
           NEW s \in Pending(l), NEW r \in Pending(l), r < s,
           \A q \in Pending(l) : q < s => q <= r
    PROVE  l[s].base = l[r].goal
<1>1. r \in Before(l, s)
  BY DEF Before
<1> DEFINE m == Max(Before(l, s))
<1>2. m \in Pending(l) /\ m < s /\ \A q \in Before(l, s) : q <= m
  BY <1>1, BeforeProperties
<1>3. l[s].base = l[m].goal
  BY <1>1 DEF Linked
<1> HIDE DEF m
<1>4. m \in Nat /\ r \in Nat
  BY <1>2 DEF Pending, IsLedger
<1>5. m = r
  BY <1>1, <1>2, <1>4
<1> QED BY <1>3, <1>5

(* The requests before n, and their number.                                *)
Upto(n) == {s \in Pending(ledger) : s < n}

LEMMA UptoFinite ==
    ASSUME ModelOK, NEW n
    PROVE  IsFiniteSet(Upto(n)) /\ Upto(n) \subseteq DOMAIN ledger
<1>1. nextSeq - 1 \in Int /\ DOMAIN ledger \subseteq 1 .. nextSeq - 1
  BY DEF ModelOK, IsLedger
<1>2. IsFiniteSet(1 .. nextSeq - 1)
  BY <1>1, FS_Interval
<1>3. Upto(n) \subseteq DOMAIN ledger /\ Upto(n) \subseteq 1 .. nextSeq - 1
  BY <1>1 DEF Upto, Pending
<1> QED BY <1>2, <1>3, FS_Subset

(* The deltas of a stretch of a linked chain add up to its two ends: none  *)
(* is lost and none is counted twice.                                      *)
LEMMA StandingChange ==
    ASSUME ModelOK, Linked(ledger, safe), NEW n \in Nat, NEW m \in Nat, n <= m,
           NEW x \in Setpoints, NEW y \in Setpoints,
           Standing(ledger, safe, n, x), Standing(ledger, safe, m, y)
    PROVE  Change(Upto(m)) - Change(Upto(n)) = y - x
<1> DEFINE Bad == {i \in Nat : n <= i /\ \E z \in Setpoints :
                     /\ Standing(ledger, safe, i, z)
                     /\ Change(Upto(i)) - Change(Upto(n)) # z - x}
<1>1. nextSeq \in Nat \ {0} /\ IsLedger(ledger, nextSeq) /\ Setpoints \subseteq Nat
  BY LedgerAssumption DEF ModelOK
<1>2. \A i \in Nat : Change(Upto(i)) \in Int
  BY UptoFinite, ChangeProperties
<1>3. Bad = {}
  <2> SUFFICES ASSUME Bad # {} PROVE FALSE
    OBVIOUS
  <2>1. PICK t \in Bad : \A u \in Bad : t <= u
    BY LeastNatural
  <2>2. PICK z \in Setpoints : /\ Standing(ledger, safe, t, z)
                               /\ Change(Upto(t)) - Change(Upto(n)) # z - x
    OBVIOUS
  <2>3. t \in Nat /\ n <= t
    OBVIOUS
  <2>4. t # n
    <3>1. t = n => z = x
      BY <1>1, <2>2, StandingUnique
    <3> HIDE DEF Bad
    <3> QED BY <1>1, <1>2, <2>2, <2>3, <3>1
  <2> DEFINE j == t - 1
  <2>5. j \in Nat /\ n <= j /\ ~ (t <= j)
    BY <2>3, <2>4
  <2>6. j \notin Bad
    <3> HIDE DEF Bad, j
    <3> QED BY <2>1, <2>5
  <2>7. ASSUME NEW u \in Setpoints, Standing(ledger, safe, j, u)
        PROVE  Change(Upto(j)) - Change(Upto(n)) = u - x
    BY <2>5, <2>6, <2>7
  <2> HIDE DEF Bad
  <2>8. \A s \in Pending(ledger) : s \in Nat /\ (s < t <=> s < j \/ s = j)
                                   /\ (s >= t <=> s >= j /\ s # j)
    BY <1>1, <2>3 DEF Pending, IsLedger
  <2> HIDE DEF j
  <2>9. CASE j \in Pending(ledger)
    <3>1. z = ledger[j].goal
      BY <2>2, <2>5, <2>8, <2>9 DEF Standing
    <3>2. ledger[j] \in Request
      BY <1>1, <2>9 DEF Pending, IsLedger
    <3>3. ledger[j].base \in Setpoints /\ ledger[j].goal \in Setpoints
      BY <3>2 DEF Request
    <3>4. Standing(ledger, safe, j, ledger[j].base)
      <4>1. ASSUME NEW s \in Pending(ledger), s < j,
                   \A r \in Pending(ledger) : r < j => r <= s
            PROVE  ledger[s].goal = ledger[j].base
        BY <1>1, <2>9, <4>1, LinkedNeighbours
      <4>2. ASSUME NEW s \in Pending(ledger), s >= j,
                   \A r \in Pending(ledger) : r >= j => r >= s
            PROVE  s = j
        <5>1. j >= s
          BY <2>5, <2>9, <4>2
        <5> QED BY <2>5, <2>8, <4>2, <5>1
      <4> QED BY <2>9, <4>1, <4>2 DEF Standing
    <3>5. Change(Upto(j)) - Change(Upto(n)) = ledger[j].base - x
      BY <2>7, <3>3, <3>4
    <3>6. j \in Upto(t) /\ Upto(t) \ {j} = Upto(j)
      <4>1. j < t /\ j \in Upto(t)
        BY <2>8, <2>9 DEF Upto
      <4>2. \A s \in Pending(ledger) : s < j <=> s < t /\ s # j
        BY <2>5, <2>8
      <4>3. Upto(t) \ {j} = Upto(j)
        BY <4>2 DEF Upto
      <4> QED BY <4>1, <4>3
    <3>7. Change(Upto(t)) = Move(j) + Change(Upto(j))
      <4>1. Change(Upto(t)) = Move(j) + Change(Upto(t) \ {j})
        BY <3>6, UptoFinite, ChangeProperties
      <4> QED BY <3>6, <4>1
    <3>8. Change(Upto(t)) \in Int /\ Change(Upto(j)) \in Int /\ Change(Upto(n)) \in Int
      BY <1>2, <2>3, <2>5
    <3>9. x \in Int /\ z \in Int /\ ledger[j].base \in Int
      <4>1. \A v \in Setpoints : v \in Int
        BY <1>1
      <4> QED BY <3>3, <4>1
    <3>10. Move(j) = z - ledger[j].base
      BY <3>1 DEF Move
    <3> QED BY <2>2, <3>5, <3>7, <3>8, <3>9, <3>10
  <2>10. CASE j \notin Pending(ledger)
    <3>1. \A s \in Pending(ledger) : (s < t <=> s < j) /\ (s >= t <=> s >= j)
      BY <2>8, <2>10
    <3>2. Standing(ledger, safe, j, z)
      BY <2>2, <3>1 DEF Standing
    <3>3. Upto(t) = Upto(j)
      BY <3>1 DEF Upto
    <3> QED BY <2>2, <2>7, <3>2, <3>3
  <2> QED BY <2>9, <2>10
<1> QED BY <1>3

-----------------------------------------------------------------------------
(* The commands the inverter received: those of the transmitted requests,  *)
(* and the one in flight once its answer is there but unread.              *)
Issued(l, unread) ==
    {s \in Pending(l) : l[s].state = "sent" \/ (unread /\ l[s].dispatch)}

SentAt(r) == IF r.state = "sent" THEN r.sent ELSE now

IssuedFirst(l, unread) ==
    \A s \in Issued(l, unread), r \in Pending(l) : r < s => r \in Issued(l, unread)

OnlyIssued(l, unread, n) == \A s \in Pending(l) : s < n => s \in Issued(l, unread)

(* The meter sample shows the chain before some n: requests sent by then,  *)
(* and all those that must have had their effect by then.                  *)
Shown(l, unread, n) ==
    \A s \in Issued(l, unread) : /\ s < n => SentAt(l[s]) <= sample
                                 /\ SentAt(l[s]) + Effect <= sample => s < n

MeterTracked(l, basis, unread) ==
    \E n \in 1 .. nextSeq : /\ Standing(l, basis, n, seen)
                            /\ OnlyIssued(l, unread, n) /\ Shown(l, unread, n)

(* The inverter has reached the chain before some n, and what it still has *)
(* to reach are the issued requests from n on: e numbers them.             *)
Ahead(l, unread, n, e) ==
    /\ e \in [1 .. Len(coming) -> Issued(l, unread)]
    /\ \A i, j \in 1 .. Len(coming) : i < j => e[i] < e[j]
    /\ \A s \in Issued(l, unread) : s >= n => \E i \in 1 .. Len(coming) : e[i] = s
    /\ \A i \in 1 .. Len(coming) : /\ e[i] >= n
                                   /\ coming[i].goal = l[e[i]].goal
                                   /\ coming[i].by = SentAt(l[e[i]]) + Effect

OutputTracked(l, basis, unread) ==
    \E n \in 1 .. nextSeq : /\ Standing(l, basis, n, output)
                            /\ OnlyIssued(l, unread, n)
                            /\ \E e : Ahead(l, unread, n, e)

Tracked(l, basis, unread) ==
    MeterTracked(l, basis, unread) /\ OutputTracked(l, basis, unread)

(* Neither changes with what is not about the chain.                       *)
LEMMA SameTracked ==
    ASSUME NEW l, NEW k, NEW basis, NEW u, NEW v,
           Pending(k) = Pending(l), Issued(k, v) = Issued(l, u),
           \A s \in Pending(l) : k[s].goal = l[s].goal /\ k[s].base = l[s].base,
           \A s \in Issued(l, u) : SentAt(k[s]) = SentAt(l[s]),
           Tracked(l, basis, u)
    PROVE  Tracked(k, basis, v)
<1>1. ASSUME NEW n, NEW x, Standing(l, basis, n, x)
      PROVE  Standing(k, basis, n, x)
  BY <1>1 DEF Standing
<1>2. ASSUME NEW n, OnlyIssued(l, u, n)
      PROVE  OnlyIssued(k, v, n)
  BY <1>2 DEF OnlyIssued
<1>3. MeterTracked(k, basis, v)
  <2>1. PICK n \in 1 .. nextSeq : /\ Standing(l, basis, n, seen)
                                  /\ OnlyIssued(l, u, n) /\ Shown(l, u, n)
    BY DEF Tracked, MeterTracked
  <2>2. Shown(k, v, n)
    BY <2>1 DEF Shown
  <2> QED BY <1>1, <1>2, <2>1, <2>2 DEF MeterTracked
<1>4. OutputTracked(k, basis, v)
  <2>1. PICK n \in 1 .. nextSeq : /\ Standing(l, basis, n, output)
                                  /\ OnlyIssued(l, u, n)
                                  /\ \E e : Ahead(l, u, n, e)
    BY DEF Tracked, OutputTracked
  <2>2. PICK e : Ahead(l, u, n, e)
    BY <2>1
  <2>3. \A s \in Issued(l, u) : s \in Pending(l)
    BY DEF Issued
  <2>4. Ahead(k, v, n, e)
    BY <2>2, <2>3 DEF Ahead
  <2> QED BY <1>1, <1>2, <2>1, <2>4 DEF OutputTracked
<1> QED BY <1>3, <1>4 DEF Tracked

(* What the inverter is to reach last is where the issued requests end.    *)
LEMMA GivenStanding ==
    ASSUME RestOK, NEW k \in Nat \ {0}, NEW l, IsLedger(l, k), NEW basis, NEW u,
           Linked(l, basis), OutputTracked(l, basis, u), NEW n \in Nat,
           \A s \in Pending(l) : s < n <=> s \in Issued(l, u)
    PROVE  Standing(l, basis, n, Given)
<1>1. PICK m \in 1 .. nextSeq : /\ Standing(l, basis, m, output)
                                /\ OnlyIssued(l, u, m)
                                /\ \E e : Ahead(l, u, m, e)
  BY DEF OutputTracked
<1>2. PICK e : Ahead(l, u, m, e)
  BY <1>1
<1>3. \A s \in Pending(l) : s \in Nat
  BY DEF Pending, IsLedger
<1>4. CASE coming = << >>
  <2>1. Len(coming) = 0
    BY <1>4
  <2>2. \A s \in Issued(l, u) : ~ (s >= m)
    BY <1>2, <2>1 DEF Ahead
  <2>3. \A s \in Pending(l) : (s < n <=> s < m) /\ (s >= n <=> s >= m)
    BY <1>1, <1>3, <2>2 DEF OnlyIssued
  <2>4. Given = output
    BY <1>4 DEF Given
  <2> QED BY <1>1, <2>3, <2>4 DEF Standing
<1>5. CASE coming # << >>
  <2> DEFINE last == Len(coming)
  <2>1. last \in Nat \ {0} /\ last \in 1 .. Len(coming)
    BY <1>5, EmptySeq, LenProperties DEF RestOK
  <2>2. Given = coming[last].goal
    BY <1>5 DEF Given
  <2> DEFINE z == e[last]
  <2>3. z \in Issued(l, u) /\ z >= m /\ Given = l[z].goal
    BY <1>2, <2>1, <2>2 DEF Ahead
  <2>4. z \in Pending(l)
    BY <2>3 DEF Issued
  <2>5. ASSUME NEW s \in Issued(l, u) PROVE s <= z
    <3>0. s \in Pending(l)
      BY DEF Issued
    <3>1. CASE s >= m
      <4>1. PICK i \in 1 .. Len(coming) : e[i] = s
        BY <1>2, <3>1 DEF Ahead
      <4>2. i < last \/ i = last
        BY <2>1
      <4>3. CASE i < last
        BY <1>2, <1>3, <2>1, <2>4, <3>0, <4>1, <4>3 DEF Ahead
      <4> QED BY <1>3, <2>4, <4>1, <4>2, <4>3
    <3>2. CASE s < m
      BY <1>3, <2>3, <2>4, <3>0, <3>2
    <3> QED BY <1>3, <3>0, <3>1, <3>2
  <2> HIDE DEF z, last
  <2>6. \A s \in Pending(l) : s < n => s <= z
    BY <2>5
  <2>7. z < n
    BY <2>3, <2>4
  <2>8. ASSUME NEW s \in Pending(l), s < n, \A r \in Pending(l) : r < n => r <= s
        PROVE  l[s].goal = Given
    <3>1. s = z
      BY <1>3, <2>4, <2>6, <2>7, <2>8
    <3> QED BY <2>3, <3>1
  <2>9. ASSUME NEW s \in Pending(l), s >= n, \A r \in Pending(l) : r >= n => r >= s
        PROVE  l[s].base = Given
    <3>1. z < s /\ \A q \in Pending(l) : q < s => q <= z
      BY <1>3, <2>4, <2>6, <2>7, <2>9
    <3>2. l[s].base = l[z].goal
      BY <2>4, <3>1, LinkedNeighbours
    <3> QED BY <2>3, <3>2
  <2> QED BY <2>4, <2>8, <2>9 DEF Standing
<1> QED BY <1>4, <1>5

(* Where the chain stands depends on the requests before, not on n.        *)
LEMMA SameStanding ==
    ASSUME NEW k \in Nat \ {0}, NEW l, IsLedger(l, k), NEW basis, NEW x,
           NEW n \in Nat, NEW m \in Nat, \A s \in Pending(l) : s < n <=> s < m,
           Standing(l, basis, n, x)
    PROVE  Standing(l, basis, m, x)
<1>1. \A s \in Pending(l) : s \in Nat
  BY DEF Pending, IsLedger
<1>2. \A s \in Pending(l) : s >= n <=> s >= m
  BY <1>1
<1> QED BY <1>2 DEF Standing

(* Discarding leaves the transmitted requests.                             *)
LEMMA DiscardedPending ==
    ASSUME NEW n \in Nat \ {0}, NEW l, IsLedger(l, n)
    PROVE  /\ Pending(Discarded(l)) = {s \in Pending(l) : l[s].state = "sent"}
           /\ \A s \in Pending(Discarded(l)) : Discarded(l)[s] = l[s]
<1> DEFINE k == Discarded(l)
<1>1. DOMAIN k = DOMAIN l /\ \A s \in DOMAIN l : s \notin Queued(l) => k[s] = l[s]
  BY DEF Discarded
<1>2. ASSUME NEW s \in Queued(l) PROVE k[s].state = "discarded"
  <2>1. s \in DOMAIN l /\ l[s] \in Request
    BY DEF IsLedger, Queued
  <2> QED BY <2>1 DEF Discarded, Request
<1> HIDE DEF k
<1>3. \A s \in Pending(k) : s \notin Queued(l)
  BY <1>2 DEF Pending
<1>4. Pending(k) = {s \in Pending(l) : l[s].state = "sent"}
      /\ \A s \in Pending(k) : k[s] = l[s]
  BY <1>1, <1>3 DEF Pending, Queued
<1> QED BY <1>4 DEF k

(* A discard leaves the tracks where they are, if the safe setpoint it     *)
(* falls back to is what the inverter will have reached.                   *)
LEMMA DiscardedTracked ==
    ASSUME RestOK, NEW j \in Nat \ {0}, NEW l, IsLedger(l, j), NEW basis,
           Chained(l, basis), Tracked(l, basis, FALSE), nextSeq \in Nat \ {0},
           NEW other, Issued(l, FALSE) = {} => other = Given
    PROVE  Tracked(Discarded(l), other, FALSE)
<1> DEFINE k == Discarded(l)
           I == Issued(l, FALSE)
<1>1. Pending(k) = I /\ \A s \in I : k[s] = l[s]
  BY DiscardedPending DEF Issued
<1>2. Issued(k, FALSE) = I
  BY <1>1 DEF Issued
<1>3. I \subseteq Pending(l) /\ \A s \in Pending(l) : s \in Nat
  BY DEF Issued, Pending, IsLedger
<1>4. \A s \in I, r \in Pending(l) : r < s => r \in I
  <2> SUFFICES ASSUME NEW s \in I, NEW r \in Pending(l), r < s PROVE r \in I
    OBVIOUS
  <2>1. s \in Pending(l) /\ l[s].state = "sent" /\ r \in Nat /\ s \in Nat
    BY <1>3 DEF Issued
  <2>2. l[r].state # "queued"
    BY <2>1 DEF Chained, SentFirst
  <2> QED BY <2>2 DEF Issued, Pending
<1>5. PICK m \in 1 .. nextSeq : /\ Standing(l, basis, m, output)
                                /\ OnlyIssued(l, FALSE, m)
                                /\ \E e : Ahead(l, FALSE, m, e)
  BY DEF Tracked, OutputTracked
<1>6. PICK e : Ahead(l, FALSE, m, e)
  BY <1>5
<1>7. PICK n \in 1 .. nextSeq : /\ Standing(l, basis, n, seen)
                                /\ OnlyIssued(l, FALSE, n) /\ Shown(l, FALSE, n)
  BY DEF Tracked, MeterTracked
<1>8. m \in Nat /\ n \in Nat
  BY <1>5, <1>7
<1>9. I = {} => other = output /\ other = seen
  <2> SUFFICES ASSUME I = {} PROVE other = output /\ other = seen
    OBVIOUS
  <2>1. coming = << >>
    <3>1. e \in [1 .. Len(coming) -> {}]
      BY <1>6 DEF Ahead
    <3>2. Len(coming) \in Nat /\ ~ (1 \in 1 .. Len(coming))
      BY <3>1, LenProperties DEF RestOK
    <3>3. Len(coming) = 0
      BY <3>2
    <3> QED BY <3>3, EmptySeq, LenProperties DEF RestOK
  <2>2. other = output
    BY <2>1 DEF Given
  <2>3. \A s \in Pending(l) : ~ (s < n) /\ ~ (s < m)
    BY <1>5, <1>7 DEF OnlyIssued
  <2>4. Standing(l, basis, n, output)
    BY <1>5, <1>8, <2>3, SameStanding
  <2>5. seen = output
    BY <1>7, <1>8, <2>4, StandingUnique
  <2> QED BY <2>2, <2>5
<1>10. ASSUME NEW i \in Nat, NEW x, Standing(l, basis, i, x), OnlyIssued(l, FALSE, i),
              I = {} => other = x
       PROVE  Standing(k, other, i, x) /\ OnlyIssued(k, FALSE, i)
  <2> HIDE DEF k, I
  <2>1. ASSUME NEW s \in I, s < i, \A r \in I : r < i => r <= s
        PROVE  k[s].goal = x
    <3>1. \A r \in Pending(l) : r < i => r <= s
      BY <1>10, <2>1 DEF OnlyIssued, I
    <3> QED BY <1>1, <1>3, <1>10, <2>1, <3>1 DEF Standing
  <2>2. ASSUME NEW s \in I, s >= i, \A r \in I : r >= i => r >= s
        PROVE  k[s].base = x
    <3>1. ASSUME NEW r \in Pending(l), r >= i PROVE r >= s
      <4>1. CASE r < s
        BY <1>4, <2>2, <3>1, <4>1
      <4> QED BY <1>3, <3>1, <4>1
    <3> QED BY <1>1, <1>3, <1>10, <2>2, <3>1 DEF Standing
  <2>3. Standing(k, other, i, x)
    BY <1>1, <1>10, <2>1, <2>2 DEF Standing
  <2>4. OnlyIssued(k, FALSE, i)
    BY <1>1, <1>2 DEF OnlyIssued
  <2> QED BY <2>3, <2>4
<1>11. Shown(k, FALSE, n)
  BY <1>1, <1>2, <1>7 DEF Shown
<1>12. Ahead(k, FALSE, m, e)
  BY <1>1, <1>2, <1>6 DEF Ahead
<1> HIDE DEF k, I
<1>13. MeterTracked(k, other, FALSE)
  BY <1>7, <1>8, <1>9, <1>10, <1>11 DEF MeterTracked
<1>14. OutputTracked(k, other, FALSE)
  BY <1>5, <1>8, <1>9, <1>10, <1>12 DEF OutputTracked
<1> QED BY <1>13, <1>14 DEF Tracked, k

(* A new request goes on where the chain ends.                             *)
LEMMA QueueRequestTracked ==
    ASSUME LedgerInv, NEW w \in Setpoints, QueueRequest(w),
           Tracked(ledger, safe, FALSE)
    PROVE  Tracked(ledger', safe, FALSE)
<1> DEFINE l == ledger
           k == ledger'
           new == nextSeq
<1>1. /\ new \in Nat \ {0} /\ IsLedger(l, new) /\ requested = Newest(l, safe)
      /\ new \notin DOMAIN l /\ DOMAIN l \subseteq 1 .. new - 1
  BY DEF LedgerInv, ModelOK, RequestedFollowsLedger, IsLedger
<1>2. /\ DOMAIN k = DOMAIN l \cup {new} /\ \A s \in DOMAIN l : k[s] = l[s]
      /\ k[new].state = "queued" /\ k[new].base = requested
  BY <1>1 DEF QueueRequest, NewRequest
<1> HIDE DEF l, k
<1>3. Pending(k) = Pending(l) \cup {new}
  BY <1>1, <1>2 DEF Pending
<1>4. \A s \in Pending(l) : s \in DOMAIN l /\ s \in Nat /\ s < new /\ k[s] = l[s]
  BY <1>1, <1>2 DEF Pending
<1>5. Issued(k, FALSE) = Issued(l, FALSE)
  BY <1>2, <1>3, <1>4 DEF Issued
<1>6. \A s \in Issued(l, FALSE) : k[s] = l[s]
  BY <1>4 DEF Issued
<1>7. ASSUME NEW n \in 1 .. new, NEW x, Standing(l, safe, n, x)
      PROVE  Standing(k, safe, n, x)
  <2>1. ASSUME NEW s \in Pending(k), s < n, \A r \in Pending(k) : r < n => r <= s
        PROVE  k[s].goal = x
    <3>1. s \in Pending(l)
      BY <1>1, <1>3, <1>7, <2>1
    <3>2. \A r \in Pending(l) : r < n => r <= s
      BY <1>3, <2>1
    <3> QED BY <1>4, <1>7, <2>1, <3>1, <3>2 DEF Standing
  <2>2. ASSUME NEW s \in Pending(l), s >= n, \A r \in Pending(k) : r >= n => r >= s
        PROVE  k[s].base = x
    <3>1. \A r \in Pending(l) : r >= n => r >= s
      BY <1>3, <2>2
    <3> QED BY <1>4, <1>7, <2>2, <3>1 DEF Standing
  <2>3. ASSUME \A r \in Pending(k) : r >= n => r >= new
        PROVE  k[new].base = x
    <3>1. \A r \in Pending(l) : r < n
      BY <1>1, <1>3, <1>4, <1>7, <2>3
    <3>2. CASE Pending(l) = {}
      BY <1>1, <1>2, <1>7, <3>2 DEF Newest, Standing
    <3>3. CASE Pending(l) # {}
      <4>1. /\ Max(Pending(l)) \in Pending(l)
            /\ \A s \in Pending(l) : s <= Max(Pending(l))
        BY <1>1, <3>3, NewestIsPending
      <4>2. l[Max(Pending(l))].goal = x
        BY <1>7, <3>1, <4>1 DEF Standing
      <4> QED BY <1>1, <1>2, <3>3, <4>2 DEF Newest
    <3> QED BY <3>2, <3>3
  <2> QED BY <1>3, <2>1, <2>2, <2>3 DEF Standing
<1>8. ASSUME NEW n \in 1 .. new, OnlyIssued(l, FALSE, n)
      PROVE  OnlyIssued(k, FALSE, n)
  <2>1. ~ (new < n)
    BY <1>1
  <2> HIDE DEF new
  <2> QED BY <1>3, <1>5, <1>8, <2>1 DEF OnlyIssued
<1>9. MeterTracked(k, safe, FALSE)
  <2>1. PICK n \in 1 .. new : /\ Standing(l, safe, n, seen)
                              /\ OnlyIssued(l, FALSE, n) /\ Shown(l, FALSE, n)
    BY DEF Tracked, MeterTracked, l
  <2>2. Shown(k, FALSE, n)
    BY <1>5, <1>6, <2>1 DEF Shown
  <2> QED BY <1>7, <1>8, <2>1, <2>2 DEF MeterTracked
<1>10. OutputTracked(k, safe, FALSE)
  <2>1. PICK n \in 1 .. new : /\ Standing(l, safe, n, output)
                              /\ OnlyIssued(l, FALSE, n)
                              /\ \E e : Ahead(l, FALSE, n, e)
    BY DEF Tracked, OutputTracked, l
  <2>2. PICK e : Ahead(l, FALSE, n, e)
    BY <2>1
  <2>3. Ahead(k, FALSE, n, e)
    BY <1>5, <1>6, <2>2 DEF Ahead
  <2> QED BY <1>7, <1>8, <2>1, <2>3 DEF OutputTracked
<1> QED BY <1>9, <1>10 DEF Tracked, k

(* A queued request has no send time.                                      *)
Unsent(l) == \A s \in Queued(l) : l[s].sent = None

(* The inverter reaches each limit it received within the effect time.     *)
Arrivals == \A i \in 1 .. Len(coming) :
               now < coming[i].by /\ coming[i].by <= now + Effect

(* Before millis() starts again its values compare as the times do.        *)
LEMMA DueProperties ==
    ASSUME MaxTime + Effect < Wrap, LedgerInv, Clocks,
           NEW s \in DOMAIN ledger, ledger[s].state = "sent"
    PROVE  /\ ledger[s].sent \in Nat /\ ledger[s].sent # None
           /\ Due(ledger[s]) <=> ledger[s].sent + Effect <= sample
           /\ Millis(sample) >= Millis(ledger[s].sent) <=> ledger[s].sent <= sample
<1> DEFINE t == ledger[s].sent
<1>1. /\ sample \in Nat /\ now \in Nat /\ Wrap \in Nat \ {0} /\ Effect \in Nat /\ MaxTime \in Nat
      /\ t \in Nat /\ t <= now /\ sample <= now /\ now <= MaxTime /\ None \notin Nat
  BY LedgerAssumption DEF Clocks, LedgerInv, RestOK, Times
<1> HIDE DEF t
<1>2. /\ t < Wrap /\ t + Effect < Wrap /\ sample < Wrap /\ t + Effect \in Nat
  BY <1>1
<1>3. Millis(sample) = sample /\ Millis(t) = t /\ Millis(t + Effect) = t + Effect
  BY <1>1, <1>2 DEF Millis
<1>4. Due(ledger[s]) <=> t # None /\ Millis(sample) >= Millis(t + Effect)
  BY DEF Due, t
<1>5. t # None
  BY <1>1
<1> QED BY <1>1, <1>2, <1>3, <1>4, <1>5 DEF t

(* What settles was sent, and its effect is over.                          *)
LEMMA SettledProperties ==
    ASSUME MaxTime + Effect < Wrap, LedgerInv, Clocks, Unsent(ledger)
    PROVE  /\ Settled \subseteq Pending(ledger)
           /\ \A s \in Settled : /\ ledger[s].state = "sent"
                                 /\ ledger[s].sent + Effect <= sample
           /\ \A s \in Pending(ledger), r \in Settled : s <= r => s \in Settled
<1>1. Settled = {s \in Pending(ledger) : \A r \in Pending(ledger) : r <= s => Due(ledger[r])}
  BY DEF Settled
<1>2. \A s \in Pending(ledger) : s \in Nat
  BY DEF LedgerInv, ModelOK, IsLedger, Pending
<1>3. \A s \in Settled : s \in Pending(ledger) /\ Due(ledger[s])
  BY <1>1, <1>2
<1>4. ASSUME NEW s \in Settled
      PROVE  ledger[s].state = "sent" /\ ledger[s].sent + Effect <= sample
  <2>1. s \in DOMAIN ledger /\ ledger[s].state \in {"queued", "sent"}
    BY <1>3 DEF Pending
  <2>2. ledger[s].sent # None
    BY <1>3 DEF Due
  <2>3. ledger[s].state = "sent"
    BY <2>1, <2>2 DEF Unsent, Queued
  <2> QED BY <1>3, <2>1, <2>3, DueProperties
<1>5. \A s \in Pending(ledger), r \in Settled : s <= r => s \in Settled
  BY <1>1, <1>2
<1> QED BY <1>3, <1>4, <1>5

(* The advance takes off the front of the chain, which the meter shows and *)
(* the inverter has reached.                                               *)
LEMMA AdvanceTracked ==
    ASSUME MaxTime + Effect < Wrap, LedgerInv, Clocks, Unsent(ledger), Arrivals,
           Chained(ledger, safe), AdvanceLedger, Stale = {},
           Tracked(ledger, safe, FALSE), DOMAIN ledger' = {} => Expected = Given
    PROVE  Tracked(ledger', safe', FALSE)
<1> DEFINE l == ledger
           k == ledger'
<1>1. /\ nextSeq \in Nat \ {0} /\ IsLedger(l, nextSeq) /\ RestOK
      /\ sample \in Nat /\ now \in Nat /\ sample <= now
      /\ \A s \in Pending(l) : s \in Nat /\ s < nextSeq
  BY DEF LedgerInv, ModelOK, RestOK, Times, Clocks, IsLedger, Pending
<1>2. DOMAIN k = Pending(l) \ Settled /\ \A s \in DOMAIN k : k[s] = l[s]
  BY DEF AdvanceLedger, Restrict, Pending
<1>3. DOMAIN k = {} => safe' = Given
  BY DEF AdvanceLedger
<1>4. /\ Settled \subseteq Pending(l)
      /\ \A s \in Settled : l[s].state = "sent" /\ l[s].sent + Effect <= sample
      /\ \A s \in Pending(l), r \in Settled : s <= r => s \in Settled
  BY SettledProperties
<1>5. PICK n \in 1 .. nextSeq : /\ Standing(l, safe, n, seen)
                                /\ OnlyIssued(l, FALSE, n) /\ Shown(l, FALSE, n)
  BY DEF Tracked, MeterTracked
<1>6. PICK m \in 1 .. nextSeq : /\ Standing(l, safe, m, output)
                                /\ OnlyIssued(l, FALSE, m)
                                /\ \E e : Ahead(l, FALSE, m, e)
  BY DEF Tracked, OutputTracked
<1>7. PICK e : Ahead(l, FALSE, m, e)
  BY <1>6
<1>8. Linked(l, safe) /\ OutputTracked(l, safe, FALSE)
  BY DEF Chained, Tracked
<1> HIDE DEF l, k
<1>9. ASSUME NEW s \in Settled
      PROVE  s \in Issued(l, FALSE) /\ SentAt(l[s]) + Effect <= sample
  BY <1>4 DEF Issued, SentAt
<1>10. \A s \in Settled : s < n
  BY <1>5, <1>9 DEF Shown
<1>11. ASSUME NEW s \in Settled PROVE s < m
  <2>1. SUFFICES ASSUME s >= m PROVE FALSE
    BY <1>1, <1>4
  <2>2. PICK i \in 1 .. Len(coming) : e[i] = s
    BY <1>7, <1>9, <2>1 DEF Ahead
  <2>3. coming[i].by = SentAt(l[s]) + Effect
    BY <1>7, <2>2 DEF Ahead
  <2>4. now < SentAt(l[s]) + Effect
    BY <2>3 DEF Arrivals
  <2>5. SentAt(l[s]) + Effect \in Int
    <3>1. l[s] \in Request /\ l[s].state = "sent" /\ s \in DOMAIN ledger
      BY <1>1, <1>4 DEF IsLedger, Pending, l
    <3>2. l[s].sent \in Nat /\ Effect \in Nat
      BY <3>1, LedgerAssumption DEF l, Clocks, Times
    <3> QED BY <3>1, <3>2 DEF SentAt
  <2> DEFINE a == SentAt(l[s]) + Effect
  <2>6. a <= sample /\ now < a /\ a \in Int
    BY <1>9, <2>4, <2>5
  <2> HIDE DEF a
  <2> QED BY <1>1, <2>6
<1>12. Pending(k) = Pending(l) \ Settled /\ \A s \in Pending(k) : k[s] = l[s]
  BY <1>2 DEF Pending
<1>13. Issued(k, FALSE) = Issued(l, FALSE) \ Settled
  BY <1>12 DEF Issued
<1>14. Pending(k) = {} => safe' = output /\ safe' = seen
  <2> SUFFICES ASSUME Pending(k) = {} PROVE safe' = output /\ safe' = seen
    OBVIOUS
  <2>1. Pending(l) = Settled /\ DOMAIN k = {}
    BY <1>2, <1>4, <1>12
  <2>2. \A s \in Pending(l) : s < nextSeq <=> s \in Issued(l, FALSE)
    BY <1>1, <1>9, <2>1
  <2>3. Standing(l, safe, nextSeq, Given)
    BY <1>1, <1>8, <2>2, GivenStanding
  <2>4. /\ \A s \in Pending(l) : s < n <=> s < nextSeq
        /\ \A s \in Pending(l) : s < m <=> s < nextSeq
    BY <1>1, <1>10, <1>11, <2>1
  <2>5. Standing(l, safe, nextSeq, seen) /\ Standing(l, safe, nextSeq, output)
    BY <1>1, <1>5, <1>6, <2>4, SameStanding
  <2>6. Given = seen /\ Given = output
    BY <1>1, <2>3, <2>5, StandingUnique
  <2> QED BY <1>3, <2>1, <2>6
<1>15. ASSUME NEW i \in 1 .. nextSeq, NEW x, Standing(l, safe, i, x),
              OnlyIssued(l, FALSE, i), \A s \in Settled : s < i,
              Pending(k) = {} => safe' = x
       PROVE  Standing(k, safe', i, x) /\ OnlyIssued(k, FALSE, i)
  <2>1. ASSUME NEW s \in Pending(k), s < i, \A r \in Pending(k) : r < i => r <= s
        PROVE  k[s].goal = x
    <3>1. ASSUME NEW r \in Pending(l), r < i PROVE r <= s
      <4>1. CASE r \in Settled
        BY <1>1, <1>4, <1>12, <3>1, <4>1
      <4> QED BY <1>12, <2>1, <3>1, <4>1
    <3> QED BY <1>12, <1>15, <2>1, <3>1 DEF Standing
  <2>2. ASSUME NEW s \in Pending(k), s >= i, \A r \in Pending(k) : r >= i => r >= s
        PROVE  k[s].base = x
    <3>1. ASSUME NEW r \in Pending(l), r >= i PROVE r >= s
      <4>1. r \notin Settled
        BY <1>1, <1>15, <3>1
      <4> QED BY <1>12, <2>2, <3>1, <4>1
    <3> QED BY <1>12, <1>15, <2>2, <3>1 DEF Standing
  <2>3. Standing(k, safe', i, x)
    BY <1>15, <2>1, <2>2 DEF Standing
  <2>4. OnlyIssued(k, FALSE, i)
    BY <1>12, <1>13, <1>15 DEF OnlyIssued
  <2> QED BY <2>3, <2>4
<1>16. Shown(k, FALSE, n)
  BY <1>5, <1>12, <1>13 DEF Shown, Issued
<1>17. Ahead(k, FALSE, m, e)
  <2>1. \A i \in 1 .. Len(coming) : e[i] \in Issued(k, FALSE) /\ k[e[i]] = l[e[i]]
    <3> SUFFICES ASSUME NEW i \in 1 .. Len(coming)
                 PROVE  e[i] \in Issued(k, FALSE) /\ k[e[i]] = l[e[i]]
      OBVIOUS
    <3>1. e[i] \in Issued(l, FALSE) /\ e[i] >= m
      BY <1>7 DEF Ahead
    <3>2. e[i] \in Pending(l)
      BY <3>1 DEF Issued
    <3>3. e[i] \notin Settled
      BY <1>1, <1>11, <3>1, <3>2
    <3> QED BY <1>12, <1>13, <3>1, <3>2, <3>3
  <2>2. e \in [1 .. Len(coming) -> Issued(k, FALSE)]
    BY <1>7, <2>1 DEF Ahead
  <2> QED BY <1>7, <1>13, <2>1, <2>2 DEF Ahead
<1>18. MeterTracked(k, safe', FALSE)
  BY <1>5, <1>10, <1>14, <1>15, <1>16 DEF MeterTracked
<1>19. OutputTracked(k, safe', FALSE)
  BY <1>6, <1>11, <1>14, <1>15, <1>17 DEF OutputTracked
<1> QED BY <1>18, <1>19 DEF Tracked, k

-----------------------------------------------------------------------------
(* The issued requests are the older ones, unless one overtakes another.   *)
LEMMA IssuedAreFirst ==
    ASSUME NEW n \in Nat \ {0}, NEW l, IsLedger(l, n), NEW basis, Chained(l, basis),
           NEW u,
           u => \A s, r \in Queued(l) : l[s].dispatch => ~ (r < s)
    PROVE  IssuedFirst(l, u)
<1> SUFFICES ASSUME NEW s \in Issued(l, u), NEW r \in Pending(l), r < s,
                    r \notin Issued(l, u)
             PROVE  FALSE
  BY DEF IssuedFirst
<1>1. s \in Pending(l) /\ s \in Nat /\ r \in Nat
  BY DEF Issued, Pending, IsLedger
<1>2. l[r].state = "queued" /\ r \in Queued(l)
  BY DEF Issued, Pending, Queued
<1>3. CASE l[s].state = "sent"
  BY <1>1, <1>2, <1>3 DEF Chained, SentFirst
<1>4. CASE l[s].state # "sent"
  <2>1. s \in Queued(l) /\ u /\ l[s].dispatch
    BY <1>1, <1>4 DEF Issued, Pending, Queued
  <2> QED BY <1>2, <2>1
<1> QED BY <1>3, <1>4

(* A command whose answer arrives is the newest issued one: the inverter   *)
(* is to reach it last.                                                    *)
LEMMA ReceivedTracked ==
    ASSUME ModelOK, RestOK, sample <= now,
           NEW d \in Queued(ledger), ledger[d].dispatch, ledger[d].goal = onAir,
           \A s \in Queued(ledger) : ledger[s].dispatch => s = d,
           IssuedFirst(ledger, TRUE), IssuedFirst(ledger, FALSE),
           Tracked(ledger, safe, FALSE), Received,
           UNCHANGED <<ledger, nextSeq, safe, output, sample, seen, now>>
    PROVE  Tracked(ledger, safe, TRUE)'
<1>1. /\ \A s \in Pending(ledger) : s \in Nat
      /\ sample \in Nat /\ now \in Nat /\ Effect \in Nat \ {0}
      /\ coming \in Seq([goal : Setpoints, by : Times]) /\ nextSeq \in Nat \ {0}
  BY LedgerAssumption DEF ModelOK, RestOK, Times, IsLedger, Pending
<1>2. d \in Pending(ledger) /\ ledger[d].state = "queued" /\ d \notin Issued(ledger, FALSE)
  BY DEF Pending, Queued, Issued
<1>3. Issued(ledger, TRUE) = Issued(ledger, FALSE) \cup {d}
  BY <1>2 DEF Issued, Pending, Queued
<1>4. \A s \in Issued(ledger, FALSE) : ledger[s].state = "sent" /\ s \in Pending(ledger)
  BY DEF Issued
<1>5. \A s \in Issued(ledger, FALSE) : s < d
  <2> SUFFICES ASSUME NEW s \in Issued(ledger, FALSE) PROVE s < d
    OBVIOUS
  <2>1. s \in Pending(ledger) /\ s # d
    BY <1>2 DEF Issued
  <2>2. ~ (d < s)
    BY <1>2 DEF IssuedFirst
  <2> QED BY <1>1, <1>2, <2>1, <2>2
<1>6. \A s \in Issued(ledger, FALSE) : SentAt(ledger[s]) = ledger[s].sent
  BY <1>4 DEF SentAt
<1>7. SentAt(ledger[d]) = now
  BY <1>2 DEF SentAt
<1>8. MeterTracked(ledger, safe, TRUE)'
  <2>1. PICK n \in 1 .. nextSeq : /\ Standing(ledger, safe, n, seen)
                                  /\ OnlyIssued(ledger, FALSE, n) /\ Shown(ledger, FALSE, n)
    BY DEF Tracked, MeterTracked
  <2>2. ~ (d < n)
    BY <1>2, <2>1 DEF OnlyIssued
  <2>3. OnlyIssued(ledger, TRUE, n)
    BY <1>3, <2>1 DEF OnlyIssued
  <2>4. ~ (now + Effect <= sample)
    BY <1>1
  <2>5. Shown(ledger, TRUE, n)'
    <3> SUFFICES ASSUME NEW s \in Issued(ledger, TRUE)
                 PROVE  /\ s < n => SentAt(ledger[s]) <= sample
                        /\ SentAt(ledger[s]) + Effect <= sample => s < n
      BY DEF Shown, SentAt
    <3>1. CASE s = d
      BY <1>7, <2>2, <2>4, <3>1
    <3>2. CASE s \in Issued(ledger, FALSE)
      BY <2>1, <3>2 DEF Shown
    <3> QED BY <1>3, <3>1, <3>2
  <2> QED BY <2>1, <2>3, <2>5 DEF MeterTracked
<1>9. OutputTracked(ledger, safe, TRUE)'
  <2>10. PICK c : c = Len(coming)
    OBVIOUS
  <2>1. PICK n \in 1 .. nextSeq : /\ Standing(ledger, safe, n, output)
                                  /\ OnlyIssued(ledger, FALSE, n)
                                  /\ \E e : Ahead(ledger, FALSE, n, e)
    BY DEF Tracked, OutputTracked
  <2>11. PICK e : Ahead(ledger, FALSE, n, e)
    BY <2>1
  <2>2. /\ e \in [1 .. c -> Issued(ledger, FALSE)]
        /\ \A i, j \in 1 .. c : i < j => e[i] < e[j]
        /\ \A s \in Issued(ledger, FALSE) : s >= n => \E i \in 1 .. c : e[i] = s
        /\ \A i \in 1 .. c : /\ e[i] >= n
                              /\ coming[i].goal = ledger[e[i]].goal
                              /\ coming[i].by = SentAt(ledger[e[i]]) + Effect
    BY <2>10, <2>11 DEF Ahead
  <2>3. ~ (d < n) /\ n \in Nat
    <3>1. ~ (d < n)
      BY <1>2, <2>1 DEF OnlyIssued
    <3>2. n \in Nat
      BY <1>1, <2>1
    <3> QED BY <3>1, <3>2
  <2>4. OnlyIssued(ledger, TRUE, n)
    BY <1>3, <2>1 DEF OnlyIssued
  <2>12. PICK f : f = [i \in 1 .. c + 1 |-> IF i = c + 1 THEN d ELSE e[i]]
    OBVIOUS
  <2>5. /\ c \in Nat /\ Len(coming') = c + 1
        /\ \A i \in 1 .. c : coming'[i] = coming[i]
        /\ coming'[c + 1].goal = onAir /\ coming'[c + 1].by = now + Effect
    <3> DEFINE r == [goal |-> onAir, by |-> now + Effect]
    <3>1. r \in [goal : Setpoints, by : Times]
      <4>1. ledger[d] \in Request
        BY DEF ModelOK, IsLedger, Queued
      <4> QED BY <1>1, <4>1 DEF Request, Times
    <3>2. coming' = Append(coming, r) /\ r.goal = onAir /\ r.by = now + Effect
      BY DEF Received
    <3> HIDE DEF r
    <3> QED BY <1>1, <2>10, <3>1, <3>2, AppendProperties, LenProperties
  <2>6. /\ \A i \in 1 .. c : i \in 1 .. c + 1 /\ i # c + 1 /\ f[i] = e[i]
        /\ f[c + 1] = d /\ c + 1 \in 1 .. c + 1
        /\ \A i \in 1 .. c + 1 : i \in 1 .. c \/ i = c + 1
    BY <2>5, <2>12
  <2>7. \A i \in 1 .. c : e[i] \in Issued(ledger, FALSE)
    BY <2>2
  <2>8. f \in [1 .. c + 1 -> Issued(ledger, TRUE)]
    BY <1>3, <2>6, <2>7, <2>12
  <2>9. Ahead(ledger, TRUE, n, f)'
    <3>1. \A a, b \in 1 .. c + 1 : a < b => f[a] < f[b]
      <4> SUFFICES ASSUME NEW a \in 1 .. c + 1, NEW b \in 1 .. c + 1, a < b
                   PROVE  f[a] < f[b]
        OBVIOUS
      <4>1. a \in 1 .. c
        BY <2>5
      <4>2. CASE b = c + 1
        BY <1>5, <2>6, <2>7, <4>1, <4>2
      <4>3. CASE b \in 1 .. c
        BY <2>2, <2>6, <4>1, <4>3
      <4> QED BY <2>6, <4>2, <4>3
    <3>2. \A s \in Issued(ledger, TRUE) : s >= n => \E i \in 1 .. c + 1 : f[i] = s
      <4> SUFFICES ASSUME NEW s \in Issued(ledger, TRUE), s >= n
                   PROVE  \E i \in 1 .. c + 1 : f[i] = s
        OBVIOUS
      <4>1. CASE s = d
        BY <2>6, <4>1
      <4>2. CASE s \in Issued(ledger, FALSE)
        <5>1. PICK i \in 1 .. c : e[i] = s
          BY <2>2, <4>2
        <5> QED BY <2>6, <5>1
      <4> QED BY <1>3, <4>1, <4>2
    <3>3. \A i \in 1 .. c + 1 : /\ f[i] >= n
                                /\ coming'[i].goal = ledger[f[i]].goal
                                /\ coming'[i].by = SentAt(ledger[f[i]]) + Effect
      <4> SUFFICES ASSUME NEW i \in 1 .. c + 1
                   PROVE  /\ f[i] >= n
                          /\ coming'[i].goal = ledger[f[i]].goal
                          /\ coming'[i].by = SentAt(ledger[f[i]]) + Effect
        OBVIOUS
      <4>1. CASE i = c + 1
        <5>1. f[i] = d
          BY <2>6, <4>1
        <5>2. d >= n
          BY <1>1, <1>2, <2>3
        <5> QED BY <1>7, <2>5, <4>1, <5>1, <5>2
      <4>2. CASE i \in 1 .. c
        <5>1. f[i] = e[i] /\ e[i] \in Issued(ledger, FALSE) /\ coming'[i] = coming[i]
          BY <2>5, <2>6, <2>7, <4>2
        <5>2. /\ e[i] >= n /\ coming[i].goal = ledger[e[i]].goal
              /\ coming[i].by = SentAt(ledger[e[i]]) + Effect
          BY <2>2, <4>2
        <5> QED BY <5>1, <5>2
      <4> QED BY <2>6, <4>1, <4>2
    <3>5. Len(coming)' = c + 1 /\ ledger' = ledger /\ now' = now
      BY <2>5
    <3>6. f \in [1 .. Len(coming)' -> Issued(ledger, TRUE)']
      BY <2>8, <3>5
    <3>7. \A i \in 1 .. Len(coming)' : coming'[i].by = SentAt(ledger[f[i]])' + Effect
      <4>1. \A x : SentAt(ledger[x])' = SentAt(ledger[x])
        BY <3>5 DEF SentAt
      <4> QED BY <3>3, <3>5, <4>1
    <3>8. \A s \in Issued(ledger, TRUE)' : s >= n => \E i \in 1 .. Len(coming)' : f[i] = s
      BY <3>2, <3>5
    <3>9. \A x \in 1 .. Len(coming)', y \in 1 .. Len(coming)' : x < y => f[x] < f[y]
      BY <3>1, <3>5
    <3>10. \A i \in 1 .. Len(coming)' : f[i] >= n /\ coming'[i].goal = ledger'[f[i]].goal
      BY <3>3, <3>5
    <3> QED BY <3>6, <3>7, <3>8, <3>9, <3>10 DEF Ahead
  <2> QED BY <2>1, <2>4, <2>9 DEF OutputTracked
<1> QED BY <1>8, <1>9 DEF Tracked

(* When the inverter reaches a limit, it stands one request further.       *)
LEMMA ReachTracked ==
    ASSUME ModelOK, RestOK, Linked(ledger, safe), NEW u, IssuedFirst(ledger, u),
           Tracked(ledger, safe, u), coming # << >>,
           output' = Head(coming).goal, coming' = Tail(coming),
           UNCHANGED <<ledger, nextSeq, safe, sample, seen, now>>
    PROVE  Tracked(ledger, safe, u)'
<1>1. /\ nextSeq \in Nat \ {0} /\ IsLedger(ledger, nextSeq)
      /\ \A s \in Pending(ledger) : s \in Nat /\ s < nextSeq
      /\ coming \in Seq([goal : Setpoints, by : Times])
  BY DEF ModelOK, RestOK, IsLedger, Pending
<1>2. MeterTracked(ledger, safe, u)'
  <2>1. PICK n \in 1 .. nextSeq : /\ Standing(ledger, safe, n, seen)
                                  /\ OnlyIssued(ledger, u, n) /\ Shown(ledger, u, n)
    BY DEF Tracked, MeterTracked
  <2>2. Shown(ledger, u, n)'
    BY <2>1 DEF Shown, SentAt
  <2> QED BY <2>1, <2>2 DEF MeterTracked
<1>3. OutputTracked(ledger, safe, u)'
  <2>1. PICK m \in 1 .. nextSeq : /\ Standing(ledger, safe, m, output)
                                  /\ OnlyIssued(ledger, u, m)
                                  /\ \E e : Ahead(ledger, u, m, e)
    BY DEF Tracked, OutputTracked
  <2>2. PICK e : Ahead(ledger, u, m, e)
    BY <2>1
  <2>3. PICK c : c = Len(coming)
    OBVIOUS
  <2>4. /\ e \in [1 .. c -> Issued(ledger, u)]
        /\ \A i, j \in 1 .. c : i < j => e[i] < e[j]
        /\ \A s \in Issued(ledger, u) : s >= m => \E i \in 1 .. c : e[i] = s
        /\ \A i \in 1 .. c : /\ e[i] >= m
                             /\ coming[i].goal = ledger[e[i]].goal
                             /\ coming[i].by = SentAt(ledger[e[i]]) + Effect
    BY <2>2, <2>3 DEF Ahead
  <2>5. /\ c \in Nat \ {0} /\ Len(coming)' = c - 1
        /\ output' = coming[1].goal
        /\ \A i \in 1 .. c - 1 : coming'[i] = coming[i + 1]
    BY <1>1, <2>3, EmptySeq, LenProperties, HeadTailProperties
  <2>6. PICK z : z = e[1]
    OBVIOUS
  <2>7. /\ z \in Issued(ledger, u) /\ z \in Pending(ledger) /\ z \in Nat /\ z < nextSeq
        /\ z >= m /\ output' = ledger[z].goal
    <3>1. 1 \in 1 .. c
      BY <2>5
    <3>2. z \in Issued(ledger, u) /\ z >= m /\ output' = ledger[z].goal
      BY <2>4, <2>5, <2>6, <3>1
    <3>3. z \in Pending(ledger)
      BY <3>2 DEF Issued
    <3> QED BY <1>1, <3>2, <3>3
  <2>8. PICK n : n = z + 1
    OBVIOUS
  <2>9. n \in Nat /\ n \in 1 .. nextSeq
    BY <1>1, <2>7, <2>8
  <2>10. \A s \in Pending(ledger) : (s < n <=> s <= z) /\ (s >= n <=> z < s)
    BY <1>1, <2>7, <2>8
  <2>11. OnlyIssued(ledger, u, n)
    <3> SUFFICES ASSUME NEW s \in Pending(ledger), s < n
                 PROVE  s \in Issued(ledger, u)
      BY DEF OnlyIssued
    <3>1. s = z \/ s < z
      <4>1. s \in Nat
        BY <1>1
      <4>2. s <= z
        BY <2>10
      <4>3. z \in Nat
        BY <2>7
      <4> QED BY ONLY <4>1, <4>2, <4>3
    <3> QED BY <2>7, <3>1 DEF IssuedFirst
  <2>12. Standing(ledger, safe, n, output')
    <3>1. ASSUME NEW s \in Pending(ledger), s < n,
                 \A r \in Pending(ledger) : r < n => r <= s
          PROVE  ledger[s].goal = output'
      <4>1. s = z
        <5>1. s \in Nat
          BY <1>1
        <5>2. s <= z
          BY <2>10, <3>1
        <5>3. z < n
          BY <2>7, <2>8
        <5>4. z \in Nat /\ z <= s
          BY <2>7, <3>1, <5>3
        <5> QED BY ONLY <5>1, <5>2, <5>4
      <4> QED BY <2>7, <4>1
    <3>2. ASSUME NEW s \in Pending(ledger), s >= n,
                 \A r \in Pending(ledger) : r >= n => r >= s
          PROVE  ledger[s].base = output'
      <4>1. ASSUME NEW q \in Pending(ledger), q < s PROVE q <= z
        <5>1. q \in Nat /\ s \in Nat
          BY <1>1
        <5>2. ~ (q >= n)
          <6>1. q >= n => q >= s
            BY <3>2
          <6> QED BY ONLY <4>1, <5>1, <6>1
        <5>3. q < n
          BY ONLY <2>9, <5>1, <5>2
        <5> QED BY <2>10, <5>3
      <4>2. ledger[s].base = ledger[z].goal
        <5>1. z < s
          BY <2>10, <3>2
        <5> QED BY <1>1, <2>7, <4>1, <5>1, LinkedNeighbours
      <4> QED BY <2>7, <4>2
    <3> QED BY <2>7, <3>1, <3>2 DEF Standing
  <2>13. PICK f : f = [i \in 1 .. c - 1 |-> e[i + 1]]
    OBVIOUS
  <2>14. \A i \in 1 .. c - 1 : /\ f[i] = e[i + 1] /\ i + 1 \in 1 .. c /\ 1 < i + 1
                               /\ coming'[i] = coming[i + 1]
    BY <2>5, <2>13
  <2>15. f \in [1 .. c - 1 -> Issued(ledger, u)]
    BY <2>4, <2>13, <2>14
  <2>16. \A i, j \in 1 .. c - 1 : i < j => f[i] < f[j]
    <3> SUFFICES ASSUME NEW i \in 1 .. c - 1, NEW j \in 1 .. c - 1, i < j
                 PROVE  f[i] < f[j]
      OBVIOUS
    <3>1. i + 1 < j + 1
      BY <2>5
    <3> QED BY <2>4, <2>14, <3>1
  <2>17. \A s \in Issued(ledger, u) : s >= n => \E i \in 1 .. c - 1 : f[i] = s
    <3> SUFFICES ASSUME NEW s \in Issued(ledger, u), s >= n
                 PROVE  \E i \in 1 .. c - 1 : f[i] = s
      OBVIOUS
    <3>1. s \in Pending(ledger)
      BY DEF Issued
    <3>2. s \in Nat /\ z < s /\ s >= m
      <4>1. s \in Nat /\ z < s
        BY <1>1, <2>10, <3>1
      <4> QED BY <2>1, <2>7, <4>1
    <3>3. PICK i \in 1 .. c : e[i] = s
      BY <2>4, <3>2
    <3>4. i # 1
      BY <2>6, <2>7, <3>2, <3>3
    <3>5. i - 1 \in 1 .. c - 1 /\ (i - 1) + 1 = i
      BY <2>5, <3>4
    <3>6. f[i - 1] = s
      BY <2>14, <3>3, <3>5
    <3> QED BY <3>5, <3>6
  <2>18. \A i \in 1 .. c - 1 : /\ f[i] >= n
                               /\ coming'[i].goal = ledger[f[i]].goal
                               /\ coming'[i].by = SentAt(ledger[f[i]]) + Effect
    <3> SUFFICES ASSUME NEW i \in 1 .. c - 1
                 PROVE  /\ f[i] >= n
                        /\ coming'[i].goal = ledger[f[i]].goal
                        /\ coming'[i].by = SentAt(ledger[f[i]]) + Effect
      OBVIOUS
    <3>1. f[i] = e[i + 1] /\ i + 1 \in 1 .. c /\ 1 < i + 1 /\ coming'[i] = coming[i + 1]
      BY <2>14
    <3>2. 1 \in 1 .. c
      BY <2>5
    <3>3. z < f[i]
      BY <2>4, <2>6, <3>1, <3>2
    <3>4. f[i] \in Pending(ledger)
      BY <2>15 DEF Issued
    <3> QED BY <2>4, <2>10, <3>1, <3>3, <3>4
  <2>19. Ahead(ledger, u, n, f)'
    <3>1. Len(coming)' = c - 1 /\ ledger' = ledger /\ now' = now
      BY <2>5
    <3>2. \A x : SentAt(ledger[x])' = SentAt(ledger[x])
      BY <3>1 DEF SentAt
    <3>3. f \in [1 .. Len(coming)' -> Issued(ledger, u)']
      BY <2>15, <3>1
    <3>4. \A i, j \in 1 .. Len(coming)' : i < j => f[i] < f[j]
      BY <2>16, <3>1
    <3>5. \A s \in Issued(ledger, u)' : s >= n => \E i \in 1 .. Len(coming)' : f[i] = s
      BY <2>17, <3>1
    <3>6. \A i \in 1 .. Len(coming)' : /\ f[i] >= n
                                       /\ coming'[i].goal = ledger'[f[i]].goal
                                       /\ coming'[i].by = SentAt(ledger[f[i]])' + Effect
      BY <2>18, <3>1, <3>2
    <3> QED BY <3>3, <3>4, <3>5, <3>6 DEF Ahead
  <2> QED BY <2>9, <2>11, <2>12, <2>19 DEF OutputTracked
<1> QED BY <1>2, <1>3 DEF Tracked

(* The tracks depend on the present only through the ledger and on the     *)
(* time only while an answer is unread.                                    *)
LEMMA TrackedLater ==
    ASSUME NEW u, nextSeq \in Nat \ {0}, nextSeq' \in {nextSeq, nextSeq + 1},
           UNCHANGED <<output, coming, sample, seen>>, now' = now \/ u = FALSE,
           Tracked(ledger', safe', u)
    PROVE  Tracked(ledger, safe, u)'
<1>1. \A n \in 1 .. nextSeq : n \in 1 .. nextSeq'
  OBVIOUS
<1>2. \A s \in Issued(ledger', u) : SentAt(ledger[s])' = SentAt(ledger'[s])
  BY DEF Issued, SentAt
<1>3. MeterTracked(ledger, safe, u)'
  <2>1. PICK n \in 1 .. nextSeq : /\ Standing(ledger', safe', n, seen)
                                  /\ OnlyIssued(ledger', u, n) /\ Shown(ledger', u, n)
    BY DEF Tracked, MeterTracked
  <2>2. Shown(ledger, u, n)'
    BY <1>2, <2>1 DEF Shown
  <2>3. Standing(ledger, safe, n, seen)' /\ OnlyIssued(ledger, u, n)'
    BY <2>1
  <2> QED BY <1>1, <2>2, <2>3 DEF MeterTracked
<1>4. OutputTracked(ledger, safe, u)'
  <2>1. PICK n \in 1 .. nextSeq : /\ Standing(ledger', safe', n, output)
                                  /\ OnlyIssued(ledger', u, n)
                                  /\ \E e : Ahead(ledger', u, n, e)
    BY DEF Tracked, OutputTracked
  <2>2. PICK e : Ahead(ledger', u, n, e)
    BY <2>1
  <2>3. \A i \in 1 .. Len(coming) : e[i] \in Issued(ledger', u)
    BY <2>2 DEF Ahead
  <2>4. Ahead(ledger, u, n, e)'
    BY <1>2, <2>2, <2>3 DEF Ahead
  <2>5. Standing(ledger, safe, n, output)' /\ OnlyIssued(ledger, u, n)'
    BY <2>1
  <2> QED BY <1>1, <2>4, <2>5 DEF OutputTracked
<1> QED BY <1>3, <1>4 DEF Tracked

(* A new sample shows what the inverter has reached.                       *)
LEMMA MeterSampleTracked ==
    ASSUME ModelOK, RestOK, Clocks, Arrivals, NEW u, Tracked(ledger, safe, u),
           sample' = now, seen' = output,
           UNCHANGED <<ledger, nextSeq, safe, output, coming, now>>
    PROVE  Tracked(ledger, safe, u)'
<1>1. PICK m \in 1 .. nextSeq : /\ Standing(ledger, safe, m, output)
                                /\ OnlyIssued(ledger, u, m)
                                /\ \E e : Ahead(ledger, u, m, e)
  BY DEF Tracked, OutputTracked
<1>2. PICK e : Ahead(ledger, u, m, e)
  BY <1>1
<1>3. Ahead(ledger, u, m, e)'
  BY <1>2 DEF Ahead, SentAt
<1>4. OutputTracked(ledger, safe, u)'
  BY <1>1, <1>3 DEF OutputTracked
<1>5. ASSUME NEW s \in Issued(ledger, u)
      PROVE  SentAt(ledger[s]) <= now /\ (SentAt(ledger[s]) + Effect <= now => s < m)
  <2> DEFINE t == SentAt(ledger[s])
  <2>1. s \in DOMAIN ledger /\ s \in Nat
    BY DEF Issued, Pending, ModelOK, IsLedger
  <2>2. now \in Nat /\ Effect \in Nat
    BY LedgerAssumption DEF RestOK, Times
  <2>3. t \in Nat /\ t <= now
    BY <2>1, <2>2 DEF SentAt, Clocks, Times
  <2>4. ASSUME ~ (s < m) PROVE now < t + Effect
    <3>1. s >= m
      BY <1>1, <2>1, <2>4 DEF ModelOK
    <3>2. PICK i \in 1 .. Len(coming) : e[i] = s
      BY <1>2, <3>1 DEF Ahead
    <3>3. coming[i].by = t + Effect
      BY <1>2, <3>2 DEF Ahead
    <3> QED BY <3>2, <3>3 DEF Arrivals
  <2> HIDE DEF t
  <2>5. t + Effect <= now => s < m
    BY <2>2, <2>3, <2>4
  <2> QED BY <2>3, <2>5 DEF t
<1>6. Shown(ledger, u, m)'
  BY <1>5 DEF Shown, SentAt
<1>7. MeterTracked(ledger, safe, u)'
  BY <1>1, <1>6 DEF MeterTracked
<1> QED BY <1>4, <1>7 DEF Tracked

-----------------------------------------------------------------------------
(* The answer to the command in flight is there, and update() has not read *)
(* it yet.  When the command overtakes an older request the history strays *)
(* as soon as it does: the rest of the invariant is about the others.      *)
Unread == inflight # None /\ answer = "ok"

Doomed == strayed \/ (Unread /\ Overtaking)

Command ==
    /\ inflight # None => want # None /\ onAir = inflight /\ answer # "none"
    /\ at # "idle" => ~ Unread

(* What is wanted is what was requested last, and queued while it is; one  *)
(* of the queued requests is marked while a command is in flight; and the  *)
(* output update() falls back to is where the commands lead.               *)
Wanted == /\ want # None <=> Queued(ledger) # {}
          /\ want # None => want = requested

Flight == inflight # None => \E s \in Queued(ledger) : ledger[s].dispatch

Assumed ==
    ~ Unread => /\ Current = Given
                /\ assumed = None => coming = << >>
                /\ \A i \in 1 .. Len(coming) : coming[i].by <= assumedUntil

InStep == /\ Wanted /\ Flight /\ Assumed
          /\ Unread => Tracked(ledger, safe, TRUE)
          /\ ~ Unread => Tracked(ledger, safe, FALSE)

ForecastInv == /\ LedgerInv /\ DispatchedIsInFlight /\ Clocks /\ ChainInv
               /\ Command /\ Arrivals /\ Unsent(ledger)
               /\ ~ Doomed => InStep

(* Every step keeps the command in flight and the target together, and an  *)
(* answer is read before the ledger advances.                              *)
LEMMA NextCommand ==
    ASSUME LedgerInv, Command, [Next]_vars
    PROVE  Command'
<1>0. None \notin Setpoints
  BY LedgerAssumption
<1>1. CASE UpdateNothing
  BY <1>1 DEF UpdateNothing, Reset, Command, Unread
<1>2. CASE UpdateWait
  BY <1>2 DEF UpdateWait, radio, Command, Unread
<1>3. CASE UpdateFailure
  BY <1>3 DEF UpdateFailure, Reset, Command, Unread
<1>4. CASE UpdateDispatch
  BY <1>4 DEF UpdateDispatch, Dispatch, Command, Unread
<1>5. CASE UpdateReached
  BY <1>5 DEF UpdateReached, Reset, Command, Unread
<1>6. CASE UpdateNext
  BY <1>6 DEF UpdateNext, Acknowledge, Dispatch, Command, Unread
<1>7. CASE AdvanceLedger
  BY <1>7 DEF AdvanceLedger, target, radio, Command, Unread
<1>8. ASSUME NEW w \in Setpoints, Plan(w) PROVE Command'
  BY <1>0, <1>8 DEF Plan, radio, Command, Unread
<1>9. CASE NoPlan
  BY <1>9 DEF NoPlan, target, radio, Command, Unread
<1>10. CASE Environment
  BY <1>10 DEF Environment, AnswerOk, AnswerFailed, Reach, MeterSample, InverterStats, Tick,
     Between, target, radio, Command, Unread
<1>11. CASE UNCHANGED vars
  BY <1>11 DEF vars, target, radio, Command, Unread
<1> QED BY <1>1, <1>2, <1>3, <1>4, <1>5, <1>6, <1>7, <1>8, <1>9, <1>10, <1>11
        DEF Next, Update

(* Time does not pass a limit that the inverter has still to reach.        *)
LEMMA NextArrivals ==
    ASSUME LedgerInv, Arrivals, [Next]_vars
    PROVE  Arrivals'
<1>1. /\ coming \in Seq([goal : Setpoints, by : Times]) /\ now \in Nat
      /\ Effect \in Nat \ {0} /\ (answer = "pending" => onAir \in Setpoints)
  BY LedgerAssumption DEF LedgerInv, RestOK, Times
<1>2. Len(coming) \in Nat /\ \A i \in 1 .. Len(coming) : coming[i].by \in Nat
  <2>1. \A i \in 1 .. Len(coming) : coming[i] \in [goal : Setpoints, by : Times]
    BY <1>1, ElementOfSeq
  <2> QED BY <1>1, <2>1, LenProperties DEF Times
<1>3. CASE UNCHANGED <<coming, now>>
  BY <1>3 DEF Arrivals
<1>4. CASE answer = "pending" /\ Received /\ now' = now
  <2> DEFINE r == [goal |-> onAir, by |-> now + Effect]
  <2>1. r \in [goal : Setpoints, by : Times] /\ r.by = now + Effect
    BY <1>1, <1>4 DEF Times
  <2>2. coming' = Append(coming, r)
    BY <1>4 DEF Received
  <2> HIDE DEF r
  <2>3. /\ Len(coming') = Len(coming) + 1
        /\ \A i \in 1 .. Len(coming) : coming'[i] = coming[i]
        /\ coming'[Len(coming) + 1] = r
    BY <1>1, <2>1, <2>2, AppendProperties
  <2>4. \A i \in 1 .. Len(coming') : i \in 1 .. Len(coming) \/ i = Len(coming) + 1
    BY <1>2, <2>3
  <2>5. now < now + Effect /\ now + Effect <= now + Effect
    BY <1>1
  <2>6. ASSUME NEW i \in 1 .. Len(coming')
        PROVE  now < coming'[i].by /\ coming'[i].by <= now + Effect
    <3>1. CASE i = Len(coming) + 1
      <4>1. coming'[i] = r
        BY <2>3, <3>1, Zenon
      <4>2. coming'[i].by = now + Effect
        BY <2>1, <4>1, Zenon
      <4> QED BY <2>5, <4>2, Zenon
    <3>2. CASE i \in 1 .. Len(coming)
      BY <2>3, <3>2 DEF Arrivals
    <3> QED BY <2>4, <3>1, <3>2
  <2> QED BY <1>4, <2>6 DEF Arrivals
<1>5. CASE Reach
  <2>1. coming # << >> /\ coming' = Tail(coming) /\ now' = now
    BY <1>5 DEF Reach
  <2>2. /\ Len(coming') = Len(coming) - 1
        /\ \A i \in 1 .. Len(coming') : coming'[i] = coming[i + 1]
    BY <1>1, <2>1, HeadTailProperties
  <2>3. \A i \in 1 .. Len(coming') : i + 1 \in 1 .. Len(coming)
    BY <1>2, <2>2
  <2> QED BY <2>1, <2>2, <2>3 DEF Arrivals
<1>6. CASE Tick
  <2>1. now' = now + 1 /\ coming' = coming
        /\ \A i \in DOMAIN coming : now + 1 < coming[i].by
    BY <1>6 DEF Tick, world
  <2>2. DOMAIN coming = 1 .. Len(coming)
    BY <1>1, LenProperties
  <2>3. ASSUME NEW i \in 1 .. Len(coming)
        PROVE  now + 1 < coming[i].by /\ coming[i].by <= now + 1 + Effect
    <3>1. now + 1 < coming[i].by
      BY <2>1, <2>2
    <3>2. coming[i].by <= now + Effect
      BY DEF Arrivals
    <3> QED BY <1>1, <1>2, <3>1, <3>2
  <2> QED BY <2>1, <2>3 DEF Arrivals
<1>7. CASE UNCHANGED vars
  BY <1>3, <1>7 DEF vars, world
<1> QED BY <1>3, <1>4, <1>5, <1>6, <1>7 DEF Next, Update, UpdateNothing, UpdateWait,
       UpdateFailure, UpdateDispatch, UpdateReached, UpdateNext, Acknowledge, AdvanceLedger,
       Plan, NoPlan, Environment, AnswerOk, AnswerFailed, MeterSample, InverterStats,
       world

(* Nothing gives a queued request a send time.                             *)
LEMMA NextUnsent ==
    ASSUME LedgerInv, Unsent(ledger), [Next]_vars
    PROVE  Unsent(ledger')
<1>1. nextSeq \in Nat \ {0} /\ IsLedger(ledger, nextSeq)
  BY DEF LedgerInv, ModelOK
<1> DEFINE Good(l) == IsLedger(l, nextSeq) /\ Unsent(l)
<1>2. ASSUME NEW l, Good(l) PROVE Good(Discarded(l))
  <2>1. Queued(Discarded(l)) = {}
    BY DiscardedNone
  <2> QED BY <1>1, <1>2, <2>1, DiscardedType DEF Unsent
<1>3. ASSUME NEW l, Good(l), NEW w PROVE Good(MarkDispatched(l, w))
  <2>1. IsLedger(MarkDispatched(l, w), nextSeq)
    BY <1>1, <1>3, MarkDispatchedProperties
  <2>2. CASE Matching(l, w) = {}
    BY <1>3, <2>2 DEF MarkDispatched
  <2>3. CASE Matching(l, w) # {}
    <3> DEFINE m == Max(Matching(l, w))
               k == MarkDispatched(l, w)
    <3>1. k = [l EXCEPT ![m] = [l[m] EXCEPT !.dispatch = TRUE]]
      BY <2>3 DEF MarkDispatched
    <3> HIDE DEF m
    <3>2. \A s \in DOMAIN k : s \in DOMAIN l /\ l[s] \in Request
      BY <1>3, <3>1 DEF IsLedger
    <3>3. \A s \in DOMAIN k : k[s].state = l[s].state /\ k[s].sent = l[s].sent
      BY <3>1, <3>2 DEF Request
    <3> HIDE DEF k
    <3>4. Unsent(k)
      BY <1>3, <3>2, <3>3 DEF Unsent, Queued
    <3> QED BY <2>1, <3>4 DEF k
  <2> QED BY <2>2, <2>3
<1>4. ASSUME NEW l, Good(l), NEW w, now \in Times PROVE Good(MarkSent(l, w))
  <2>1. IsLedger(MarkSent(l, w), nextSeq)
    BY <1>1, <1>4, MarkSentProperties
  <2>2. CASE Booked(l, w) = {}
    BY <1>4, <2>2 DEF MarkSent
  <2>3. CASE Booked(l, w) # {}
    <3> DEFINE m == Max(Booked(l, w))
               k == MarkSent(l, w)
    <3>1. DOMAIN k = DOMAIN l /\ (\A s \in DOMAIN l : s # m => k[s] = l[s])
          /\ k[m].state = "sent"
      BY <1>1, <1>4, <2>3, MarkSentOne
    <3> HIDE DEF m, k
    <3>2. Unsent(k)
      BY <1>4, <3>1 DEF Unsent, Queued
    <3> QED BY <2>1, <3>2 DEF k
  <2> QED BY <2>2, <2>3
<1>5. Good(ledger) /\ now \in Times
  BY <1>1 DEF LedgerInv, RestOK
<1>6. ASSUME NEW l, Good(l), NEW current, DiscardQueued(l, current) PROVE Unsent(ledger')
  BY <1>2, <1>6 DEF DiscardQueued
<1>7. Good(MarkSent(ledger, inflight))
  BY <1>4, <1>5
<1>8. \A w : Good(MarkDispatched(ledger, w))
             /\ Good(MarkDispatched(MarkSent(ledger, inflight), w))
  BY <1>3, <1>5, <1>7
<1> HIDE DEF Good
<1>9. CASE UpdateNothing \/ UpdateFailure
  BY <1>5, <1>6, <1>9 DEF UpdateNothing, UpdateFailure, Reset
<1>10. CASE UpdateReached
  BY <1>6, <1>7, <1>10 DEF UpdateReached, Reset
<1>11. CASE UpdateDispatch \/ UpdateNext
  BY <1>7, <1>8, <1>11 DEF UpdateDispatch, UpdateNext, Dispatch, Good
<1>12. CASE AdvanceLedger
  <2>1. PICK K \in SUBSET DOMAIN ledger : ledger' = Restrict(ledger, K)
    BY <1>12 DEF AdvanceLedger, Pending
  <2> QED BY <2>1 DEF Restrict, Unsent, Queued
<1>13. ASSUME NEW w \in Setpoints, QueueRequest(w) PROVE Unsent(ledger')
  BY <1>13 DEF QueueRequest, NewRequest, Unsent, Queued
<1>14. CASE UNCHANGED ledger
  BY <1>14
<1> QED BY <1>9, <1>10, <1>11, <1>12, <1>13, <1>14 DEF Next, Update, UpdateWait, Plan,
       NoPlan, Environment, AnswerOk, AnswerFailed, Reach, MeterSample, InverterStats, Tick,
       Between, vars, model

(* The answer is booked on the request that is marked.                     *)
LEMMA BookedIsDispatched ==
    ASSUME LedgerInv, DispatchedIsInFlight,
           NEW d \in Queued(ledger), ledger[d].dispatch
    PROVE  /\ Booked(ledger, inflight) = {d} /\ Max(Booked(ledger, inflight)) = d
           /\ ledger[d].goal = inflight
           /\ \A s \in Queued(ledger) : ledger[s].dispatch => s = d
<1>1. /\ ledger[d].goal = inflight
      /\ \A s \in Queued(ledger) : ledger[s].dispatch => s = d
  BY DEF DispatchedIsInFlight
<1>2. Booked(ledger, inflight) = {d}
  BY <1>1 DEF Booked, Matching
<1>3. nextSeq - 1 \in Nat /\ {d} \in SUBSET (1 .. nextSeq - 1)
  BY DEF Queued, LedgerInv, ModelOK, IsLedger
<1>4. Max({d}) \in {d}
  BY <1>3, MaxProperties
<1> QED BY <1>1, <1>2, <1>4

(* Once the history strays, or is about to, it stays so.                   *)
LEMMA DoomedStays ==
    ASSUME LedgerInv, DispatchedIsInFlight, Command, [Next]_vars, Doomed
    PROVE  Doomed'
<1>1. strayed \in BOOLEAN /\ (strayed => strayed')
  BY DEF LedgerInv, RestOK, Next, Update, UpdateNothing, UpdateWait, UpdateFailure,
     UpdateDispatch, UpdateReached, UpdateNext, Acknowledge, AdvanceLedger, Plan, NoPlan,
     Environment, AnswerOk, AnswerFailed, Reach, MeterSample, InverterStats, Tick, world,
     vars
<1>2. CASE strayed
  BY <1>1, <1>2 DEF Doomed
<1>3. CASE Unread /\ Overtaking
  <2>1. PICK d \in Queued(ledger) : ledger[d].dispatch /\ \E r \in Queued(ledger) : r < d
    BY <1>3 DEF Overtaking
  <2>2. Overtakes(inflight)
    BY <2>1, BookedIsDispatched DEF Overtakes
  <2>3. at = "idle" /\ inflight # None /\ answer = "ok" /\ want # None
    BY <1>3 DEF Command, Unread
  <2>4. CASE Update
    <3>1. ~ UpdateNothing /\ ~ UpdateWait /\ ~ UpdateDispatch
      BY <2>3 DEF UpdateNothing, UpdateWait, UpdateDispatch
    <3>2. UpdateFailure => strayed'
      BY <2>3 DEF UpdateFailure
    <3>3. Acknowledge => strayed'
      BY <2>2 DEF Acknowledge
    <3> QED BY <2>4, <3>1, <3>2, <3>3 DEF Update, UpdateReached, UpdateNext, Doomed
  <2>5. CASE UNCHANGED <<ledger, inflight, answer>>
    BY <1>3, <2>5 DEF Doomed, Unread, Overtaking, Queued
  <2>6. ~ AdvanceLedger /\ ~ NoPlan /\ ~ AnswerOk /\ ~ AnswerFailed
        /\ \A w : ~ Plan(w)
    BY <2>3 DEF AdvanceLedger, NoPlan, Plan, AnswerOk, AnswerFailed
  <2>7. Reach \/ MeterSample \/ InverterStats \/ Tick => UNCHANGED <<ledger, inflight, answer>>
    BY DEF Reach, MeterSample, InverterStats, Tick, Between, model, target, radio
  <2>8. UNCHANGED vars => UNCHANGED <<ledger, inflight, answer>>
    BY DEF vars, model, target, radio
  <2> QED BY <2>4, <2>5, <2>6, <2>7, <2>8 DEF Next, Environment
<1> QED BY <1>2, <1>3 DEF Doomed

(* The last request of a ledger that has a queued one is queued.           *)
LEMMA NewestIsQueued ==
    ASSUME NEW n \in Nat \ {0}, NEW l, IsLedger(l, n), SentFirst(l), Queued(l) # {}
    PROVE  /\ Max(Pending(l)) \in Queued(l) /\ Max(Pending(l)) \in Pending(l)
           /\ \A s \in Pending(l) : s <= Max(Pending(l))
           /\ \A basis : Newest(l, basis) = l[Max(Pending(l))].goal
<1>1. PICK q \in Queued(l) : TRUE
  OBVIOUS
<1>2. q \in Pending(l) /\ l[q].state = "queued"
  BY <1>1 DEF Queued, Pending
<1> DEFINE m == Max(Pending(l))
<1>3. m \in Pending(l) /\ \A s \in Pending(l) : s <= m
  BY <1>2, NewestIsPending
<1>4. \A basis : Newest(l, basis) = l[m].goal
  BY <1>2 DEF Newest
<1> HIDE DEF m
<1>5. q \in Nat /\ m \in Nat /\ q <= m
  BY <1>2, <1>3 DEF IsLedger, Pending
<1>6. l[m].state # "sent"
  BY <1>2, <1>3, <1>5 DEF SentFirst
<1>7. m \in Queued(l)
  BY <1>3, <1>6 DEF Pending, Queued
<1> QED BY <1>3, <1>4, <1>7 DEF m

(* Where the last request goes is where the whole chain ends.              *)
LEMMA EndStanding ==
    ASSUME ModelOK, RequestedFollowsLedger
    PROVE  Standing(ledger, safe, nextSeq, requested)
<1>1. /\ nextSeq \in Nat \ {0} /\ IsLedger(ledger, nextSeq)
      /\ \A s \in Pending(ledger) : s \in Nat /\ s < nextSeq
  BY DEF ModelOK, IsLedger, Pending
<1>2. CASE Pending(ledger) = {}
  BY <1>2 DEF Standing, RequestedFollowsLedger, Newest
<1>3. CASE Pending(ledger) # {}
  <2> DEFINE m == Max(Pending(ledger))
  <2>1. m \in Pending(ledger) /\ \A s \in Pending(ledger) : s <= m
    BY <1>1, <1>3, NewestIsPending
  <2>2. requested = ledger[m].goal
    BY <1>3 DEF RequestedFollowsLedger, Newest
  <2> HIDE DEF m
  <2>3. ASSUME NEW s \in Pending(ledger), \A r \in Pending(ledger) : r < nextSeq => r <= s
        PROVE  s = m
    <3>1. m <= s /\ s <= m /\ s \in Nat /\ m \in Nat
      BY <1>1, <2>1, <2>3
    <3> QED BY ONLY <3>1
  <2>4. \A s \in Pending(ledger) : ~ (s >= nextSeq)
    BY <1>1
  <2> QED BY <1>3, <2>2, <2>3, <2>4 DEF Standing
<1> QED BY <1>2, <1>3

(* Marking a dispatch changes the mark of one queued request only.         *)
LEMMA MarkDispatchedOnly ==
    ASSUME NEW n \in Nat \ {0}, NEW l, IsLedger(l, n), NEW w
    PROVE  LET k == MarkDispatched(l, w)
           IN  /\ Pending(k) = Pending(l) /\ Queued(k) = Queued(l)
               /\ \A s \in DOMAIN l : /\ k[s].state = l[s].state /\ k[s].goal = l[s].goal
                                      /\ k[s].base = l[s].base /\ k[s].sent = l[s].sent
               /\ \A s \in Queued(l) : l[s].dispatch => k[s].dispatch
               /\ Matching(l, w) # {} => \E s \in Queued(l) : k[s].dispatch
<1> DEFINE k == MarkDispatched(l, w)
<1>1. CASE Matching(l, w) = {}
  BY <1>1 DEF MarkDispatched
<1>2. CASE Matching(l, w) # {}
  <2> DEFINE m == Max(Matching(l, w))
  <2>1. Matching(l, w) \in SUBSET (1 .. n - 1) /\ n - 1 \in Nat
    BY DEF Matching, Queued, IsLedger
  <2>2. m \in Matching(l, w)
    BY <1>2, <2>1, MaxProperties
  <2>3. m \in Queued(l) /\ m \in DOMAIN l /\ \A s \in DOMAIN l : l[s] \in Request
    BY <2>2 DEF Matching, Queued, IsLedger
  <2>4. k = [l EXCEPT ![m] = [l[m] EXCEPT !.dispatch = TRUE]]
    BY <1>2 DEF MarkDispatched
  <2> HIDE DEF m, k
  <2>5. DOMAIN k = DOMAIN l /\ k[m] = [l[m] EXCEPT !.dispatch = TRUE]
        /\ \A s \in DOMAIN l : s # m => k[s] = l[s]
    BY <2>3, <2>4 DEF IsLedger
  <2>6. \A s \in DOMAIN l : /\ k[s].state = l[s].state /\ k[s].goal = l[s].goal
                            /\ k[s].base = l[s].base /\ k[s].sent = l[s].sent
    BY <2>3, <2>5 DEF Request
  <2>7. k[m].dispatch
    BY <2>3, <2>5 DEF Request
  <2>8. Pending(k) = Pending(l) /\ Queued(k) = Queued(l)
    BY <2>5, <2>6 DEF Pending, Queued
  <2>9. \A s \in Queued(l) : l[s].dispatch => k[s].dispatch
    BY <2>5, <2>7 DEF Queued
  <2> QED BY <2>3, <2>6, <2>7, <2>8, <2>9 DEF k
<1> QED BY <1>1, <1>2

(* So the tracks stay where they are.                                      *)
LEMMA MarkDispatchedTracked ==
    ASSUME NEW n \in Nat \ {0}, NEW l, IsLedger(l, n), NEW w, NEW basis,
           Tracked(l, basis, FALSE)
    PROVE  Tracked(MarkDispatched(l, w), basis, FALSE)
<1> DEFINE k == MarkDispatched(l, w)
<1>1. /\ Pending(k) = Pending(l)
      /\ \A s \in DOMAIN l : /\ k[s].state = l[s].state /\ k[s].goal = l[s].goal
                             /\ k[s].base = l[s].base /\ k[s].sent = l[s].sent
  BY MarkDispatchedOnly
<1> HIDE DEF k
<1>2. \A s \in Pending(l) : s \in DOMAIN l
  BY DEF Pending
<1>3. Issued(k, FALSE) = Issued(l, FALSE)
  BY <1>1, <1>2 DEF Issued
<1>4. \A s \in Issued(l, FALSE) : SentAt(k[s]) = SentAt(l[s])
  BY <1>1, <1>2 DEF Issued, SentAt
<1>5. Tracked(k, basis, FALSE)
  BY <1>1, <1>2, <1>3, <1>4, SameTracked
<1> QED BY <1>5 DEF k

(* The request whose answer is unread: the inverter received it last, and  *)
(* when the answer is booked the tracks stay where they are.               *)
LEMMA UnreadRequest ==
    ASSUME ForecastInv, ~ Doomed, Unread, NEW d \in Queued(ledger), ledger[d].dispatch
    PROVE  LET k == MarkSent(ledger, inflight)
           IN  /\ Given = inflight
               /\ Pending(k) = Pending(ledger) /\ Queued(k) = Queued(ledger) \ {d}
               /\ \A s \in Pending(ledger) : k[s].goal = ledger[s].goal
               /\ d \in Issued(k, FALSE)
               /\ Tracked(k, safe, FALSE)
<1> DEFINE k == MarkSent(ledger, inflight)
<1>1. /\ Booked(ledger, inflight) = {d} /\ Max(Booked(ledger, inflight)) = d
      /\ ledger[d].goal = inflight
      /\ \A s \in Queued(ledger) : ledger[s].dispatch => s = d
  BY BookedIsDispatched DEF ForecastInv
<1>2. nextSeq \in Nat \ {0} /\ IsLedger(ledger, nextSeq) /\ RestOK
      /\ \A s \in Pending(ledger) : s \in Nat
  BY DEF ForecastInv, LedgerInv, ModelOK, IsLedger, Pending
<1>3. Chained(ledger, safe) /\ Tracked(ledger, safe, TRUE)
  BY DEF ForecastInv, Doomed, ChainInv, InStep
<1>4. d \in DOMAIN ledger /\ d \in Pending(ledger) /\ ledger[d].state = "queued"
  BY DEF Queued, Pending
<1>5. \A s \in Queued(ledger) : ~ (s < d)
  BY DEF Doomed, Overtaking
<1>6. Issued(ledger, TRUE) = {s \in Pending(ledger) : ledger[s].state = "sent" \/ s = d}
  BY <1>1, <1>4 DEF Issued, Pending, Queued
<1>7. /\ DOMAIN k = DOMAIN ledger /\ \A s \in DOMAIN ledger : s # d => k[s] = ledger[s]
      /\ k[d].state = "sent" /\ k[d].sent = now
      /\ k[d].goal = ledger[d].goal /\ k[d].base = ledger[d].base
  BY <1>1, <1>2, MarkSentOne
<1> HIDE DEF k
<1>8. Pending(k) = Pending(ledger) /\ Queued(k) = Queued(ledger) \ {d}
  BY <1>4, <1>7 DEF Pending, Queued
<1>9. \A s \in Pending(ledger) : k[s].goal = ledger[s].goal /\ k[s].base = ledger[s].base
  BY <1>7 DEF Pending
<1>10. Issued(k, FALSE) = Issued(ledger, TRUE) /\ d \in Issued(k, FALSE)
  BY <1>4, <1>6, <1>7, <1>8 DEF Issued, Pending
<1>11. \A s \in Issued(ledger, TRUE) : SentAt(k[s]) = SentAt(ledger[s])
  BY <1>4, <1>6, <1>7 DEF SentAt, Pending
<1>12. Tracked(k, safe, FALSE)
  BY <1>3, <1>8, <1>9, <1>10, <1>11, SameTracked
<1>13. Given = inflight
  <2>1. PICK n : n = d + 1
    OBVIOUS
  <2>2. n \in Nat /\ d \in Nat /\ \A s \in Pending(ledger) : s < n <=> s <= d
    BY <1>2, <1>4, <2>1
  <2>3. \A s \in Pending(ledger) : s < n <=> s \in Issued(ledger, TRUE)
    <3> SUFFICES ASSUME NEW s \in Pending(ledger)
                 PROVE  s < n <=> s \in Issued(ledger, TRUE)
      OBVIOUS
    <3>0. s \in Nat /\ d \in Nat /\ (s < n <=> s <= d)
      BY <1>2, <2>2
    <3>1. CASE s = d
      <4>1. s <= d
        BY ONLY <3>0, <3>1
      <4>2. s \in Issued(ledger, TRUE)
        BY <1>4, <1>6, <3>1
      <4> QED BY <3>0, <4>1, <4>2
    <3>2. CASE ledger[s].state = "sent"
      <4>1. s < d
        BY <1>3, <1>4, <3>2 DEF Chained, SentFirst
      <4>2. s <= d
        BY <1>2, <2>2, <4>1
      <4> QED BY <1>6, <2>2, <3>2, <4>2
    <3>3. CASE s # d /\ ledger[s].state # "sent"
      <4>1. s \in Queued(ledger)
        BY <3>3 DEF Pending, Queued
      <4>2. ~ (s <= d)
        <5>1. ~ (s < d) /\ s # d
          BY <1>5, <3>3, <4>1
        <5> QED BY ONLY <3>0, <5>1
      <4> QED BY <1>6, <2>2, <3>3, <4>2
    <3> QED BY <3>1, <3>2, <3>3
  <2>4. Standing(ledger, safe, n, Given)
    BY <1>2, <1>3, <2>2, <2>3, GivenStanding DEF Chained, Tracked
  <2>5. d < n /\ \A r \in Pending(ledger) : r < n => r <= d
    BY <2>1, <2>2
  <2> QED BY <1>1, <1>4, <2>4, <2>5 DEF Standing
<1> QED BY <1>8, <1>9, <1>10, <1>12, <1>13 DEF k

-----------------------------------------------------------------------------
(* Steps that touch neither the ledger nor the world.                      *)
LEMMA InStepKept ==
    ASSUME nextSeq \in Nat \ {0}, InStep,
           UNCHANGED <<ledger, nextSeq, safe, requested, want, inflight, assume, measured,
                       meter, output, coming>>,
           Unread' <=> Unread, now' = now \/ ~ Unread
    PROVE  InStep'
<1>1. sample' = sample /\ seen' = seen /\ assumed' = assumed /\ assumedUntil' = assumedUntil
  BY DEF meter, assume
<1>2. Wanted' /\ Flight'
  BY DEF InStep, Wanted, Flight, Queued
<1>3. Assumed'
  BY <1>1 DEF InStep, Assumed, Current, Given
<1>4. ASSUME NEW u, u = FALSE \/ now' = now, Tracked(ledger, safe, u)
      PROVE  Tracked(ledger, safe, u)'
  <2>1. Tracked(ledger', safe', u)
    BY <1>4
  <2>2. UNCHANGED <<output, coming, sample, seen>> /\ nextSeq' \in {nextSeq, nextSeq + 1}
    BY <1>1
  <2> QED BY <1>4, <2>1, <2>2, TrackedLater
<1>5. Unread' => Tracked(ledger, safe, TRUE)'
  BY <1>4 DEF InStep
<1>6. ~ Unread' => Tracked(ledger, safe, FALSE)'
  BY <1>4 DEF InStep
<1> QED BY <1>2, <1>3, <1>5, <1>6 DEF InStep

(* Where a step leaves no answer unread, this is what it has to keep.      *)
LEMMA InStepRead ==
    ASSUME nextSeq \in Nat \ {0}, nextSeq' \in {nextSeq, nextSeq + 1},
           UNCHANGED <<output, coming, sample, seen, now>>, ~ Unread',
           Wanted', Flight', Assumed', Tracked(ledger', safe', FALSE)
    PROVE  InStep'
<1>1. Tracked(ledger, safe, FALSE)'
  BY TrackedLater
<1> QED BY <1>1 DEF InStep

(* After reset() nothing is wanted, queued or in flight.                   *)
LEMMA ResetInStep ==
    ASSUME NEW l, NEW current, Reset(l, current)
    PROVE  Wanted' /\ Flight' /\ ~ Unread'
<1>1. want' = None /\ inflight' = None /\ DiscardQueued(l, current)
  BY DEF Reset
<1>2. Queued(ledger') = {}
  BY <1>1, DiscardedNone DEF DiscardQueued
<1>3. Queued(ledger)' = {}
  BY <1>2 DEF Queued
<1> QED BY <1>1, <1>3 DEF Wanted, Flight, Unread

(* A failed update discards what is queued, back to where the inverter is  *)
(* to come to rest.                                                        *)
LEMMA UpdateFailureInStep ==
    ASSUME ForecastInv, ~ Doomed, ~ strayed', UpdateFailure
    PROVE  InStep'
<1>1. /\ ~ Unread /\ want # None /\ Reset(ledger, Current)
      /\ UNCHANGED <<nextSeq, assumed, assumedUntil, sample, seen, measured, now, output, coming>>
  BY DEF UpdateFailure, Unread, assume, meter
<1>2. InStep /\ Chained(ledger, safe) /\ RestOK
      /\ nextSeq \in Nat \ {0} /\ IsLedger(ledger, nextSeq)
  BY DEF ForecastInv, Doomed, ChainInv, LedgerInv, ModelOK
<1>3. Current = Given /\ Tracked(ledger, safe, FALSE) /\ Queued(ledger) # {}
  BY <1>1, <1>2 DEF InStep, Assumed, Wanted
<1>4. ledger' = Discarded(ledger) /\ safe' = Current
  BY <1>1, <1>3 DEF Reset, DiscardQueued
<1>5. PICK g : g = Given
  OBVIOUS
<1>6. Issued(ledger, FALSE) = {} => safe' = Given
  BY <1>3, <1>4
<1>7. Tracked(ledger', safe', FALSE)
  <2>1. Tracked(Discarded(ledger), g, FALSE)
    BY <1>2, <1>3, <1>5, DiscardedTracked
  <2> QED BY <1>3, <1>4, <1>5, <2>1
<1>8. Wanted' /\ Flight' /\ ~ Unread'
  BY <1>1, ResetInStep
<1>9. Assumed'
  BY <1>1, <1>2 DEF InStep, Assumed, Current, Given
<1> QED BY <1>1, <1>2, <1>7, <1>8, <1>9, InStepRead

(* A dispatch finds the request of what is wanted among the queued ones.   *)
LEMMA UpdateDispatchInStep ==
    ASSUME ForecastInv, ~ Doomed, UpdateDispatch
    PROVE  InStep'
<1>1. /\ ~ Unread /\ ~ Unread' /\ want # None
      /\ ledger' = MarkDispatched(ledger, want)
      /\ UNCHANGED <<nextSeq, safe, requested, want, assumed, assumedUntil, sample, seen,
                     measured, now, output, coming>>
  BY DEF UpdateDispatch, Dispatch, Unread, assume, meter, world
<1>2. InStep /\ Chained(ledger, safe) /\ requested = Newest(ledger, safe)
      /\ nextSeq \in Nat \ {0} /\ IsLedger(ledger, nextSeq)
  BY DEF ForecastInv, Doomed, ChainInv, LedgerInv, ModelOK, RequestedFollowsLedger
<1>3. Queued(ledger) # {} /\ want = requested /\ Tracked(ledger, safe, FALSE)
  BY <1>1, <1>2 DEF InStep, Wanted
<1>4. Matching(ledger, want) # {}
  <2>1. /\ Max(Pending(ledger)) \in Queued(ledger)
        /\ Newest(ledger, safe) = ledger[Max(Pending(ledger))].goal
    BY <1>2, <1>3, NewestIsQueued DEF Chained
  <2> QED BY <1>2, <1>3, <2>1 DEF Matching
<1>5. Queued(ledger') = Queued(ledger) /\ \E s \in Queued(ledger) : ledger'[s].dispatch
  BY <1>1, <1>2, <1>4, MarkDispatchedOnly
<1>6. Wanted' /\ Flight'
  <2>1. Queued(ledger)' = Queued(ledger)
    BY <1>5 DEF Queued
  <2> QED BY <1>1, <1>3, <1>5, <2>1 DEF Wanted, Flight
<1>7. Assumed'
  BY <1>1, <1>2 DEF InStep, Assumed, Current, Given
<1>8. Tracked(ledger', safe', FALSE)
  BY <1>1, <1>2, <1>3, MarkDispatchedTracked
<1> QED BY <1>1, <1>2, <1>6, <1>7, <1>8, InStepRead

(* The facts of an answer that is read without the history straying.       *)
LEMMA Acknowledged ==
    ASSUME ForecastInv, ~ Doomed, ~ strayed', Acknowledge, now' = now, coming' = coming,
           output' = output
    PROVE  LET k == MarkSent(ledger, inflight)
           IN  /\ \E d \in Queued(ledger) : /\ Queued(k) = Queued(ledger) \ {d}
                                            /\ d \in Issued(k, FALSE)
                                            /\ ledger[d].goal = inflight
               /\ Pending(k) = Pending(ledger)
               /\ \A s \in Pending(ledger) : k[s].goal = ledger[s].goal
               /\ Tracked(k, safe, FALSE) /\ Chained(k, safe) /\ IsLedger(k, nextSeq)
               /\ Assumed'
<1> DEFINE k == MarkSent(ledger, inflight)
<1>1. /\ inflight # None /\ Unread /\ assumed' = inflight /\ assumedUntil' = now + Effect
      /\ ~ Overtakes(inflight)
  BY DEF Acknowledge, Unread
<1>2. /\ LedgerInv /\ DispatchedIsInFlight /\ InStep /\ Chained(ledger, safe) /\ Arrivals
      /\ nextSeq \in Nat \ {0} /\ IsLedger(ledger, nextSeq) /\ now \in Times
  BY DEF ForecastInv, Doomed, ChainInv, LedgerInv, ModelOK, RestOK
<1>3. PICK d \in Queued(ledger) : ledger[d].dispatch
  BY <1>1, <1>2 DEF InStep, Flight
<1>4. /\ Given = inflight
      /\ Pending(k) = Pending(ledger) /\ Queued(k) = Queued(ledger) \ {d}
      /\ \A s \in Pending(ledger) : k[s].goal = ledger[s].goal
      /\ d \in Issued(k, FALSE) /\ Tracked(k, safe, FALSE)
  BY <1>1, <1>3, UnreadRequest
<1>5. Chained(k, safe) /\ IsLedger(k, nextSeq)
  BY <1>1, <1>2, MarkSentChained, MarkSentProperties DEF Overtakes
<1>6. Assumed'
  BY <1>1, <1>2, <1>4 DEF Assumed, Current, Given, Arrivals
<1>7. ledger[d].goal = inflight
  BY <1>2, <1>3, BookedIsDispatched
<1> HIDE DEF k
<1> QED BY <1>3, <1>4, <1>5, <1>6, <1>7 DEF k

(* The answer is booked, the target reached and the rest discarded.        *)
LEMMA UpdateReachedInStep ==
    ASSUME ForecastInv, ~ Doomed, ~ strayed', UpdateReached
    PROVE  InStep'
<1> DEFINE k == MarkSent(ledger, inflight)
<1>1. /\ Acknowledge /\ Reset(k, inflight)
      /\ UNCHANGED <<nextSeq, sample, seen, now, output, coming>>
  BY DEF UpdateReached, meter
<1>2. /\ Tracked(k, safe, FALSE) /\ Chained(k, safe) /\ IsLedger(k, nextSeq)
      /\ Issued(k, FALSE) # {} /\ Assumed'
  BY <1>1, Acknowledged
<1>3. Wanted' /\ Flight' /\ ~ Unread'
  BY <1>1, ResetInStep
<1>4. RestOK /\ nextSeq \in Nat \ {0}
  BY DEF ForecastInv, LedgerInv, ModelOK
<1> HIDE DEF k
<1>5. PICK i : i = inflight
  OBVIOUS
<1>6. Tracked(Discarded(k), i, FALSE)
  BY <1>2, <1>4, DiscardedTracked
<1>7. Tracked(ledger', safe', FALSE)
  BY <1>1, <1>2, <1>5, <1>6 DEF Reset, DiscardQueued
<1> QED BY <1>1, <1>2, <1>3, <1>4, <1>7, InStepRead

(* The answer is booked and the next command goes out, or has to wait.     *)
LEMMA UpdateNextInStep ==
    ASSUME ForecastInv, ~ Doomed, ~ strayed', UpdateNext
    PROVE  InStep'
<1> DEFINE k == MarkSent(ledger, inflight)
<1>1. /\ Acknowledge /\ want # None /\ want # inflight
      /\ UNCHANGED <<nextSeq, safe, requested, want, sample, seen, now, output, coming>>
      /\ \/ Dispatch(k)
         \/ inflight' = None /\ ledger' = k
  BY DEF UpdateNext, Acknowledge, meter
<1>2. PICK d \in Queued(ledger) : /\ Queued(k) = Queued(ledger) \ {d}
                                  /\ ledger[d].goal = inflight
  BY <1>1, Acknowledged
<1>3. /\ Pending(k) = Pending(ledger)
      /\ \A s \in Pending(ledger) : k[s].goal = ledger[s].goal
      /\ Tracked(k, safe, FALSE) /\ IsLedger(k, nextSeq) /\ Assumed'
  BY <1>1, Acknowledged
<1>4. /\ Chained(ledger, safe) /\ requested = Newest(ledger, safe) /\ want = requested
      /\ nextSeq \in Nat \ {0} /\ IsLedger(ledger, nextSeq)
  BY <1>1 DEF ForecastInv, Doomed, ChainInv, LedgerInv, ModelOK, RequestedFollowsLedger,
     InStep, Wanted
<1> DEFINE m == Max(Pending(ledger))
<1>5. m \in Queued(ledger) /\ m \in Pending(ledger) /\ ledger[m].goal = want
  BY <1>4, NewestIsQueued DEF Chained
<1> HIDE DEF k, m
<1>6. m \in Queued(k) /\ k[m].goal = want
  BY <1>1, <1>2, <1>3, <1>5
<1>7. Matching(k, want) # {}
  BY <1>6 DEF Matching
<1>8. CASE Dispatch(k)
  <2>1. ledger' = MarkDispatched(k, want) /\ answer' = "pending"
    BY <1>8 DEF Dispatch
  <2>2. Queued(ledger') = Queued(k) /\ \E s \in Queued(k) : ledger'[s].dispatch
    BY <1>3, <1>4, <1>7, <2>1, MarkDispatchedOnly
  <2>3. Queued(ledger)' = Queued(k)
    BY <2>2 DEF Queued
  <2>4. Wanted' /\ Flight' /\ ~ Unread'
    BY <1>1, <1>4, <1>6, <2>1, <2>2, <2>3 DEF Wanted, Flight, Unread
  <2>5. Tracked(ledger', safe', FALSE)
    BY <1>1, <1>3, <1>4, <2>1, MarkDispatchedTracked
  <2> QED BY <1>1, <1>3, <1>4, <2>4, <2>5, InStepRead
<1>9. CASE inflight' = None /\ ledger' = k
  <2>1. Queued(ledger)' = Queued(k)
    BY <1>9 DEF Queued
  <2>2. Wanted' /\ Flight' /\ ~ Unread'
    BY <1>1, <1>4, <1>6, <1>9, <2>1 DEF Wanted, Flight, Unread
  <2>3. Tracked(ledger', safe', FALSE)
    BY <1>1, <1>3, <1>9
  <2> QED BY <1>1, <1>3, <1>4, <2>2, <2>3, InStepRead
<1> QED BY <1>1, <1>8, <1>9

(* The advance takes no queued request away while none is stale.           *)
LEMMA AdvanceInStep ==
    ASSUME MaxTime + Effect < Wrap, ForecastInv, ~ Doomed, ~ strayed', AdvanceLedger,
           LedgerInv'
    PROVE  InStep'
<1>1. /\ ~ Unread /\ ~ Unread' /\ Stale = {}
      /\ UNCHANGED <<nextSeq, want, inflight, assumed, assumedUntil, sample, seen,
                     measured, now, output, coming>>
  BY DEF AdvanceLedger, ForecastInv, Command, Unread, target, assume, radio, meter
<1>2. /\ LedgerInv /\ Clocks /\ Unsent(ledger) /\ Arrivals /\ InStep /\ Chained(ledger, safe)
      /\ requested = Newest(ledger, safe) /\ requested' = Newest(ledger', safe')
      /\ nextSeq \in Nat \ {0} /\ IsLedger(ledger, nextSeq) /\ IsLedger(ledger', nextSeq)
  BY <1>1 DEF ForecastInv, Doomed, ChainInv, LedgerInv, ModelOK, RequestedFollowsLedger
<1>3. Wanted /\ Flight /\ Assumed /\ Tracked(ledger, safe, FALSE)
  BY <1>1, <1>2 DEF InStep
<1>4. DOMAIN ledger' = Pending(ledger) \ Settled
      /\ \A s \in DOMAIN ledger' : ledger'[s] = ledger[s]
  BY <1>1 DEF AdvanceLedger, Restrict, Pending
<1>5. \A s \in Settled : ledger[s].state = "sent"
  BY <1>2, SettledProperties
<1>6. Queued(ledger') = Queued(ledger)
  BY <1>4, <1>5 DEF Queued, Pending
<1>7. Queued(ledger)' = Queued(ledger)
  BY <1>6 DEF Queued
<1>8. \A s \in Queued(ledger) : ledger'[s] = ledger[s]
  BY <1>4, <1>6 DEF Queued
<1>9. want # None => requested' = requested
  <2> SUFFICES ASSUME want # None PROVE requested' = requested
    OBVIOUS
  <2>1. Queued(ledger) # {}
    BY <1>3 DEF Wanted
  <2> DEFINE m == Max(Pending(ledger))
             i == Max(Pending(ledger'))
  <2>2. /\ m \in Queued(ledger) /\ (\A s \in Pending(ledger) : s <= m)
        /\ requested = ledger[m].goal /\ m \in Pending(ledger)
    BY <1>2, <2>1, NewestIsQueued DEF Chained
  <2>3. m \in Pending(ledger')
    BY <1>6, <2>2 DEF Queued, Pending
  <2>4. /\ i \in Pending(ledger') /\ (\A s \in Pending(ledger') : s <= i)
        /\ requested' = ledger'[i].goal
    BY <1>2, <2>3, NewestIsPending DEF Newest
  <2>5. i \in Pending(ledger) /\ i \in Nat /\ m \in Nat
    BY <1>2, <1>4, <2>2, <2>4 DEF Pending, IsLedger
  <2> HIDE DEF m, i
  <2>6. i = m
    BY <2>2, <2>3, <2>4, <2>5
  <2> QED BY <1>8, <2>2, <2>4, <2>6
<1>10. Wanted' /\ Flight'
  BY <1>1, <1>3, <1>7, <1>8, <1>9 DEF Wanted, Flight
<1>11. Assumed'
  BY <1>1, <1>3 DEF Assumed, Current, Given
<1>12. DOMAIN ledger' = {} => Expected = Given
  <2>1. DOMAIN ledger' = {} => Queued(ledger) = {}
    BY <1>6 DEF Queued
  <2> QED BY <1>1, <1>3, <2>1 DEF Wanted, Assumed, Expected
<1>13. Tracked(ledger', safe', FALSE)
  BY <1>1, <1>2, <1>3, <1>12, AdvanceTracked
<1> QED BY <1>1, <1>2, <1>10, <1>11, <1>13, InStepRead

(* When nothing is queued the inverter is to come to rest at the setpoint  *)
(* requested last.                                                         *)
LEMMA RestingGiven ==
    ASSUME LedgerInv, Chained(ledger, safe), Tracked(ledger, safe, FALSE),
           Queued(ledger) = {}
    PROVE  Given = requested
<1>1. /\ nextSeq \in Nat \ {0} /\ IsLedger(ledger, nextSeq) /\ RestOK
      /\ ModelOK /\ RequestedFollowsLedger
      /\ \A s \in Pending(ledger) : s \in Nat /\ s < nextSeq
  BY DEF LedgerInv, ModelOK, IsLedger, Pending
<1>2. \A s \in Pending(ledger) : s < nextSeq <=> s \in Issued(ledger, FALSE)
  BY <1>1 DEF Issued, Pending, Queued
<1>3. Standing(ledger, safe, nextSeq, Given)
  BY <1>1, <1>2, GivenStanding DEF Chained, Tracked
<1>4. Standing(ledger, safe, nextSeq, requested)
  BY <1>1, EndStanding
<1> QED BY <1>1, <1>3, <1>4, StandingUnique

(* The planner wants something new, and requests it: to want again what    *)
(* was requested last it would have to be expected already.                *)
LEMMA PlanInStep ==
    ASSUME ForecastInv, ~ Doomed, NEW w \in Setpoints, Plan(w)
    PROVE  InStep'
<1>1. /\ ~ Unread /\ ~ Unread' /\ want' = w /\ w # None /\ w # Expected
      /\ UNCHANGED <<safe, inflight, assumed, assumedUntil, sample, seen,
                     measured, now, output, coming>>
  BY LedgerAssumption
     DEF Plan, ForecastInv, Command, Unread, target, assume, radio, meter, world
<1>2. /\ LedgerInv /\ InStep /\ Chained(ledger, safe)
      /\ nextSeq \in Nat \ {0} /\ IsLedger(ledger, nextSeq)
  BY DEF ForecastInv, Doomed, ChainInv, LedgerInv, ModelOK
<1>3. Wanted /\ Flight /\ Assumed /\ Tracked(ledger, safe, FALSE)
  BY <1>1, <1>2 DEF InStep
<1>4. QueueRequest(w)
  <2>1. SUFFICES ASSUME w = requested PROVE FALSE
    BY DEF Plan
  <2>2. CASE want # None
    BY <1>1, <1>3, <2>1, <2>2 DEF Wanted, Expected
  <2>3. CASE want = None
    <3>1. Queued(ledger) = {} /\ Expected = Given
      BY <1>1, <1>3, <2>3 DEF Wanted, Expected, Assumed
    <3> QED BY <1>1, <1>2, <1>3, <2>1, <3>1, RestingGiven
  <2> QED BY <2>2, <2>3
<1>5. /\ nextSeq' = nextSeq + 1 /\ requested' = w /\ nextSeq \in Queued(ledger')
      /\ \A s \in Queued(ledger) : s \in Queued(ledger') /\ ledger'[s] = ledger[s]
  <2>1. \A s \in DOMAIN ledger : s # nextSeq
    BY <1>2 DEF IsLedger
  <2> QED BY <1>4, <2>1 DEF QueueRequest, NewRequest, Queued
<1>6. Queued(ledger)' = Queued(ledger')
  BY DEF Queued
<1>7. Wanted' /\ Flight'
  BY <1>1, <1>3, <1>5, <1>6 DEF Wanted, Flight
<1>8. Assumed'
  BY <1>1, <1>3 DEF Assumed, Current, Given
<1>9. Tracked(ledger', safe', FALSE)
  BY <1>1, <1>2, <1>3, <1>4, QueueRequestTracked
<1> QED BY <1>1, <1>2, <1>5, <1>7, <1>8, <1>9, InStepRead

(* The older requests of a ledger in step are the issued ones.             *)
LEMMA InStepIssued ==
    ASSUME ForecastInv, ~ strayed, ~ Overtaking, NEW u \in BOOLEAN
    PROVE  IssuedFirst(ledger, u)
<1>1. nextSeq \in Nat \ {0} /\ IsLedger(ledger, nextSeq) /\ Chained(ledger, safe)
  BY DEF ForecastInv, ChainInv, LedgerInv, ModelOK
<1>2. \A s, r \in Queued(ledger) : ledger[s].dispatch => ~ (r < s)
  BY DEF Overtaking
<1>3. u => \A s, r \in Queued(ledger) : ledger[s].dispatch => ~ (r < s)
  BY <1>2
<1> QED BY <1>1, <1>3, IssuedAreFirst

(* The answer to the command in flight.                                    *)
LEMMA AnswerOkInStep ==
    ASSUME ForecastInv, ~ Doomed, ~ Doomed', AnswerOk
    PROVE  InStep'
<1>1. /\ ~ Unread /\ inflight # None /\ Unread' /\ ~ strayed /\ Received /\ at = "idle"
      /\ UNCHANGED <<ledger, nextSeq, safe, requested, want, inflight, sample, seen,
                     now, output>>
  BY DEF AnswerOk, Between, Unread, Doomed, model, target, meter
<1>2. ~ Overtaking
  BY <1>1 DEF Doomed, Overtaking, Queued
<1>3. /\ ModelOK /\ RestOK /\ LedgerInv /\ DispatchedIsInFlight /\ sample <= now
      /\ onAir = inflight /\ InStep
  BY <1>1 DEF ForecastInv, LedgerInv, Clocks, Command
<1>4. Flight /\ Wanted /\ Tracked(ledger, safe, FALSE)
  BY <1>1, <1>3 DEF InStep
<1>5. PICK d \in Queued(ledger) : ledger[d].dispatch
  BY <1>1, <1>4 DEF Flight
<1>6. ledger[d].goal = onAir /\ \A s \in Queued(ledger) : ledger[s].dispatch => s = d
  BY <1>3, <1>5, BookedIsDispatched
<1>7. IssuedFirst(ledger, TRUE) /\ IssuedFirst(ledger, FALSE)
  BY <1>1, <1>2, InStepIssued
<1>8. Tracked(ledger, safe, TRUE)'
  BY <1>1, <1>3, <1>4, <1>5, <1>6, <1>7, ReceivedTracked
<1>9. Wanted' /\ Flight'
  BY <1>1, <1>4 DEF Wanted, Flight, Queued
<1>10. Assumed'
  BY <1>1 DEF Assumed
<1> QED BY <1>1, <1>8, <1>9, <1>10 DEF InStep

(* The inverter reaches a limit: where it comes to rest stays the same.    *)
LEMMA ReachInStep ==
    ASSUME ForecastInv, ~ Doomed, Reach
    PROVE  InStep'
<1>1. /\ coming # << >> /\ output' = Head(coming).goal /\ coming' = Tail(coming)
      /\ UNCHANGED <<ledger, nextSeq, safe, requested, want, inflight, answer, assumed,
                     assumedUntil, measured, sample, seen, now>>
  BY DEF Reach, Between, model, target, radio, assume, meter
<1>2. /\ InStep /\ ModelOK /\ RestOK /\ Linked(ledger, safe) /\ ~ strayed
      /\ coming \in Seq([goal : Setpoints, by : Times])
  BY DEF ForecastInv, Doomed, ChainInv, Chained, LedgerInv, RestOK
<1>3. Wanted' /\ Flight' /\ (Unread' <=> Unread)
  BY <1>1, <1>2 DEF InStep, Wanted, Flight, Unread, Queued
<1>4. Unread => Tracked(ledger, safe, TRUE)'
  <2> SUFFICES ASSUME Unread PROVE Tracked(ledger, safe, TRUE)'
    OBVIOUS
  <2>1. ~ Overtaking
    BY DEF Doomed
  <2>2. IssuedFirst(ledger, TRUE)
    BY <1>2, <2>1, InStepIssued
  <2> QED BY <1>1, <1>2, <2>2, ReachTracked DEF InStep
<1>5. ~ Unread => Tracked(ledger, safe, FALSE)'
  <2>1. IssuedFirst(ledger, FALSE)
    <3>1. nextSeq \in Nat \ {0} /\ IsLedger(ledger, nextSeq) /\ Chained(ledger, safe)
      BY <1>2 DEF ForecastInv, ChainInv, LedgerInv, ModelOK
    <3> QED BY <3>1, IssuedAreFirst
  <2> QED BY <1>1, <1>2, <2>1, ReachTracked DEF InStep
<1>6. Assumed'
  <2> SUFFICES ASSUME ~ Unread PROVE Assumed'
    BY <1>3 DEF Assumed
  <2>1. /\ Current = Given /\ assumed # None
        /\ \A i \in 1 .. Len(coming) : coming[i].by <= assumedUntil
    BY <1>1, <1>2 DEF InStep, Assumed
  <2>2. PICK c : c = Len(coming)
    OBVIOUS
  <2>3. /\ c \in Nat \ {0} /\ Len(coming') = c - 1
        /\ Head(coming) = coming[1]
        /\ \A i \in 1 .. c - 1 : coming'[i] = coming[i + 1]
    BY <1>1, <1>2, <2>2, EmptySeq, LenProperties, HeadTailProperties
  <2>4. Given = coming[c].goal
    BY <1>1, <2>2 DEF Given
  <2>5. Given' = coming[c].goal
    <3>1. CASE c = 1
      <4>1. Len(coming') = 0 /\ coming' \in Seq([goal : Setpoints, by : Times])
        BY <1>1, <1>2, <2>3, <3>1, HeadTailProperties
      <4>2. coming' = << >>
        BY <4>1, EmptySeq
      <4> QED BY <1>1, <2>3, <3>1, <4>2 DEF Given
    <3>2. CASE c # 1
      <4>1. c - 1 \in 1 .. c - 1 /\ (c - 1) + 1 = c /\ c - 1 # 0
        BY <2>3, <3>2
      <4>2. coming'[c - 1] = coming[c]
        BY <2>3, <4>1
      <4>3. coming' # << >>
        BY <2>3, <4>1, EmptySeq
      <4> QED BY <2>3, <4>2, <4>3 DEF Given
    <3> QED BY <3>1, <3>2
  <2>6. \A i \in 1 .. Len(coming') : coming'[i].by <= assumedUntil
    <3> SUFFICES ASSUME NEW i \in 1 .. Len(coming')
                 PROVE  coming'[i].by <= assumedUntil
      OBVIOUS
    <3>1. i \in 1 .. c - 1 /\ i + 1 \in 1 .. Len(coming)
      BY <2>2, <2>3
    <3> QED BY <2>1, <2>3, <3>1
  <2>7. Current' = Current
    BY <1>1 DEF Current
  <2> QED BY <1>1, <2>1, <2>4, <2>5, <2>6, <2>7 DEF Assumed
<1> QED BY <1>3, <1>4, <1>5, <1>6 DEF InStep

(* A new meter sample.                                                     *)
LEMMA MeterSampleInStep ==
    ASSUME ForecastInv, ~ Doomed, MeterSample
    PROVE  InStep'
<1>1. /\ sample' = now /\ seen' = output
      /\ UNCHANGED <<ledger, nextSeq, safe, requested, want, inflight, answer, assumed,
                     assumedUntil, measured, output, coming, now>>
  BY DEF MeterSample, Between, model, target, radio, assume, world
<1>2. InStep /\ ModelOK /\ RestOK /\ Clocks /\ Arrivals
  BY DEF ForecastInv, LedgerInv
<1>3. Wanted' /\ Flight' /\ Assumed' /\ (Unread' <=> Unread)
  BY <1>1, <1>2 DEF InStep, Wanted, Flight, Assumed, Unread, Queued, Current, Given
<1>4. (Unread => Tracked(ledger, safe, TRUE)') /\ (~ Unread => Tracked(ledger, safe, FALSE)')
  BY <1>1, <1>2, MeterSampleTracked DEF InStep
<1> QED BY <1>3, <1>4 DEF InStep

(* Statistics end the assumed output when every limit is reached.          *)
LEMMA InverterStatsInStep ==
    ASSUME ForecastInv, ~ Doomed, InverterStats
    PROVE  InStep'
<1>1. /\ measured' = output /\ assumed' = IF now >= assumedUntil THEN None ELSE assumed
      /\ UNCHANGED <<ledger, nextSeq, safe, requested, want, inflight, answer,
                     assumedUntil, sample, seen, output, coming, now>>
  BY DEF InverterStats, Between, model, target, radio, meter, world
<1>2. /\ InStep /\ ModelOK /\ RestOK /\ Arrivals /\ nextSeq \in Nat \ {0}
      /\ coming \in Seq([goal : Setpoints, by : Times]) /\ now \in Nat /\ assumedUntil \in Nat
  BY DEF ForecastInv, LedgerInv, ModelOK, RestOK, Times
<1>3. Wanted' /\ Flight' /\ (Unread' <=> Unread)
  BY <1>1, <1>2 DEF InStep, Wanted, Flight, Unread, Queued
<1>4. Assumed'
  <2> SUFFICES ASSUME ~ Unread PROVE Assumed'
    BY <1>3 DEF Assumed
  <2>1. /\ Current = Given /\ (assumed = None => coming = << >>)
        /\ \A i \in 1 .. Len(coming) : coming[i].by <= assumedUntil
    BY <1>2 DEF InStep, Assumed
  <2>2. now >= assumedUntil => coming = << >>
    <3> SUFFICES ASSUME now >= assumedUntil, coming # << >> PROVE FALSE
      OBVIOUS
    <3>1. Len(coming) \in Nat \ {0} /\ 1 \in 1 .. Len(coming)
      BY <1>2, EmptySeq, LenProperties
    <3>2. coming[1] \in [goal : Setpoints, by : Times]
      BY <1>2, <3>1, ElementOfSeq
    <3>3. coming[1].by \in Nat /\ now < coming[1].by /\ coming[1].by <= assumedUntil
      BY <1>2, <2>1, <3>1, <3>2 DEF Arrivals, Times
    <3> QED BY <1>2, <3>3
  <2>3. CASE coming = << >>
    <3>1. Given = output /\ Given' = output
      BY <1>1, <2>3 DEF Given
    <3>2. Current' = output
      BY <1>1, <2>1, <3>1 DEF Current
    <3> QED BY <1>1, <2>1, <2>3, <3>1, <3>2 DEF Assumed
  <2>4. CASE coming # << >>
    <3>1. assumed' = assumed /\ assumed # None
      BY <1>1, <2>1, <2>2, <2>4
    <3>2. Current' = Current /\ Given' = Given
      BY <1>1, <3>1 DEF Current, Given
    <3> QED BY <1>1, <2>1, <3>1, <3>2 DEF Assumed
  <2> QED BY <2>3, <2>4
<1>5. ASSUME NEW u, Tracked(ledger, safe, u) PROVE Tracked(ledger, safe, u)'
  <2>1. Tracked(ledger', safe', u) /\ nextSeq' \in {nextSeq, nextSeq + 1}
    BY <1>1, <1>5
  <2>2. UNCHANGED <<output, coming, sample, seen>> /\ (now' = now \/ u = FALSE)
    BY <1>1
  <2> QED BY <1>2, <2>1, <2>2, TrackedLater
<1>6. (Unread' => Tracked(ledger, safe, TRUE)') /\ (~ Unread' => Tracked(ledger, safe, FALSE)')
  BY <1>2, <1>3, <1>5 DEF InStep
<1> QED BY <1>3, <1>4, <1>6 DEF InStep

(* Every step that does not stray keeps the model in step.                 *)
LEMMA NextInStep ==
    ASSUME MaxTime + Effect < Wrap, ForecastInv, [Next]_vars, LedgerInv', ~ Doomed'
    PROVE  InStep'
<1>1. ~ Doomed
  BY DoomedStays DEF ForecastInv
<1>2. ~ strayed' /\ InStep /\ nextSeq \in Nat \ {0} /\ ~ strayed
  BY <1>1 DEF Doomed, ForecastInv, LedgerInv, ModelOK
<1>3. CASE UpdateNothing
  <2>1. want = None /\ inflight = None /\ Reset(ledger, Current)
    BY <1>3 DEF UpdateNothing, ForecastInv, Command
  <2>2. Queued(ledger) = {}
    BY <1>2, <2>1 DEF InStep, Wanted
  <2>3. /\ UNCHANGED <<ledger, safe, requested, want, inflight>>
        /\ UNCHANGED <<nextSeq, assume, measured, meter, output, coming, now>>
    BY <1>3, <2>1, <2>2 DEF UpdateNothing, Reset, DiscardQueued, world
  <2>4. ~ Unread /\ ~ Unread'
    BY <2>1, <2>3 DEF Unread
  <2> QED BY <1>2, <2>3, <2>4, InStepKept
<1>4. CASE UpdateWait
  <2>1. UNCHANGED <<ledger, nextSeq, safe, requested, want, inflight, assume, measured,
                    meter, output, coming, now, answer>>
    BY <1>4 DEF UpdateWait, model, world, radio
  <2>2. Unread' <=> Unread
    BY <2>1 DEF Unread
  <2> QED BY <1>2, <2>1, <2>2, InStepKept
<1>5. CASE UpdateFailure
  BY <1>1, <1>2, <1>5, UpdateFailureInStep
<1>6. CASE UpdateDispatch
  BY <1>1, <1>6, UpdateDispatchInStep
<1>7. CASE UpdateReached
  BY <1>1, <1>2, <1>7, UpdateReachedInStep
<1>8. CASE UpdateNext
  BY <1>1, <1>2, <1>8, UpdateNextInStep
<1>9. CASE AdvanceLedger
  BY <1>1, <1>2, <1>9, AdvanceInStep
<1>10. ASSUME NEW w \in Setpoints, Plan(w) PROVE InStep'
  BY <1>1, <1>10, PlanInStep
<1>11. CASE NoPlan \/ UNCHANGED vars
  <2>1. UNCHANGED <<ledger, nextSeq, safe, requested, want, inflight, assume, measured,
                    meter, output, coming, now, answer>>
    BY <1>11 DEF NoPlan, vars, model, world, radio, target
  <2>2. Unread' <=> Unread
    BY <2>1 DEF Unread
  <2> QED BY <1>2, <2>1, <2>2, InStepKept
<1>12. CASE AnswerOk
  BY <1>1, <1>12, AnswerOkInStep
<1>13. CASE AnswerFailed
  <2>1. UNCHANGED <<ledger, nextSeq, safe, requested, want, inflight, assume, measured,
                    meter, output, coming, now>> /\ ~ Unread /\ ~ Unread'
    BY <1>2, <1>13 DEF AnswerFailed, Between, model, target, Unread
  <2> QED BY <1>2, <2>1, InStepKept
<1>14. CASE Reach
  BY <1>1, <1>14, ReachInStep
<1>15. CASE MeterSample
  BY <1>1, <1>15, MeterSampleInStep
<1>16. CASE InverterStats
  BY <1>1, <1>16, InverterStatsInStep
<1>17. CASE Tick
  <2>1. UNCHANGED <<ledger, nextSeq, safe, requested, want, inflight, assume, measured,
                    meter, output, coming>> /\ ~ Unread /\ ~ Unread'
    BY <1>17 DEF Tick, Between, model, target, Unread, radio, world
  <2> QED BY <1>2, <2>1, InStepKept
<1> QED BY <1>3, <1>4, <1>5, <1>6, <1>7, <1>8, <1>9, <1>10, <1>11, <1>12, <1>13, <1>14,
           <1>15, <1>16, <1>17 DEF Next, Update, Environment

(* The invariant holds at the start.                                       *)
LEMMA InitForecastInv == Init => ForecastInv
<1> SUFFICES ASSUME Init PROVE ForecastInv
  OBVIOUS
<1>1. LedgerInv
  BY InitLedgerInv
<1>2. /\ ledger = << >> /\ coming = << >> /\ nextSeq = 1
      /\ output = safe /\ seen = safe /\ measured = safe
      /\ want = None /\ inflight = None /\ assumed = None /\ at = "idle"
  BY DEF Init
<1>3. Len(coming) = 0 /\ DOMAIN ledger = {}
  BY <1>2
<1>4. Pending(ledger) = {} /\ Queued(ledger) = {}
  BY <1>3 DEF Pending, Queued
<1>5. Issued(ledger, FALSE) = {}
  BY <1>4 DEF Issued
<1>6. DispatchedIsInFlight /\ Unsent(ledger) /\ Wanted /\ Flight
  BY <1>2, <1>4 DEF DispatchedIsInFlight, Unsent, Wanted, Flight
<1>7. Clocks
  BY <1>3, LedgerAssumption DEF Init, Clocks
<1>8. ChainInv
  BY <1>4 DEF ChainInv, Chained, Linked, SentFirst
<1>9. Command /\ Arrivals /\ ~ Unread
  BY <1>2, <1>3 DEF Command, Arrivals, Unread
<1>10. Assumed
  BY <1>2, <1>3 DEF Assumed, Current, Given
<1>11. 1 \in 1 .. nextSeq
  BY <1>2
<1>12. Standing(ledger, safe, 1, safe) /\ OnlyIssued(ledger, FALSE, 1)
       /\ Shown(ledger, FALSE, 1)
  BY <1>4, <1>5 DEF Standing, OnlyIssued, Shown
<1>13. MeterTracked(ledger, safe, FALSE)
  BY <1>2, <1>11, <1>12 DEF MeterTracked
<1>14. PICK e : Ahead(ledger, FALSE, 1, e)
  <2>1. PICK e : e = [i \in 1 .. Len(coming) |-> 0]
    OBVIOUS
  <2>2. \A i \in 1 .. Len(coming) : FALSE
    BY <1>3
  <2>3. e \in [1 .. Len(coming) -> Issued(ledger, FALSE)]
    BY <2>1, <2>2
  <2> QED BY <1>5, <2>2, <2>3 DEF Ahead
<1>15. OutputTracked(ledger, safe, FALSE)
  BY <1>2, <1>11, <1>12, <1>14 DEF OutputTracked
<1>16. InStep
  BY <1>6, <1>9, <1>10, <1>13, <1>15 DEF InStep, Tracked
<1> QED BY <1>1, <1>6, <1>7, <1>8, <1>9, <1>16 DEF ForecastInv

(* The invariant is inductive.                                             *)
LEMMA NextForecastInv ==
    ASSUME MaxTime + Effect < Wrap, ForecastInv, [Next]_vars
    PROVE  ForecastInv'
<1>1. LedgerInv' /\ DispatchedIsInFlight' /\ Clocks' /\ ChainInv'
  BY NextLedgerInv, NextDispatched, NextClocks, NextChain DEF ForecastInv
<1>2. Command' /\ Arrivals'
  BY NextCommand, NextArrivals DEF ForecastInv
<1>3. Unsent(ledger')
  BY NextUnsent DEF ForecastInv
<1>4. ~ Doomed' => InStep'
  BY <1>1, NextInStep
<1>5. Unsent(ledger)'
  BY <1>3
<1> QED BY <1>1, <1>2, <1>4, <1>5 DEF ForecastInv

-----------------------------------------------------------------------------
(* Stretches of the chain, whatever number they are cut at.                *)
LEMMA StretchChange ==
    ASSUME ModelOK, Linked(ledger, safe), NEW n \in Nat, NEW m \in Nat,
           \A s \in Pending(ledger) : s < n => s < m,
           NEW x \in Setpoints, NEW y \in Setpoints,
           Standing(ledger, safe, n, x), Standing(ledger, safe, m, y)
    PROVE  Change(Upto(m)) - Change(Upto(n)) = y - x
<1>1. /\ nextSeq \in Nat \ {0} /\ IsLedger(ledger, nextSeq)
      /\ \A s \in Pending(ledger) : s \in Nat
  BY DEF ModelOK, IsLedger, Pending
<1>2. CASE n <= m
  BY <1>2, StandingChange
<1>3. CASE ~ (n <= m)
  <2>1. \A s \in Pending(ledger) : s < n <=> s < m
    BY <1>1, <1>3
  <2>2. Upto(m) = Upto(n)
    BY <2>1 DEF Upto
  <2>3. Standing(ledger, safe, m, x)
    BY <1>1, <2>1, SameStanding
  <2>4. x = y
    BY <1>1, <2>3, StandingUnique
  <2>5. Change(Upto(m)) \in Int /\ x \in Int
    BY UptoFinite, ChangeProperties, LedgerAssumption
  <2> QED BY <2>2, <2>4, <2>5
<1> QED BY <1>2, <1>3

(* Where the planner's forecast has a prefix of the chain.                 *)
LEMMA ForecastHas ==
    ASSUME MaxTime + Effect < Wrap, ForecastInv, ~ strayed, ~ Unread, InStep,
           NEW m \in 1 .. nextSeq, NEW y \in Setpoints, Standing(ledger, safe, m, y),
           \A s \in Issued(ledger, FALSE) : s < m,
           \A s \in FrontOf(Pending(ledger) \ Uncertain) : s < m
    PROVE  y \in Forecast
<1>1. /\ LedgerInv /\ ModelOK /\ Clocks /\ Linked(ledger, safe) /\ Unsent(ledger)
      /\ nextSeq \in Nat \ {0} /\ seen \in Setpoints
      /\ \A s \in Pending(ledger) : s \in Nat /\ s \in DOMAIN ledger
  BY DEF ForecastInv, LedgerInv, ModelOK, RestOK, IsLedger, Pending, ChainInv, Chained
<1>2. PICK n \in 1 .. nextSeq : /\ Standing(ledger, safe, n, seen)
                                /\ OnlyIssued(ledger, FALSE, n) /\ Shown(ledger, FALSE, n)
  BY DEF InStep, Tracked, MeterTracked
<1>3. \A s \in Pending(ledger) : s < n => s \in Issued(ledger, FALSE)
  BY <1>2 DEF OnlyIssued
<1>4. \A s \in Issued(ledger, FALSE) :
          s \in Pending(ledger) /\ s \in DOMAIN ledger /\ ledger[s].state = "sent"
          /\ SentAt(ledger[s]) = ledger[s].sent
  BY DEF Issued, SentAt, Pending
<1>5. FrontOf(MustBeVisible) \subseteq Upto(n)
  <2> SUFFICES ASSUME NEW s \in FrontOf(MustBeVisible) PROVE s \in Upto(n)
    OBVIOUS
  <2>1. s \in Pending(ledger) /\ s <= s
    BY <1>1 DEF FrontOf
  <2>2. s \in MustBeVisible
    BY <2>1 DEF FrontOf
  <2>3. Due(ledger[s])
    BY <2>2 DEF MustBeVisible
  <2>4. ledger[s].sent # None
    BY <2>3 DEF Due
  <2>5. s \in Issued(ledger, FALSE)
    BY <1>1, <2>1, <2>4 DEF Unsent, Queued, Issued, Pending
  <2>6. SentAt(ledger[s]) + Effect <= sample
    BY <1>1, <1>4, <2>3, <2>5, DueProperties
  <2> QED BY <1>2, <2>1, <2>5, <2>6 DEF Shown, Upto
<1>6. Upto(n) \subseteq FrontOf(CouldBeVisible)
  <2> SUFFICES ASSUME NEW s \in Upto(n), NEW r \in Pending(ledger), r <= s
               PROVE  r \in CouldBeVisible
    BY DEF FrontOf, Upto
  <2>1. r < n
    <3>1. s \in Nat /\ r \in Nat /\ n \in Nat /\ s < n
      BY <1>1, <1>2 DEF Upto
    <3> QED BY <3>1
  <2>2. r \in Issued(ledger, FALSE)
    BY <1>3, <2>1
  <2>3. SentAt(ledger[r]) <= sample
    BY <1>2, <2>1, <2>2 DEF Shown
  <2>4. ledger[r].sent # None /\ Millis(sample) >= Millis(ledger[r].sent)
    BY <1>1, <1>4, <2>2, <2>3, DueProperties
  <2> QED BY <2>4 DEF CouldBeVisible
<1>7. \A s \in Pending(ledger) : s < n => s < m
  BY <1>3
<1>8. Upto(n) \subseteq Upto(m) /\ Upto(n) \in Prefixes /\ Upto(m) \in Prefixes
  BY <1>2, <1>7 DEF Upto, Prefixes
<1>9. FrontOf(Pending(ledger) \ Uncertain) \subseteq Upto(m)
  BY DEF FrontOf, Upto
<1>10. Upto(n) \in VisiblePrefixes /\ Upto(m) \in FinalPrefixes
  BY <1>5, <1>6, <1>8, <1>9 DEF VisiblePrefixes, FinalPrefixes
<1> DEFINE p == <<Upto(n), Upto(m)>>
<1>11. p \in {q \in VisiblePrefixes \X FinalPrefixes : q[1] \subseteq q[2]}
  BY <1>8, <1>10
<1>12. seen + Change(p[2]) - Change(p[1]) \in Forecast
  BY <1>11 DEF Forecast
<1>13. Change(Upto(m)) - Change(Upto(n)) = y - seen
  <2>1. n \in Nat /\ m \in Nat
    BY <1>1, <1>2
  <2> QED BY <1>1, <1>2, <1>7, <2>1, StretchChange
<1>14. /\ Change(Upto(m)) \in Int /\ Change(Upto(n)) \in Int
       /\ y \in Int /\ seen \in Int
  BY <1>1, UptoFinite, ChangeProperties, LedgerAssumption
<1>15. seen + Change(Upto(m)) - Change(Upto(n)) = y
  BY ONLY <1>13, <1>14
<1> QED BY <1>12, <1>15

(* In every behaviour, before millis() starts again, what the commands can *)
(* make of the inverter is what the planner forecasts from the ledger and  *)
(* a meter sample that may be of any age, until a command takes effect     *)
(* that the limiter gave up, a request overtakes an older one or one grows *)
(* stale (possibleVisiblePrefixStates, possibleFinalPrefixStates).         *)
THEOREM ForecastSoundCorrect ==
    ASSUME MaxTime + Effect < Wrap
    PROVE  Spec => []ForecastSound
<1>1. ForecastInv => ForecastSound
  <2> SUFFICES ASSUME ForecastInv, at = "plan", ~ strayed, ~ Overtaking,
                      NEW y \in Outcomes
               PROVE  y \in Forecast
    BY DEF ForecastSound
  <2>1. ~ Unread /\ ~ Doomed /\ InStep
    BY DEF ForecastInv, Command, Doomed
  <2>2. /\ LedgerInv /\ ModelOK /\ RestOK /\ RequestedFollowsLedger
        /\ nextSeq \in Nat \ {0} /\ nextSeq \in 1 .. nextSeq /\ IsLedger(ledger, nextSeq)
        /\ \A s \in Pending(ledger) : s \in Nat /\ s < nextSeq
        /\ Linked(ledger, safe) /\ SentFirst(ledger) /\ Chained(ledger, safe)
        /\ requested \in Setpoints
    BY DEF ForecastInv, LedgerInv, ModelOK, IsLedger, Pending, ChainInv, Chained
  <2>3. Wanted /\ Flight /\ Assumed /\ Tracked(ledger, safe, FALSE)
        /\ OutputTracked(ledger, safe, FALSE)
    BY <2>1 DEF InStep, Tracked
  <2>4. \A s \in Issued(ledger, FALSE) : s < nextSeq
    BY <2>2 DEF Issued
  <2>5. \A s \in FrontOf(Pending(ledger) \ Uncertain) : s < nextSeq
    BY <2>2 DEF FrontOf
  <2>6. Given \in Setpoints
    BY <2>1, <2>3, <2>2, OutputTypes DEF Assumed
  <2>7. CASE want # None /\ y = want
    <3>1. y = requested
      BY <2>3, <2>7 DEF Wanted
    <3>2. Standing(ledger, safe, nextSeq, y)
      BY <2>2, <3>1, EndStanding
    <3> QED BY <2>1, <2>2, <2>4, <2>5, <3>1, <3>2, ForecastHas
  <2>8. CASE inflight = None /\ want = None /\ y = Given
    <3>1. y = requested
      BY <2>2, <2>3, <2>8, RestingGiven DEF Wanted
    <3>2. Standing(ledger, safe, nextSeq, y)
      BY <2>2, <3>1, EndStanding
    <3> QED BY <2>1, <2>2, <2>4, <2>5, <3>1, <3>2, ForecastHas
  <2>9. CASE inflight # None /\ y \in {Given, inflight}
    <3>1. PICK d \in Queued(ledger) : ledger[d].dispatch
      BY <2>3, <2>9 DEF Flight
    <3>2. /\ d \in Pending(ledger) /\ ledger[d].state = "queued" /\ d \in Uncertain
          /\ ledger[d].goal = inflight /\ inflight \in Setpoints
      <4>1. ledger[d].goal = inflight
        BY <3>1, BookedIsDispatched DEF ForecastInv
      <4> QED BY <2>2, <2>9, <3>1, <4>1 DEF Queued, Pending, Uncertain, RestOK
    <3>3. d \in Nat /\ d \in 1 .. nextSeq /\ d < nextSeq
      BY <2>2, <3>2 DEF IsLedger, Pending
    <3>4. \A s \in Pending(ledger) : s < d <=> s \in Issued(ledger, FALSE)
      <4> SUFFICES ASSUME NEW s \in Pending(ledger)
                   PROVE  s < d <=> s \in Issued(ledger, FALSE)
        OBVIOUS
      <4>1. CASE ledger[s].state = "sent"
        BY <2>2, <3>2, <4>1 DEF SentFirst, Issued
      <4>2. CASE ledger[s].state # "sent"
        <5>1. s \in Queued(ledger)
          BY <4>2 DEF Pending, Queued
        <5> QED BY <3>1, <4>2, <5>1 DEF Overtaking, Issued
      <4> QED BY <4>1, <4>2
    <3>5. \A s \in Issued(ledger, FALSE) : s \in Pending(ledger) /\ s < d
      BY <3>4 DEF Issued
    <3>6. ASSUME NEW s \in FrontOf(Pending(ledger) \ Uncertain) PROVE s < d
      <4>1. s \in Nat /\ s \in Pending(ledger)
        BY <2>2 DEF FrontOf
      <4>2. ~ (d <= s)
        BY <3>2 DEF FrontOf
      <4> QED BY ONLY <3>3, <4>1, <4>2
    <3>7. CASE y = Given
      <4>1. Standing(ledger, safe, d, Given)
        BY <2>2, <2>3, <3>3, <3>4, GivenStanding
      <4>2. PICK g : g = Given
        OBVIOUS
      <4>3. g \in Forecast
        BY <2>1, <2>6, <3>3, <3>5, <3>6, <4>1, <4>2, ForecastHas
      <4> QED BY <3>7, <4>2, <4>3
    <3>8. CASE y = inflight
      <4>1. PICK m : m = d + 1
        OBVIOUS
      <4>2. m \in 1 .. nextSeq /\ d < m
        BY <2>2, <3>3, <4>1
      <4>3. \A s \in Pending(ledger) : (s < m <=> s <= d) /\ (s >= m <=> d < s)
        BY <2>2, <3>3, <4>1
      <4>4. ASSUME NEW s \in Pending(ledger), s < m,
                   \A r \in Pending(ledger) : r < m => r <= s
            PROVE  ledger[s].goal = y
        <5>1. s <= d /\ d <= s /\ s \in Nat
          BY <2>2, <3>2, <4>2, <4>3, <4>4
        <5>2. s = d
          BY ONLY <3>3, <5>1
        <5> QED BY <3>2, <3>8, <5>2
      <4>5. ASSUME NEW s \in Pending(ledger), s >= m,
                   \A r \in Pending(ledger) : r >= m => r >= s
            PROVE  ledger[s].base = y
        <5>1. d < s
          BY <4>3, <4>5
        <5>2. ASSUME NEW q \in Pending(ledger), q < s PROVE q <= d
          <6>1. q \in Nat /\ s \in Nat /\ m \in Nat
            BY <2>2, <4>2
          <6>2. ~ (q >= m)
            <7>1. q >= m => q >= s
              BY <4>5
            <7> QED BY ONLY <5>2, <6>1, <7>1
          <6>3. q < m
            BY ONLY <6>1, <6>2
          <6> QED BY <4>3, <6>3
        <5>3. ledger[s].base = ledger[d].goal
          BY <2>2, <3>2, <5>1, <5>2, LinkedNeighbours
        <5> QED BY <3>2, <3>8, <5>3
      <4>6. Standing(ledger, safe, m, y)
        BY <3>2, <4>4, <4>5 DEF Standing
      <4>7. ASSUME NEW s \in Nat, s < d PROVE s < m
        <5>1. m \in Nat
          BY <3>3, <4>1
        <5> QED BY ONLY <3>3, <4>2, <4>7, <5>1
      <4>8. \A s \in Issued(ledger, FALSE) : s < m
        BY <2>2, <3>5, <4>7
      <4>9. \A s \in FrontOf(Pending(ledger) \ Uncertain) : s < m
        BY <2>2, <3>6, <4>7 DEF FrontOf
      <4> QED BY <2>1, <3>2, <3>8, <4>2, <4>6, <4>8, <4>9, ForecastHas
    <3> QED BY <2>9, <3>7, <3>8
  <2>10. inflight # None => want # None
    BY DEF ForecastInv, Command
  <2> QED BY <2>7, <2>8, <2>9, <2>10 DEF Outcomes
<1> QED BY <1>1, InitForecastInv, NextForecastInv, PTL DEF Spec
=============================================================================
