-------------------------- MODULE TradeLedgerProofs --------------------------
(***************************************************************************)
(* Theorems about TradeLedger, for any symbols, ids, prices and volumes    *)
(* and a log of any length.                                                *)
(*                                                                         *)
(* The first half is about the two ways the code arrives at a day's        *)
(* statistics, by folding trades in and by rescanning the log, and about   *)
(* what they mean (DailyStats).  A fold is a recursion over sets: its      *)
(* facts come by induction from the well-foundedness of <.  The second     *)
(* half is about the ledger.                                               *)
(***************************************************************************)
EXTENDS TradeLedger, FiniteSetTheorems, SequenceTheorems, TLAPS

-----------------------------------------------------------------------------
(* Induction over the numbers and over the subsets of a finite set, from   *)
(* the well-foundedness of <, for sets instead of predicates.              *)

(* A set of natural numbers has a least element.                           *)
LEMMA LeastElement ==
  ASSUME NEW T \in SUBSET Nat, T # {}
  PROVE  \E x \in T : \A y \in T : x <= y
<1>1. PICK x \in T : \A y \in T : <<y, x>> \notin OpToRel(<, Nat)
  BY WFMin, NatLessThanWellFounded, Zenon
<1>2. \A y \in T : ~(y < x)
  BY <1>1 DEF OpToRel
<1>3. QED
  BY <1>2

(* A set that holds 0 and with every number the next holds them all.       *)
LEMMA SetInduction ==
  ASSUME NEW T, 0 \in T, \A n \in Nat : n \in T => n + 1 \in T
  PROVE  Nat \subseteq T
<1> SUFFICES ASSUME Nat \ T # {} PROVE FALSE
  OBVIOUS
<1>1. PICK x \in Nat \ T : \A y \in Nat \ T : x <= y
  BY LeastElement
<1>2. x - 1 \in Nat /\ x - 1 \in T
  BY <1>1
<1>3. QED
  BY <1>1, <1>2

(* A fold over the subsets of a finite set: c chooses the element to take  *)
(* off, F adds it to the fold of the rest.                                 *)
IsFold(f, S, c, b, F) ==
  f = [s \in SUBSET S |->
         IF s = {} THEN b ELSE F[c[s]][f[s \ {c[s]}]]]

(* It is well defined.                                                     *)
LEMMA FoldExists ==
  ASSUME NEW S, IsFiniteSet(S), NEW V, NEW b \in V,
         NEW F \in [S -> [V -> V]], NEW c \in [(SUBSET S) \ {{}} -> S],
         \A s \in (SUBSET S) \ {{}} : c[s] \in s
  PROVE  \E f \in [SUBSET S -> V] : IsFold(f, S, c, b, F)
<1> DEFINE Rhs(f) == [s \in SUBSET S |->
                        IF s = {} THEN b ELSE F[c[s]][f[s \ {c[s]}]]]
           Upto(f, n) == \A s \in SUBSET S :
                           Cardinality(s) <= n => f[s] = Rhs(f)[s]
           T == {n \in Nat : \E f \in [SUBSET S -> V] : Upto(f, n)}
<1>1. \A s \in SUBSET S : IsFiniteSet(s) /\ Cardinality(s) \in Nat
                             /\ Cardinality(s) <= Cardinality(S)
  BY FS_Subset, FS_CardinalityType
<1>2. \A s \in (SUBSET S) \ {{}} :
        /\ s \ {c[s]} \in SUBSET S
        /\ Cardinality(s \ {c[s]}) = Cardinality(s) - 1
  BY <1>1, FS_RemoveElement
<1>3. \A f \in [SUBSET S -> V] : Rhs(f) \in [SUBSET S -> V]
  OBVIOUS
<1>4. 0 \in T
  <2> DEFINE f == [s \in SUBSET S |-> b]
  <2>1. f \in [SUBSET S -> V]
    OBVIOUS
  <2>2. \A s \in SUBSET S : Cardinality(s) <= 0 => s = {}
    BY <1>1, FS_EmptySet
  <2>3. Upto(f, 0)
    BY <2>2
  <2>4. QED
    BY <2>1, <2>3
<1>5. ASSUME NEW n \in Nat, n \in T
      PROVE  n + 1 \in T
  <2>1. PICK f \in [SUBSET S -> V] : Upto(f, n)
    BY <1>5
  <2>2. \A s \in SUBSET S : Cardinality(s) <= n => Rhs(f)[s] = f[s]
    BY <2>1
  <2> DEFINE g == Rhs(f)
  <2>3. ASSUME NEW s \in SUBSET S, Cardinality(s) <= n + 1
        PROVE  g[s] = Rhs(g)[s]
    <3>1. CASE s = {}
      BY <3>1
    <3>2. CASE s # {}
      <4> DEFINE t == s \ {c[s]}
      <4>1. t \in SUBSET S /\ Cardinality(t) <= n
        BY <1>1, <1>2, <2>3, <3>2
      <4> HIDE DEF t
      <4>2. g[t] = f[t]
        BY <2>2, <4>1
      <4>3. g[s] = F[c[s]][f[t]] /\ Rhs(g)[s] = F[c[s]][g[t]]
        BY <3>2 DEF t
      <4>4. QED
        BY <4>2, <4>3
    <3>3. QED
      BY <3>1, <3>2
  <2>4. Upto(g, n + 1)
    BY <2>3
  <2>5. g \in [SUBSET S -> V]
    BY <1>3
  <2> HIDE DEF g, Upto
  <2>6. QED
    BY <2>4, <2>5
<1>6. Cardinality(S) \in T
  <2> HIDE DEF T
  <2>1. Nat \subseteq T
    BY <1>4, <1>5, SetInduction
  <2>2. QED
    BY <2>1, FS_CardinalityType
<1>7. PICK f \in [SUBSET S -> V] : Upto(f, Cardinality(S))
  BY <1>6
<1>8. \A s \in SUBSET S : f[s] = Rhs(f)[s]
  BY <1>1, <1>7
<1>9. f = Rhs(f)
  BY <1>8
<1>10. QED
  BY <1>9 DEF IsFold

-----------------------------------------------------------------------------
(* The sum of g over S, and of the volumes at the positions S of a log.    *)
Total(g, S) == MapThenSumSet(LAMBDA i : g[i], S)
Volume(l, S) == MapThenSumSet(LAMBDA i : l[i].volume, S)

(* The element the library takes off a set first, and the sum as a         *)
(* recursion over the sets.                                                *)
Pick(s) == CHOOSE x \in s : TRUE

IsSum(f, g, S) ==
  f = [s \in SUBSET S |->
         IF s = {} THEN 0 ELSE g[Pick(s)] + f[s \ {Pick(s)}]]

(* Such a sum exists.                                                      *)
LEMMA SumExists ==
  ASSUME NEW S, IsFiniteSet(S), NEW g, \A i \in S : g[i] \in Nat
  PROVE  \E f : IsSum(f, g, S)
<1> DEFINE F == [i \in S |-> [n \in Nat |-> g[i] + n]]
           c == [s \in (SUBSET S) \ {{}} |-> Pick(s)]
<1>1. \A s \in (SUBSET S) \ {{}} : Pick(s) \in s /\ Pick(s) \in S
  BY DEF Pick
<1>2. F \in [S -> [Nat -> Nat]] /\ c \in [(SUBSET S) \ {{}} -> S]
      /\ \A s \in (SUBSET S) \ {{}} : c[s] \in s
  BY <1>1
<1>3. \A i \in S, n \in Nat : F[i][n] = g[i] + n
  OBVIOUS
<1>4. \A s \in (SUBSET S) \ {{}} : c[s] = Pick(s)
  OBVIOUS
<1> HIDE DEF F, c
<1>5. PICK f \in [SUBSET S -> Nat] : IsFold(f, S, c, 0, F)
  BY <1>2, FoldExists
<1>6. ASSUME NEW s \in (SUBSET S) \ {{}}
      PROVE  F[c[s]][f[s \ {c[s]}]] = g[Pick(s)] + f[s \ {Pick(s)}]
  BY <1>1, <1>3, <1>4
<1>7. IsSum(f, g, S)
  BY <1>5, <1>6 DEF IsFold, IsSum
<1>8. QED
  BY <1>7

(* The total is one.                                                       *)
LEMMA TotalIsSum ==
  ASSUME NEW S, IsFiniteSet(S), NEW g, \A i \in S : g[i] \in Nat
  PROVE  \E f : IsSum(f, g, S) /\ Total(g, S) = f[S]
<1>1. Total(g, S) = (CHOOSE f : IsSum(f, g, S))[S]
  BY DEF Total, MapThenSumSet, MapThenFoldSet, IsSum, Pick
<1>2. QED
  BY <1>1, SumExists

(* So is the volume.                                                       *)
LEMMA VolumeIsSum ==
  ASSUME NEW S, IsFiniteSet(S), NEW l, \A i \in S : l[i].volume \in Nat
  PROVE  \E f : /\ IsSum(f, [i \in S |-> l[i].volume], S)
                /\ Volume(l, S) = f[S]
<1> DEFINE g == [i \in S |-> l[i].volume]
           IsVolume(f) == f = [s \in SUBSET S |->
                                 IF s = {} THEN 0
                                 ELSE l[Pick(s)].volume + f[s \ {Pick(s)}]]
<1>1. \A s \in SUBSET S : s # {} => g[Pick(s)] = l[Pick(s)].volume
  BY DEF Pick
<1>2. \A f : IsSum(f, g, S) <=> IsVolume(f)
  BY <1>1 DEF IsSum
<1>3. \E f : IsSum(f, g, S)
  BY SumExists
<1>4. Volume(l, S) = (CHOOSE f : IsVolume(f))[S]
  BY DEF Volume, MapThenSumSet, MapThenFoldSet, Pick
<1> HIDE DEF IsVolume
<1>5. IsVolume(CHOOSE f : IsVolume(f))
  BY <1>2, <1>3
<1>6. QED
  BY <1>2, <1>4, <1>5

(* Such a sum is what one expects, whichever element is taken off.         *)
LEMMA SumFacts ==
  ASSUME NEW S, IsFiniteSet(S), NEW g, \A i \in S : g[i] \in Nat,
         NEW f, IsSum(f, g, S)
  PROVE  \A s \in SUBSET S :
           /\ f[s] \in Nat
           /\ \A x \in s : f[s] = g[x] + f[s \ {x}]
<1> DEFINE Good(s) == /\ f[s] \in Nat
                      /\ \A x \in s : f[s] = g[x] + f[s \ {x}]
           T == {n \in Nat : \A s \in SUBSET S :
                               Cardinality(s) <= n => Good(s)}
<1>1. \A s \in SUBSET S : IsFiniteSet(s) /\ Cardinality(s) \in Nat
                             /\ Cardinality(s) <= Cardinality(S)
  BY FS_Subset, FS_CardinalityType
<1>2. \A s \in SUBSET S : \A x \in s :
        /\ s \ {x} \in SUBSET S
        /\ Cardinality(s \ {x}) = Cardinality(s) - 1
  BY <1>1, FS_RemoveElement
<1>3. /\ f[{}] = 0
      /\ \A s \in SUBSET S :
           s # {} => f[s] = g[Pick(s)] + f[s \ {Pick(s)}]
  BY DEF IsSum
<1>4. \A s : s # {} => Pick(s) \in s
  BY DEF Pick
<1>5. 0 \in T
  <2>1. \A s \in SUBSET S : Cardinality(s) <= 0 => s = {}
    BY <1>1, FS_EmptySet
  <2>2. Good({})
    BY <1>3
  <2> HIDE DEF Good
  <2>3. QED
    BY <2>1, <2>2
<1>6. ASSUME NEW n \in Nat, n \in T
      PROVE  n + 1 \in T
  <2> HIDE DEF Good
  <2> SUFFICES ASSUME NEW s \in SUBSET S, Cardinality(s) <= n + 1
               PROVE  Good(s)
    OBVIOUS
  <2> USE DEF Good
  <2>1. CASE s = {}
    BY <1>3, <2>1
  <2>2. CASE s # {}
    <3> DEFINE p == Pick(s)
    <3>1. p \in s
      BY <1>4, <2>2
    <3>2. f[s] = g[p] + f[s \ {p}]
      BY <1>3, <2>2
    <3> HIDE DEF p
    <3>3. \A x \in s : s \ {x} \in SUBSET S /\ Cardinality(s \ {x}) <= n
      BY <1>1, <1>2
    <3>4. \A x \in s : Good(s \ {x})
      BY <1>6, <3>3
    <3>5. f[s] \in Nat
      BY <3>1, <3>2, <3>4
    <3>6. ASSUME NEW x \in s, x # p
          PROVE  f[s] = g[x] + f[s \ {x}]
      <4>1. f[s \ {p}] = g[x] + f[(s \ {p}) \ {x}]
        BY <3>1, <3>4, <3>6
      <4>2. f[s \ {x}] = g[p] + f[(s \ {x}) \ {p}]
        BY <3>1, <3>4, <3>6
      <4>3. (s \ {p}) \ {x} = (s \ {x}) \ {p}
        OBVIOUS
      <4> DEFINE r == f[(s \ {x}) \ {p}]
      <4>4. r \in Nat
        <5> DEFINE u == s \ {x}
        <5>1. u \in SUBSET S /\ Cardinality(u) <= n /\ p \in u
          BY <3>1, <3>3, <3>6
        <5> HIDE DEF u
        <5>2. u \ {p} \in SUBSET S /\ Cardinality(u \ {p}) <= n
          BY <1>1, <1>2, <5>1
        <5>3. f[u \ {p}] \in Nat
          BY <1>6, <5>2
        <5>4. QED
          BY <5>3 DEF u
      <4> HIDE DEF r
      <4>5. f[s \ {p}] = g[x] + r /\ f[s \ {x}] = g[p] + r
        BY <4>1, <4>2, <4>3 DEF r
      <4>6. QED
        BY <3>1, <3>2, <4>4, <4>5
    <3>7. QED
      BY <3>2, <3>5, <3>6
  <2>3. QED
    BY <2>1, <2>2
<1>7. Cardinality(S) \in T
  <2> HIDE DEF T
  <2>1. Nat \subseteq T
    BY <1>5, <1>6, SetInduction
  <2>2. QED
    BY <2>1, FS_CardinalityType
<1>8. QED
  BY <1>1, <1>7

(* The same numbers have the same sum.                                     *)
LEMMA SumsAgree ==
  ASSUME NEW S, IsFiniteSet(S), NEW R, NEW g, NEW h, NEW f, NEW e,
         S \subseteq R, IsFiniteSet(R),
         \A i \in R : g[i] \in Nat,
         \A i \in S : h[i] = g[i],
         IsSum(f, g, R), IsSum(e, h, S)
  PROVE  f[S] = e[S]
<1> DEFINE T == {n \in Nat : \A s \in SUBSET S :
                               Cardinality(s) <= n => f[s] = e[s]}
<1>1. \A s \in SUBSET S : IsFiniteSet(s) /\ Cardinality(s) \in Nat
                             /\ Cardinality(s) <= Cardinality(S)
  BY FS_Subset, FS_CardinalityType
<1>2. /\ f[{}] = 0 /\ e[{}] = 0
      /\ \A s \in SUBSET S : s # {} =>
           /\ Pick(s) \in s
           /\ f[s] = g[Pick(s)] + f[s \ {Pick(s)}]
           /\ e[s] = g[Pick(s)] + e[s \ {Pick(s)}]
  BY DEF IsSum, Pick
<1>3. 0 \in T
  <2>1. \A s \in SUBSET S : Cardinality(s) <= 0 => s = {}
    BY <1>1, FS_EmptySet
  <2>2. QED
    BY <1>2, <2>1
<1>4. ASSUME NEW n \in Nat, n \in T
      PROVE  n + 1 \in T
  <2> SUFFICES ASSUME NEW s \in SUBSET S, Cardinality(s) <= n + 1
               PROVE  f[s] = e[s]
    OBVIOUS
  <2>1. CASE s = {}
    BY <1>2, <2>1
  <2>2. CASE s # {}
    <3>1. s \ {Pick(s)} \in SUBSET S /\ Cardinality(s \ {Pick(s)}) <= n
      <4> DEFINE p == Pick(s)
      <4>1. p \in s
        BY <1>2, <2>2
      <4> HIDE DEF p
      <4>2. Cardinality(s \ {p}) = Cardinality(s) - 1
        BY <1>1, <4>1, FS_RemoveElement
      <4>3. s \ {p} \in SUBSET S /\ Cardinality(s \ {p}) <= n
        BY <1>1, <4>2
      <4>4. QED
        BY <4>3 DEF p
    <3>2. f[s \ {Pick(s)}] = e[s \ {Pick(s)}]
      BY <1>4, <3>1
    <3>3. QED
      BY <1>2, <2>2, <3>2
  <2>3. QED
    BY <2>1, <2>2
<1>5. Cardinality(S) \in T
  <2> HIDE DEF T
  <2>1. Nat \subseteq T
    BY <1>3, <1>4, SetInduction
  <2>2. QED
    BY <2>1, FS_CardinalityType
<1>6. QED
  BY <1>1, <1>5

(* The total of nothing, ...                                               *)
LEMMA TotalOfNone ==
  ASSUME NEW g
  PROVE  Total(g, {}) = 0
BY TotalIsSum, FS_EmptySet DEF IsSum

(* ... a number taken off a total, ...                                     *)
LEMMA TotalWithout ==
  ASSUME NEW S, IsFiniteSet(S), NEW g, \A i \in S : g[i] \in Nat, NEW x \in S
  PROVE  /\ Total(g, S) \in Nat /\ Total(g, S \ {x}) \in Nat
         /\ Total(g, S) = g[x] + Total(g, S \ {x})
<1>1. PICK f : IsSum(f, g, S) /\ Total(g, S) = f[S]
  BY TotalIsSum
<1>2. IsFiniteSet(S \ {x})
  BY FS_RemoveElement
<1>3. PICK e : IsSum(e, g, S \ {x}) /\ Total(g, S \ {x}) = e[S \ {x}]
  BY <1>2, TotalIsSum
<1>4. f[S \ {x}] = e[S \ {x}]
  BY <1>1, <1>2, <1>3, SumsAgree
<1>5. f[S] \in Nat /\ f[S \ {x}] \in Nat /\ f[S] = g[x] + f[S \ {x}]
  <2>1. \A s \in SUBSET S :
          /\ f[s] \in Nat
          /\ \A y \in s : f[s] = g[y] + f[s \ {y}]
    BY <1>1, SumFacts
  <2>2. S \in SUBSET S /\ S \ {x} \in SUBSET S
    OBVIOUS
  <2>3. QED
    BY <2>1, <2>2
<1>6. QED
  BY <1>1, <1>3, <1>4, <1>5

(* ... and numbers that are the same.                                      *)
LEMMA TotalSame ==
  ASSUME NEW S, IsFiniteSet(S), NEW g, NEW h,
         \A i \in S : g[i] \in Nat /\ h[i] = g[i]
  PROVE  Total(h, S) = Total(g, S)
<1>1. PICK f : IsSum(f, g, S) /\ Total(g, S) = f[S]
  BY TotalIsSum
<1>2. PICK e : IsSum(e, h, S) /\ Total(h, S) = e[S]
  BY TotalIsSum
<1>3. QED
  BY <1>1, <1>2, SumsAgree

(* The volume is the total of the volumes.                                 *)
LEMMA VolumeIsTotal ==
  ASSUME NEW S, IsFiniteSet(S), NEW l, NEW g,
         \A i \in S : l[i].volume \in Nat /\ g[i] = l[i].volume
  PROVE  Volume(l, S) = Total(g, S)
<1> DEFINE h == [i \in S |-> l[i].volume]
<1>1. PICK e : IsSum(e, h, S) /\ Volume(l, S) = e[S]
  BY VolumeIsSum
<1>2. PICK f : IsSum(f, g, S) /\ Total(g, S) = f[S]
  BY TotalIsSum
<1>3. \A i \in S : h[i] = g[i] /\ g[i] \in Nat
  OBVIOUS
<1> HIDE DEF h
<1>4. QED
  BY <1>1, <1>2, <1>3, SumsAgree

(* The volume of no trades.                                                *)
LEMMA VolumeOfNone ==
  ASSUME NEW l
  PROVE  Volume(l, {}) = 0
<1>1. Volume(l, {}) = Total(l, {})
  BY VolumeIsTotal, FS_EmptySet
<1>2. QED
  BY <1>1, TotalOfNone

(* A volume taken off the sum.                                             *)
LEMMA VolumeWithout ==
  ASSUME NEW S, IsFiniteSet(S), NEW l, \A i \in S : l[i].volume \in Nat,
         NEW x \in S
  PROVE  /\ Volume(l, S) \in Nat /\ Volume(l, S \ {x}) \in Nat
         /\ Volume(l, S) = l[x].volume + Volume(l, S \ {x})
<1> DEFINE g == [i \in S |-> l[i].volume]
<1>1. \A i \in S : l[i].volume \in Nat /\ g[i] = l[i].volume
  OBVIOUS
<1> HIDE DEF g
<1>2. IsFiniteSet(S \ {x})
  BY FS_RemoveElement
<1>3. Volume(l, S) = Total(g, S) /\ Volume(l, S \ {x}) = Total(g, S \ {x})
  BY <1>1, <1>2, VolumeIsTotal
<1>4. /\ Total(g, S) \in Nat /\ Total(g, S \ {x}) \in Nat
      /\ Total(g, S) = g[x] + Total(g, S \ {x})
  BY <1>1, TotalWithout
<1>5. QED
  BY <1>1, <1>3, <1>4

(* Logs with the same volumes have the same sum.                           *)
LEMMA VolumeSame ==
  ASSUME NEW S, IsFiniteSet(S), NEW l, NEW k,
         \A i \in S : l[i].volume \in Nat /\ k[i].volume = l[i].volume
  PROVE  Volume(k, S) = Volume(l, S)
<1> DEFINE g == [i \in S |-> l[i].volume]
<1>1. \A i \in S : g[i] = l[i].volume
  OBVIOUS
<1> HIDE DEF g
<1>2. Volume(l, S) = Total(g, S) /\ Volume(k, S) = Total(g, S)
  BY <1>1, VolumeIsTotal
<1>3. QED
  BY <1>2

-----------------------------------------------------------------------------
(* Arithmetic modulo V: quotient and remainder, ...                        *)
LEMMA Division ==
  ASSUME NEW a \in Int, NEW V \in Nat \ {0}
  PROVE  \E q \in Int : a % V \in 0 .. (V - 1) /\ a = V * q + (a % V)
<1>1. a % V \in 0 .. (V-1) /\ a = V * (a \div V) + (a % V) /\ a \div V \in Int
  OBVIOUS
<1>2. QED
  BY <1>1

(* ... which are unique: of two, neither quotient is the larger, ...       *)
LEMMA QuotientIsUnique ==
  ASSUME NEW q \in Int, NEW p \in Int, NEW V \in Nat \ {0},
         NEW r \in 0 .. (V - 1), NEW t \in 0 .. (V - 1),
         V * q + r = V * p + t
  PROVE  q <= p
<1> SUFFICES ASSUME q - p >= 1 PROVE FALSE
  OBVIOUS
<1>1. V * (q - p) >= V * 1
  OBVIOUS
<1>2. V * (q - p) = t - r
  OBVIOUS
<1>3. QED
  BY <1>1, <1>2

(* ... the remainder of a multiple and a rest, ...                         *)
LEMMA RemainderIs ==
  ASSUME NEW q \in Int, NEW V \in Nat \ {0}, NEW r \in 0 .. (V - 1)
  PROVE  (V * q + r) % V = r
<1> DEFINE a == V * q + r
<1>0. a \in Int
  OBVIOUS
<1>1. PICK p \in Int : a % V \in 0 .. (V - 1) /\ a = V * p + (a % V)
  BY <1>0, Division
<1>2. q <= p /\ p <= q
  BY <1>1, QuotientIsUnique
<1>3. QED
  BY <1>1, <1>2

(* ... and of a sum to which the remainder of a part was added.            *)
LEMMA RemainderOfSum ==
  ASSUME NEW a \in Int, NEW b \in Int, NEW V \in Nat \ {0}
  PROVE  ((a % V) + b) % V = (a + b) % V
<1>1. PICK q \in Int : a % V \in 0 .. (V - 1) /\ a = V * q + (a % V)
  BY Division
<1> DEFINE c == (a % V) + b
<1>2. c \in Int
  BY <1>1
<1>3. PICK p \in Int : c % V \in 0 .. (V - 1) /\ c = V * p + (c % V)
  BY <1>2, Division
<1>4. a + b = V * q + c
  BY <1>1
<1> HIDE DEF c
<1> DEFINE r == c % V
<1>5. r \in 0 .. (V - 1) /\ c = V * p + r
  BY <1>3
<1> HIDE DEF r
<1>6. V * q + V * p = V * (q + p)
  OBVIOUS
<1>7. a + b = V * (q + p) + r
  BY <1>2, <1>4, <1>5, <1>6
<1>8. (V * (q + p) + r) % V = r
  <2>1. q + p \in Int
    OBVIOUS
  <2>2. QED
    BY <1>5, <2>1, RemainderIs
<1>9. QED
  BY <1>7, <1>8 DEF c, r

-----------------------------------------------------------------------------
(* The greatest of a set of numbers, ...                                   *)
LEMMA MaxIs ==
  ASSUME NEW S \in SUBSET Int, NEW x \in S, \A y \in S : y <= x
  PROVE  Max(S) = x
<1> DEFINE m == Max(S)
<1>1. m \in S /\ \A y \in S : m >= y
  BY DEF Max
<1> HIDE DEF m
<1>2. m = x
  BY <1>1
<1>3. QED
  BY <1>2 DEF m

(* ... and the least.                                                      *)
LEMMA MinIs ==
  ASSUME NEW S \in SUBSET Int, NEW x \in S, \A y \in S : x <= y
  PROVE  Min(S) = x
<1> DEFINE m == Min(S)
<1>1. m \in S /\ \A y \in S : m =< y
  BY DEF Min
<1> HIDE DEF m
<1>2. m = x
  BY <1>1
<1>3. QED
  BY <1>2 DEF m

(* D are positions of l, each with a price and a volume.                   *)
Prints(l, D) ==
  /\ D \in SUBSET Nat /\ IsFiniteSet(D)
  /\ \A i \in D : l[i].price \in Nat /\ l[i].volume \in Nat

(* The statistics of the trades at the positions D.                        *)
StatsOver(l, D) ==
  LET prices == {l[i].price : i \in D}
  IN IF D = {} THEN NoStats
     ELSE [open  |-> l[Min(D)].price,
           high  |-> Max(prices),
           low   |-> Min(prices),
           close |-> l[Max(D)].price,
           totalVolume |-> Volume(l, D) % VolumeLimit]

(* What DailyStats means by its numbers.                                   *)
LEMMA StatsOfIsOver ==
  ASSUME NEW l
  PROVE  StatsOf(l) = StatsOver(l, LiveTrades(l))
BY DEF StatsOf, StatsOver, Volume

(* The statistics are read off the first, the last, the dearest and the    *)
(* cheapest of the positions, ...                                          *)
LEMMA StatsAre ==
  ASSUME NEW l, NEW D, Prints(l, D),
         NEW first \in D, NEW last \in D, NEW high \in D, NEW low \in D,
         \A i \in D : /\ first <= i /\ i <= last
                      /\ l[low].price <= l[i].price
                      /\ l[i].price <= l[high].price
  PROVE  StatsOver(l, D) =
           [open |-> l[first].price, high |-> l[high].price,
            low |-> l[low].price, close |-> l[last].price,
            totalVolume |-> Volume(l, D) % VolumeLimit]
<1> DEFINE prices == {l[i].price : i \in D}
<1>1. Min(D) = first /\ Max(D) = last
  BY MinIs, MaxIs DEF Prints
<1>2. /\ prices \in SUBSET Int
      /\ l[high].price \in prices /\ l[low].price \in prices
      /\ \A p \in prices : l[low].price <= p /\ p <= l[high].price
  <2>1. \A i \in D : l[i].price \in Int
    BY DEF Prints
  <2>2. QED
    BY <2>1
<1> HIDE DEF prices
<1>3. Min(prices) = l[low].price /\ Max(prices) = l[high].price
  BY <1>2, MinIs, MaxIs
<1>4. D # {}
  OBVIOUS
<1>5. QED
  BY <1>1, <1>3, <1>4 DEF StatsOver, prices

(* ... which exist.                                                        *)
LEMMA ExtremesExist ==
  ASSUME NEW l, NEW D, Prints(l, D), D # {}
  PROVE  \E first, last, high, low \in D : \A i \in D :
           /\ first <= i /\ i <= last
           /\ l[low].price <= l[i].price
           /\ l[i].price <= l[high].price
<1> DEFINE Good(s) == \E last, high \in s : \A i \in s :
                        i <= last /\ l[i].price <= l[high].price
           T == {n \in Nat : \A s \in SUBSET D :
                   s # {} /\ Cardinality(s) <= n => Good(s)}
<1>0. \A i \in D : i \in Nat /\ l[i].price \in Nat
  BY DEF Prints
<1>1. \A s \in SUBSET D : IsFiniteSet(s) /\ Cardinality(s) \in Nat
  BY FS_Subset, FS_CardinalityType DEF Prints
<1>2. 0 \in T
  <2>1. \A s \in SUBSET D : Cardinality(s) <= 0 => s = {}
    BY <1>1, FS_EmptySet
  <2> HIDE DEF Good
  <2>2. QED
    BY <2>1
<1>3. ASSUME NEW n \in Nat, n \in T
      PROVE  n + 1 \in T
  <2> HIDE DEF Good
  <2> SUFFICES ASSUME NEW s \in SUBSET D, s # {}, Cardinality(s) <= n + 1
               PROVE  Good(s)
    OBVIOUS
  <2> USE DEF Good
  <2>1. PICK x \in s : TRUE
    OBVIOUS
  <2> DEFINE t == s \ {x}
  <2>2. t \in SUBSET D /\ s = t \cup {x} /\ Cardinality(t) <= n
    <3>1. Cardinality(t) = Cardinality(s) - 1
      BY <1>1, FS_RemoveElement
    <3>2. QED
      BY <1>1, <3>1
  <2> HIDE DEF t
  <2>3. CASE t = {}
    BY <1>0, <2>2, <2>3
  <2>4. CASE t # {}
    <3>1. PICK last \in t, high \in t : \A i \in t :
            i <= last /\ l[i].price <= l[high].price
      BY <1>3, <2>2, <2>4
    <3>2. PICK m \in s : m = IF x > last THEN x ELSE last
      BY <2>2, <3>1
    <3>3. PICK h \in s : h = IF l[x].price > l[high].price THEN x ELSE high
      BY <2>2, <3>1
    <3>4. \A i \in s : i <= m /\ l[i].price <= l[h].price
      BY <1>0, <2>2, <3>1, <3>2, <3>3
    <3>5. QED
      BY <3>4
  <2>5. QED
    BY <2>3, <2>4
<1>4. D # {}
  OBVIOUS
<1>5. PICK last \in D, high \in D : \A i \in D :
        i <= last /\ l[i].price <= l[high].price
  <2>1. D \in SUBSET D
    OBVIOUS
  <2> HIDE DEF T
  <2>2. Cardinality(D) \in T
    BY <1>1, <1>2, <1>3, <2>1, SetInduction
  <2> USE DEF T
  <2> HIDE DEF Good
  <2>3. Cardinality(D) <= Cardinality(D)
    BY <1>1, <2>1
  <2>4. Good(D)
    BY <1>4, <2>1, <2>2, <2>3
  <2>5. QED
    BY <2>4 DEF Good
<1>6. PICK first \in D : \A i \in D : first <= i
  BY <1>0, LeastElement
<1>7. PICK low \in D : \A i \in D : l[low].price <= l[i].price
  <2> DEFINE prices == {l[i].price : i \in D}
  <2>1. prices \in SUBSET Nat /\ prices # {}
    BY <1>0
  <2>2. PICK p \in prices : \A q \in prices : p <= q
    BY <2>1, LeastElement
  <2>3. QED
    BY <2>2
<1>8. QED
  BY <1>5, <1>6, <1>7

(* Logs with the same prints have the same statistics.                     *)
LEMMA StatsSame ==
  ASSUME NEW l, NEW k, NEW D, Prints(l, D),
         \A i \in D : k[i].price = l[i].price /\ k[i].volume = l[i].volume
  PROVE  StatsOver(k, D) = StatsOver(l, D)
<1>1. CASE D = {}
  BY <1>1 DEF StatsOver
<1>2. CASE D # {}
  <2>1. PICK first \in D, last \in D, high \in D, low \in D : \A i \in D :
           /\ first <= i /\ i <= last
           /\ l[low].price <= l[i].price
           /\ l[i].price <= l[high].price
    BY <1>2, ExtremesExist
  <2>2. Prints(k, D)
    BY DEF Prints
  <2>3. Volume(k, D) = Volume(l, D)
    BY VolumeSame DEF Prints
  <2>4. \A i \in D : /\ first <= i /\ i <= last
                     /\ k[low].price <= k[i].price
                     /\ k[i].price <= k[high].price
    BY <2>1
  <2>5. StatsOver(l, D) =
           [open |-> l[first].price, high |-> l[high].price,
            low |-> l[low].price, close |-> l[last].price,
            totalVolume |-> Volume(l, D) % VolumeLimit]
    BY <2>1, StatsAre
  <2>6. StatsOver(k, D) =
           [open |-> k[first].price, high |-> k[high].price,
            low |-> k[low].price, close |-> k[last].price,
            totalVolume |-> Volume(k, D) % VolumeLimit]
    BY <2>2, <2>4, StatsAre
  <2>7. QED
    BY <2>3, <2>5, <2>6
<1>3. QED
  BY <1>1, <1>2

(* h carries the prints of k at E, in their order, to those of l at D.     *)
Carries(h, k, E, l, D) ==
  /\ \A i \in E : /\ h[i] \in D
                  /\ k[i].price = l[h[i]].price
                  /\ k[i].volume = l[h[i]].volume
  /\ \A i, j \in E : i < j => h[i] < h[j]
  /\ \A d \in D : \E i \in E : h[i] = d

(* Prints that are carried elsewhere have the same volume ...              *)
LEMMA VolumeCarried ==
  ASSUME NEW k, NEW E, Prints(k, E), NEW l, NEW D, Prints(l, D),
         NEW h, Carries(h, k, E, l, D)
  PROVE  Volume(k, E) = Volume(l, D)
<1> DEFINE Image(s) == {h[i] : i \in s}
           T == {n \in Nat : \A s \in SUBSET E :
                   Cardinality(s) <= n => Volume(k, s) = Volume(l, Image(s))}
<1>1. \A s \in SUBSET E : IsFiniteSet(s) /\ Cardinality(s) \in Nat
  BY FS_Subset, FS_CardinalityType DEF Prints
<1>2. \A t \in SUBSET D : IsFiniteSet(t)
  BY FS_Subset DEF Prints
<1>3. /\ \A i \in E : k[i].volume \in Nat
      /\ \A i \in D : l[i].volume \in Nat
      /\ \A i \in E : h[i] \in D /\ k[i].volume = l[h[i]].volume
  BY DEF Prints, Carries
<1>4. ASSUME NEW i \in E, NEW j \in E, h[i] = h[j] PROVE i = j
  <2>1. i \in Nat /\ j \in Nat /\ h[i] \in Nat /\ h[j] \in Nat
    BY <1>3 DEF Prints
  <2>2. ~(h[i] < h[j]) /\ ~(h[j] < h[i])
    BY <1>4, <2>1
  <2>3. ~(i < j) /\ ~(j < i)
    BY <2>2 DEF Carries
  <2>4. QED
    BY <2>1, <2>3
<1>5. 0 \in T
  <2>1. ASSUME NEW s \in SUBSET E, Cardinality(s) <= 0
        PROVE  Volume(k, s) = Volume(l, Image(s))
    <3>1. s = {}
      BY <1>1, <2>1, FS_EmptySet
    <3>2. Image(s) = {}
      BY <3>1
    <3> HIDE DEF Image
    <3>3. QED
      BY <3>1, <3>2, VolumeOfNone
  <2> HIDE DEF Image
  <2>2. QED
    BY <2>1
<1>6. ASSUME NEW n \in Nat, n \in T PROVE n + 1 \in T
  <2> SUFFICES ASSUME NEW s \in SUBSET E, Cardinality(s) <= n + 1
               PROVE  Volume(k, s) = Volume(l, Image(s))
    BY DEF T
  <2>1. CASE s = {}
    <3>1. Image(s) = {}
      BY <2>1
    <3> HIDE DEF Image
    <3>2. QED
      BY <2>1, <3>1, VolumeOfNone
  <2>2. ASSUME NEW x \in s PROVE Volume(k, s) = Volume(l, Image(s))
    <3> DEFINE r == s \ {x}
    <3>1. r \in SUBSET E /\ Cardinality(r) <= n
      <4>1. Cardinality(r) = Cardinality(s) - 1
        BY <1>1, FS_RemoveElement
      <4>2. QED
        BY <1>1, <4>1
    <3>2. Image(r) = Image(s) \ {h[x]} /\ h[x] \in Image(s)
      BY <1>4
    <3>3. Image(s) \in SUBSET D
      BY <1>3
    <3>4. Volume(k, r) = Volume(l, Image(r))
      <4> HIDE DEF r, Image
      <4>1. QED
        BY <1>6, <3>1
    <3>5. /\ \A i \in s : k[i].volume \in Nat
          /\ \A i \in Image(s) : l[i].volume \in Nat
          /\ k[x].volume = l[h[x]].volume
      BY <1>3, <3>3
    <3>6. IsFiniteSet(s) /\ IsFiniteSet(Image(s))
      BY <1>1, <1>2, <3>3
    <3> HIDE DEF Image
    <3>7. Volume(k, s) = k[x].volume + Volume(k, r)
      BY <3>5, <3>6, VolumeWithout
    <3>8. Volume(l, Image(s))
            = l[h[x]].volume + Volume(l, Image(s) \ {h[x]})
      BY <3>2, <3>5, <3>6, VolumeWithout
    <3>9. QED
      BY <3>2, <3>4, <3>5, <3>7, <3>8
  <2>3. QED
    BY <2>1, <2>2
<1>7. Cardinality(E) \in T
  <2>1. E \in SUBSET E
    OBVIOUS
  <2> HIDE DEF T
  <2>2. QED
    BY <1>1, <1>5, <1>6, <2>1, SetInduction
<1>8. Image(E) = D
  BY <1>3 DEF Carries
<1>9. Volume(k, E) = Volume(l, Image(E))
  <2>1. E \in SUBSET E /\ Cardinality(E) <= Cardinality(E)
    BY <1>1
  <2> HIDE DEF Image
  <2>2. QED
    BY <1>7, <2>1
<1>10. QED
  BY <1>8, <1>9

(* ... and the same statistics.                                            *)
LEMMA StatsCarried ==
  ASSUME NEW k, NEW E, Prints(k, E), NEW l, NEW D, Prints(l, D),
         NEW h, Carries(h, k, E, l, D)
  PROVE  StatsOver(k, E) = StatsOver(l, D)
<1>1. CASE E = {}
  <2>1. D = {}
    BY <1>1 DEF Carries
  <2>2. QED
    BY <1>1, <2>1 DEF StatsOver
<1>2. CASE E # {}
  <2>1. PICK first \in E, last \in E, high \in E, low \in E : \A i \in E :
           /\ first <= i /\ i <= last
           /\ k[low].price <= k[i].price
           /\ k[i].price <= k[high].price
    BY <1>2, ExtremesExist
  <2>2. \A i \in E : /\ h[i] \in D /\ i \in Nat /\ h[i] \in Nat
                    /\ k[i].price = l[h[i]].price
    BY DEF Carries, Prints
  <2>3. \A i, j \in E : i <= j => h[i] <= h[j]
    <3> SUFFICES ASSUME NEW i \in E, NEW j \in E, i <= j
                 PROVE  h[i] <= h[j]
      OBVIOUS
    <3>1. CASE i = j
      BY <2>2, <3>1
    <3>2. CASE i < j
      <4>1. h[i] < h[j]
        BY <3>2 DEF Carries
      <4>2. QED
        BY <2>2, <4>1
    <3>3. QED
      BY <2>2, <3>1, <3>2
  <2>4. \A d \in D : /\ h[first] <= d /\ d <= h[last]
                    /\ l[h[low]].price <= l[d].price
                    /\ l[d].price <= l[h[high]].price
    <3> SUFFICES ASSUME NEW d \in D
                 PROVE  /\ h[first] <= d /\ d <= h[last]
                        /\ l[h[low]].price <= l[d].price
                        /\ l[d].price <= l[h[high]].price
      OBVIOUS
    <3>1. PICK i \in E : h[i] = d
      BY DEF Carries
    <3>2. h[first] <= h[i] /\ h[i] <= h[last]
      BY <2>1, <2>3
    <3>3. QED
      BY <2>1, <2>2, <3>1, <3>2
  <2>5. StatsOver(k, E) =
           [open |-> k[first].price, high |-> k[high].price,
            low |-> k[low].price, close |-> k[last].price,
            totalVolume |-> Volume(k, E) % VolumeLimit]
    BY <2>1, StatsAre
  <2>6. /\ h[first] \in D /\ h[last] \in D
        /\ h[high] \in D /\ h[low] \in D
    BY <2>2
  <2>7. StatsOver(l, D) =
           [open |-> l[h[first]].price, high |-> l[h[high]].price,
            low |-> l[h[low]].price, close |-> l[h[last]].price,
            totalVolume |-> Volume(l, D) % VolumeLimit]
    <3> DEFINE hf == h[first]
               hl == h[last]
               hh == h[high]
               hw == h[low]
    <3>1. /\ hf \in D /\ hl \in D /\ hh \in D /\ hw \in D
          /\ \A d \in D : /\ hf <= d /\ d <= hl
                         /\ l[hw].price <= l[d].price
                         /\ l[d].price <= l[hh].price
      BY <2>4, <2>6
    <3> HIDE DEF hf, hl, hh, hw
    <3>2. StatsOver(l, D) =
             [open |-> l[hf].price, high |-> l[hh].price,
              low |-> l[hw].price, close |-> l[hl].price,
              totalVolume |-> Volume(l, D) % VolumeLimit]
      BY <3>1, StatsAre
    <3>3. QED
      BY <3>2 DEF hf, hl, hh, hw
  <2>8. Volume(k, E) = Volume(l, D)
    BY VolumeCarried
  <2>9. QED
    BY <2>2, <2>5, <2>7, <2>8
<1>3. QED
  BY <1>1, <1>2

(* The statistics with one print more, after the others, are the           *)
(* statistics without it and the print folded in.                          *)
LEMMA StatsStep ==
  ASSUME NEW l, NEW D, Prints(l, D), NEW n \in Nat, \A i \in D : i < n,
         l[n].price \in Nat \ {NoPrice}, l[n].volume \in Nat,
         \A i \in D : l[i].price # NoPrice
  PROVE  StatsOver(l, D \cup {n})
           = FoldIntoStats(StatsOver(l, D), l[n].price, l[n].volume)
<1> DEFINE E == D \cup {n}
<1>0. /\ Prints(l, E) /\ n \notin D
      /\ \A i \in D : i \in Nat /\ l[i].price \in Nat \ {0}
      /\ l[n].price \in Nat \ {0}
  BY FS_AddElement DEF Prints, NoPrice
<1>1. l[n].volume \in Nat
  OBVIOUS
<1>2. Volume(l, E) = Volume(l, D) + l[n].volume /\ Volume(l, D) \in Nat
  <2>1. E \ {n} = D
    BY <1>0
  <2>2. IsFiniteSet(E) /\ (\A i \in E : l[i].volume \in Nat) /\ n \in E
    BY <1>0 DEF Prints
  <2> HIDE DEF E
  <2>3. /\ Volume(l, E) \in Nat /\ Volume(l, E \ {n}) \in Nat
        /\ Volume(l, E) = l[n].volume + Volume(l, E \ {n})
    BY <2>2, VolumeWithout
  <2>4. Volume(l, E \ {n}) = Volume(l, D)
    BY <2>1
  <2> DEFINE u == Volume(l, E)
             v == Volume(l, E \ {n})
             w == l[n].volume
  <2>5. u \in Nat /\ v \in Nat /\ u = w + v /\ w \in Nat
    BY <2>3, <1>1
  <2> HIDE DEF u, v, w
  <2>6. u = v + w /\ v \in Nat
    BY <2>5
  <2>7. QED
    BY <2>4, <2>6 DEF u, v, w
<1>3. ((Volume(l, D) % VolumeLimit) + l[n].volume) % VolumeLimit
        = Volume(l, E) % VolumeLimit
  <2> DEFINE v == Volume(l, D)
             w == l[n].volume
  <2>1. v \in Int /\ w \in Int /\ Volume(l, E) = v + w
    BY <1>2, <1>1
  <2> HIDE DEF v, w
  <2>2. ((v % VolumeLimit) + w) % VolumeLimit = (v + w) % VolumeLimit
    BY <2>1, VolumeLimitAssumption, RemainderOfSum
  <2>3. QED
    BY <2>1, <2>2 DEF v, w
<1>4. CASE D = {}
  <2>1. StatsOver(l, E) =
           [open |-> l[n].price, high |-> l[n].price,
            low |-> l[n].price, close |-> l[n].price,
            totalVolume |-> Volume(l, E) % VolumeLimit]
    <3>1. \A i \in E : /\ n <= i /\ i <= n
                       /\ l[n].price <= l[i].price
                       /\ l[i].price <= l[n].price
      BY <1>0, <1>4
    <3>2. n \in E
      OBVIOUS
    <3> HIDE DEF E
    <3>3. QED
      BY <1>0, <3>1, <3>2, StatsAre
  <2>2. StatsOver(l, D) = NoStats
    BY <1>4 DEF StatsOver
  <2>3. (0 + l[n].volume) % VolumeLimit = Volume(l, E) % VolumeLimit
    BY <1>2, <1>4, VolumeOfNone
  <2>4. FoldIntoStats(NoStats, l[n].price, l[n].volume)
          = [open |-> l[n].price, high |-> l[n].price,
             low |-> l[n].price, close |-> l[n].price,
             totalVolume |-> (0 + l[n].volume) % VolumeLimit]
    BY DEF FoldIntoStats, NoStats, NoPrice
  <2>5. QED
    BY <2>1, <2>2, <2>3, <2>4
<1>5. CASE D # {}
  <2>1. PICK first \in D, last \in D, high \in D, low \in D : \A i \in D :
           /\ first <= i /\ i <= last
           /\ l[low].price <= l[i].price
           /\ l[i].price <= l[high].price
    BY <1>5, ExtremesExist
  <2>2. StatsOver(l, D) =
           [open |-> l[first].price, high |-> l[high].price,
            low |-> l[low].price, close |-> l[last].price,
            totalVolume |-> Volume(l, D) % VolumeLimit]
    BY <2>1, StatsAre
  <2>3. PICK h \in E : h = IF l[n].price > l[high].price THEN n ELSE high
    BY <2>1
  <2>4. PICK w \in E : w = IF l[n].price < l[low].price THEN n ELSE low
    BY <2>1
  <2>5. \A i \in E : /\ first <= i /\ i <= n
                     /\ l[w].price <= l[i].price
                     /\ l[i].price <= l[h].price
    BY <1>0, <2>1, <2>3, <2>4
  <2>6. first \in E /\ n \in E
    OBVIOUS
  <2>7. StatsOver(l, E) =
           [open |-> l[first].price, high |-> l[h].price,
            low |-> l[w].price, close |-> l[n].price,
            totalVolume |-> Volume(l, E) % VolumeLimit]
    <3> HIDE DEF E
    <3>1. QED
      BY <1>0, <2>5, <2>6, StatsAre, ZenonT(60)
  <2>8. /\ l[first].price # 0 /\ l[high].price # 0 /\ l[low].price # 0
        /\ l[h].price = IF l[n].price > l[high].price THEN l[n].price
                        ELSE l[high].price
        /\ l[w].price = IF l[n].price < l[low].price THEN l[n].price
                        ELSE l[low].price
    BY <1>0, <2>1, <2>3, <2>4
  <2> DEFINE st == StatsOver(l, D)
  <2>9. /\ st.open = l[first].price /\ st.high = l[high].price
        /\ st.low = l[low].price
        /\ st.totalVolume = Volume(l, D) % VolumeLimit
    BY <2>2
  <2> HIDE DEF st
  <2>10. FoldIntoStats(st, l[n].price, l[n].volume)
           = [open |-> l[first].price, high |-> l[h].price,
              low |-> l[w].price, close |-> l[n].price,
              totalVolume |->
                ((Volume(l, D) % VolumeLimit) + l[n].volume) % VolumeLimit]
    BY <2>8, <2>9 DEF FoldIntoStats, NoPrice
  <2>11. QED
    BY <1>3, <2>7, <2>10 DEF st
<1>6. QED
  BY <1>4, <1>5

-----------------------------------------------------------------------------
(* The positions of a log are such positions.                              *)
LEMMA LogPrints ==
  ASSUME NEW l \in Seq(TradeRecord), NEW D \in SUBSET DOMAIN l
  PROVE  /\ Prints(l, D)
         /\ \A i \in D : l[i].price \in Prices /\ l[i].price \in Nat \ {0}
                           /\ l[i].volume \in Volumes
<1>1. IsFiniteSet(D) /\ D \in SUBSET Nat
  <2>1. IsFiniteSet(1 .. Len(l)) /\ DOMAIN l = 1 .. Len(l)
    BY FS_Interval
  <2>2. QED
    BY <2>1, FS_Subset
<1>2. \A i \in D : l[i] \in TradeRecord
  OBVIOUS
<1>3. \A i \in D : l[i].price \in Prices /\ l[i].volume \in Volumes
  BY <1>2 DEF TradeRecord
<1>4. Prices \subseteq Nat \ {0} /\ Volumes \subseteq Nat
  BY LedgerAssumption, VolumeLimitAssumption DEF NoPrice
<1>5. QED
  BY <1>1, <1>3, <1>4 DEF Prints

(* A trade folded in leaves statistics in their types.                     *)
LEMMA FoldTyped ==
  ASSUME NEW st \in Stats, NEW price \in Prices, NEW volume \in Volumes
  PROVE  FoldIntoStats(st, price, volume) \in Stats
<1>1. (st.totalVolume + volume) % VolumeLimit \in 0 .. (VolumeLimit - 1)
  <2>1. st.totalVolume + volume \in Int
    BY LedgerAssumption, VolumeLimitAssumption DEF Stats
  <2>2. QED
    BY <2>1, VolumeLimitAssumption, Division
<1>2. QED
  BY <1>1 DEF FoldIntoStats, Stats

(* Neither do no trades.                                                   *)
LEMMA NoStatsTyped == NoStats \in Stats
BY VolumeLimitAssumption DEF NoStats, Stats

(* The step of the rescan for the trade at i.                              *)
Rescan(l, i, st) ==
  IF l[i].cancelled THEN st ELSE FoldIntoStats(st, l[i].price, l[i].volume)

(* The fold of the code, as a recursion over the positions.                *)
IsRescan(f, l) ==
  f = [s \in SUBSET DOMAIN l |->
         IF s = {} THEN NoStats ELSE Rescan(l, Max(s), f[s \ {Max(s)}])]

(* Every set of positions of a log has a last one.                         *)
LEMMA LastPosition ==
  ASSUME NEW l \in Seq(TradeRecord), NEW s \in SUBSET DOMAIN l, s # {}
  PROVE  Max(s) \in s
<1>1. PICK last \in s : \A i \in s : i <= last
  BY LogPrints, ExtremesExist
<1>2. s \in SUBSET Int
  BY LogPrints DEF Prints
<1>3. QED
  BY <1>1, <1>2, MaxIs

(* The rescan is well defined.                                             *)
LEMMA RescanExists ==
  ASSUME NEW l \in Seq(TradeRecord)
  PROVE  \E f : IsRescan(f, l) /\ Recompute(l) = f[DOMAIN l]
<1> DEFINE S == DOMAIN l
           F == [i \in S |-> [st \in Stats |-> Rescan(l, i, st)]]
           c == [s \in (SUBSET S) \ {{}} |-> Max(s)]
<1>1. \A s \in (SUBSET S) \ {{}} : Max(s) \in s /\ Max(s) \in S
  BY LastPosition
<1>2. \A i \in S, st \in Stats : Rescan(l, i, st) \in Stats
  BY LogPrints, FoldTyped DEF Rescan
<1>3. F \in [S -> [Stats -> Stats]] /\ c \in [(SUBSET S) \ {{}} -> S]
      /\ \A s \in (SUBSET S) \ {{}} : c[s] \in s
  BY <1>1, <1>2
<1>4. \A i \in S, st \in Stats : F[i][st] = Rescan(l, i, st)
  OBVIOUS
<1>5. \A s \in (SUBSET S) \ {{}} : c[s] = Max(s)
  OBVIOUS
<1>6. IsFiniteSet(S)
  BY LogPrints DEF Prints
<1> HIDE DEF F, c, S
<1>7. PICK f \in [SUBSET S -> Stats] : IsFold(f, S, c, NoStats, F)
  BY <1>3, <1>6, NoStatsTyped, FoldExists
<1>8. ASSUME NEW s \in (SUBSET S) \ {{}}
      PROVE  F[c[s]][f[s \ {c[s]}]] = Rescan(l, Max(s), f[s \ {Max(s)}])
  BY <1>1, <1>4, <1>5
<1>9. IsRescan(f, l)
  BY <1>7, <1>8 DEF IsFold, IsRescan, S
<1>10. Recompute(l) = (CHOOSE g : IsRescan(g, l))[DOMAIN l]
  BY DEF Recompute, FoldLeft, MapThenFoldSet, IsRescan, Rescan
<1>11. QED
  BY <1>9, <1>10

(* The rescan of a cancel and a replacement computes the statistics, of    *)
(* a log of any length.                                                    *)
LEMMA RescanIsStats ==
  ASSUME NEW l \in Seq(TradeRecord)
  PROVE  Recompute(l) = StatsOf(l)
<1> DEFINE live(k) == {i \in 1 .. k : ~l[i].cancelled}
<1>1. PICK f : IsRescan(f, l) /\ Recompute(l) = f[DOMAIN l]
  BY RescanExists
<1>2. Len(l) \in Nat /\ DOMAIN l = 1 .. Len(l)
  OBVIOUS
<1> DEFINE T == {k \in Nat : k <= Len(l) => f[1 .. k] = StatsOver(l, live(k))}
<1>3. 0 \in T
  <2>1. f[{}] = NoStats
    BY <1>1 DEF IsRescan
  <2>2. 1 .. 0 = {} /\ live(0) = {}
    OBVIOUS
  <2>3. QED
    BY <2>1, <2>2 DEF StatsOver
<1>4. ASSUME NEW k \in Nat, k \in T
      PROVE  k + 1 \in T
  <2> SUFFICES ASSUME k + 1 <= Len(l)
               PROVE  f[1 .. (k + 1)] = StatsOver(l, live(k + 1))
    OBVIOUS
  <2>1. f[1 .. k] = StatsOver(l, live(k))
    BY <1>2, <1>4
  <2>2. /\ 1 .. (k + 1) \in SUBSET DOMAIN l /\ 1 .. (k + 1) # {}
        /\ (1 .. (k + 1)) \ {k + 1} = 1 .. k
    <3>1. \A i \in 1 .. (k + 1) : i \in 1 .. Len(l)
      BY <1>2
    <3>2. k + 1 \in 1 .. (k + 1)
      OBVIOUS
    <3>3. \A i : i \in (1 .. (k + 1)) \ {k + 1} <=> i \in 1 .. k
      OBVIOUS
    <3>4. QED
      BY <1>2, <3>1, <3>2, <3>3
  <2>3. Max(1 .. (k + 1)) = k + 1
    <3>1. /\ 1 .. (k + 1) \in SUBSET Int /\ k + 1 \in 1 .. (k + 1)
          /\ \A i \in 1 .. (k + 1) : i <= k + 1
      OBVIOUS
    <3>2. QED
      BY <3>1, MaxIs
  <2>4. f[1 .. (k + 1)] = Rescan(l, k + 1, f[1 .. k])
    <3>1. \A s \in SUBSET DOMAIN l :
            s # {} => f[s] = Rescan(l, Max(s), f[s \ {Max(s)}])
      BY <1>1 DEF IsRescan
    <3>2. QED
      BY <2>2, <2>3, <3>1
  <2>5. CASE l[k + 1].cancelled
    <3>1. live(k + 1) = live(k)
      BY <2>5
    <3>2. QED
      BY <2>1, <2>4, <2>5, <3>1 DEF Rescan
  <2>6. CASE ~l[k + 1].cancelled
    <3>1. live(k + 1) = live(k) \cup {k + 1}
      BY <2>6
    <3>2. live(k) \in SUBSET DOMAIN l /\ \A i \in live(k) : i < k + 1
      BY <1>2
    <3>3. k + 1 \in DOMAIN l
      BY <1>2
    <3> DEFINE D == live(k)
               n == k + 1
    <3> HIDE DEF D
    <3>4. /\ Prints(l, D) /\ \A i \in D : l[i].price # NoPrice
          /\ n \in Nat /\ \A i \in D : i < n
          /\ l[n].price \in Nat \ {NoPrice} /\ l[n].volume \in Nat
      <4>1. Prints(l, D) /\ \A i \in D : l[i].price \in Nat \ {0}
        BY <3>2, LogPrints DEF D
      <4>2. l[n].price \in Nat \ {0} /\ l[n].volume \in Volumes
        <5>1. {n} \in SUBSET DOMAIN l
          BY <3>3
        <5>2. QED
          BY <5>1, LogPrints
      <4>3. Volumes \subseteq Nat
        BY LedgerAssumption, VolumeLimitAssumption
      <4>4. n \in Nat /\ \A i \in D : i < n
        BY <3>2 DEF D
      <4>5. QED
        BY <4>1, <4>2, <4>3, <4>4 DEF NoPrice
    <3> HIDE DEF n
    <3>5. StatsOver(l, D \cup {n})
            = FoldIntoStats(StatsOver(l, D), l[n].price, l[n].volume)
      BY <3>4, StatsStep
    <3>6. QED
      BY <2>1, <2>4, <2>6, <3>1, <3>5 DEF Rescan, D, n
  <2>7. QED
    BY <2>5, <2>6
<1>5. Len(l) \in T
  <2> HIDE DEF T
  <2>1. QED
    BY <1>2, <1>3, <1>4, SetInduction
<1>6. live(Len(l)) = LiveTrades(l)
  BY <1>2 DEF LiveTrades, Cancelled
<1>7. f[1 .. Len(l)] = StatsOver(l, live(Len(l)))
  BY <1>2, <1>5
<1> HIDE DEF live
<1>8. QED
  BY <1>1, <1>2, <1>6, <1>7, StatsOfIsOver

(* The statistics have their types.                                        *)
LEMMA StatsOverTyped ==
  ASSUME NEW l \in Seq(TradeRecord), NEW D \in SUBSET DOMAIN l
  PROVE  StatsOver(l, D) \in Stats
<1>1. CASE D = {}
  BY <1>1, NoStatsTyped DEF StatsOver
<1>2. CASE D # {}
  <2>1. Prints(l, D) /\ \A i \in D : l[i].price \in Prices
    BY LogPrints
  <2>2. PICK first \in D, last \in D, high \in D, low \in D : \A i \in D :
           /\ first <= i /\ i <= last
           /\ l[low].price <= l[i].price
           /\ l[i].price <= l[high].price
    BY <1>2, <2>1, ExtremesExist
  <2>3. StatsOver(l, D) =
           [open |-> l[first].price, high |-> l[high].price,
            low |-> l[low].price, close |-> l[last].price,
            totalVolume |-> Volume(l, D) % VolumeLimit]
    BY <2>1, <2>2, StatsAre, ZenonT(60)
  <2>4. Volume(l, D) % VolumeLimit \in 0 .. (VolumeLimit - 1)
    <3>1. Volume(l, D) \in Int
      <4>1. PICK x \in D : TRUE
        BY <1>2
      <4>2. IsFiniteSet(D) /\ \A i \in D : l[i].volume \in Nat
        BY <2>1 DEF Prints
      <4>3. Volume(l, D) \in Nat
        BY <4>1, <4>2, VolumeWithout
      <4>4. QED
        BY <4>3
    <3>2. QED
      BY <3>1, VolumeLimitAssumption, Division
  <2>5. QED
    BY <2>1, <2>3, <2>4 DEF Stats
<1>3. QED
  BY <1>1, <1>2

(* st are the statistics live, but for the volume if d.                    *)
Agree(st, live, d) ==
  /\ [st EXCEPT !.totalVolume = live.totalVolume] = live
  /\ ~d => st = live

(* So have those of a whole log.                                           *)
LEMMA StatsOfTyped ==
  ASSUME NEW l \in Seq(TradeRecord)
  PROVE  StatsOf(l) \in Stats
BY StatsOfIsOver, StatsOverTyped DEF LiveTrades

(* A trade at the end of the log changes the statistics as the code does.  *)
LEMMA StatsOfAppended ==
  ASSUME NEW l \in Seq(TradeRecord), NEW price \in Prices,
         NEW volume \in Volumes
  PROVE  StatsOf(Append(l, Trade(price, volume)))
           = FoldIntoStats(StatsOf(l), price, volume)
<1> DEFINE r == Trade(price, volume)
           k == Append(l, r)
           n == Len(l) + 1
           D == LiveTrades(l)
<1>1. r \in TradeRecord /\ r.price = price /\ r.volume = volume /\ ~r.cancelled
  BY DEF Trade, TradeRecord
<1> HIDE DEF r
<1>2. /\ k \in Seq(TradeRecord) /\ DOMAIN k = (DOMAIN l) \cup {n}
      /\ n \in Nat /\ k[n] = r
      /\ \A i \in DOMAIN l : k[i] = l[i] /\ i < n /\ i \in DOMAIN k
      /\ n \notin DOMAIN l /\ n \in DOMAIN k
  BY <1>1
<1> HIDE DEF k, n
<1>3. LiveTrades(k) = D \cup {n}
  BY <1>1, <1>2 DEF LiveTrades, Cancelled
<1>4. D \in SUBSET DOMAIN l /\ D \in SUBSET DOMAIN k
  BY <1>2 DEF LiveTrades
<1> HIDE DEF D
<1>5. StatsOver(k, D) = StatsOver(l, D)
  BY <1>2, <1>4, LogPrints, StatsSame
<1>6. StatsOver(k, D \cup {n})
        = FoldIntoStats(StatsOver(k, D), k[n].price, k[n].volume)
  <2>1. Prints(k, D) /\ \A i \in D : k[i].price # NoPrice
    BY <1>2, <1>4, LogPrints DEF NoPrice
  <2>2. k[n].price \in Nat \ {NoPrice} /\ k[n].volume \in Nat
    BY <1>1, <1>2, LedgerAssumption, VolumeLimitAssumption
  <2>3. \A i \in D : i < n
    BY <1>2, <1>4
  <2>4. QED
    BY <1>2, <2>1, <2>2, <2>3, StatsStep
<1>7. StatsOf(k) = StatsOver(k, D \cup {n}) /\ StatsOf(l) = StatsOver(l, D)
  BY <1>3, StatsOfIsOver DEF D
<1>8. QED
  BY <1>1, <1>2, <1>5, <1>6, <1>7 DEF k, r

(* So does an adjusted volume, if the trade is live; if it is cancelled    *)
(* the statistics are as before.                                           *)
LEMMA StatsOfAdjusted ==
  ASSUME NEW l \in Seq(TradeRecord), NEW i \in DOMAIN l, NEW v \in Volumes,
         NEW k \in Seq(TradeRecord), DOMAIN k = DOMAIN l, k[i].volume = v,
         \A j \in DOMAIN l : /\ k[j].price = l[j].price
                             /\ k[j].cancelled = l[j].cancelled
                             /\ j # i => k[j].volume = l[j].volume
  PROVE  /\ StatsOf(k) = [StatsOf(l) EXCEPT !.totalVolume =
                            StatsOf(k).totalVolume]
         /\ l[i].cancelled => StatsOf(k) = StatsOf(l)
         /\ ~l[i].cancelled =>
              StatsOf(k).totalVolume
                = (StatsOf(l).totalVolume + v - l[i].volume) % VolumeLimit
<1> DEFINE D == LiveTrades(l)
<1>1. /\ DOMAIN k = DOMAIN l /\ k[i].volume = v
      /\ \A j \in DOMAIN l : /\ k[j].price = l[j].price
                             /\ k[j].cancelled = l[j].cancelled
                             /\ j # i => k[j].volume = l[j].volume
  OBVIOUS
<1>2. LiveTrades(k) = D
  BY <1>1 DEF LiveTrades, Cancelled
<1>3. D \in SUBSET DOMAIN l /\ D \in SUBSET DOMAIN k
  BY <1>1 DEF LiveTrades
<1>4. i \in D <=> ~l[i].cancelled
  BY DEF LiveTrades, Cancelled
<1> HIDE DEF D
<1>5. StatsOf(k) = StatsOver(k, D) /\ StatsOf(l) = StatsOver(l, D)
  BY <1>2, StatsOfIsOver DEF D
<1>6. Prints(l, D) /\ Prints(k, D)
  BY <1>3, LogPrints
<1>7. CASE i \notin D
  <2>1. StatsOver(k, D) = StatsOver(l, D)
    <3>1. \A j \in D : k[j].price = l[j].price /\ k[j].volume = l[j].volume
      BY <1>1, <1>3, <1>7
    <3>2. QED
      BY <1>6, <3>1, StatsSame
  <2>2. StatsOf(l) \in Stats
    BY StatsOfTyped
  <2>3. StatsOf(k) = StatsOf(l)
    BY <1>5, <2>1
  <2>4. [StatsOf(l) EXCEPT !.totalVolume = StatsOf(l).totalVolume] = StatsOf(l)
    BY <2>2 DEF Stats
  <2>5. QED
    BY <1>4, <1>7, <2>3, <2>4
<1>8. CASE i \in D
  <2>1. PICK first \in D, last \in D, high \in D, low \in D : \A j \in D :
           /\ first <= j /\ j <= last
           /\ l[low].price <= l[j].price
           /\ l[j].price <= l[high].price
    BY <1>6, <1>8, ExtremesExist
  <2>2. StatsOver(l, D) =
           [open |-> l[first].price, high |-> l[high].price,
            low |-> l[low].price, close |-> l[last].price,
            totalVolume |-> Volume(l, D) % VolumeLimit]
    BY <1>6, <2>1, StatsAre
  <2>3. \A j \in D : k[j].price = l[j].price
    BY <1>1, <1>3
  <2>4. StatsOver(k, D) =
           [open |-> k[first].price, high |-> k[high].price,
            low |-> k[low].price, close |-> k[last].price,
            totalVolume |-> Volume(k, D) % VolumeLimit]
    <3>1. \A j \in D : /\ first <= j /\ j <= last
                       /\ k[low].price <= k[j].price
                       /\ k[j].price <= k[high].price
      BY <2>1, <2>3
    <3>2. QED
      BY <1>6, <3>1, StatsAre
  <2> DEFINE old == StatsOf(l)
             new == StatsOf(k)
             p == Volume(l, D) % VolumeLimit
             q == Volume(k, D) % VolumeLimit
  <2>5. /\ old = [open |-> l[first].price, high |-> l[high].price,
                low |-> l[low].price, close |-> l[last].price,
                totalVolume |-> p]
        /\ new = [open |-> l[first].price, high |-> l[high].price,
                low |-> l[low].price, close |-> l[last].price,
                totalVolume |-> q]
    BY <1>5, <2>2, <2>3, <2>4
  <2> HIDE DEF old, new, p, q
  <2>6. new = [old EXCEPT !.totalVolume = q] /\ new.totalVolume = q
        /\ old.totalVolume = p
    BY <2>5
  <2>7. StatsOf(k) = [StatsOf(l) EXCEPT !.totalVolume =
                        Volume(k, D) % VolumeLimit]
    BY <2>6 DEF old, new, q
  <2>8. /\ StatsOf(k).totalVolume = Volume(k, D) % VolumeLimit
        /\ StatsOf(l).totalVolume = Volume(l, D) % VolumeLimit
    BY <2>6 DEF old, new, p, q
  <2>9. /\ Volume(l, D) \in Nat /\ l[i].volume \in Int /\ v \in Int
        /\ Volume(k, D) = Volume(l, D) + v - l[i].volume
    <3>1. IsFiniteSet(D) /\ IsFiniteSet(D \ {i})
      BY <1>6, FS_RemoveElement DEF Prints
    <3>2. \A j \in D : l[j].volume \in Nat /\ k[j].volume \in Nat
      BY <1>6 DEF Prints
    <3>3. Volume(k, D \ {i}) = Volume(l, D \ {i})
      <4>1. \A j \in D \ {i} :
              l[j].volume \in Nat /\ k[j].volume = l[j].volume
        BY <1>1, <1>3, <3>2
      <4>2. QED
        BY <3>1, <4>1, VolumeSame
    <3>4. /\ Volume(l, D) \in Nat /\ Volume(l, D \ {i}) \in Nat
          /\ Volume(l, D) = l[i].volume + Volume(l, D \ {i})
      BY <1>8, <3>1, <3>2, VolumeWithout
    <3>5. /\ Volume(k, D) \in Nat /\ Volume(k, D \ {i}) \in Nat
          /\ Volume(k, D) = k[i].volume + Volume(k, D \ {i})
      BY <1>8, <3>1, <3>2, VolumeWithout
    <3> DEFINE a == Volume(l, D)
               b == Volume(k, D)
               c == Volume(l, D \ {i})
               u == l[i].volume
    <3>6. a \in Nat /\ c \in Nat /\ u \in Nat /\ v \in Nat
          /\ a = u + c /\ b = v + c
      <4>1. v \in Nat
        BY LedgerAssumption, VolumeLimitAssumption
      <4>2. QED
        BY <1>1, <1>8, <3>2, <3>3, <3>4, <3>5, <4>1
    <3> HIDE DEF a, b, c, u
    <3>7. a \in Nat /\ u \in Int /\ v \in Int /\ b = a + v - u
      BY <3>6
    <3>8. QED
      BY <3>7 DEF a, b, u
  <2>10. StatsOf(k).totalVolume
          = (StatsOf(l).totalVolume + v - l[i].volume) % VolumeLimit
    <3> DEFINE a == Volume(l, D)
               u == l[i].volume
               t == a % VolumeLimit
    <3>1. a \in Int /\ u \in Int /\ v \in Int
          /\ Volume(k, D) = a + v - u
      BY <2>9
    <3> HIDE DEF a, u
    <3>2. t \in Int
      BY <3>1, VolumeLimitAssumption, Division
    <3>3. v - u \in Int
      BY <3>1
    <3>4. (t + (v - u)) % VolumeLimit = (a + (v - u)) % VolumeLimit
      BY <3>1, <3>3, VolumeLimitAssumption, RemainderOfSum
    <3> HIDE DEF t
    <3>5. t + (v - u) = t + v - u /\ a + (v - u) = a + v - u
      BY <3>1, <3>2
    <3>6. QED
      BY <2>8, <3>1, <3>4, <3>5 DEF a, u, t
  <2>11. QED
    BY <1>4, <1>8, <2>7, <2>8, <2>10
<1>9. QED
  BY <1>7, <1>8

-----------------------------------------------------------------------------
(* A list of trades kept beside the ledger by a caller: each under an id,  *)
(* in the order they were recorded.  It lists the live trades of log l if  *)
(* index b leads from its ids to them and to no others.                    *)
Listing == [id : TradeIds, price : Prices, volume : Volumes]

Lists(t, b, l) ==
  /\ \A i \in DOMAIN t : t[i].id \in DOMAIN b
  /\ Carries([i \in DOMAIN t |-> b[t[i].id]], t, DOMAIN t, l, LiveTrades(l))

(* The summary of the list is that of the log.                             *)
LEMMA StatsOfListed ==
  ASSUME NEW l \in Seq(TradeRecord), NEW t \in Seq(Listing), NEW b,
         Lists(t, b, l),
         NEW k, k = [i \in DOMAIN t |->
                       [price |-> t[i].price, volume |-> t[i].volume,
                        cancelled |-> FALSE]]
  PROVE  StatsOf(k) = StatsOf(l)
<1>1. LiveTrades(k) = DOMAIN t
  BY DEF LiveTrades, Cancelled
<1>2. Prints(t, DOMAIN t)
  <2>1. IsFiniteSet(1 .. Len(t)) /\ DOMAIN t = 1 .. Len(t)
    BY FS_Interval
  <2>2. \A i \in DOMAIN t : t[i] \in Listing
    OBVIOUS
  <2>3. Prices \subseteq Nat /\ Volumes \subseteq Nat
    BY LedgerAssumption, VolumeLimitAssumption
  <2>4. DOMAIN t \in SUBSET Nat
    BY <2>1
  <2>5. QED
    BY <2>1, <2>2, <2>3, <2>4 DEF Listing, Prints
<1>3. Prints(l, LiveTrades(l))
  BY LogPrints DEF LiveTrades
<1>4. StatsOver(t, DOMAIN t) = StatsOver(l, LiveTrades(l))
  BY <1>2, <1>3, StatsCarried DEF Lists
<1>5. StatsOver(k, DOMAIN t) = StatsOver(t, DOMAIN t)
  <2>1. \A i \in DOMAIN t :
          k[i].price = t[i].price /\ k[i].volume = t[i].volume
    OBVIOUS
  <2>2. QED
    BY <1>2, <2>1, StatsSame
<1>6. QED
  BY <1>1, <1>4, <1>5, StatsOfIsOver

(* A member of a sequence taken out.                                       *)
LEMMA TakenOut ==
  ASSUME NEW S, NEW t \in Seq(S), NEW p \in DOMAIN t
  PROVE  /\ RemoveAt(t, p) \in Seq(S)
         /\ DOMAIN RemoveAt(t, p) = 1 .. (Len(t) - 1)
         /\ \A i \in 1 .. (Len(t) - 1) :
              RemoveAt(t, p)[i] = IF i < p THEN t[i] ELSE t[i + 1]
<1>1. p \in 1 .. Len(t) /\ Len(t) \in Nat
  OBVIOUS
<1> DEFINE a == SubSeq(t, 1, p - 1)
           z == SubSeq(t, p + 1, Len(t))
<1>2. /\ a \in Seq(S) /\ Len(a) = p - 1
      /\ \A i \in 1 .. (p - 1) : a[i] = t[i]
  BY <1>1
<1>3. /\ z \in Seq(S) /\ Len(z) = Len(t) - p
      /\ \A i \in 1 .. (Len(t) - p) : z[i] = t[p + i]
  BY <1>1
<1> HIDE DEF a, z
<1>4. /\ a \o z \in Seq(S) /\ Len(a \o z) = Len(t) - 1
      /\ \A i \in 1 .. (Len(t) - 1) :
           (a \o z)[i] = IF i <= p - 1 THEN a[i] ELSE z[i - (p - 1)]
  <2>1. Len(a) + Len(z) = Len(t) - 1
    BY <1>1, <1>2, <1>3
  <2>2. /\ a \o z \in Seq(S) /\ Len(a \o z) = Len(a) + Len(z)
        /\ \A i \in 1 .. Len(a) + Len(z) :
             (a \o z)[i] = IF i <= Len(a) THEN a[i] ELSE z[i - Len(a)]
    BY <1>2, <1>3, ConcatProperties, Zenon
  <2>3. Len(a) = p - 1
    BY <1>2
  <2>4. QED
    BY <2>1, <2>2, <2>3, Zenon
<1>5. ASSUME NEW i \in 1 .. (Len(t) - 1)
      PROVE  (a \o z)[i] = IF i < p THEN t[i] ELSE t[i + 1]
  <2>1. CASE i < p
    <3>1. i \in 1 .. (p - 1)
      BY <1>1, <2>1
    <3>2. QED
      BY <1>1, <1>2, <1>4, <2>1, <3>1
  <2>2. CASE ~(i < p)
    <3>1. /\ i - (p - 1) \in 1 .. (Len(t) - p) /\ ~(i <= p - 1)
          /\ p + (i - (p - 1)) = i + 1
      BY <1>1, <2>2
    <3>2. (a \o z)[i] = z[i - (p - 1)]
      BY <1>4, <3>1
    <3>3. z[i - (p - 1)] = t[p + (i - (p - 1))]
      BY <1>3, <3>1
    <3>4. QED
      BY <2>2, <3>1, <3>2, <3>3
  <2>3. QED
    BY <2>1, <2>2
<1>6. RemoveAt(t, p) = a \o z
  BY DEF RemoveAt, a, z
<1>7. DOMAIN (a \o z) = 1 .. (Len(t) - 1)
  BY <1>4
<1>8. QED
  BY <1>4, <1>5, <1>6, <1>7, Zenon

(* A listed trade is live.  Cancelled in the log and taken off the list,   *)
(* it is listed no more, under its id or any other, and the rest is.       *)
LEMMA ListedTaken ==
  ASSUME NEW l \in Seq(TradeRecord), NEW t \in Seq(Listing), NEW b,
         Lists(t, b, l), NEW p \in DOMAIN t
  PROVE  /\ t[p].id \in DOMAIN b /\ b[t[p].id] \in LiveTrades(l)
         /\ RemoveAt(t, p) \in Seq(Listing)
         /\ \A i \in DOMAIN RemoveAt(t, p) :
              RemoveAt(t, p)[i].id # t[p].id
         /\ Lists(RemoveAt(t, p), b, CancelAt(l, b[t[p].id]))
<1> DEFINE n == b[t[p].id]
           k == CancelAt(l, n)
           w == RemoveAt(t, p)
           from(i) == IF i < p THEN i ELSE i + 1
<1>1. /\ \A i \in DOMAIN t : t[i].id \in DOMAIN b
      /\ \A i \in DOMAIN t : /\ b[t[i].id] \in LiveTrades(l)
                             /\ t[i].price = l[b[t[i].id]].price
                             /\ t[i].volume = l[b[t[i].id]].volume
      /\ \A i, j \in DOMAIN t : i < j => b[t[i].id] < b[t[j].id]
      /\ \A d \in LiveTrades(l) : \E i \in DOMAIN t : b[t[i].id] = d
  BY DEF Lists, Carries
<1>2. LiveTrades(l) \subseteq DOMAIN l /\ DOMAIN l \subseteq Nat
  BY LogPrints DEF LiveTrades, Prints
<1>3. n \in LiveTrades(l) /\ n \in DOMAIN l
  BY <1>1, <1>2
<1>4. /\ w \in Seq(Listing) /\ DOMAIN w = 1 .. (Len(t) - 1)
      /\ \A i \in 1 .. (Len(t) - 1) : w[i] = t[from(i)]
  BY TakenOut
<1>5. /\ DOMAIN t = 1 .. Len(t) /\ Len(t) \in Nat
      /\ p \in 1 .. Len(t)
  OBVIOUS
<1>6. /\ \A i \in DOMAIN w : from(i) \in DOMAIN t /\ from(i) # p
      /\ \A i, j \in DOMAIN w : i < j => from(i) < from(j)
  BY <1>4, <1>5
<1>7. ASSUME NEW j \in DOMAIN t, j # p PROVE \E i \in DOMAIN w : from(i) = j
  <2>1. CASE j < p
    BY <1>4, <1>5, <2>1
  <2>2. CASE p < j
    <3>1. j - 1 \in DOMAIN w /\ from(j - 1) = j
      BY <1>4, <1>5, <2>2
    <3>2. QED
      BY <3>1
  <2>3. QED
    BY <1>5, <1>7, <2>1, <2>2
<1> HIDE DEF from
<1>8. \A i \in DOMAIN w : w[i] = t[from(i)]
  BY <1>4
<1>9. ASSUME NEW j \in DOMAIN t, j # p
      PROVE  b[t[j].id] # n /\ t[j].id # t[p].id
  <2>1. j < p \/ p < j
    BY <1>5, <1>9
  <2>2. b[t[j].id] < n \/ n < b[t[j].id]
    BY <1>1, <2>1
  <2>3. b[t[j].id] \in Nat /\ n \in Nat
    BY <1>1, <1>2
  <2>4. b[t[j].id] # n
    BY <2>2, <2>3
  <2>5. QED
    BY <2>4
<1>10. /\ DOMAIN k = DOMAIN l
       /\ \A d \in DOMAIN l : d # n => k[d] = l[d]
       /\ k[n].cancelled
  <2>1. l[n] \in TradeRecord
    BY <1>3
  <2>2. k = [l EXCEPT ![n] = [l[n] EXCEPT !.cancelled = TRUE]]
    BY DEF CancelAt
  <2>3. [l[n] EXCEPT !.cancelled = TRUE].cancelled
    BY <2>1 DEF TradeRecord
  <2> HIDE DEF k, n
  <2>4. QED
    BY <1>3, <2>2, <2>3
<1> HIDE DEF k, n, w
<1>11. LiveTrades(k) = LiveTrades(l) \ {n}
  BY <1>3, <1>10 DEF LiveTrades, Cancelled
<1>12. ASSUME NEW i \in DOMAIN w
       PROVE  /\ w[i].id # t[p].id /\ w[i].id \in DOMAIN b
              /\ b[w[i].id] \in LiveTrades(k)
              /\ w[i].price = k[b[w[i].id]].price
              /\ w[i].volume = k[b[w[i].id]].volume
  <2>1. from(i) \in DOMAIN t /\ from(i) # p /\ w[i] = t[from(i)]
    BY <1>6, <1>8
  <2>2. /\ t[from(i)].id # t[p].id /\ b[t[from(i)].id] # n
        /\ b[t[from(i)].id] \in LiveTrades(l)
    BY <1>1, <1>9, <2>1
  <2>3. k[b[t[from(i)].id]] = l[b[t[from(i)].id]]
    BY <1>2, <1>10, <2>2
  <2>4. QED
    BY <1>1, <1>11, <2>1, <2>2, <2>3
<1>13. \A i, j \in DOMAIN w : i < j => b[w[i].id] < b[w[j].id]
  BY <1>1, <1>6, <1>8
<1>14. ASSUME NEW d \in LiveTrades(k)
       PROVE  \E i \in DOMAIN w : b[w[i].id] = d
  <2>1. PICK j \in DOMAIN t : b[t[j].id] = d
    BY <1>1, <1>11
  <2>2. j # p
    BY <1>11, <2>1 DEF n
  <2>3. PICK i \in DOMAIN w : from(i) = j
    BY <1>7, <2>2
  <2>4. QED
    BY <1>8, <2>1, <2>3
<1>15. Lists(w, b, k)
  BY <1>12, <1>13, <1>14 DEF Lists, Carries
<1>16. QED
  BY <1>1, <1>3, <1>4, <1>12, <1>15 DEF k, w, n

(* A trade recorded, and listed under an id that lists no other.           *)
LEMMA ListedAdded ==
  ASSUME NEW l \in Seq(TradeRecord), NEW t \in Seq(Listing), NEW b,
         Lists(t, b, l), NEW id \in TradeIds, NEW price \in Prices,
         NEW volume \in Volumes, \A i \in DOMAIN t : t[i].id # id,
         NEW w, w = Append(t, [id |-> id, price |-> price,
                               volume |-> volume])
  PROVE  /\ w \in Seq(Listing)
         /\ Lists(w, Put(b, id, Len(l) + 1), Append(l, Trade(price, volume)))
<1> DEFINE r == Trade(price, volume)
           k == Append(l, r)
           n == Len(l) + 1
           c == Put(b, id, n)
           e == [id |-> id, price |-> price, volume |-> volume]
           m == Len(t) + 1
<1>1. /\ \A i \in DOMAIN t : t[i].id \in DOMAIN b
      /\ \A i \in DOMAIN t : /\ b[t[i].id] \in LiveTrades(l)
                             /\ t[i].price = l[b[t[i].id]].price
                             /\ t[i].volume = l[b[t[i].id]].volume
      /\ \A i, j \in DOMAIN t : i < j => b[t[i].id] < b[t[j].id]
      /\ \A d \in LiveTrades(l) : \E i \in DOMAIN t : b[t[i].id] = d
  BY DEF Lists, Carries
<1>2. /\ r \in TradeRecord /\ ~r.cancelled
      /\ r.price = price /\ r.volume = volume
  BY DEF Trade, TradeRecord
<1>3. /\ e \in Listing /\ e.id = id /\ e.price = price /\ e.volume = volume
  BY DEF Listing
<1> HIDE DEF r, e
<1>4. /\ DOMAIN k = (DOMAIN l) \cup {n} /\ k[n] = r
      /\ \A i \in DOMAIN l : k[i] = l[i] /\ i < n /\ i \in Nat
      /\ n \notin DOMAIN l
  BY <1>2
<1>5. /\ w \in Seq(Listing) /\ DOMAIN w = (DOMAIN t) \cup {m} /\ w[m] = e
      /\ \A i \in DOMAIN t : w[i] = t[i] /\ i < m /\ i \in Nat
      /\ m \in Nat /\ m \notin DOMAIN t
  BY <1>3 DEF e
<1> HIDE DEF n, m, k
<1>6. LiveTrades(k) = LiveTrades(l) \cup {n}
  BY <1>2, <1>4 DEF LiveTrades, Cancelled
<1>7. LiveTrades(l) \subseteq DOMAIN l
  BY DEF LiveTrades
<1>8. /\ c[id] = n /\ DOMAIN c = (DOMAIN b) \cup {id}
      /\ \A x \in DOMAIN b : x # id => c[x] = b[x]
  BY DEF Put
<1> HIDE DEF c
<1>9. ASSUME NEW i \in DOMAIN t
      PROVE  /\ w[i] = t[i] /\ w[i].id \in DOMAIN c
             /\ c[w[i].id] = b[t[i].id] /\ c[w[i].id] \in LiveTrades(l)
             /\ c[w[i].id] < n
             /\ k[c[w[i].id]] = l[b[t[i].id]]
  BY <1>1, <1>4, <1>5, <1>7, <1>8
<1>10. w[m].id = id /\ c[w[m].id] = n
  BY <1>3, <1>5, <1>8
<1>11. ASSUME NEW i \in DOMAIN w
       PROVE  /\ w[i].id \in DOMAIN c
              /\ c[w[i].id] \in LiveTrades(k)
              /\ w[i].price = k[c[w[i].id]].price
              /\ w[i].volume = k[c[w[i].id]].volume
  <2>1. CASE i = m
    BY <1>2, <1>3, <1>4, <1>5, <1>6, <1>8, <1>10, <2>1
  <2>2. CASE i \in DOMAIN t
    BY <1>1, <1>6, <1>9, <2>2
  <2>3. QED
    BY <1>5, <2>1, <2>2
<1>12. ASSUME NEW i \in DOMAIN w, NEW j \in DOMAIN w, i < j
       PROVE  c[w[i].id] < c[w[j].id]
  <2>1. i \in DOMAIN t
    BY <1>5, <1>12
  <2>2. CASE j = m
    BY <1>9, <1>10, <2>1, <2>2
  <2>3. CASE j \in DOMAIN t
    BY <1>1, <1>9, <1>12, <2>1, <2>3
  <2>4. QED
    BY <1>5, <2>2, <2>3
<1>13. ASSUME NEW d \in LiveTrades(k)
       PROVE  \E i \in DOMAIN w : c[w[i].id] = d
  <2>1. CASE d = n
    BY <1>5, <1>10, <2>1
  <2>2. CASE d \in LiveTrades(l)
    <3>1. PICK i \in DOMAIN t : b[t[i].id] = d
      BY <1>1, <2>2
    <3>2. QED
      BY <1>5, <1>9, <3>1
  <2>3. QED
    BY <1>6, <2>1, <2>2
<1>14. Lists(w, c, k)
  BY <1>11, <1>12, <1>13 DEF Lists, Carries
<1>15. QED
  BY <1>5, <1>14 DEF c, k, n, r

-----------------------------------------------------------------------------
(* The part of the types that a cancel or an adjustment relies on: an id   *)
(* is the index of a trade.                                                *)
LogTypes ==
  /\ log \in [Symbols -> Seq(TradeRecord)]
  /\ DOMAIN byId = Symbols
  /\ \A s \in Symbols : IsMap(byId[s], TradeIds, DOMAIN log[s])

(* The inductive invariant: of the log and its index, and of the numbers.  *)
IndexInv == LogTypes /\ IdsNameTheirOwnTrade

StatsInv ==
  /\ ledgers \subseteq Symbols
  /\ stats \in [Symbols -> Stats]
  /\ failures \in Nat
  /\ disturbed \in [Symbols -> BOOLEAN]
  /\ \A s \in Symbols : Agree(stats[s], StatsOf(log[s]), disturbed[s])

IInv == IndexInv /\ StatsInv

(* Log k is log l some operation later.                                    *)
Continues(k, l) ==
  \A i \in DOMAIN l :
    /\ i \in DOMAIN k
    /\ k[i].price = l[i].price
    /\ l[i].cancelled => k[i].cancelled

(* What every operation does to the tape of symbol s, and to the others'.  *)
Advance(s) ==
  /\ log' \in [Symbols -> Seq(TradeRecord)] /\ DOMAIN byId' = Symbols
  /\ \A u \in Symbols \ {s} : log'[u] = log[u] /\ byId'[u] = byId[u]
  /\ Continues(log'[s], log[s])
  /\ \/ Len(log'[s]) = Len(log[s]) /\ byId'[s] = byId[s]
     \/ /\ Len(log'[s]) = Len(log[s]) + 1
        /\ \E id \in TradeIds : byId'[s] = Put(byId[s], id, Len(log[s]) + 1)

(* What every operation does to the numbers.                               *)
Account(s) ==
  /\ ledgers' = ledgers \cup {s}
  /\ failures' \in Nat
  /\ stats' \in [Symbols -> Stats] /\ disturbed' \in [Symbols -> BOOLEAN]
  /\ \A u \in Symbols \ {s} :
       stats'[u] = stats[u] /\ disturbed'[u] = disturbed[u]
  /\ Agree(stats'[s], StatsOf(log'[s]), disturbed'[s])

-----------------------------------------------------------------------------
(* A trade at the end of a log, a trade cancelled, a volume adjusted.      *)
LEMMA Appended ==
  ASSUME NEW l \in Seq(TradeRecord), NEW price \in Prices,
         NEW volume \in Volumes
  PROVE  /\ Append(l, Trade(price, volume)) \in Seq(TradeRecord)
         /\ Len(Append(l, Trade(price, volume))) = Len(l) + 1
         /\ Continues(Append(l, Trade(price, volume)), l)
<1> DEFINE r == Trade(price, volume)
<1>1. r \in TradeRecord
  BY DEF Trade, TradeRecord
<1> HIDE DEF r
<1>2. /\ Append(l, r) \in Seq(TradeRecord)
      /\ Len(Append(l, r)) = Len(l) + 1
      /\ Len(l) \in Nat /\ DOMAIN l = 1..Len(l)
      /\ DOMAIN Append(l, r) = 1..(Len(l) + 1)
      /\ \A i \in 1..Len(l) : Append(l, r)[i] = l[i]
  BY <1>1
<1>3. Continues(Append(l, r), l)
  BY <1>2 DEF Continues
<1>4. QED
  BY <1>2, <1>3 DEF r

(* A trade cancelled.                                                      *)
LEMMA CancelledAt ==
  ASSUME NEW l \in Seq(TradeRecord), NEW i \in DOMAIN l
  PROVE  /\ CancelAt(l, i) \in Seq(TradeRecord)
         /\ Len(CancelAt(l, i)) = Len(l)
         /\ Continues(CancelAt(l, i), l)
<1> DEFINE r == [l[i] EXCEPT !.cancelled = TRUE]
<1>1. l[i] \in TradeRecord
  OBVIOUS
<1>2. r \in TradeRecord /\ r.price = l[i].price /\ r.cancelled
  BY <1>1 DEF TradeRecord
<1>3. CancelAt(l, i) = [l EXCEPT ![i] = r]
  BY DEF CancelAt
<1> HIDE DEF r
<1>4. [l EXCEPT ![i] = r] \in Seq(TradeRecord) /\ Len([l EXCEPT ![i] = r]) = Len(l)
  BY <1>2
<1>5. Continues([l EXCEPT ![i] = r], l)
  BY <1>2 DEF Continues
<1>6. QED
  BY <1>3, <1>4, <1>5

(* The volume of a trade adjusted.                                         *)
LEMMA VolumeSetAt ==
  ASSUME NEW l \in Seq(TradeRecord), NEW i \in DOMAIN l, NEW v \in Volumes
  PROVE  /\ [l EXCEPT ![i].volume = v] \in Seq(TradeRecord)
         /\ Len([l EXCEPT ![i].volume = v]) = Len(l)
         /\ Continues([l EXCEPT ![i].volume = v], l)
<1> DEFINE r == [l[i] EXCEPT !.volume = v]
<1>1. l[i] \in TradeRecord
  OBVIOUS
<1>2. r \in TradeRecord /\ r.price = l[i].price
      /\ r.cancelled = l[i].cancelled
  BY <1>1 DEF TradeRecord
<1>3. [l EXCEPT ![i].volume = v] = [l EXCEPT ![i] = r]
  OBVIOUS
<1> HIDE DEF r
<1>4. [l EXCEPT ![i] = r] \in Seq(TradeRecord) /\ Len([l EXCEPT ![i] = r]) = Len(l)
  BY <1>2
<1>5. Continues([l EXCEPT ![i] = r], l)
  BY <1>2 DEF Continues
<1>6. QED
  BY <1>3, <1>4, <1>5

(* One operation after another.                                            *)
LEMMA ContinuesTransitive ==
  ASSUME NEW j, NEW k, NEW l, Continues(k, j), Continues(l, k)
  PROVE  Continues(l, j)
BY DEF Continues

(* A log continues itself.                                                 *)
LEMMA ContinuesItself ==
  ASSUME NEW l
  PROVE  Continues(l, l)
BY DEF Continues

-----------------------------------------------------------------------------
(* Every operation advances the tape.                                      *)
LEMMA OperationAdvances ==
  ASSUME LogTypes, NEW s \in Symbols, NEW id \in TradeIds,
         \/ RecordOrReplace(s, id)
         \/ CancelTrade(s, id)
         \/ \E volume \in Volumes : AdjustVolume(s, id, volume)
  PROVE  Advance(s)
<1>0. /\ log \in [Symbols -> Seq(TradeRecord)] /\ log[s] \in Seq(TradeRecord)
      /\ DOMAIN byId = Symbols
      /\ \A x \in DOMAIN byId[s] : byId[s][x] \in DOMAIN log[s]
  BY DEF LogTypes, IsMap
<1>1. ASSUME NEW price \in Prices, NEW volume \in Volumes,
             RecordTrade(s, id, price, volume)
      PROVE  Advance(s)
  BY <1>0, <1>1, Appended DEF RecordTrade, Advance
<1>2. ASSUME NEW price \in Prices, NEW volume \in Volumes,
             NEW new \in TradeIds, ReplaceTrade(s, id, new, price, volume)
      PROVE  Advance(s)
  <2> DEFINE kept == IF Cancellable(s, id) THEN CancelAt(log[s], byId[s][id])
                     ELSE log[s]
  <2>1. /\ kept \in Seq(TradeRecord) /\ Len(kept) = Len(log[s])
        /\ Continues(kept, log[s])
    BY <1>0, CancelledAt, ContinuesItself DEF Cancellable, Known
  <2>2. /\ log' = [log EXCEPT ![s] = Append(kept, Trade(price, volume))]
        /\ byId' = [byId EXCEPT ![s] = Put(@, new, Len(log[s]) + 1)]
    BY <1>2 DEF ReplaceTrade
  <2> HIDE DEF kept
  <2>3. /\ Append(kept, Trade(price, volume)) \in Seq(TradeRecord)
        /\ Len(Append(kept, Trade(price, volume))) = Len(log[s]) + 1
        /\ Continues(Append(kept, Trade(price, volume)), log[s])
    BY <2>1, Appended, ContinuesTransitive
  <2>4. QED
    BY <1>0, <2>2, <2>3 DEF Advance
<1>3. CASE CancelTrade(s, id)
  <2>1. CASE Fail
    BY <1>0, <2>1, ContinuesItself DEF Fail, Advance
  <2>2. CASE Cancellable(s, id)
    <3>1. byId[s][id] \in DOMAIN log[s]
      BY <1>0, <2>2 DEF Cancellable, Known
    <3>2. /\ log' = [log EXCEPT ![s] = CancelAt(@, byId[s][id])]
          /\ byId' = byId
      BY <1>3, <2>2 DEF CancelTrade
    <3>3. QED
      BY <1>0, <3>1, <3>2, CancelledAt DEF Advance
  <2>3. QED
    BY <1>3, <2>1, <2>2 DEF CancelTrade
<1>4. ASSUME NEW volume \in Volumes, AdjustVolume(s, id, volume)
      PROVE  Advance(s)
  <2>1. CASE Fail
    BY <1>0, <2>1, ContinuesItself DEF Fail, Advance
  <2>2. CASE Known(s, id)
    <3>1. byId[s][id] \in DOMAIN log[s]
      BY <1>0, <2>2 DEF Known
    <3>2. log' = [log EXCEPT ![s][byId[s][id]].volume = volume]
          /\ byId' = byId
      BY <1>4, <2>2 DEF AdjustVolume
    <3>3. log' = [log EXCEPT ![s] =
                    [log[s] EXCEPT ![byId[s][id]].volume = volume]]
      BY <1>0, <3>2
    <3>4. /\ [log[s] EXCEPT ![byId[s][id]].volume = volume]
               \in Seq(TradeRecord)
          /\ Len([log[s] EXCEPT ![byId[s][id]].volume = volume])
               = Len(log[s])
          /\ Continues([log[s] EXCEPT ![byId[s][id]].volume = volume], log[s])
      BY <1>0, <3>1, VolumeSetAt
    <3> DEFINE l == [log[s] EXCEPT ![byId[s][id]].volume = volume]
    <3> HIDE DEF l
    <3>5. /\ log' = [log EXCEPT ![s] = l] /\ l \in Seq(TradeRecord)
          /\ Len(l) = Len(log[s]) /\ Continues(l, log[s])
      BY <3>3, <3>4 DEF l
    <3>6. QED
      BY <1>0, <3>2, <3>5 DEF Advance
  <2>3. QED
    BY <1>4, <2>1, <2>2 DEF AdjustVolume
<1>5. QED
  BY <1>1, <1>2, <1>3, <1>4 DEF RecordOrReplace

(* An id entered with the next index shares it with no other.              *)
LEMMA AdvanceKeepsIndex ==
  ASSUME IndexInv, NEW s \in Symbols, Advance(s)
  PROVE  IndexInv'
<1>0. /\ log \in [Symbols -> Seq(TradeRecord)]
      /\ log' \in [Symbols -> Seq(TradeRecord)]
      /\ DOMAIN byId' = Symbols
  BY DEF IndexInv, LogTypes, Advance
<1>1. ASSUME NEW u \in Symbols
      PROVE  /\ IsMap(byId'[u], TradeIds, DOMAIN log'[u])
             /\ \A i, j \in DOMAIN byId'[u] :
                  i # j => byId'[u][i] # byId'[u][j]
  <2>0. /\ IsMap(byId[u], TradeIds, DOMAIN log[u])
        /\ \A i, j \in DOMAIN byId[u] : i # j => byId[u][i] # byId[u][j]
    BY DEF IndexInv, LogTypes, IdsNameTheirOwnTrade
  <2>l. /\ DOMAIN log[u] = 1..Len(log[u]) /\ Len(log[u]) \in Nat
        /\ DOMAIN log'[u] = 1..Len(log'[u])
    BY <1>0
  <2>1. CASE u # s
    BY <2>0, <2>1 DEF Advance
  <2>2. CASE u = s /\ Len(log'[s]) = Len(log[s]) /\ byId'[s] = byId[s]
    BY <2>0, <2>l, <2>2
  <2>3. CASE /\ u = s /\ Len(log'[s]) = Len(log[s]) + 1
             /\ \E id \in TradeIds :
                  byId'[s] = Put(byId[s], id, Len(log[s]) + 1)
    <3>1. PICK id \in TradeIds : byId'[u] = Put(byId[u], id, Len(log[u]) + 1)
      BY <2>3
    <3>2. /\ DOMAIN byId'[u] = DOMAIN byId[u] \cup {id}
          /\ \A i \in DOMAIN byId'[u] :
               byId'[u][i] = IF i = id THEN Len(log[u]) + 1 ELSE byId[u][i]
          /\ byId'[u] \in [DOMAIN byId'[u] -> DOMAIN log'[u]]
      BY <2>0, <2>l, <2>3, <3>1 DEF Put, IsMap
    <3>3. \A i \in DOMAIN byId[u] : byId[u][i] \in 1..Len(log[u])
      BY <2>0, <2>l DEF IsMap
    <3>4. QED
      BY <2>0, <2>l, <3>2, <3>3 DEF IsMap
  <2>4. QED
    BY <2>1, <2>2, <2>3 DEF Advance
<1>2. QED
  BY <1>0, <1>1 DEF IndexInv, LogTypes, IdsNameTheirOwnTrade

-----------------------------------------------------------------------------
(* The types and the agreement, one symbol at a time.                      *)
LEMMA NumbersOf ==
  ASSUME IndexInv, StatsInv, NEW s \in Symbols
  PROVE  /\ log[s] \in Seq(TradeRecord) /\ stats[s] \in Stats
         /\ StatsOf(log[s]) \in Stats
         /\ disturbed[s] \in BOOLEAN
         /\ Agree(stats[s], StatsOf(log[s]), disturbed[s])
         /\ \A x \in DOMAIN byId[s] : byId[s][x] \in DOMAIN log[s]
<1>1. log[s] \in Seq(TradeRecord)
  BY DEF IndexInv, LogTypes
<1>2. StatsOf(log[s]) \in Stats
  BY <1>1, StatsOfTyped
<1>3. QED
  BY <1>1, <1>2 DEF IndexInv, LogTypes, StatsInv, IsMap

(* Statistics that are right agree, whatever was disturbed.                *)
LEMMA AgreesItself ==
  ASSUME NEW st \in Stats, NEW d
  PROVE  Agree(st, st, d)
BY DEF Agree, Stats

(* A trade folded in keeps the agreement.                                  *)
LEMMA AgreeFolded ==
  ASSUME NEW st \in Stats, NEW live \in Stats, NEW d \in BOOLEAN,
         Agree(st, live, d), NEW price, NEW volume
  PROVE  Agree(FoldIntoStats(st, price, volume),
               FoldIntoStats(live, price, volume), d)
<1>1. /\ st.open = live.open /\ st.high = live.high
      /\ st.low = live.low /\ st.close = live.close
  BY DEF Agree, Stats
<1>2. ~d => FoldIntoStats(st, price, volume)
              = FoldIntoStats(live, price, volume)
  BY DEF Agree
<1>3. [FoldIntoStats(st, price, volume) EXCEPT !.totalVolume =
         FoldIntoStats(live, price, volume).totalVolume]
        = FoldIntoStats(live, price, volume)
  BY <1>1 DEF FoldIntoStats
<1>4. QED
  BY <1>2, <1>3 DEF Agree

(* A trade recorded.                                                       *)
LEMMA RecordAccount ==
  ASSUME IndexInv, StatsInv, NEW s \in Symbols, NEW id \in TradeIds,
         NEW price \in Prices, NEW volume \in Volumes,
         RecordTrade(s, id, price, volume)
  PROVE  Account(s)
<1> DEFINE k == Append(log[s], Trade(price, volume))
           st == FoldIntoStats(stats[s], price, volume)
<1>1. /\ log' = [log EXCEPT ![s] = k] /\ stats' = [stats EXCEPT ![s] = st]
      /\ failures' = failures /\ disturbed' = disturbed
      /\ ledgers' = ledgers \cup {s}
  BY DEF RecordTrade, GetOrCreate
<1>2. st \in Stats
  BY NumbersOf, FoldTyped
<1>3. StatsOf(k) = FoldIntoStats(StatsOf(log[s]), price, volume)
  BY NumbersOf, StatsOfAppended
<1>4. Agree(st, StatsOf(k), disturbed[s])
  BY <1>3, NumbersOf, AgreeFolded
<1> HIDE DEF k, st
<1>5. log'[s] = k /\ stats'[s] = st
  BY <1>1 DEF StatsInv, IndexInv, LogTypes
<1>6. QED
  BY <1>1, <1>2, <1>4, <1>5 DEF StatsInv, Account

(* A rescan, whatever the log has become.                                  *)
LEMMA RescanAccount ==
  ASSUME IndexInv, StatsInv, NEW s \in Symbols, NEW k \in Seq(TradeRecord),
         log' = [log EXCEPT ![s] = k],
         stats' = [stats EXCEPT ![s] = Recompute(k)],
         disturbed' = disturbed, failures' \in Nat,
         ledgers' = ledgers \cup {s}
  PROVE  Account(s)
<1>1. Recompute(k) = StatsOf(k) /\ StatsOf(k) \in Stats
  BY RescanIsStats, StatsOfTyped
<1>2. log'[s] = k /\ stats'[s] = StatsOf(k)
  BY <1>1 DEF StatsInv, IndexInv, LogTypes
<1>3. Agree(StatsOf(k), StatsOf(k), disturbed'[s])
  BY <1>1, AgreesItself
<1>4. QED
  BY <1>1, <1>2, <1>3 DEF StatsInv, Account

(* Nothing found: the numbers stay.                                        *)
LEMMA FailAccount ==
  ASSUME IndexInv, StatsInv, NEW s \in Symbols, GetOrCreate(s), Fail
  PROVE  Account(s)
BY DEF StatsInv, Account, GetOrCreate, Fail

(* A trade cancelled.                                                      *)
LEMMA CancelAccount ==
  ASSUME IndexInv, StatsInv, NEW s \in Symbols, NEW id, CancelTrade(s, id)
  PROVE  Account(s)
<1>1. CASE Fail
  BY <1>1, FailAccount DEF CancelTrade
<1>2. CASE Cancellable(s, id) /\ ~Fail
  <2> DEFINE k == CancelAt(log[s], byId[s][id])
  <2>1. byId[s][id] \in DOMAIN log[s] /\ log[s] \in Seq(TradeRecord)
    BY <1>2, NumbersOf DEF Cancellable, Known
  <2>2. k \in Seq(TradeRecord)
    BY <2>1, CancelledAt
  <2>3. /\ log' = [log EXCEPT ![s] = k]
        /\ stats' = [stats EXCEPT ![s] = Recompute(log'[s])]
        /\ failures' = failures /\ disturbed' = disturbed
        /\ ledgers' = ledgers \cup {s}
    BY <1>2 DEF CancelTrade, GetOrCreate
  <2> HIDE DEF k
  <2>4. log'[s] = k
    BY <2>3 DEF IndexInv, LogTypes
  <2>5. failures' \in Nat
    BY <2>3 DEF StatsInv
  <2>6. stats' = [stats EXCEPT ![s] = Recompute(k)]
    BY <2>3, <2>4
  <2>7. QED
    BY <2>2, <2>3, <2>5, <2>6, RescanAccount
<1>3. QED
  BY <1>1, <1>2 DEF CancelTrade

(* A trade replaced.                                                       *)
LEMMA ReplaceAccount ==
  ASSUME IndexInv, StatsInv, NEW s \in Symbols, NEW old, NEW new,
         NEW price \in Prices, NEW volume \in Volumes,
         ReplaceTrade(s, old, new, price, volume)
  PROVE  Account(s)
<1> DEFINE kept == IF Cancellable(s, old) THEN CancelAt(log[s], byId[s][old])
                   ELSE log[s]
           k == Append(kept, Trade(price, volume))
<1>1. kept \in Seq(TradeRecord)
  BY NumbersOf, CancelledAt DEF Cancellable, Known
<1>2. /\ log' = [log EXCEPT ![s] = k]
      /\ stats' = [stats EXCEPT ![s] = Recompute(log'[s])]
      /\ disturbed' = disturbed
      /\ ledgers' = ledgers \cup {s}
      /\ failures' = IF Cancellable(s, old) THEN failures ELSE failures + 1
  BY DEF ReplaceTrade, GetOrCreate
<1> HIDE DEF kept
<1>3. k \in Seq(TradeRecord)
  BY <1>1, Appended
<1> HIDE DEF k
<1>4. log'[s] = k
  BY <1>2 DEF IndexInv, LogTypes
<1>5. failures' \in Nat
  BY <1>2 DEF StatsInv
<1>6. stats' = [stats EXCEPT ![s] = Recompute(k)]
  BY <1>2, <1>4
<1>7. QED
  BY <1>2, <1>3, <1>5, <1>6, RescanAccount

(* A volume adjusted: right for a live trade; for a cancelled one the      *)
(* volume is off, and the symbol disturbed.                                *)
LEMMA AdjustAccount ==
  ASSUME IndexInv, StatsInv, NEW s \in Symbols, NEW id,
         NEW volume \in Volumes, AdjustVolume(s, id, volume)
  PROVE  Account(s)
<1>1. CASE Fail
  BY <1>1, FailAccount DEF AdjustVolume
<1>2. CASE Known(s, id) /\ ~Fail
  <2> DEFINE l == log[s]
             i == byId[s][id]
             k == [l EXCEPT ![i].volume = volume]
             total == (stats[s].totalVolume + volume - l[i].volume)
                        % VolumeLimit
             st == [stats[s] EXCEPT !.totalVolume = total]
             d == disturbed[s]
             e == d \/ l[i].cancelled
  <2>1. /\ l \in Seq(TradeRecord) /\ i \in DOMAIN l
        /\ stats[s] \in Stats /\ StatsOf(l) \in Stats
        /\ d \in BOOLEAN /\ Agree(stats[s], StatsOf(l), d)
    BY <1>2, NumbersOf DEF Known
  <2>2. /\ log' = [log EXCEPT ![s][i].volume = volume]
        /\ stats' = [stats EXCEPT ![s].totalVolume =
                       (@ + volume - log[s][i].volume) % VolumeLimit]
        /\ disturbed' = [disturbed EXCEPT ![s] = @ \/ IsCancelled(s, id)]
        /\ failures' = failures /\ ledgers' = ledgers \cup {s}
    BY <1>2 DEF AdjustVolume, GetOrCreate
  <2>3. /\ log' = [log EXCEPT ![s] = k]
        /\ stats' = [stats EXCEPT ![s] = st]
        /\ disturbed' = [disturbed EXCEPT ![s] = e]
    BY <1>2, <2>2 DEF IndexInv, LogTypes, StatsInv, IsCancelled
  <2>4. /\ k \in Seq(TradeRecord) /\ DOMAIN k = DOMAIN l /\ k[i].volume = volume
        /\ \A j \in DOMAIN l : /\ k[j].price = l[j].price
                               /\ k[j].cancelled = l[j].cancelled
                               /\ j # i => k[j].volume = l[j].volume
    <3>1. k \in Seq(TradeRecord)
      BY <2>1, VolumeSetAt
    <3>2. \A j \in DOMAIN l : l[j] \in TradeRecord
      BY <2>1
    <3>3. \A j \in DOMAIN l :
            k[j] = IF j = i THEN [l[j] EXCEPT !.volume = volume] ELSE l[j]
      BY <2>1
    <3>4. DOMAIN k = DOMAIN l
      BY <2>1
    <3> HIDE DEF k, l, i
    <3>5. QED
      BY <2>1, <3>1, <3>2, <3>3, <3>4 DEF TradeRecord
  <2>5. l[i].volume \in Int /\ volume \in Int /\ l[i].cancelled \in BOOLEAN
    <3>1. l[i] \in TradeRecord
      BY <2>1
    <3> HIDE DEF l, i
    <3>2. l[i].volume \in Volumes /\ l[i].cancelled \in BOOLEAN
      BY <3>1 DEF TradeRecord
    <3>3. Volumes \subseteq Int
      BY LedgerAssumption, VolumeLimitAssumption
    <3>4. QED
      BY <3>2, <3>3
  <2> HIDE DEF k, l, i
  <2>6. /\ StatsOf(k) = [StatsOf(l) EXCEPT !.totalVolume =
                            StatsOf(k).totalVolume]
        /\ l[i].cancelled => StatsOf(k) = StatsOf(l)
        /\ ~l[i].cancelled =>
             StatsOf(k).totalVolume
               = (StatsOf(l).totalVolume + volume - l[i].volume) % VolumeLimit
    BY <2>1, <2>4, StatsOfAdjusted
  <2>7. total \in 0 .. (VolumeLimit - 1)
    <3>1. stats[s].totalVolume + volume - l[i].volume \in Int
      BY <2>1, <2>5, VolumeLimitAssumption DEF Stats
    <3>2. QED
      BY <3>1, VolumeLimitAssumption, Division
  <2>8. st \in Stats
    BY <2>1, <2>7 DEF Stats
  <2>9. Agree(st, StatsOf(k), e)
    <3>1. StatsOf(k) \in Stats
      BY <2>4, StatsOfTyped
    <3>2. [st EXCEPT !.totalVolume = StatsOf(k).totalVolume] = StatsOf(k)
      <4>1. [stats[s] EXCEPT !.totalVolume = StatsOf(l).totalVolume]
              = StatsOf(l)
        BY <2>1 DEF Agree
      <4>2. QED
        BY <2>1, <2>6, <3>1, <4>1 DEF Stats
    <3>3. ASSUME ~e PROVE st = StatsOf(k)
      <4>1. stats[s] = StatsOf(l) /\ ~l[i].cancelled
        BY <2>1, <3>3 DEF Agree
      <4>2. st.totalVolume = StatsOf(k).totalVolume
        BY <2>1, <2>6, <4>1 DEF Stats
      <4>3. QED
        BY <2>8, <3>1, <3>2, <4>2 DEF Stats
    <3>4. QED
      BY <3>2, <3>3 DEF Agree
  <2>10. e \in BOOLEAN
    OBVIOUS
  <2> HIDE DEF st, e
  <2>11. log'[s] = k /\ stats'[s] = st /\ disturbed'[s] = e
    BY <2>3 DEF StatsInv, IndexInv, LogTypes
  <2>12. QED
    BY <2>2, <2>3, <2>8, <2>9, <2>10, <2>11 DEF StatsInv, Account
<1>3. QED
  BY <1>1, <1>2 DEF AdjustVolume

(* Numbers that are right for the symbol of the step are for all of them.  *)
LEMMA AccountKeepsStats ==
  ASSUME StatsInv, NEW s \in Symbols, Advance(s), Account(s)
  PROVE  StatsInv'
<1>1. ASSUME NEW u \in Symbols
      PROVE  Agree(stats'[u], StatsOf(log'[u]), disturbed'[u])
  <2>1. CASE u = s
    BY <2>1 DEF Account
  <2>2. CASE u # s
    <3>1. log'[u] = log[u] /\ stats'[u] = stats[u]
          /\ disturbed'[u] = disturbed[u]
      BY <2>2 DEF Advance, Account
    <3>2. Agree(stats[u], StatsOf(log[u]), disturbed[u])
      BY DEF StatsInv
    <3>3. QED
      BY <3>1, <3>2
  <2>3. QED
    BY <2>1, <2>2
<1>2. /\ ledgers' \subseteq Symbols /\ failures' \in Nat
      /\ stats' \in [Symbols -> Stats] /\ disturbed' \in [Symbols -> BOOLEAN]
  BY DEF StatsInv, Account
<1>3. (\A u \in Symbols : Agree(stats[u], StatsOf(log[u]), disturbed[u]))'
  BY <1>1
<1>4. QED
  BY <1>2, <1>3 DEF StatsInv

(* The property LogIsAJournal is about, of one step.                       *)
JournalStep ==
  \A s \in Symbols : \A i \in DOMAIN log[s] :
    /\ i \in DOMAIN log'[s]
    /\ log'[s][i].price = log[s][i].price
    /\ log[s][i].cancelled => log'[s][i].cancelled

(* Every step keeps the invariant and the journal.                         *)
LEMMA NextAdvances ==
  ASSUME IInv, Next
  PROVE  IInv' /\ JournalStep
<1>1. PICK s \in Symbols, id \in TradeIds :
        \/ RecordOrReplace(s, id)
        \/ CancelTrade(s, id)
        \/ \E volume \in Volumes : AdjustVolume(s, id, volume)
  BY DEF Next
<1>2. Advance(s)
  BY <1>1, OperationAdvances DEF IInv, IndexInv
<1>3. Account(s)
  BY <1>1, RecordAccount, ReplaceAccount, CancelAccount, AdjustAccount
     DEF IInv, RecordOrReplace
<1>4. JournalStep
  BY <1>2 DEF Advance, Continues, JournalStep
<1>5. QED
  BY <1>2, <1>3, <1>4, AdvanceKeepsIndex, AccountKeepsStats DEF IInv

-----------------------------------------------------------------------------
(* The initial state satisfies the invariant.                              *)
LEMMA InitHolds == Init => IInv
<1> SUFFICES ASSUME Init PROVE IInv
  OBVIOUS
<1>1. log \in [Symbols -> Seq(TradeRecord)]
  BY DEF Init
<1>2. \A s \in Symbols : byId[s] = [k \in {} |-> k]
  BY DEF Init, Empty
<1>3. \A s \in Symbols : DOMAIN byId[s] = {}
  BY <1>2
<1>4. \A s \in Symbols : IsMap(byId[s], TradeIds, DOMAIN log[s])
  BY <1>2 DEF IsMap
<1>5. IndexInv
  BY <1>1, <1>3, <1>4 DEF Init, IndexInv, LogTypes, IdsNameTheirOwnTrade
<1>6. ASSUME NEW s \in Symbols
      PROVE  Agree(stats[s], StatsOf(log[s]), disturbed[s])
  <2>1. log[s] = <<>> /\ stats[s] = NoStats
    BY DEF Init
  <2>2. LiveTrades(<<>>) = {}
    BY DEF LiveTrades
  <2>3. StatsOf(<<>>) = NoStats
    BY <2>2 DEF StatsOf
  <2>4. Agree(NoStats, NoStats, disturbed[s])
    BY NoStatsTyped, AgreesItself
  <2>5. QED
    BY <2>1, <2>3, <2>4
<1>7. StatsInv
  BY <1>6, NoStatsTyped DEF Init, StatsInv
<1>8. QED
  BY <1>5, <1>7 DEF IInv

(* The inductive invariant holds in every reachable state.                 *)
THEOREM InvariantHolds == Spec => []IInv
<1>1. IInv /\ UNCHANGED ledgerVars => IInv'
  BY DEF IInv, IndexInv, StatsInv, LogTypes, IdsNameTheirOwnTrade, ledgerVars
<1>2. IInv /\ [Next]_ledgerVars => IInv'
  BY <1>1, NextAdvances
<1>3. QED
  BY InitHolds, <1>2, PTL DEF Spec

(* Every variable keeps its type: an id leads to a trade of its symbol's   *)
(* log and the volume fits its 64 bits, whatever was added and taken off.  *)
THEOREM TypesHold == Spec => []TypeOK
<1>1. IInv => TypeOK
  BY DEF IInv, IndexInv, StatsInv, LogTypes, TypeOK
<1>2. QED
  BY <1>1, InvariantHolds, PTL

(* The statistics are those of the live trades, after any sequence of      *)
(* operations of any length: folds for a record, increments for an         *)
(* adjustment and rescans for a cancel and a replacement never drift       *)
(* apart.  Only the adjustment of a cancelled trade spoils the volume,     *)
(* and nothing else.                                                       *)
THEOREM StatsAreOfLiveTrades == Spec => []StatsMatchLiveTrades
<1>1. IInv => StatsMatchLiveTrades
  BY DEF IInv, StatsInv, StatsMatchLiveTrades, Agree
<1>2. QED
  BY <1>1, InvariantHolds, PTL

(* No two ids of a symbol ever lead to the same trade, whatever is         *)
(* recorded, cancelled, adjusted and replaced under whatever ids.          *)
THEOREM IdsAreApart == Spec => []IdsNameTheirOwnTrade
<1>1. IInv => IdsNameTheirOwnTrade
  BY DEF IInv, IndexInv
<1>2. QED
  BY <1>1, InvariantHolds, PTL

(* A trade once recorded keeps its place and its price, and a cancelled    *)
(* trade is never live again.                                              *)
THEOREM TheLogIsAJournal == Spec => LogIsAJournal
<1>1. IInv /\ [Next]_ledgerVars => [JournalStep]_ledgerVars
  BY NextAdvances
<1>2. QED
  BY <1>1, InvariantHolds, PTL DEF Spec, LogIsAJournal, JournalStep

=============================================================================
