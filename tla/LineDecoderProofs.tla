-------------------------- MODULE LineDecoderProofs --------------------------
(***************************************************************************)
(* Theorems about LineDecoder and the reader it builds on, for any lines,  *)
(* layouts and order of calls. Scan, Split, FieldCount and WireFields are  *)
(* defined by recursion over data, which the provers take on no trust:     *)
(* that each recursion has a solution, and only one, is proved first, from *)
(* the fact that a set of natural numbers has a least element. The         *)
(* invariant then says of every state what has been read of the line: the  *)
(* cache is a prefix of the positions of the commas, and the constructors  *)
(* under way are nested parts of one structure, whose fields before the    *)
(* current one have been read.                                             *)
(***************************************************************************)
EXTENDS LineDecoder, FiniteSetTheorems, SequenceTheorems, TLAPS

-----------------------------------------------------------------------------
(* Recursion, from the well-foundedness of <.                              *)

(* A set of natural numbers has a least element.                           *)
LEMMA LeastElement ==
  ASSUME NEW T \in SUBSET Nat, T # {}
  PROVE  \E x \in T : \A y \in T : x <= y
<1>1. PICK x \in T : \A y \in T : <<y, x>> \notin OpToRel(<, Nat)
  BY WFMin, NatLessThanWellFounded, Zenon
<1>2. \A y \in T : ~(y < x)
  BY <1>1 DEF OpToRel
<1>3. QED
  BY <1>2

(* A set that holds 0 and with every number the next holds them all.       *)
LEMMA SetInduction ==
  ASSUME NEW T, 0 \in T, \A n \in Nat : n \in T => n + 1 \in T
  PROVE  Nat \subseteq T
<1> SUFFICES ASSUME Nat \ T # {} PROVE FALSE
  OBVIOUS
<1>1. PICK x \in Nat \ T : \A y \in Nat \ T : x <= y
  BY LeastElement
<1>2. x - 1 \in Nat /\ x - 1 \in T
  BY <1>1
<1>3. QED
  BY <1>1, <1>2

(* H makes of a function from D to V another, whose value at m depends on  *)
(* the values of the first at arguments of a lesser rank only.             *)
IsRecursion(H, D, V, rank) ==
  /\ V # {}
  /\ rank \in [D -> Nat]
  /\ H \in [[D -> V] -> [D -> V]]
  /\ \A m \in D : \A g, h \in [D -> V] :
       (\A x \in D : rank[x] < rank[m] => g[x] = h[x]) => H[g][m] = H[h][m]

(* Such a recursion defines a function.                                    *)
LEMMA RecursionExists ==
  ASSUME NEW D, NEW V, NEW rank, NEW H, IsRecursion(H, D, V, rank)
  PROVE  \E g \in [D -> V] : g = H[g]
<1> USE DEF IsRecursion
<1> DEFINE Below(g, n) == \A m \in D : rank[m] < n => g[m] = H[g][m]
           T == {n \in Nat : \E g \in [D -> V] : Below(g, n)}
<1>1. Nat \subseteq T
  <2>1. 0 \in T
    <3>1. PICK v \in V : TRUE
      OBVIOUS
    <3>2. [m \in D |-> v] \in [D -> V] /\ Below([m \in D |-> v], 0)
      OBVIOUS
    <3>3. QED
      BY <3>2
  <2>2. ASSUME NEW n \in Nat, n \in T
        PROVE  n + 1 \in T
    <3>1. PICK g \in [D -> V] : Below(g, n)
      BY <2>2
    <3> DEFINE h == H[g]
    <3>2. h \in [D -> V]
      OBVIOUS
    <3>3. \A x \in D : rank[x] < n => h[x] = g[x]
      BY <3>1
    <3> HIDE DEF h
    <3>4. ASSUME NEW m \in D, rank[m] < n + 1
          PROVE  h[m] = H[h][m]
      <4>1. \A x \in D : rank[x] < rank[m] => h[x] = g[x]
        BY <3>3, <3>4
      <4>2. H[h][m] = H[g][m]
        BY <3>2, <4>1
      <4>3. QED
        BY <4>2 DEF h
    <3>5. Below(h, n + 1)
      BY <3>4
    <3>6. QED
      BY <3>2, <3>5
  <2> HIDE DEF T
  <2>3. QED
    BY <2>1, <2>2, SetInduction
<1>2. ASSUME NEW n \in Nat, NEW g \in [D -> V], NEW h \in [D -> V],
             Below(g, n), Below(h, n)
      PROVE  \A m \in D : rank[m] < n => g[m] = h[m]
  <2> DEFINE S == {k \in Nat : k < n /\ \E m \in D :
                                 rank[m] = k /\ g[m] # h[m]}
  <2> SUFFICES ASSUME S # {} PROVE FALSE
    OBVIOUS
  <2>1. S \in SUBSET Nat
    OBVIOUS
  <2>2. PICK k \in S : \A j \in S : k <= j
    <3> HIDE DEF S
    <3> QED BY <2>1, LeastElement
  <2>3. PICK m \in D : rank[m] = k /\ rank[m] < n /\ g[m] # h[m]
    BY <2>2
  <2>4. \A x \in D : rank[x] < rank[m] => g[x] = h[x]
    BY <2>2, <2>3
  <2>5. H[g][m] = H[h][m]
    BY <2>4
  <2>6. QED
    BY <1>2, <2>3, <2>5
<1> DEFINE G == [m \in D |->
                   (CHOOSE g \in [D -> V] : Below(g, rank[m] + 1))[m]]
<1>3. \A n \in Nat : \E g \in [D -> V] : Below(g, n)
  BY <1>1
<1> HIDE DEF T
<1>4. ASSUME NEW m \in D
      PROVE  /\ G[m] \in V
             /\ \A n \in Nat : \A g \in [D -> V] :
                  Below(g, n) /\ rank[m] < n => G[m] = g[m]
  <2> DEFINE c == CHOOSE g \in [D -> V] : Below(g, rank[m] + 1)
  <2>1. c \in [D -> V] /\ Below(c, rank[m] + 1)
    <3>1. \E g \in [D -> V] : Below(g, rank[m] + 1)
      BY <1>3
    <3> HIDE DEF Below
    <3>2. QED
      BY <3>1
  <2>2. G[m] = c[m]
    OBVIOUS
  <2> HIDE DEF c, G
  <2>3. ASSUME NEW n \in Nat, NEW g \in [D -> V], Below(g, n), rank[m] < n
        PROVE  G[m] = g[m]
    <3>1. Below(g, rank[m] + 1)
      BY <2>3
    <3> HIDE DEF Below
    <3>2. \A x \in D : rank[x] < rank[m] + 1 => c[x] = g[x]
      BY <1>2, <2>1, <3>1
    <3>3. QED
      BY <2>2, <3>2
  <2> HIDE DEF Below
  <2>4. QED
    BY <2>1, <2>2, <2>3
<1>5. G \in [D -> V]
  <2> DEFINE e(m) == (CHOOSE g \in [D -> V] : Below(g, rank[m] + 1))[m]
  <2>1. G = [m \in D |-> e(m)]
    OBVIOUS
  <2>2. \A m \in D : e(m) \in V
    BY <1>4
  <2> HIDE DEF e, G
  <2>3. QED
    BY <2>1, <2>2
<1>6. ASSUME NEW m \in D
      PROVE  G[m] = H[G][m]
  <2>1. PICK g \in [D -> V] : Below(g, rank[m] + 1)
    BY <1>3
  <2> HIDE DEF G
  <2>2. G[m] = g[m]
    BY <1>4, <2>1
  <2>3. \A x \in D : rank[x] < rank[m] => G[x] = g[x]
    BY <1>4, <2>1
  <2>4. H[G][m] = H[g][m]
    BY <1>5, <2>3
  <2>5. QED
    BY <2>1, <2>2, <2>4
<1>7. G = H[G]
  <2> HIDE DEF G
  <2> QED BY <1>5, <1>6
<1>8. QED
  BY <1>5, <1>7

-----------------------------------------------------------------------------
(* A fold along a sequence takes its elements off from the end.            *)

(* The largest of 1 .. n is n, and without it the interval ends before n.  *)
LEMMA MaxOfInterval ==
  ASSUME NEW n \in Nat \ {0}
  PROVE  Max(1 .. n) = n /\ (1 .. n) \ {n} = 1 .. n - 1
<1>1. n \in 1 .. n /\ \A y \in 1 .. n : n >= y
  OBVIOUS
<1>2. \A x \in 1 .. n : (\A y \in 1 .. n : x >= y) => x = n
  BY <1>1
<1>3. Max(1 .. n) = n
  BY <1>1, <1>2 DEF Max
<1>4. QED
  BY <1>3

(* The first i of the numbers 1 .. n are some of them.                     *)
LEMMA PartOfInterval ==
  ASSUME NEW n \in Nat, NEW i \in 1 .. n
  PROVE  1 .. i \in SUBSET (1 .. n) /\ 1 .. i # {}
OBVIOUS

(* The largest of some of the numbers 1 .. n is one of them.               *)
LEMMA MaxIsIn ==
  ASSUME NEW n \in Nat, NEW s \in SUBSET (1 .. n), s # {}
  PROVE  Max(s) \in s
<1> DEFINE T == {i \in Nat : n - i \in s}
<1>1. T \in SUBSET Nat /\ T # {}
  <2>1. PICK x \in s : TRUE
    OBVIOUS
  <2>2. n - x \in T
    OBVIOUS
  <2>3. QED
    BY <2>2
<1>2. PICK t \in T : \A y \in T : t <= y
  <2> HIDE DEF T
  <2> QED BY <1>1, LeastElement
<1>3. n - t \in s /\ t \in Nat
  BY <1>2
<1>4. \A y \in s : n - t >= y
  <2> TAKE y \in s
  <2>1. n - y \in T
    OBVIOUS
  <2>2. t <= n - y
    BY <1>2, <2>1
  <2>3. QED
    BY <1>3, <2>2
<1>5. QED
  BY <1>3, <1>4 DEF Max

(* f[s] is the fold, from b, of the elements whose places are in s; F[i]   *)
(* adds the i-th.                                                          *)
IsFold(f, n, V, b, F) ==
  /\ f \in [SUBSET (1 .. n) -> V]
  /\ f = [s \in SUBSET (1 .. n) |->
            IF s = {} THEN b ELSE F[Max(s)][f[s \ {Max(s)}]]]

(* Such a fold exists.                                                     *)
LEMMA FoldExists ==
  ASSUME NEW n \in Nat, NEW V, NEW b \in V, NEW F, F \in [1 .. n -> [V -> V]]
  PROVE  \E f : IsFold(f, n, V, b, F)
<1> DEFINE D == SUBSET (1 .. n)
           rank == [s \in D |-> Cardinality(s)]
           Of(g) == [s \in D |-> IF s = {} THEN b
                                 ELSE F[Max(s)][g[s \ {Max(s)}]]]
           H == [g \in [D -> V] |-> Of(g)]
<1>1. \A s \in D : IsFiniteSet(s) /\ Cardinality(s) \in Nat
  <2>1. IsFiniteSet(1 .. n)
    BY FS_Interval
  <2>2. QED
    BY <2>1, FS_Subset, FS_CardinalityType
<1>2. rank \in [D -> Nat]
  BY <1>1
<1>3. \A s \in D : s # {} =>
        /\ Max(s) \in 1 .. n /\ s \ {Max(s)} \in D
        /\ Cardinality(s \ {Max(s)}) < Cardinality(s)
  <2> SUFFICES ASSUME NEW s \in D, s # {}
               PROVE  /\ Max(s) \in 1 .. n /\ s \ {Max(s)} \in D
                      /\ Cardinality(s \ {Max(s)}) < Cardinality(s)
    OBVIOUS
  <2>1. Max(s) \in s
    BY MaxIsIn
  <2>2. Cardinality(s \ {Max(s)}) = Cardinality(s) - 1
    BY <1>1, <2>1, FS_RemoveElement
  <2>3. s \ {Max(s)} \in D
    OBVIOUS
  <2>4. Cardinality(s) \in Nat
    BY <1>1
  <2>5. Max(s) \in 1 .. n
    BY <2>1
  <2> HIDE DEF D
  <2>6. QED
    BY <2>2, <2>3, <2>4, <2>5
<1>4. \A g \in [D -> V] : Of(g) \in [D -> V]
  <2> TAKE g \in [D -> V]
  <2> DEFINE e(s) == IF s = {} THEN b ELSE F[Max(s)][g[s \ {Max(s)}]]
  <2>1. \A s \in D : e(s) \in V
    <3> TAKE s \in D
    <3>1. CASE s = {}
      BY <3>1
    <3>2. CASE s # {}
      <4>1. Max(s) \in 1 .. n /\ s \ {Max(s)} \in D
        BY <1>3, <3>2
      <4> HIDE DEF D
      <4>2. g[s \ {Max(s)}] \in V
        BY <4>1
      <4>3. F[Max(s)] \in [V -> V]
        BY <4>1
      <4>4. QED
        BY <3>2, <4>2, <4>3
    <3>3. QED
      BY <3>1, <3>2
  <2>2. Of(g) = [s \in D |-> e(s)]
    OBVIOUS
  <2> HIDE DEF e, D, Of
  <2>3. QED
    BY <2>1, <2>2
<1>5. H \in [[D -> V] -> [D -> V]]
  <2> HIDE DEF Of, D
  <2> QED BY <1>4
<1>6. ASSUME NEW s \in D, NEW g \in [D -> V], NEW h \in [D -> V],
             \A x \in D : rank[x] < rank[s] => g[x] = h[x]
      PROVE  H[g][s] = H[h][s]
  <2>1. s # {} => g[s \ {Max(s)}] = h[s \ {Max(s)}]
    <3> SUFFICES ASSUME s # {} PROVE g[s \ {Max(s)}] = h[s \ {Max(s)}]
      OBVIOUS
    <3>1. s \ {Max(s)} \in D /\ rank[s \ {Max(s)}] < rank[s]
      BY <1>3
    <3> HIDE DEF D, rank
    <3>2. QED
      BY <1>6, <3>1
  <2>2. H[g] = Of(g) /\ H[h] = Of(h)
    OBVIOUS
  <2>3. Of(g)[s] = Of(h)[s]
    BY <2>1
  <2>4. QED
    BY <2>2, <2>3
<1> HIDE DEF D, rank, H, Of
<1>7. \A m \in D : \A g, h \in [D -> V] :
        (\A x \in D : rank[x] < rank[m] => g[x] = h[x])
          => H[g][m] = H[h][m]
  BY <1>6
<1>8. \E g \in [D -> V] : g = H[g]
  <2>1. IsRecursion(H, D, V, rank)
    BY <1>2, <1>5, <1>7 DEF IsRecursion
  <2>2. QED
    BY <2>1, RecursionExists
<1>9. \E g \in [D -> V] : g = Of(g)
  BY <1>8 DEF H
<1>10. QED
  BY <1>9 DEF Of, D, IsFold

-----------------------------------------------------------------------------
(* The line, split at its commas.                                          *)

SplitOf(line) ==
  FoldLeft(LAMBDA fs, c : IF c = Comma THEN Append(fs, <<>>)
                          ELSE Front(fs) \o <<Append(Last(fs), c)>>,
           <<<<>>>>, line)

Cut(fs, c) ==
  IF c = Comma THEN Append(fs, <<>>)
  ELSE Front(fs) \o <<Append(Last(fs), c)>>

(* The split of a line is reached piece by piece.                          *)
LEMMA SplitGrows ==
  ASSUME NEW P, NEW line \in Seq(P)
  PROVE  \E part : /\ part[0] = <<<<>>>>
                   /\ \A i \in 1 .. Len(line) :
                        part[i] = Cut(part[i - 1], line[i])
                   /\ SplitOf(line) = part[Len(line)]
<1> DEFINE n == Len(line)
           V == {fs \in Seq(Seq(P)) : fs # <<>>}
           b == <<<<>>>>
           F == [i \in 1 .. n |-> [fs \in V |-> Cut(fs, line[i])]]
           A(f) == f = [s \in SUBSET (1 .. n) |->
                          IF s = {} THEN b
                          ELSE Cut(f[s \ {Max(s)}], line[Max(s)])]
<1>1. n \in Nat /\ DOMAIN line = 1 .. n
  OBVIOUS
<1>2. ASSUME NEW fs \in V, NEW c \in P
      PROVE  Cut(fs, c) \in V
  <2>1. Append(fs, <<>>) \in V
    OBVIOUS
  <2>2. Last(fs) \in Seq(P)
    BY DEF Last
  <2>3. Append(Last(fs), c) \in Seq(P)
    BY <2>2
  <2>4. Front(fs) \in Seq(Seq(P))
    BY DEF Front
  <2>5. Front(fs) \o <<Append(Last(fs), c)>> \in V
    BY <2>3, <2>4
  <2>6. QED
    BY <2>1, <2>5 DEF Cut
<1>3. F \in [1 .. n -> [V -> V]]
  <2>1. ASSUME NEW i \in 1 .. n
        PROVE  [fs \in V |-> Cut(fs, line[i])] \in [V -> V]
    <3>1. line[i] \in P
      OBVIOUS
    <3> HIDE DEF V
    <3>2. QED
      BY <1>2, <3>1
  <2> HIDE DEF V, n
  <2>2. QED
    BY <2>1
<1>4. b \in V
  OBVIOUS
<1>5. PICK g : IsFold(g, n, V, b, F)
  <2> HIDE DEF V, b, F, n
  <2>1. QED
    BY <1>1, <1>3, <1>4, FoldExists
<1>6. A(g)
  <2>1. ASSUME NEW s \in SUBSET (1 .. n), s # {}
        PROVE  F[Max(s)][g[s \ {Max(s)}]]
                 = Cut(g[s \ {Max(s)}], line[Max(s)])
    <3>1. Max(s) \in 1 .. n
      BY <1>1, <2>1, MaxIsIn
    <3>2. g[s \ {Max(s)}] \in V
      <4> HIDE DEF V, n
      <4> QED BY <1>5 DEF IsFold
    <3> HIDE DEF V, n
    <3>3. QED
      BY <3>1, <3>2
  <2>2. \A s \in SUBSET (1 .. n) :
          (IF s = {} THEN b ELSE F[Max(s)][g[s \ {Max(s)}]])
            = (IF s = {} THEN b ELSE Cut(g[s \ {Max(s)}], line[Max(s)]))
    <3> HIDE DEF F, n, b
    <3> QED BY <2>1
  <2>3. QED
    <3> HIDE DEF F, n, b
    <3> QED BY <1>5, <2>2 DEF IsFold
<1> DEFINE f == CHOOSE h : A(h)
<1>7. A(f)
  <2> HIDE DEF A
  <2> QED BY <1>6
<1>8. SplitOf(line) = f[1 .. n]
  BY <1>1 DEF SplitOf, FoldLeft, MapThenFoldSet, Cut
<1> HIDE DEF f
<1> DEFINE part == [i \in 0 .. n |-> f[1 .. i]]
<1>9. f[{}] = b
  BY <1>7
<1>10. part[0] = b
  <2>1. 1 .. 0 = {}
    OBVIOUS
  <2>2. QED
    BY <1>1, <1>9, <2>1
<1>11. ASSUME NEW i \in 1 .. n
       PROVE  part[i] = Cut(part[i - 1], line[i])
  <2>1. Max(1 .. i) = i /\ (1 .. i) \ {i} = 1 .. i - 1
    BY MaxOfInterval
  <2>2. 1 .. i \in SUBSET (1 .. n) /\ 1 .. i # {}
    BY <1>1, PartOfInterval
  <2>3. f[1 .. i] = Cut(f[(1 .. i) \ {Max(1 .. i)}], line[Max(1 .. i)])
    BY <1>7, <2>2
  <2>4. part[i] = f[1 .. i] /\ part[i - 1] = f[1 .. i - 1]
    OBVIOUS
  <2>5. QED
    BY <2>1, <2>3, <2>4
<1>12. SplitOf(line) = part[n]
  BY <1>1, <1>8
<1>13. QED
  <2> HIDE DEF part
  <2> QED BY <1>10, <1>11, <1>12

(* The positions of the commas among the first n pieces, in order, and     *)
(* what is between them.                                                   *)
AreCommas(cs, line, n) ==
  /\ cs \in Seq(1 .. n)
  /\ \A j, k \in 1 .. Len(cs) : j < k => cs[j] < cs[k]
  /\ \A p \in 1 .. n : line[p] = Comma <=> \E j \in 1 .. Len(cs) : cs[j] = p

From(cs, k) == IF k = 1 THEN 1 ELSE cs[k - 1] + 1
To(cs, k, n) == IF k <= Len(cs) THEN cs[k] - 1 ELSE n

AreFields(fs, cs, line, n) ==
  /\ Len(fs) = Len(cs) + 1
  /\ \A k \in 1 .. Len(cs) + 1 :
       fs[k] = SubSeq(line, From(cs, k), To(cs, k, n))

(* One piece more.                                                         *)
LEMMA CutAtComma ==
  ASSUME NEW P, NEW line \in Seq(P), NEW n \in Nat, n < Len(line),
         NEW fs \in Seq(Seq(P)), NEW cs,
         AreCommas(cs, line, n), AreFields(fs, cs, line, n),
         line[n + 1] = Comma
  PROVE  /\ AreCommas(Append(cs, n + 1), line, n + 1)
         /\ AreFields(Cut(fs, line[n + 1]), Append(cs, n + 1), line, n + 1)
<1> DEFINE ds == Append(cs, n + 1)
           gs == Append(fs, <<>>)
<1>1. /\ cs \in Seq(1 .. n) /\ Len(cs) \in Nat
      /\ \A j \in 1 .. Len(cs) : cs[j] \in 1 .. n
  BY DEF AreCommas
<1>2. /\ ds \in Seq(1 .. n + 1) /\ Len(ds) = Len(cs) + 1
      /\ \A j \in 1 .. Len(cs) : ds[j] = cs[j]
      /\ ds[Len(cs) + 1] = n + 1
  <2>1. cs \in Seq(1 .. n + 1)
    BY <1>1, SeqMonotonic, 1 .. n \subseteq 1 .. n + 1
  <2>2. QED
    BY <2>1
<1>3. /\ gs \in Seq(Seq(P)) /\ Len(gs) = Len(fs) + 1
      /\ \A j \in 1 .. Len(fs) : gs[j] = fs[j]
      /\ gs[Len(fs) + 1] = <<>>
  OBVIOUS
<1>4. Cut(fs, line[n + 1]) = gs
  BY DEF Cut
<1> HIDE DEF ds, gs
<1> DEFINE last == Len(cs) + 1
<1>7. /\ Len(cs) \in Nat /\ last = Len(cs) + 1
      /\ 1 .. Len(ds) = 1 .. Len(cs) \cup {last}
      /\ 1 .. n + 1 = 1 .. n \cup {n + 1} /\ n + 1 \notin 1 .. n
  <2>1. \A m \in Nat : 1 .. m + 1 = 1 .. m \cup {m + 1}
                         /\ m + 1 \notin 1 .. m
    OBVIOUS
  <2>2. QED
    BY <1>1, <1>2, <2>1
<1>8. /\ \A j \in 1 .. Len(cs) : ds[j] = cs[j] /\ cs[j] \in 1 .. n
      /\ ds[last] = n + 1
  BY <1>1, <1>2
<1> HIDE DEF last
<1>5. AreCommas(ds, line, n + 1)
  <2>1. ASSUME NEW j \in 1 .. Len(ds), NEW k \in 1 .. Len(ds), j < k
        PROVE  ds[j] < ds[k]
    <3>1. j \in 1 .. Len(cs)
      BY <1>7, <2>1
    <3>2. CASE k \in 1 .. Len(cs)
      BY <1>8, <2>1, <3>1, <3>2 DEF AreCommas
    <3>3. CASE k = last
      <4>1. \A i \in 1 .. n : i < n + 1
        OBVIOUS
      <4>2. QED
        BY <1>8, <3>1, <3>3, <4>1
    <3>4. QED
      BY <1>7, <3>2, <3>3
  <2>2. ASSUME NEW p \in 1 .. n + 1
        PROVE  line[p] = Comma <=> \E j \in 1 .. Len(ds) : ds[j] = p
    <3>1. CASE p = n + 1
      BY <1>7, <1>8, <3>1, Zenon
    <3>2. CASE p \in 1 .. n
      <4>1. (\E j \in 1 .. Len(ds) : ds[j] = p)
              <=> \E j \in 1 .. Len(cs) : cs[j] = p
        BY <1>7, <1>8, <3>2, Zenon
      <4>2. QED
        BY <3>2, <4>1 DEF AreCommas
    <3>3. QED
      BY <1>7, <3>1, <3>2
  <2>3. QED
    BY <1>2, <2>1, <2>2 DEF AreCommas
<1>6. AreFields(gs, ds, line, n + 1)
  <2>1. Len(gs) = Len(ds) + 1 /\ Len(fs) = Len(cs) + 1
    BY <1>1, <1>2, <1>3 DEF AreFields
  <2>2. ASSUME NEW k \in 1 .. Len(ds) + 1
        PROVE  gs[k] = SubSeq(line, From(ds, k), To(ds, k, n + 1))
    <3>1. CASE k \in 1 .. Len(cs) + 1
      <4>1. gs[k] = SubSeq(line, From(cs, k), To(cs, k, n))
        BY <1>3, <2>1, <3>1 DEF AreFields
      <4>2. From(ds, k) = From(cs, k)
        <5>1. k # 1 => k - 1 \in 1 .. Len(cs)
          BY <1>1, <3>1
        <5>2. k # 1 => ds[k - 1] = cs[k - 1]
          BY <1>2, <5>1
        <5>3. QED
          BY <5>2 DEF From
      <4>3. To(ds, k, n + 1) = To(cs, k, n)
        <5>1. CASE k \in 1 .. Len(cs)
          <6>1. k <= Len(cs) /\ k <= Len(ds) /\ ds[k] = cs[k]
            BY <1>1, <1>2, <5>1
          <6>2. QED
            BY <6>1 DEF To
        <5>2. CASE k = Len(cs) + 1
          <6>1. ~(k <= Len(cs)) /\ k <= Len(ds) /\ ds[k] - 1 = n
            BY <1>1, <1>2, <5>2
          <6>2. QED
            BY <6>1 DEF To
        <5>3. QED
          BY <1>1, <3>1, <5>1, <5>2
      <4>4. QED
        BY <4>1, <4>2, <4>3
    <3>2. CASE k = Len(cs) + 2
      <4>1. gs[k] = <<>>
        BY <1>1, <1>3, <2>1, <3>2
      <4>2. From(ds, k) = n + 2 /\ To(ds, k, n + 1) = n + 1
        BY <1>1, <1>2, <3>2 DEF From, To
      <4>3. SubSeq(line, n + 2, n + 1) = <<>>
        BY SubSeqEmpty
      <4>4. QED
        BY <4>1, <4>2, <4>3
    <3>3. QED
      BY <1>1, <1>2, <3>1, <3>2
  <2>3. QED
    BY <2>1, <2>2 DEF AreFields
<1>9. QED
  BY <1>4, <1>5, <1>6 DEF ds

(* A piece that is no comma is appended to the last field.                 *)
LEMMA CutWithin ==
  ASSUME NEW P, NEW line \in Seq(P), NEW n \in Nat, n < Len(line),
         NEW fs \in Seq(Seq(P)), NEW cs,
         AreCommas(cs, line, n), AreFields(fs, cs, line, n),
         line[n + 1] # Comma
  PROVE  /\ AreCommas(cs, line, n + 1)
         /\ AreFields(Cut(fs, line[n + 1]), cs, line, n + 1)
<1> DEFINE m == Len(fs)
           text == Append(fs[m], line[n + 1])
           gs == SubSeq(fs, 1, m - 1) \o <<text>>
<1>1. /\ cs \in Seq(1 .. n) /\ Len(cs) \in Nat
      /\ \A j \in 1 .. Len(cs) : cs[j] \in 1 .. n
  BY DEF AreCommas
<1>2. m = Len(cs) + 1 /\ m \in Nat /\ m >= 1
  BY <1>1 DEF AreFields
<1>3. Cut(fs, line[n + 1]) = gs
  BY DEF Cut, Front, Last
<1>4. AreCommas(cs, line, n + 1)
  <2>1. cs \in Seq(1 .. n + 1)
    BY <1>1, SeqMonotonic, 1 .. n \subseteq 1 .. n + 1
  <2>2. ASSUME NEW p \in 1 .. n + 1
        PROVE  line[p] = Comma <=> \E j \in 1 .. Len(cs) : cs[j] = p
    <3>1. CASE p = n + 1
      BY <1>1, <3>1
    <3>2. CASE p \in 1 .. n
      BY <3>2 DEF AreCommas
    <3>3. QED
      BY <3>1, <3>2
  <2>3. QED
    BY <2>1, <2>2 DEF AreCommas
<1>5. fs[m] \in Seq(P) /\ line[n + 1] \in P /\ text \in Seq(P)
  <2>1. fs[m] \in Seq(P) /\ line[n + 1] \in P
    BY <1>2
  <2>2. QED
    BY <2>1
<1> HIDE DEF text
<1>6. /\ Len(gs) = m
      /\ \A k \in 1 .. m - 1 : gs[k] = fs[k]
      /\ gs[m] = text
  <2> DEFINE front == SubSeq(fs, 1, m - 1)
  <2>1. /\ front \in Seq(Seq(P)) /\ Len(front) = m - 1
        /\ \A k \in 1 .. m - 1 : front[k] = fs[k]
    BY <1>2
  <2> HIDE DEF front
  <2>2. <<text>> \in Seq(Seq(P)) /\ Len(<<text>>) = 1 /\ <<text>>[1] = text
    BY <1>5
  <2> DEFINE last == <<text>>
  <2> HIDE DEF last, m
  <2>3. /\ Len(front \o last) = m
        /\ \A k \in 1 .. m :
             (front \o last)[k] = IF k <= m - 1 THEN front[k]
                                  ELSE last[k - (m - 1)]
    BY <1>2, <2>1, <2>2, ConcatProperties DEF last
  <2>4. /\ \A k \in 1 .. m - 1 : (front \o last)[k] = fs[k]
        /\ (front \o last)[m] = last[1]
    BY <1>2, <2>1, <2>3
  <2>5. gs = front \o last
    BY DEF front, last
  <2>6. last[1] = text
    BY DEF last
  <2> HIDE DEF gs
  <2>7. QED
    BY <2>3, <2>4, <2>5, <2>6
<1> HIDE DEF gs
<1>7. ASSUME NEW k \in 1 .. Len(cs) + 1
      PROVE  gs[k] = SubSeq(line, From(cs, k), To(cs, k, n + 1))
  <2>1. fs[k] = SubSeq(line, From(cs, k), To(cs, k, n))
    BY DEF AreFields
  <2>2. CASE k < Len(cs) + 1
    <3>1. To(cs, k, n + 1) = To(cs, k, n)
      BY <1>1, <2>2 DEF To
    <3>2. gs[k] = fs[k]
      BY <1>1, <1>2, <1>6, <2>2
    <3>3. QED
      BY <2>1, <3>1, <3>2
  <2>3. CASE k = Len(cs) + 1
    <3>1. To(cs, k, n) = n /\ To(cs, k, n + 1) = n + 1
      BY <1>1, <2>3 DEF To
    <3>2. From(cs, k) \in 1 .. n + 1
      BY <1>1, <2>3 DEF From
    <3> DEFINE a == From(cs, k)
    <3>3. SubSeq(line, a, n + 1) = SubSeq(line, a, n) \o <<line[n + 1]>>
      <4>1. /\ a \in 1 .. Len(line) /\ n + 1 \in a .. Len(line)
            /\ (n + 1) - 1 = n
        BY <3>2
      <4> HIDE DEF a
      <4>2. SubSeq(line, a, n + 1)
              = SubSeq(line, a, (n + 1) - 1) \o <<line[n + 1]>>
        BY <4>1, SubSeqRecursiveSecond
      <4>3. QED
        BY <4>1, <4>2
    <3>4. SubSeq(line, a, n) \in Seq(P)
      BY <1>2, <1>5, <2>1, <2>3, <3>1
    <3>5. SubSeq(line, a, n + 1) = Append(SubSeq(line, a, n), line[n + 1])
      BY <1>5, <3>3, <3>4, AppendIsConcat
    <3>6. QED
      BY <1>2, <1>6, <2>1, <2>3, <3>1, <3>5 DEF text
  <2>4. QED
    BY <1>1, <2>2, <2>3
<1>8. QED
  BY <1>2, <1>3, <1>4, <1>6, <1>7 DEF AreFields

(* All the commas of a line, which the reader looks for.                   *)
Commas(line) ==
  CHOOSE cs : /\ AreCommas(cs, line, Len(line))
              /\ AreFields(SplitOf(line), cs, line, Len(line))

(* The split has what is between the commas.                               *)
LEMMA SplitIsBetweenCommas ==
  ASSUME NEW P, NEW line \in Seq(P)
  PROVE  /\ AreCommas(Commas(line), line, Len(line))
         /\ AreFields(SplitOf(line), Commas(line), line, Len(line))
         /\ SplitOf(line) \in Seq(Seq(P))
<1>1. PICK part : /\ part[0] = <<<<>>>>
                  /\ \A i \in 1 .. Len(line) :
                       part[i] = Cut(part[i - 1], line[i])
                  /\ SplitOf(line) = part[Len(line)]
  BY SplitGrows
<1> DEFINE Good(i) == /\ part[i] \in Seq(Seq(P))
                      /\ \E cs : /\ AreCommas(cs, line, i)
                                 /\ AreFields(part[i], cs, line, i)
           T == {i \in Nat : i <= Len(line) => Good(i)}
<1>2. Good(0)
  <2>1. AreCommas(<<>>, line, 0)
    BY DEF AreCommas
  <2>2. AreFields(<<<<>>>>, <<>>, line, 0)
    <3>1. SubSeq(line, 1, 0) = <<>>
      BY SubSeqEmpty
    <3>2. From(<<>>, 1) = 1 /\ To(<<>>, 1, 0) = 0
      BY DEF From, To
    <3> DEFINE fs == <<<<>>>>
               cs == <<>>
    <3>3. Len(fs) = 1 /\ fs[1] = SubSeq(line, 1, 0) /\ Len(cs) = 0
      BY <3>1
    <3>4. From(cs, 1) = 1 /\ To(cs, 1, 0) = 0
      BY <3>2
    <3> HIDE DEF fs, cs
    <3>5. AreFields(fs, cs, line, 0)
      <4>1. \A k \in 1 .. 1 : fs[k] = SubSeq(line, From(cs, k), To(cs, k, 0))
        <5>1. \A k \in 1 .. 1 : k = 1
          OBVIOUS
        <5>2. fs[1] = SubSeq(line, From(cs, 1), To(cs, 1, 0))
          BY <3>3, <3>4
        <5>3. QED
          BY <5>1, <5>2, Zenon
      <4>2. Len(cs) + 1 = 1 /\ Len(fs) = Len(cs) + 1
        BY <3>3
      <4>3. QED
        BY <4>1, <4>2 DEF AreFields
    <3>6. QED
      BY <3>5 DEF fs, cs
  <2>3. <<<<>>>> \in Seq(Seq(P))
    OBVIOUS
  <2>4. QED
    BY <1>1, <2>1, <2>2, <2>3
<1>3. ASSUME NEW n \in Nat, n < Len(line), Good(n)
      PROVE  Good(n + 1)
  <2>1. PICK cs : AreCommas(cs, line, n) /\ AreFields(part[n], cs, line, n)
    BY <1>3
  <2>2. part[n + 1] = Cut(part[n], line[n + 1])
    <3>1. n + 1 \in 1 .. Len(line) /\ (n + 1) - 1 = n
      BY <1>3
    <3>2. QED
      BY <1>1, <3>1
  <2>3. line[n + 1] \in P
    BY <1>3
  <2>4. part[n + 1] \in Seq(Seq(P))
    <3> DEFINE fs == part[n]
    <3>1. fs \in Seq(Seq(P)) /\ Len(fs) \in Nat /\ Len(fs) >= 1
      BY <1>3, <2>1 DEF AreFields, AreCommas
    <3> HIDE DEF fs
    <3>2. Append(fs, <<>>) \in Seq(Seq(P))
      BY <3>1
    <3>3. Last(fs) \in Seq(P)
      BY <3>1 DEF Last
    <3>4. Append(Last(fs), line[n + 1]) \in Seq(P)
      BY <2>3, <3>3
    <3>5. Front(fs) \in Seq(Seq(P))
      BY <3>1 DEF Front
    <3>6. Front(fs) \o <<Append(Last(fs), line[n + 1])>> \in Seq(Seq(P))
      BY <3>4, <3>5
    <3>7. Cut(fs, line[n + 1]) \in Seq(Seq(P))
      BY <3>2, <3>6 DEF Cut
    <3>8. QED
      BY <2>2, <3>7 DEF fs
  <2>5. CASE line[n + 1] = Comma
    <3>1. /\ AreCommas(Append(cs, n + 1), line, n + 1)
          /\ AreFields(Cut(part[n], line[n + 1]), Append(cs, n + 1),
                       line, n + 1)
      BY <1>3, <2>1, <2>5, CutAtComma
    <3>2. QED
      BY <2>2, <2>4, <3>1
  <2>6. CASE line[n + 1] # Comma
    <3>1. /\ AreCommas(cs, line, n + 1)
          /\ AreFields(Cut(part[n], line[n + 1]), cs, line, n + 1)
      BY <1>3, <2>1, <2>6, CutWithin
    <3>2. QED
      BY <2>2, <2>4, <3>1
  <2>7. QED
    BY <2>5, <2>6
<1> HIDE DEF Good
<1>4. Nat \subseteq T
  <2>1. 0 \in T
    BY <1>2
  <2>2. \A n \in Nat : n \in T => n + 1 \in T
    <3> TAKE n \in Nat
    <3> HAVE n \in T
    <3> SUFFICES ASSUME n + 1 <= Len(line) PROVE Good(n + 1)
      OBVIOUS
    <3>1. n < Len(line) /\ Good(n)
      OBVIOUS
    <3>2. QED
      BY <1>3, <3>1
  <2> HIDE DEF T
  <2>3. QED
    BY <2>1, <2>2, SetInduction
<1>5. Good(Len(line))
  <2>1. Len(line) \in T /\ Len(line) \in Nat
    <3> HIDE DEF T
    <3> QED BY <1>4
  <2>2. QED
    BY <2>1
<1>6. QED
  BY <1>1, <1>5 DEF Good, Commas

-----------------------------------------------------------------------------
(* The cache of the reader.                                                *)

(* A cache holds the first commas of the line.                             *)
Begins(cache, cs) ==
  /\ cache \in Seq(Nat)
  /\ Len(cache) <= Len(cs)
  /\ \A i \in 1 .. Len(cache) : cache[i] = cs[i]

(* The comma that is found next is the next of the line.                   *)
LEMMA NextComma ==
  ASSUME NEW P, csvLine \in Seq(P), NEW cache, Begins(cache, Commas(csvLine))
  PROVE  /\ Len(cache) = Len(Commas(csvLine)) => CommasAfter(cache) = {}
         /\ Len(cache) < Len(Commas(csvLine)) =>
              /\ CommasAfter(cache) # {}
              /\ Min(CommasAfter(cache)) = Commas(csvLine)[Len(cache) + 1]
              /\ Begins(Append(cache, Min(CommasAfter(cache))),
                        Commas(csvLine))
<1> DEFINE cs == Commas(csvLine)
           m == Len(cache)
<1>1. AreCommas(cs, csvLine, Len(csvLine))
  BY SplitIsBetweenCommas
<1>2. /\ cs \in Seq(1 .. Len(csvLine)) /\ Len(cs) \in Nat
      /\ Len(csvLine) \in Nat /\ DOMAIN csvLine = 1 .. Len(csvLine)
  BY <1>1 DEF AreCommas
<1> HIDE DEF cs
<1>3. /\ cache \in Seq(Nat) /\ m \in Nat /\ m <= Len(cs)
      /\ DOMAIN cache = 1 .. m
      /\ \A i \in 1 .. m : cache[i] = cs[i] /\ i \in 1 .. Len(cs)
  BY <1>2 DEF Begins, cs
<1> HIDE DEF m
<1>4. ASSUME NEW p
      PROVE  p \in CommasAfter(cache)
               <=> \E j \in m + 1 .. Len(cs) : p = cs[j]
  <2>1. ASSUME p \in CommasAfter(cache)
        PROVE  \E j \in m + 1 .. Len(cs) : p = cs[j]
    <3>1. /\ p \in 1 .. Len(csvLine) /\ csvLine[p] = Comma
          /\ \A i \in 1 .. m : p > cache[i]
      BY <1>2, <1>3, <2>1 DEF CommasAfter
    <3>2. PICK j \in 1 .. Len(cs) : cs[j] = p
      BY <1>1, <3>1 DEF AreCommas
    <3>3. ~(j \in 1 .. m)
      <4> SUFFICES ASSUME j \in 1 .. m PROVE FALSE
        OBVIOUS
      <4>1. p > cache[j] /\ cache[j] = p
        BY <1>3, <3>1, <3>2
      <4>2. QED
        BY <3>1, <4>1
    <3>4. QED
      BY <1>2, <1>3, <3>2, <3>3
  <2>2. ASSUME NEW j \in m + 1 .. Len(cs), p = cs[j]
        PROVE  p \in CommasAfter(cache)
    <3>1. j \in 1 .. Len(cs) /\ p \in 1 .. Len(csvLine)
      BY <1>2, <1>3, <2>2
    <3>2. csvLine[p] = Comma
      BY <1>1, <2>2, <3>1 DEF AreCommas
    <3>3. \A i \in 1 .. m : p > cache[i]
      <4> TAKE i \in 1 .. m
      <4>1. i \in 1 .. Len(cs) /\ i < j /\ cache[i] = cs[i]
        BY <1>2, <1>3
      <4>2. cs[i] < cs[j]
        BY <1>1, <3>1, <4>1 DEF AreCommas
      <4>3. cs[i] \in Int /\ cs[j] \in Int
        BY <1>2, <3>1, <4>1
      <4>4. QED
        BY <2>2, <4>1, <4>2, <4>3
    <3>4. QED
      BY <1>2, <1>3, <3>1, <3>2, <3>3 DEF CommasAfter
  <2>3. QED
    BY <2>1, <2>2
<1>5. ASSUME m = Len(cs)
      PROVE  CommasAfter(cache) = {}
  BY <1>2, <1>4, <1>5
<1>6. ASSUME m < Len(cs)
      PROVE  /\ CommasAfter(cache) # {}
             /\ Min(CommasAfter(cache)) = cs[m + 1]
             /\ Begins(Append(cache, Min(CommasAfter(cache))), cs)
  <2> DEFINE q == cs[m + 1]
             C == CommasAfter(cache)
  <2>1. m + 1 \in m + 1 .. Len(cs) /\ m + 1 \in 1 .. Len(cs)
    BY <1>2, <1>3, <1>6
  <2>2. q \in C /\ q \in Nat
    BY <1>2, <1>4, <2>1
  <2>3. ASSUME NEW p \in C
        PROVE  p \in Nat /\ q <= p
    <3>1. PICK j \in m + 1 .. Len(cs) : p = cs[j]
      BY <1>4
    <3>2. j \in 1 .. Len(cs) /\ p \in Nat /\ (j = m + 1 \/ m + 1 < j)
      BY <1>2, <1>3, <3>1
    <3>3. j # m + 1 => cs[m + 1] < cs[j]
      BY <1>1, <2>1, <3>2 DEF AreCommas
    <3>4. QED
      BY <2>2, <3>1, <3>2, <3>3
  <2> HIDE DEF q, C
  <2>4. \A x \in C : (\A y \in C : x <= y) => x = q
    BY <2>2, <2>3
  <2>5. Min(C) = q
    BY <2>2, <2>3, <2>4 DEF Min
  <2>6. Begins(Append(cache, q), cs)
    <3>1. /\ Append(cache, q) \in Seq(Nat) /\ Len(Append(cache, q)) = m + 1
          /\ \A i \in 1 .. m : Append(cache, q)[i] = cache[i]
          /\ Append(cache, q)[m + 1] = q
      BY <1>3, <2>2 DEF m
    <3>2. \A i \in 1 .. m + 1 : Append(cache, q)[i] = cs[i]
      BY <1>3, <3>1 DEF q
    <3>3. QED
      BY <1>2, <1>3, <1>6, <3>1, <3>2 DEF Begins
  <2>7. QED
    BY <2>2, <2>5, <2>6 DEF q, C
<1>7. QED
  BY <1>5, <1>6 DEF cs, m

(* The search of Scan, and that it is well defined: it ends when n + 1     *)
(* commas are cached.                                                      *)
Scans(f, n) ==
  f = [c \in Seq(Nat) |->
         IF Len(c) > n \/ CommasAfter(c) = {} THEN c
         ELSE f[Append(c, Min(CommasAfter(c)))]]

(* The recursion of Scan defines a function.                               *)
LEMMA ScanExists ==
  ASSUME NEW P, csvLine \in Seq(P), NEW n \in Nat
  PROVE  \E f : Scans(f, n)
<1> DEFINE D == Seq(Nat)
           More(c) == Append(c, Min(CommasAfter(c)))
           Stops(c) == Len(c) > n \/ CommasAfter(c) = {}
           rank == [c \in D |-> IF Len(c) > n THEN 0 ELSE n + 1 - Len(c)]
           Of(g) == [c \in D |-> IF Stops(c) THEN c ELSE g[More(c)]]
           H == [g \in [D -> D] |-> Of(g)]
<1>1. \A c \in D : Len(c) \in Nat
  OBVIOUS
<1>2. \A c \in D : CommasAfter(c) # {} => Min(CommasAfter(c)) \in Nat
  <2> TAKE c \in D
  <2> HAVE CommasAfter(c) # {}
  <2> DEFINE C == CommasAfter(c)
  <2>1. C \in SUBSET Nat
    BY DEF CommasAfter
  <2> HIDE DEF C
  <2>2. \E x \in C : \A y \in C : x <= y
    BY <2>1, LeastElement DEF C
  <2>3. Min(C) \in C
    BY <2>2 DEF Min
  <2>4. QED
    BY <2>1, <2>3 DEF C
<1>3. \A c \in D : ~Stops(c) => More(c) \in D /\ rank[More(c)] < rank[c]
  <2> TAKE c \in D
  <2> HAVE ~Stops(c)
  <2>1. Min(CommasAfter(c)) \in Nat /\ Len(c) <= n
    BY <1>1, <1>2
  <2>2. More(c) \in D /\ Len(More(c)) = Len(c) + 1
    BY <2>1
  <2> HIDE DEF More
  <2>3. rank[More(c)] < rank[c]
    BY <1>1, <2>1, <2>2
  <2>4. QED
    BY <2>2, <2>3
<1>4. rank \in [D -> Nat]
  <2>1. \A c \in D : (IF Len(c) > n THEN 0 ELSE n + 1 - Len(c)) \in Nat
    BY <1>1
  <2> HIDE DEF D
  <2>2. QED
    BY <2>1
<1> HIDE DEF D, More, Stops, rank
<1>5. \A g \in [D -> D] : Of(g) \in [D -> D]
  <2> TAKE g \in [D -> D]
  <2>1. \A c \in D : (IF Stops(c) THEN c ELSE g[More(c)]) \in D
    BY <1>3
  <2>2. QED
    BY <2>1
<1>6. H \in [[D -> D] -> [D -> D]]
  <2> HIDE DEF Of
  <2> QED BY <1>5
<1>7. ASSUME NEW c \in D, NEW g \in [D -> D], NEW h \in [D -> D],
             \A x \in D : rank[x] < rank[c] => g[x] = h[x]
      PROVE  H[g][c] = H[h][c]
  <2>1. ~Stops(c) => g[More(c)] = h[More(c)]
    BY <1>3, <1>7
  <2>2. QED
    BY <2>1
<1>8. IsRecursion(H, D, D, rank)
  <2>1. <<>> \in D
    BY DEF D
  <2> HIDE DEF H
  <2>2. QED
    BY <1>4, <1>6, <1>7, <2>1 DEF IsRecursion
<1> HIDE DEF H
<1>9. PICK g \in [D -> D] : g = H[g]
  BY <1>8, RecursionExists
<1>10. g = Of(g)
  BY <1>9 DEF H
<1>11. Scans(g, n)
  BY <1>10 DEF Scans, D, More, Stops
<1>12. QED
  BY <1>11

(* The search goes on to the first n + 1 commas, or to the end.            *)
LEMMA ScanFindsCommas ==
  ASSUME NEW P, csvLine \in Seq(P), NEW n \in Nat, NEW f, Scans(f, n),
         NEW cache, Begins(cache, Commas(csvLine))
  PROVE  /\ Begins(f[cache], Commas(csvLine))
         /\ Len(f[cache]) > n \/ Len(f[cache]) = Len(Commas(csvLine))
<1> DEFINE cs == Commas(csvLine)
           Good(c) == Begins(c, cs) /\ (Len(c) > n \/ Len(c) = Len(cs))
           T == {k \in Nat : \A c \in Seq(Nat) :
                   Begins(c, cs) /\ n + 1 - Len(c) <= k => Good(f[c])}
<1>1. Len(cs) \in Nat
  BY SplitIsBetweenCommas DEF AreCommas
<1> HIDE DEF cs
<1>2. ASSUME NEW c \in Seq(Nat), Begins(c, cs), Len(c) > n \/ Len(c) = Len(cs)
      PROVE  Good(f[c])
  <2>1. f[c] = c
    <3>1. Len(c) = Len(cs) => CommasAfter(c) = {}
      BY <1>2, NextComma DEF cs
    <3>2. QED
      BY <1>2, <3>1 DEF Scans
  <2>2. QED
    BY <1>2, <2>1
<1>3. 0 \in T
  <2>1. \A c \in Seq(Nat) : n + 1 - Len(c) <= 0 => Len(c) > n
    OBVIOUS
  <2> HIDE DEF Good
  <2>2. QED
    BY <1>2, <2>1
<1>4. ASSUME NEW k \in Nat, k \in T
      PROVE  k + 1 \in T
  <2> HIDE DEF Good
  <2> SUFFICES ASSUME NEW c \in Seq(Nat), Begins(c, cs),
                      n + 1 - Len(c) <= k + 1
               PROVE  Good(f[c])
    OBVIOUS
  <2>1. CASE Len(c) > n \/ Len(c) = Len(cs)
    BY <1>2, <2>1
  <2>2. CASE ~(Len(c) > n \/ Len(c) = Len(cs))
    <3> DEFINE d == Append(c, Min(CommasAfter(c)))
    <3>1. Len(c) < Len(cs) /\ Len(c) \in Nat
      BY <1>1, <2>2 DEF Begins
    <3>2. /\ CommasAfter(c) # {} /\ Begins(d, cs)
          /\ Min(CommasAfter(c)) = cs[Len(c) + 1]
      BY <3>1, NextComma DEF cs
    <3>3. f[c] = f[d]
      BY <2>2, <3>2 DEF Scans
    <3>4. d \in Seq(Nat) /\ Len(d) = Len(c) + 1
      <4>1. d \in Seq(Nat)
        BY <3>2 DEF Begins
      <4>2. QED
        BY <4>1
    <3> HIDE DEF d
    <3>5. n + 1 - Len(d) <= k
      BY <3>1, <3>4
    <3>6. Good(f[d])
      BY <1>4, <3>2, <3>4, <3>5
    <3>7. QED
      BY <3>3, <3>6
  <2>3. QED
    BY <2>1, <2>2
<1>5. Nat \subseteq T
  <2> HIDE DEF T
  <2> QED BY <1>3, <1>4, SetInduction
<1>6. cache \in Seq(Nat) /\ Len(cache) \in Nat /\ n + 1 - Len(cache) <= n + 1
  BY DEF Begins
<1>7. Good(f[cache])
  <2>1. n + 1 \in T
    <3> HIDE DEF T
    <3> QED BY <1>5
  <2> HIDE DEF Good
  <2>2. QED
    BY <1>6, <2>1 DEF cs
<1>8. QED
  BY <1>7 DEF cs

(* What is cached is true, and when the reader says there is no other      *)
(* comma there is none.                                                    *)
CacheInv ==
  /\ csvLine \in Seq(Pieces)
  /\ exhausted \in BOOLEAN
  /\ Begins(commaPositions, Commas(csvLine))
  /\ exhausted => Len(commaPositions) = Len(Commas(csvLine))

(* Scan finds the commas in order, as many as are asked for or all.        *)
LEMMA ScanKeepsCache ==
  ASSUME CacheInv, NEW n \in Nat
  PROVE  /\ Begins(Scan(commaPositions, n), Commas(csvLine))
         /\ \/ Len(Scan(commaPositions, n)) > n
            \/ Len(Scan(commaPositions, n)) = Len(Commas(csvLine))
<1>1. CASE exhausted
  BY <1>1 DEF CacheInv, Scan
<1>2. CASE ~exhausted
  <2> DEFINE f == CHOOSE g : Scans(g, n)
  <2>1. Scan(commaPositions, n) = f[commaPositions]
    BY <1>2 DEF Scan, Scans
  <2>2. Scans(f, n)
    BY ScanExists DEF CacheInv
  <2> HIDE DEF f
  <2>3. QED
    BY <2>1, <2>2, ScanFindsCommas DEF CacheInv
<1>3. QED
  BY <1>1, <1>2

(* GetField answers as if the line had been split.                         *)
LEMMA AnswerIsOfSplit ==
  ASSUME CacheInv, NEW n \in Nat
  PROVE  Answer(n) = IF n < Len(SplitOf(csvLine))
                       THEN {SplitOf(csvLine)[n + 1]} ELSE {}
<1> DEFINE cs == Commas(csvLine)
           c == Scan(commaPositions, n)
           fs == SplitOf(csvLine)
           L == Len(csvLine)
<1>1. csvLine \in Seq(Pieces) /\ L \in Nat
  BY DEF CacheInv
<1>2. AreCommas(cs, csvLine, L) /\ AreFields(fs, cs, csvLine, L)
  BY <1>1, SplitIsBetweenCommas
<1>3. Begins(c, cs) /\ (Len(c) > n \/ Len(c) = Len(cs))
  BY ScanKeepsCache
<1> HIDE DEF c, cs, fs, L
<1>4. /\ Len(cs) \in Nat /\ Len(c) \in Nat /\ Len(c) <= Len(cs)
      /\ \A i \in 1 .. Len(cs) : cs[i] \in 1 .. L
      /\ \A i \in 1 .. Len(c) : c[i] = cs[i]
      /\ Len(fs) = Len(cs) + 1
  <2>1. /\ Len(cs) \in Nat /\ Len(fs) = Len(cs) + 1
        /\ \A i \in 1 .. Len(cs) : cs[i] \in 1 .. L
    BY <1>1, <1>2 DEF AreCommas, AreFields
  <2>2. /\ Len(c) \in Nat /\ Len(c) <= Len(cs)
        /\ \A i \in 1 .. Len(c) : c[i] = cs[i]
    BY <1>3, <2>1 DEF Begins
  <2>3. QED
    BY <2>1, <2>2
<1>5. Answer(n) = Field(c, n)
  BY DEF Answer, c
<1>6. CASE n > Len(cs)
  <2>1. FieldStart(c, n) = L + 2
    BY <1>4, <1>6 DEF FieldStart, L
  <2>2. QED
    BY <1>1, <1>4, <1>5, <1>6, <2>1 DEF Field, L, fs
<1>7. CASE n <= Len(cs)
  <2>1. n = 0 \/ n \in 1 .. Len(c)
    BY <1>3, <1>4, <1>7
  <2>2. FieldStart(c, n) = From(cs, n + 1)
    BY <1>4, <2>1 DEF FieldStart, From
  <2>3. FieldStart(c, n) \in 1 .. L + 1
    <3>1. CASE n = 0
      BY <1>1, <3>1 DEF FieldStart
    <3>2. CASE n # 0
      <4>1. FieldStart(c, n) = cs[n] + 1 /\ cs[n] \in 1 .. L
        BY <1>4, <1>7, <2>1, <3>2 DEF FieldStart
      <4>2. QED
        BY <1>1, <4>1
    <3>3. QED
      BY <3>1, <3>2
  <2> DEFINE end == IF n < Len(c) THEN c[n + 1] ELSE L + 1
  <2>4. end - 1 = To(cs, n + 1, L)
    <3>1. CASE n < Len(c)
      <4>1. n + 1 \in 1 .. Len(c) /\ n + 1 <= Len(cs)
        BY <1>4, <3>1
      <4>2. QED
        BY <1>4, <3>1, <4>1 DEF To
    <3>2. CASE ~(n < Len(c))
      <4>1. n = Len(cs)
        BY <1>3, <1>4, <1>7, <3>2
      <4>2. QED
        BY <1>1, <1>4, <3>2, <4>1 DEF To
    <3>3. QED
      BY <3>1, <3>2
  <2>5. n + 1 \in 1 .. Len(cs) + 1
    BY <1>4, <1>7
  <2>6. fs[n + 1] = SubSeq(csvLine, From(cs, n + 1), To(cs, n + 1, L))
    BY <1>2, <2>5 DEF AreFields
  <2>7. Field(c, n) = {SubSeq(csvLine, FieldStart(c, n), end - 1)}
    BY <1>1, <2>3 DEF Field, L
  <2>8. n < Len(fs)
    BY <1>4, <1>7
  <2> HIDE DEF end
  <2>9. QED
    BY <1>5, <2>2, <2>4, <2>6, <2>7, <2>8 DEF fs
<1>8. QED
  BY <1>4, <1>6, <1>7

-----------------------------------------------------------------------------
(* The layouts: the fields of a structure are those of its members.        *)

AllMembers == Structs \cup Fields

Sum(g, s) == FoldLeft(LAMBDA n, x : n + g[x], 0, s)
Concat(g, s) == FoldLeft(LAMBDA fs, x : fs \o g[x], <<>>, s)

(* part[i] is the sum over, or the concatenation of, the first i.          *)
AreSums(part, g, s) ==
  /\ part[0] = 0
  /\ \A i \in 1 .. Len(s) : part[i] = part[i - 1] + g[s[i]]
  /\ \A i \in 0 .. Len(s) : part[i] \in Nat
  /\ Sum(g, s) = part[Len(s)]

AreConcats(part, g, s, P) ==
  /\ part[0] = <<>>
  /\ \A i \in 1 .. Len(s) : part[i] = part[i - 1] \o g[s[i]]
  /\ \A i \in 0 .. Len(s) : part[i] \in Seq(P)
  /\ Concat(g, s) = part[Len(s)]

Numbers(g, s) == \A i \in 1 .. Len(s) : g[s[i]] \in Nat
Lists(g, s, P) == \A i \in 1 .. Len(s) : g[s[i]] \in Seq(P)

(* The sums of the prefixes of a sequence exist, and grow.                 *)
LEMMA SumGrows ==
  ASSUME NEW s \in Seq(AllMembers), NEW g, Numbers(g, s)
  PROVE  \E part : AreSums(part, g, s)
<1> USE DEF Numbers
<1> DEFINE n == Len(s)
           F == [i \in 1 .. n |-> [k \in Nat |-> k + g[s[i]]]]
           A(f) == f = [S \in SUBSET (1 .. n) |->
                          IF S = {} THEN 0
                          ELSE f[S \ {Max(S)}] + g[s[Max(S)]]]
<1>1. n \in Nat /\ DOMAIN s = 1 .. n
  OBVIOUS
<1>2. F \in [1 .. n -> [Nat -> Nat]]
  <2>1. \A i \in 1 .. n : [k \in Nat |-> k + g[s[i]]] \in [Nat -> Nat]
    OBVIOUS
  <2> HIDE DEF n
  <2>2. QED
    BY <2>1
<1>3. PICK h : IsFold(h, n, Nat, 0, F)
  <2> HIDE DEF F, n
  <2>1. QED
    BY <1>1, <1>2, FoldExists
<1>4. A(h)
  <2>1. ASSUME NEW S \in SUBSET (1 .. n), S # {}
        PROVE  F[Max(S)][h[S \ {Max(S)}]] = h[S \ {Max(S)}] + g[s[Max(S)]]
    <3>1. Max(S) \in 1 .. n
      BY <1>1, <2>1, MaxIsIn
    <3>2. h[S \ {Max(S)}] \in Nat
      <4> HIDE DEF n
      <4> QED BY <1>3 DEF IsFold
    <3> HIDE DEF n
    <3>3. QED
      BY <3>1, <3>2
  <2>2. \A S \in SUBSET (1 .. n) :
          (IF S = {} THEN 0 ELSE F[Max(S)][h[S \ {Max(S)}]])
            = (IF S = {} THEN 0 ELSE h[S \ {Max(S)}] + g[s[Max(S)]])
    <3> HIDE DEF F, n
    <3> QED BY <2>1
  <2>3. QED
    <3> HIDE DEF F, n
    <3> QED BY <1>3, <2>2 DEF IsFold
<1> DEFINE f == CHOOSE e : A(e)
<1>5. A(f)
  <2> HIDE DEF A
  <2> QED BY <1>4
<1>6. Sum(g, s) = f[1 .. n]
  BY <1>1 DEF Sum, FoldLeft, MapThenFoldSet
<1> HIDE DEF f
<1> DEFINE part == [i \in 0 .. n |-> f[1 .. i]]
<1>7. part[0] = 0
  <2>1. 1 .. 0 = {} /\ f[{}] = 0
    BY <1>5
  <2>2. QED
    BY <1>1, <2>1
<1>8. ASSUME NEW i \in 1 .. n
      PROVE  part[i] = part[i - 1] + g[s[i]]
  <2>1. Max(1 .. i) = i /\ (1 .. i) \ {i} = 1 .. i - 1
    BY MaxOfInterval
  <2>2. 1 .. i \in SUBSET (1 .. n) /\ 1 .. i # {}
    BY <1>1, PartOfInterval
  <2>3. f[1 .. i] = f[(1 .. i) \ {Max(1 .. i)}] + g[s[Max(1 .. i)]]
    BY <1>5, <2>2
  <2>4. part[i] = f[1 .. i] /\ part[i - 1] = f[1 .. i - 1]
    OBVIOUS
  <2>5. QED
    BY <2>1, <2>3, <2>4
<1>9. Sum(g, s) = part[n]
  BY <1>1, <1>6
<1> HIDE DEF part
<1>10. \A i \in 0 .. n : part[i] \in Nat
  <2> DEFINE T == {i \in Nat : i <= n => part[i] \in Nat}
  <2>1. 0 \in T
    BY <1>7
  <2>2. \A i \in Nat : i \in T => i + 1 \in T
    <3> TAKE i \in Nat
    <3> HAVE i \in T
    <3> SUFFICES ASSUME i + 1 <= n PROVE part[i + 1] \in Nat
      OBVIOUS
    <3>1. i + 1 \in 1 .. n /\ (i + 1) - 1 = i /\ part[i] \in Nat
      BY <1>1
    <3>2. part[i + 1] = part[i] + g[s[i + 1]]
      BY <1>8, <3>1
    <3>3. g[s[i + 1]] \in Nat
      BY <3>1
    <3>4. QED
      BY <3>1, <3>2, <3>3
  <2> HIDE DEF T
  <2>3. Nat \subseteq T
    BY <2>1, <2>2, SetInduction
  <2>4. QED
    BY <2>3 DEF T
<1>11. QED
  BY <1>7, <1>8, <1>9, <1>10 DEF AreSums

(* So do the concatenations of its prefixes.                               *)
LEMMA ConcatGrows ==
  ASSUME NEW s \in Seq(AllMembers), NEW P, NEW g, Lists(g, s, P)
  PROVE  \E part : AreConcats(part, g, s, P)
<1> USE DEF Lists
<1> DEFINE n == Len(s)
           F == [i \in 1 .. n |-> [fs \in Seq(P) |-> fs \o g[s[i]]]]
           A(f) == f = [S \in SUBSET (1 .. n) |->
                          IF S = {} THEN <<>>
                          ELSE f[S \ {Max(S)}] \o g[s[Max(S)]]]
<1>1. n \in Nat /\ DOMAIN s = 1 .. n
  OBVIOUS
<1>2. F \in [1 .. n -> [Seq(P) -> Seq(P)]]
  <2>1. \A i \in 1 .. n :
          [fs \in Seq(P) |-> fs \o g[s[i]]] \in [Seq(P) -> Seq(P)]
    OBVIOUS
  <2> HIDE DEF n
  <2>2. QED
    BY <2>1
<1>3. PICK h : IsFold(h, n, Seq(P), <<>>, F)
  <2> DEFINE V == Seq(P)
             b == <<>>
  <2>1. b \in V
    OBVIOUS
  <2> HIDE DEF F, n, V, b
  <2>2. \E h : IsFold(h, n, V, b, F)
    BY <1>1, <1>2, <2>1, FoldExists DEF V
  <2>3. QED
    BY <2>2 DEF V, b
<1>4. A(h)
  <2>1. ASSUME NEW S \in SUBSET (1 .. n), S # {}
        PROVE  F[Max(S)][h[S \ {Max(S)}]] = h[S \ {Max(S)}] \o g[s[Max(S)]]
    <3>1. Max(S) \in 1 .. n
      BY <1>1, <2>1, MaxIsIn
    <3>2. h[S \ {Max(S)}] \in Seq(P)
      <4> HIDE DEF n
      <4> QED BY <1>3 DEF IsFold
    <3> HIDE DEF n
    <3>3. QED
      BY <3>1, <3>2
  <2>2. \A S \in SUBSET (1 .. n) :
          (IF S = {} THEN <<>> ELSE F[Max(S)][h[S \ {Max(S)}]])
            = (IF S = {} THEN <<>> ELSE h[S \ {Max(S)}] \o g[s[Max(S)]])
    <3> HIDE DEF F, n
    <3> QED BY <2>1
  <2>3. QED
    <3> HIDE DEF F, n
    <3> QED BY <1>3, <2>2 DEF IsFold
<1> DEFINE f == CHOOSE e : A(e)
<1>5. A(f)
  <2> HIDE DEF A
  <2> QED BY <1>4
<1>6. Concat(g, s) = f[1 .. n]
  BY <1>1 DEF Concat, FoldLeft, MapThenFoldSet
<1> HIDE DEF f
<1> DEFINE part == [i \in 0 .. n |-> f[1 .. i]]
<1>7. part[0] = <<>>
  <2>1. 1 .. 0 = {} /\ f[{}] = <<>>
    BY <1>5
  <2>2. QED
    BY <1>1, <2>1
<1>8. ASSUME NEW i \in 1 .. n
      PROVE  part[i] = part[i - 1] \o g[s[i]]
  <2>1. Max(1 .. i) = i /\ (1 .. i) \ {i} = 1 .. i - 1
    BY MaxOfInterval
  <2>2. 1 .. i \in SUBSET (1 .. n) /\ 1 .. i # {}
    BY <1>1, PartOfInterval
  <2>3. f[1 .. i] = f[(1 .. i) \ {Max(1 .. i)}] \o g[s[Max(1 .. i)]]
    BY <1>5, <2>2
  <2>4. part[i] = f[1 .. i] /\ part[i - 1] = f[1 .. i - 1]
    OBVIOUS
  <2>5. QED
    BY <2>1, <2>3, <2>4
<1>9. Concat(g, s) = part[n]
  BY <1>1, <1>6
<1> HIDE DEF part
<1>10. \A i \in 0 .. n : part[i] \in Seq(P)
  <2> DEFINE T == {i \in Nat : i <= n => part[i] \in Seq(P)}
  <2>1. 0 \in T
    <3>1. <<>> \in Seq(P)
      OBVIOUS
    <3>2. QED
      BY <1>7, <3>1
  <2>2. \A i \in Nat : i \in T => i + 1 \in T
    <3> TAKE i \in Nat
    <3> HAVE i \in T
    <3> SUFFICES ASSUME i + 1 <= n PROVE part[i + 1] \in Seq(P)
      OBVIOUS
    <3>1. i + 1 \in 1 .. n /\ (i + 1) - 1 = i /\ part[i] \in Seq(P)
      BY <1>1
    <3>2. part[i + 1] = part[i] \o g[s[i + 1]]
      BY <1>8, <3>1
    <3>3. g[s[i + 1]] \in Seq(P)
      BY <3>1
    <3>4. QED
      BY <3>1, <3>2, <3>3
  <2> HIDE DEF T
  <2>3. Nat \subseteq T
    BY <2>1, <2>2, SetInduction
  <2>4. QED
    BY <2>3 DEF T
<1>11. QED
  BY <1>7, <1>8, <1>9, <1>10 DEF AreConcats

(* The folds depend on the elements of s only.                             *)
LEMMA SumsAgree ==
  ASSUME NEW s \in Seq(AllMembers), NEW g, NEW h, Numbers(g, s),
         \A i \in 1 .. Len(s) : h[s[i]] = g[s[i]]
  PROVE  Sum(g, s) = Sum(h, s)
<1> DEFINE n == Len(s)
<1>1. PICK p : AreSums(p, g, s)
  BY SumGrows
<1>2. PICK q : AreSums(q, h, s)
  <2>1. Numbers(h, s)
    BY DEF Numbers
  <2>2. QED
    BY <2>1, SumGrows
<1> DEFINE T == {i \in Nat : i <= n => p[i] = q[i]}
<1>3. 0 \in T
  BY <1>1, <1>2 DEF AreSums
<1>4. \A i \in Nat : i \in T => i + 1 \in T
  <2> TAKE i \in Nat
  <2> HAVE i \in T
  <2> SUFFICES ASSUME i + 1 <= n PROVE p[i + 1] = q[i + 1]
    OBVIOUS
  <2>1. i + 1 \in 1 .. n /\ (i + 1) - 1 = i /\ p[i] = q[i]
    OBVIOUS
  <2>2. p[i + 1] = p[i] + g[s[i + 1]] /\ q[i + 1] = q[i] + h[s[i + 1]]
    BY <1>1, <1>2, <2>1 DEF AreSums
  <2>3. QED
    BY <2>1, <2>2
<1> HIDE DEF T
<1>5. Nat \subseteq T
  BY <1>3, <1>4, SetInduction
<1>6. p[n] = q[n]
  BY <1>5 DEF T
<1>7. QED
  BY <1>1, <1>2, <1>6 DEF AreSums

(* Lists that agree on the members concatenate alike.                      *)
LEMMA ConcatsAgree ==
  ASSUME NEW s \in Seq(AllMembers), NEW P, NEW g, NEW h, Lists(g, s, P),
         \A i \in 1 .. Len(s) : h[s[i]] = g[s[i]]
  PROVE  Concat(g, s) = Concat(h, s)
<1> DEFINE n == Len(s)
<1>1. PICK p : AreConcats(p, g, s, P)
  BY ConcatGrows
<1>2. PICK q : AreConcats(q, h, s, P)
  <2>1. Lists(h, s, P)
    BY DEF Lists
  <2>2. QED
    BY <2>1, ConcatGrows
<1> DEFINE T == {i \in Nat : i <= n => p[i] = q[i]}
<1>3. 0 \in T
  BY <1>1, <1>2 DEF AreConcats
<1>4. \A i \in Nat : i \in T => i + 1 \in T
  <2> TAKE i \in Nat
  <2> HAVE i \in T
  <2> SUFFICES ASSUME i + 1 <= n PROVE p[i + 1] = q[i + 1]
    OBVIOUS
  <2>1. i + 1 \in 1 .. n /\ (i + 1) - 1 = i /\ p[i] = q[i]
    OBVIOUS
  <2>2. p[i + 1] = p[i] \o g[s[i + 1]] /\ q[i + 1] = q[i] \o h[s[i + 1]]
    BY <1>1, <1>2, <2>1 DEF AreConcats
  <2>3. QED
    BY <2>1, <2>2
<1> HIDE DEF T
<1>5. Nat \subseteq T
  BY <1>3, <1>4, SetInduction
<1>6. p[n] = q[n]
  BY <1>5 DEF T
<1>7. QED
  BY <1>1, <1>2, <1>6 DEF AreConcats

(* What the recursions CountsOf and FieldsOf have at m.                    *)
depth == [m \in AllMembers |-> IF m \in Fields THEN 0 ELSE Nesting[m] + 1]

(* A structure is deeper than each of its members.                         *)
LEMMA DepthFacts ==
  /\ depth \in [AllMembers -> Nat]
  /\ \A T \in Structs : T \notin Fields /\ T \in AllMembers
  /\ \A T \in Structs : Members[T] \in Seq(AllMembers)
  /\ \A T \in Structs : \A i \in 1 .. Len(Members[T]) :
       /\ Members[T][i] \in AllMembers
       /\ depth[Members[T][i]] < depth[T]
<1>1. \A T \in Structs : T \notin Fields /\ Nesting[T] \in Nat
  BY CsvAssumption, NestingAssumption
<1>2. \A m \in AllMembers :
        (IF m \in Fields THEN 0 ELSE Nesting[m] + 1) \in Nat
  BY <1>1 DEF AllMembers
<1>3. depth \in [AllMembers -> Nat]
  BY <1>2 DEF depth
<1>4. ASSUME NEW T \in Structs
      PROVE  /\ T \in AllMembers /\ depth[T] = Nesting[T] + 1
             /\ Members[T] \in Seq(AllMembers)
  BY <1>1, CsvAssumption DEF AllMembers, depth
<1>5. ASSUME NEW T \in Structs, NEW i \in 1 .. Len(Members[T])
      PROVE  /\ Members[T][i] \in AllMembers
             /\ depth[Members[T][i]] < depth[T]
  <2> DEFINE m == Members[T][i]
  <2>1. m \in AllMembers /\ i \in DOMAIN Members[T]
    BY <1>4
  <2>2. m \in Structs => Nesting[m] < Nesting[T]
    BY <2>1, NestingAssumption
  <2> HIDE DEF m
  <2>3. depth[m] = IF m \in Fields THEN 0 ELSE Nesting[m] + 1
    BY <2>1 DEF depth
  <2>4. m \notin Fields => m \in Structs
    BY <2>1 DEF AllMembers
  <2>5. depth[m] < depth[T]
    BY <1>1, <1>4, <2>2, <2>3, <2>4
  <2>6. QED
    BY <2>1, <2>5 DEF m
<1>6. QED
  BY <1>1, <1>3, <1>4, <1>5

(* The recursions that count the fields of a member and list them.         *)
Counts(f) ==
  f = [m \in AllMembers |-> IF m \in Fields THEN 1 ELSE Sum(f, Members[m])]

ListsFields(f) ==
  f = [m \in AllMembers |->
         IF m \in Fields THEN <<m>> ELSE Concat(f, Members[m])]

(* The recursion of FieldCount defines a function.                         *)
LEMMA CountExists == \E f : Counts(f)
<1> DEFINE D == AllMembers
           e(g, m) == IF m \in Fields THEN 1 ELSE Sum(g, Members[m])
           Of(g) == [m \in D |-> e(g, m)]
           H == [g \in [D -> Nat] |-> Of(g)]
<1>1. \A m \in D : m \notin Fields => m \in Structs
  BY DEF AllMembers
<1>2. ASSUME NEW T \in Structs, NEW g \in [D -> Nat]
      PROVE  Numbers(g, Members[T])
  BY DepthFacts DEF Numbers
<1>3. ASSUME NEW m \in D, NEW g \in [D -> Nat]
      PROVE  e(g, m) \in Nat
  <2>1. CASE m \in Fields
    BY <2>1
  <2>2. CASE m \notin Fields
    <3>1. Members[m] \in Seq(AllMembers) /\ Numbers(g, Members[m])
      BY <1>1, <1>2, <2>2, DepthFacts
    <3>2. Sum(g, Members[m]) \in Nat
      <4> DEFINE s == Members[m]
      <4> HIDE DEF s
      <4>1. PICK p : AreSums(p, g, s)
        BY <3>1, SumGrows DEF s
      <4>2. Len(s) \in 0 .. Len(s)
        BY <3>1 DEF s
      <4>3. Sum(g, s) \in Nat
        BY <4>1, <4>2 DEF AreSums
      <4>4. QED
        BY <4>3 DEF s
    <3>3. QED
      BY <2>2, <3>2
  <2>3. QED
    BY <2>1, <2>2
<1>4. ASSUME NEW m \in D, NEW g \in [D -> Nat], NEW h \in [D -> Nat],
             \A x \in D : depth[x] < depth[m] => g[x] = h[x]
      PROVE  e(g, m) = e(h, m)
  <2>1. CASE m \in Fields
    BY <2>1
  <2>2. CASE m \notin Fields
    <3>1. m \in Structs /\ Members[m] \in Seq(AllMembers)
      BY <1>1, <2>2, DepthFacts
    <3>2. \A i \in 1 .. Len(Members[m]) :
            h[Members[m][i]] = g[Members[m][i]]
      BY <1>4, <3>1, DepthFacts
    <3>3. Sum(g, Members[m]) = Sum(h, Members[m])
      BY <1>2, <3>1, <3>2, SumsAgree
    <3>4. QED
      BY <2>2, <3>3
  <2>3. QED
    BY <2>1, <2>2
<1> HIDE DEF e
<1>5. \A g \in [D -> Nat] : Of(g) \in [D -> Nat]
  BY <1>3
<1>6. H \in [[D -> Nat] -> [D -> Nat]]
  BY <1>5
<1>7. \A m \in D : \A g, h \in [D -> Nat] :
        (\A x \in D : depth[x] < depth[m] => g[x] = h[x])
          => H[g][m] = H[h][m]
  BY <1>4
<1> HIDE DEF H, Of
<1>8. IsRecursion(H, D, Nat, depth)
  BY <1>6, <1>7, DepthFacts DEF IsRecursion
<1>9. PICK g \in [D -> Nat] : g = H[g]
  BY <1>8, RecursionExists
<1>10. g = Of(g)
  BY <1>9 DEF H
<1>11. Counts(g)
  BY <1>10 DEF Of, e, Counts
<1>12. QED
  BY <1>11

(* That of WireFields does.                                                *)
LEMMA FieldListExists == \E f : ListsFields(f)
<1> DEFINE D == AllMembers
           V == Seq(Fields)
           e(g, m) == IF m \in Fields THEN <<m>> ELSE Concat(g, Members[m])
           Of(g) == [m \in D |-> e(g, m)]
           H == [g \in [D -> V] |-> Of(g)]
<1>1. \A m \in D : m \notin Fields => m \in Structs
  BY DEF AllMembers
<1>2. ASSUME NEW T \in Structs, NEW g \in [D -> V]
      PROVE  Lists(g, Members[T], Fields)
  BY DepthFacts DEF Lists
<1>3. ASSUME NEW m \in D, NEW g \in [D -> V]
      PROVE  e(g, m) \in V
  <2>1. CASE m \in Fields
    BY <2>1
  <2>2. CASE m \notin Fields
    <3>1. Members[m] \in Seq(AllMembers) /\ Lists(g, Members[m], Fields)
      BY <1>1, <1>2, <2>2, DepthFacts
    <3>2. Concat(g, Members[m]) \in V
      <4> DEFINE s == Members[m]
      <4> HIDE DEF s
      <4>1. PICK p : AreConcats(p, g, s, Fields)
        BY <3>1, ConcatGrows DEF s
      <4>2. Len(s) \in 0 .. Len(s)
        BY <3>1 DEF s
      <4>3. Concat(g, s) \in V
        BY <4>1, <4>2 DEF AreConcats
      <4>4. QED
        BY <4>3 DEF s
    <3>3. QED
      BY <2>2, <3>2
  <2>3. QED
    BY <2>1, <2>2
<1>4. ASSUME NEW m \in D, NEW g \in [D -> V], NEW h \in [D -> V],
             \A x \in D : depth[x] < depth[m] => g[x] = h[x]
      PROVE  e(g, m) = e(h, m)
  <2>1. CASE m \in Fields
    BY <2>1
  <2>2. CASE m \notin Fields
    <3>1. m \in Structs /\ Members[m] \in Seq(AllMembers)
      BY <1>1, <2>2, DepthFacts
    <3>2. \A i \in 1 .. Len(Members[m]) :
            h[Members[m][i]] = g[Members[m][i]]
      BY <1>4, <3>1, DepthFacts
    <3>3. Lists(g, Members[m], Fields)
      BY <1>2, <3>1
    <3>4. Concat(g, Members[m]) = Concat(h, Members[m])
      BY <3>1, <3>2, <3>3, ConcatsAgree
    <3>5. QED
      BY <2>2, <3>4
  <2>3. QED
    BY <2>1, <2>2
<1>5. <<>> \in V
  OBVIOUS
<1> HIDE DEF e, V
<1>6. \A g \in [D -> V] : Of(g) \in [D -> V]
  BY <1>3
<1>7. H \in [[D -> V] -> [D -> V]]
  BY <1>6
<1>8. \A m \in D : \A g, h \in [D -> V] :
        (\A x \in D : depth[x] < depth[m] => g[x] = h[x])
          => H[g][m] = H[h][m]
  BY <1>4
<1> HIDE DEF H, Of
<1>9. IsRecursion(H, D, V, depth)
  BY <1>5, <1>7, <1>8, DepthFacts DEF IsRecursion
<1>10. PICK g \in [D -> V] : g = H[g]
  BY <1>9, RecursionExists
<1>11. g = Of(g)
  BY <1>10 DEF H
<1>12. ListsFields(g)
  BY <1>11 DEF Of, e, ListsFields
<1>13. QED
  BY <1>12

(* FieldCount and WireFields are what their definitions say.               *)
LEMMA RecursionsHold == Counts(FieldCount) /\ ListsFields(WireFields)
<1>1. FieldCount = CHOOSE f : Counts(f)
  BY DEF FieldCount, Counts, Sum, AllMembers
<1>2. WireFields = CHOOSE f : ListsFields(f)
  BY DEF WireFields, ListsFields, Concat, AllMembers
<1>3. QED
  BY <1>1, <1>2, CountExists, FieldListExists

(* A concatenation is as long as its parts are together.                   *)
LEMMA LenOfConcat ==
  ASSUME NEW P, NEW s \in Seq(P), NEW t \in Seq(P)
  PROVE  Len(s \o t) = Len(s) + Len(t)
OBVIOUS

(* A layout has as many fields as are counted.                             *)
LEMMA LayoutFacts ==
  \A m \in AllMembers :
    /\ FieldCount[m] \in Nat
    /\ WireFields[m] \in Seq(Fields)
    /\ Len(WireFields[m]) = FieldCount[m]
    /\ m \in Fields => FieldCount[m] = 1 /\ WireFields[m] = <<m>>
    /\ m \notin Fields => /\ m \in Structs
                          /\ FieldCount[m] = Sum(FieldCount, Members[m])
                          /\ WireFields[m] = Concat(WireFields, Members[m])
<1> DEFINE Good(m) == /\ FieldCount[m] \in Nat
                      /\ WireFields[m] \in Seq(Fields)
                      /\ Len(WireFields[m]) = FieldCount[m]
<1>1. \A m \in AllMembers :
        /\ m \in Fields => FieldCount[m] = 1 /\ WireFields[m] = <<m>>
        /\ m \notin Fields => /\ m \in Structs
                              /\ FieldCount[m] = Sum(FieldCount, Members[m])
                              /\ WireFields[m] = Concat(WireFields, Members[m])
  <2> TAKE m \in AllMembers
  <2>1. FieldCount[m] = IF m \in Fields THEN 1 ELSE Sum(FieldCount, Members[m])
    BY RecursionsHold DEF Counts
  <2>2. WireFields[m]
          = IF m \in Fields THEN <<m>> ELSE Concat(WireFields, Members[m])
    BY RecursionsHold DEF ListsFields
  <2>3. m \notin Fields => m \in Structs
    BY DEF AllMembers
  <2>4. QED
    BY <2>1, <2>2, <2>3
<1>2. ASSUME NEW T \in Structs,
             \A i \in 1 .. Len(Members[T]) : Good(Members[T][i])
      PROVE  Good(T)
  <2> DEFINE s == Members[T]
  <2>1. /\ FieldCount[T] = Sum(FieldCount, s)
        /\ WireFields[T] = Concat(WireFields, s)
    BY <1>1, DepthFacts
  <2>2. s \in Seq(AllMembers) /\ Len(s) \in Nat
    BY DepthFacts
  <2>3. /\ \A i \in 1 .. Len(s) : Good(s[i])
        /\ Numbers(FieldCount, s) /\ Lists(WireFields, s, Fields)
    BY <1>2 DEF Numbers, Lists
  <2> HIDE DEF s
  <2>4. PICK p : AreSums(p, FieldCount, s)
    BY <2>2, <2>3, SumGrows
  <2>5. PICK w : AreConcats(w, WireFields, s, Fields)
    BY <2>2, <2>3, ConcatGrows
  <2> DEFINE I == {i \in Nat : i <= Len(s) => Len(w[i]) = p[i]}
  <2>6. 0 \in I
    BY <2>4, <2>5 DEF AreSums, AreConcats
  <2>7. \A i \in Nat : i \in I => i + 1 \in I
    <3> TAKE i \in Nat
    <3> HAVE i \in I
    <3> SUFFICES ASSUME i + 1 <= Len(s) PROVE Len(w[i + 1]) = p[i + 1]
      OBVIOUS
    <3>1. i + 1 \in 1 .. Len(s) /\ (i + 1) - 1 = i /\ Len(w[i]) = p[i]
          /\ i \in 0 .. Len(s)
      BY <2>2
    <3> DEFINE x == WireFields[s[i + 1]]
    <3>2. x \in Seq(Fields) /\ Len(x) = FieldCount[s[i + 1]]
      BY <2>3, <3>1
    <3>3. w[i] \in Seq(Fields) /\ w[i + 1] = w[i] \o x
          /\ p[i + 1] = p[i] + FieldCount[s[i + 1]]
      BY <2>4, <2>5, <3>1 DEF AreSums, AreConcats
    <3> HIDE DEF x
    <3>4. Len(w[i + 1]) = Len(w[i]) + Len(x)
      BY <3>2, <3>3, LenOfConcat
    <3>5. QED
      BY <3>1, <3>2, <3>3, <3>4
  <2> HIDE DEF I
  <2>8. Nat \subseteq I
    BY <2>6, <2>7, SetInduction
  <2>9. Len(w[Len(s)]) = p[Len(s)] /\ Len(s) \in 0 .. Len(s)
    BY <2>2, <2>8 DEF I
  <2>10. /\ FieldCount[T] = p[Len(s)] /\ WireFields[T] = w[Len(s)]
         /\ p[Len(s)] \in Nat /\ w[Len(s)] \in Seq(Fields)
    BY <2>1, <2>4, <2>5, <2>9 DEF AreSums, AreConcats
  <2>11. QED
    BY <2>9, <2>10
<1>3. ASSUME NEW m \in Fields, m \in AllMembers
      PROVE  Good(m)
  <2>1. FieldCount[m] = 1 /\ WireFields[m] = <<m>>
    BY <1>1, <1>3
  <2>2. <<m>> \in Seq(Fields) /\ Len(<<m>>) = 1
    OBVIOUS
  <2>3. QED
    BY <2>1, <2>2
<1> HIDE DEF Good
<1>4. ASSUME NEW m \in AllMembers, ~Good(m)
      PROVE  FALSE
  <2> DEFINE B == {k \in Nat : \E x \in AllMembers : depth[x] = k /\ ~Good(x)}
  <2>1. B \in SUBSET Nat /\ B # {}
    BY <1>4, DepthFacts
  <2> HIDE DEF B
  <2>2. PICK k \in B : \A j \in B : k <= j
    BY <2>1, LeastElement
  <2>3. PICK x \in AllMembers : depth[x] = k /\ ~Good(x)
    BY <2>2 DEF B
  <2>4. x \in Structs
    BY <1>3, <2>3 DEF AllMembers
  <2>5. ASSUME NEW i \in 1 .. Len(Members[x])
        PROVE  Good(Members[x][i])
    <3> DEFINE y == Members[x][i]
    <3>1. y \in AllMembers /\ depth[y] < depth[x] /\ depth[y] \in Nat
          /\ depth[x] \in Nat
      BY <2>3, <2>4, DepthFacts
    <3> HIDE DEF y
    <3>2. depth[y] \notin B
      BY <2>2, <2>3, <3>1
    <3>3. Good(y)
      BY <3>1, <3>2 DEF B
    <3>4. QED
      BY <3>3 DEF y
  <2>6. QED
    BY <1>2, <2>3, <2>4, <2>5
<1>5. QED
  BY <1>1, <1>4 DEF Good

(* off[i]: how many fields the first i members of T have.  The fields of   *)
(* the next come after them.                                               *)
AreOffsets(off, T) ==
  /\ off[0] = 0
  /\ off[Len(Members[T])] = FieldCount[T]
  /\ \A i \in 1 .. Len(Members[T]) :
       /\ off[i - 1] \in Nat
       /\ off[i] = off[i - 1] + FieldCount[Members[T][i]]
       /\ off[i] <= FieldCount[T]
       /\ \A j \in 1 .. FieldCount[Members[T][i]] :
            WireFields[T][off[i - 1] + j] = WireFields[Members[T][i]][j]

OffsetsOf(T) == CHOOSE off : AreOffsets(off, T)

(* Every structure has offsets.                                            *)
LEMMA OffsetsExist ==
  ASSUME NEW T \in Structs
  PROVE  AreOffsets(OffsetsOf(T), T)
<1> DEFINE s == Members[T]
           n == Len(s)
           W == WireFields[T]
<1>1. /\ s \in Seq(AllMembers) /\ n \in Nat
      /\ T \in AllMembers /\ T \notin Fields
      /\ \A i \in 1 .. n : s[i] \in AllMembers
  BY DepthFacts
<1>2. /\ Lists(WireFields, s, Fields)
      /\ W = Concat(WireFields, s)
      /\ Len(W) = FieldCount[T] /\ FieldCount[T] \in Nat
  BY <1>1, LayoutFacts DEF Lists
<1>3. \A i \in 1 .. n : /\ WireFields[s[i]] \in Seq(Fields)
                        /\ Len(WireFields[s[i]]) = FieldCount[s[i]]
                        /\ FieldCount[s[i]] \in Nat
  BY <1>1, LayoutFacts
<1> HIDE DEF s, W
<1>4. PICK w : AreConcats(w, WireFields, s, Fields)
  BY <1>1, <1>2, ConcatGrows
<1>5. /\ w[0] = <<>> /\ w[n] = W
      /\ \A i \in 1 .. n : w[i] = w[i - 1] \o WireFields[s[i]]
      /\ \A i \in 0 .. n : w[i] \in Seq(Fields)
  BY <1>2, <1>4 DEF AreConcats
<1> HIDE DEF n
<1>6. ASSUME NEW i \in 1 .. n
      PROVE  /\ Len(w[i - 1]) \in Nat
             /\ Len(w[i]) = Len(w[i - 1]) + FieldCount[s[i]]
             /\ \A k \in 1 .. Len(w[i - 1]) : w[i][k] = w[i - 1][k]
             /\ \A j \in 1 .. FieldCount[s[i]] :
                  w[i][Len(w[i - 1]) + j] = WireFields[s[i]][j]
  <2> DEFINE u == w[i - 1]
             x == WireFields[s[i]]
  <2>1. u \in Seq(Fields) /\ x \in Seq(Fields) /\ w[i] = u \o x
    <3>1. i - 1 \in 0 .. n
      BY <1>1
    <3>2. QED
      BY <1>3, <1>5, <3>1
  <2>2. Len(x) = FieldCount[s[i]]
    BY <1>3
  <2> HIDE DEF u, x
  <2>3. /\ Len(u \o x) = Len(u) + Len(x)
        /\ \A k \in 1 .. Len(u) + Len(x) :
             (u \o x)[k] = IF k <= Len(u) THEN u[k] ELSE x[k - Len(u)]
    BY <2>1, ConcatProperties
  <2>4. Len(u) \in Nat /\ Len(x) \in Nat
    BY <2>1
  <2>5. \A k \in 1 .. Len(u) : w[i][k] = u[k]
    BY <2>1, <2>3, <2>4
  <2>6. \A j \in 1 .. Len(x) : w[i][Len(u) + j] = x[j]
    <3> TAKE j \in 1 .. Len(x)
    <3>1. Len(u) + j \in 1 .. Len(u) + Len(x) /\ ~(Len(u) + j <= Len(u))
          /\ (Len(u) + j) - Len(u) = j
      BY <2>4
    <3>2. QED
      BY <2>1, <2>3, <3>1
  <2>7. QED
    BY <2>1, <2>2, <2>3, <2>4, <2>5, <2>6 DEF u, x
<1> DEFINE Prefix(i) == /\ Len(w[i]) <= FieldCount[T]
                        /\ \A k \in 1 .. Len(w[i]) : W[k] = w[i][k]
           D == {d \in Nat : d <= n => Prefix(n - d)}
<1>7. 0 \in D
  BY <1>1, <1>2, <1>5
<1>8. \A d \in Nat : d \in D => d + 1 \in D
  <2> TAKE d \in Nat
  <2> HAVE d \in D
  <2> SUFFICES ASSUME d + 1 <= n PROVE Prefix(n - (d + 1))
    OBVIOUS
  <2> DEFINE i == n - d
  <2>1. i \in 1 .. n /\ i - 1 = n - (d + 1) /\ Prefix(i)
    BY <1>1
  <2> HIDE DEF i
  <2>2. /\ Len(w[i - 1]) \in Nat
        /\ Len(w[i]) = Len(w[i - 1]) + FieldCount[s[i]]
        /\ \A k \in 1 .. Len(w[i - 1]) : w[i][k] = w[i - 1][k]
        /\ FieldCount[s[i]] \in Nat
    BY <1>3, <1>6, <2>1
  <2>3. Prefix(i - 1)
    BY <1>2, <2>1, <2>2
  <2>4. QED
    BY <2>1, <2>3
<1> HIDE DEF D, Prefix
<1>9. Nat \subseteq D
  BY <1>7, <1>8, SetInduction
<1>10. \A i \in 0 .. n : Prefix(i)
  <2> TAKE i \in 0 .. n
  <2>1. n - i \in Nat /\ n - i <= n /\ n - (n - i) = i
    BY <1>1
  <2>2. n - i \in D
    BY <1>9, <2>1
  <2>3. QED
    BY <2>1, <2>2 DEF D
<1> DEFINE off == [i \in 0 .. n |-> Len(w[i])]
<1>11. AreOffsets(off, T)
  <2>1. off[0] = 0 /\ off[n] = FieldCount[T]
    <3>1. 0 \in 0 .. n /\ n \in 0 .. n
      BY <1>1
    <3>2. Len(w[0]) = 0 /\ Len(w[n]) = FieldCount[T]
      BY <1>2, <1>5
    <3>3. QED
      BY <3>1, <3>2
  <2>2. ASSUME NEW i \in 1 .. n
        PROVE  /\ off[i - 1] \in Nat
               /\ off[i] = off[i - 1] + FieldCount[s[i]]
               /\ off[i] <= FieldCount[T]
               /\ \A j \in 1 .. FieldCount[s[i]] :
                    W[off[i - 1] + j] = WireFields[s[i]][j]
    <3>1. i \in 0 .. n /\ i - 1 \in 0 .. n
      BY <1>1
    <3>2. off[i] = Len(w[i]) /\ off[i - 1] = Len(w[i - 1])
      BY <3>1
    <3> HIDE DEF off
    <3>3. Prefix(i) /\ FieldCount[s[i]] \in Nat
      BY <1>3, <1>10, <3>1
    <3>4. ASSUME NEW j \in 1 .. FieldCount[s[i]]
          PROVE  W[off[i - 1] + j] = WireFields[s[i]][j]
      <4>1. Len(w[i - 1]) + j \in 1 .. Len(w[i])
        BY <1>6, <3>3
      <4>2. W[Len(w[i - 1]) + j] = w[i][Len(w[i - 1]) + j]
        BY <3>3, <4>1 DEF Prefix
      <4>3. w[i][Len(w[i - 1]) + j] = WireFields[s[i]][j]
        BY <1>6
      <4>4. QED
        BY <3>2, <4>2, <4>3
    <3>5. QED
      BY <1>6, <3>2, <3>3, <3>4 DEF Prefix
  <2> HIDE DEF off
  <2>3. QED
    BY <2>1, <2>2 DEF AreOffsets, s, n, W
<1>12. QED
  <2> HIDE DEF off
  <2> QED BY <1>11 DEF OffsetsOf

-----------------------------------------------------------------------------
(* The reader and the constructors.                                        *)

(* There is no comma in a field.                                           *)
LEMMA FieldsHaveNoComma ==
  ASSUME NEW P, NEW line \in Seq(P), NEW k \in 1 .. Len(SplitOf(line))
  PROVE  SplitOf(line)[k] \in Seq(P \ {Comma})
<1> DEFINE cs == Commas(line)
           L == Len(line)
           a == From(cs, k)
           b == To(cs, k, L)
<1>1. AreCommas(cs, line, L) /\ AreFields(SplitOf(line), cs, line, L)
  BY SplitIsBetweenCommas
<1> HIDE DEF cs
<1>2. /\ Len(cs) \in Nat /\ \A j \in 1 .. Len(cs) : cs[j] \in 1 .. L
      /\ L \in Nat /\ k \in 1 .. Len(cs) + 1
  BY <1>1 DEF AreCommas, AreFields
<1>3. SplitOf(line)[k] = SubSeq(line, a, b)
  BY <1>1, <1>2 DEF AreFields
<1>4. /\ a = IF k = 1 THEN 1 ELSE cs[k - 1] + 1
      /\ b = IF k <= Len(cs) THEN cs[k] - 1 ELSE L
  BY DEF From, To
<1>5. /\ k # 1 => k - 1 \in 1 .. Len(cs)
      /\ k <= Len(cs) => k \in 1 .. Len(cs)
  BY <1>2
<1>6. a \in 1 .. L + 1 /\ b \in 0 .. L
  <2>1. k # 1 => cs[k - 1] \in 1 .. L
    BY <1>2, <1>5
  <2>2. k <= Len(cs) => cs[k] \in 1 .. L
    BY <1>2, <1>5
  <2> HIDE DEF a, b, L
  <2>3. QED
    BY <1>2, <1>4, <2>1, <2>2
<1> HIDE DEF a, b, L
<1>7. ASSUME NEW p \in a .. b
      PROVE  line[p] \in P \ {Comma}
  <2>1. p \in 1 .. L
    BY <1>2, <1>6
  <2>2. line[p] \in P
    BY <2>1 DEF L
  <2>3. line[p] # Comma
    <3> SUFFICES ASSUME line[p] = Comma PROVE FALSE
      OBVIOUS
    <3>1. PICK j \in 1 .. Len(cs) : cs[j] = p
      BY <1>1, <2>1 DEF AreCommas
    <3>2. j \in Nat /\ k \in Nat /\ cs[j] \in Int
      BY <1>2
    <3>3. CASE j < k
      <4>1. k - 1 \in 1 .. Len(cs) /\ a = cs[k - 1] + 1 /\ cs[k - 1] \in Int
        BY <1>2, <1>4, <1>5, <3>2, <3>3
      <4>2. j = k - 1 \/ cs[j] < cs[k - 1]
        BY <1>1, <3>2, <3>3, <4>1 DEF AreCommas
      <4>3. cs[j] <= cs[k - 1]
        BY <3>2, <4>1, <4>2
      <4>4. QED
        BY <1>6, <3>1, <3>2, <4>1, <4>3
    <3>4. CASE ~(j < k)
      <4>1. k \in 1 .. Len(cs) /\ b = cs[k] - 1 /\ cs[k] \in Int
        BY <1>2, <1>4, <1>5, <3>2, <3>4
      <4>2. j = k \/ cs[k] < cs[j]
        BY <1>1, <3>2, <3>4, <4>1 DEF AreCommas
      <4>3. cs[k] <= cs[j]
        BY <3>2, <4>1, <4>2
      <4>4. QED
        BY <1>6, <3>1, <3>2, <4>1, <4>3
    <3>5. QED
      BY <3>3, <3>4
  <2>4. QED
    BY <2>2, <2>3
<1>8. SubSeq(line, a, b) \in Seq(P \ {Comma})
  <2> DEFINE Q == P \ {Comma}
  <2>1. \A p \in a .. b : line[p] \in Q
    BY <1>7
  <2>2. a \in Int /\ b \in Int
    BY <1>2, <1>6
  <2> HIDE DEF Q
  <2>3. SubSeq(line, a, b) \in Seq(Q)
    BY <2>1, <2>2, SubSeqProperties
  <2>4. QED
    BY <2>3 DEF Q
<1>9. QED
  BY <1>3, <1>8

(* What is wrong with field i, if anything.                                *)
FaultOf(line, T, i) ==
  IF i > Len(SplitOf(line)) THEN "FieldNotFound"
  ELSE Fault(KindOf[WireFields[T][i]], SplitOf(line)[i])

(* In terms of the line alone.                                             *)
LEMMA LineFacts ==
  /\ Split = SplitOf(csvLine)
  /\ \A T, i : FaultAt(T, i) = FaultOf(csvLine, T, i)
BY DEF Split, SplitOf, FaultAt, FaultOf

(* Where the fields of a constructor under way begin in the target.        *)
BaseOf(frame) ==
  frame.fieldIdx - OffsetsOf(frame.struct)[frame.next - 1]

(* They are fields of the target.                                          *)
Placed(frame, T) ==
  /\ frame.next \in 1 .. Len(Members[frame.struct]) + 1
  /\ BaseOf(frame) \in Nat
  /\ BaseOf(frame) + FieldCount[frame.struct] <= FieldCount[T]
  /\ \A j \in 1 .. FieldCount[frame.struct] :
       WireFields[T][BaseOf(frame) + j] = WireFields[frame.struct][j]

Frames == [struct : Structs, next : Nat, fieldIdx : Nat]

FramesPlaced ==
  /\ target \in Structs \cup {""}
  /\ frames \in Seq(Frames)
  /\ \A i \in 1 .. Len(frames) : Placed(frames[i], target)
  /\ \A i \in 1 .. Len(frames) - 1 :
       BaseOf(frames[i + 1]) + FieldCount[frames[i + 1].struct]
         = frames[i].fieldIdx
  /\ frames # <<>> =>
       /\ target \in Structs /\ error = NoError
       /\ frames[1].struct = target /\ BaseOf(frames[1]) = 0
       /\ frames[Len(frames)].fieldIdx = Len(values)

(* What has been populated are the first fields of the line, all good.     *)
ValuesRead ==
  /\ values \in Seq(Seq(Pieces \ {Comma}))
  /\ Len(values) <= Len(SplitOf(csvLine))
  /\ \A i \in 1 .. Len(values) : values[i] = SplitOf(csvLine)[i]
  /\ target # "" => \A i \in 1 .. Len(values) :
                      FaultOf(csvLine, target, i) = "none"

EndedAtFault ==
  /\ Len(values) < FieldCount[target]
  /\ FaultOf(csvLine, target, Len(values) + 1) # "none"
  /\ error = [kind |-> FaultOf(csvLine, target, Len(values) + 1),
              fieldIndex |-> Len(values)]

EndedWell == error = NoError /\ Len(values) = FieldCount[target]

Ended ==
  /\ target = "" => frames = <<>> /\ error = NoError
  /\ frames = <<>> /\ target # "" => EndedWell \/ EndedAtFault

ReaderInv == CacheInv /\ FramesPlaced /\ ValuesRead /\ Ended

(* The constructor when it has done its next member.                       *)
Advanced(frame) ==
  [struct |-> frame.struct, next |-> frame.next + 1,
   fieldIdx |-> frame.fieldIdx
                  + FieldCount[Members[frame.struct][frame.next]]]

(* The next member of a constructor is the next field, or fields, of the   *)
(* target.                                                                 *)
LEMMA NextMember ==
  ASSUME NEW T \in Structs, NEW fr \in Frames, Placed(fr, T),
         fr.next <= Len(Members[fr.struct])
  PROVE  /\ Members[fr.struct][fr.next] \in AllMembers
         /\ fr.fieldIdx + FieldCount[Members[fr.struct][fr.next]]
              <= BaseOf(fr) + FieldCount[fr.struct]
         /\ \A j \in 1 .. FieldCount[Members[fr.struct][fr.next]] :
              WireFields[T][fr.fieldIdx + j]
                = WireFields[Members[fr.struct][fr.next]][j]
         /\ Advanced(fr) \in Frames /\ Placed(Advanced(fr), T)
         /\ BaseOf(Advanced(fr)) = BaseOf(fr)
<1> DEFINE S == fr.struct
           n == fr.next
           m == Members[S][n]
           off == OffsetsOf(S)
           gr == Advanced(fr)
<1>1. S \in Structs /\ n \in 1 .. Len(Members[S]) /\ Len(Members[S]) \in Nat
      /\ fr.fieldIdx \in Nat /\ n \in Nat
  <2>1. S \in Structs /\ n \in Nat /\ fr.fieldIdx \in Nat
    BY DEF Frames
  <2>2. Len(Members[S]) \in Nat
    BY <2>1, DepthFacts
  <2>3. QED
    BY <2>1, <2>2 DEF Placed
<1>2. m \in AllMembers /\ FieldCount[m] \in Nat /\ FieldCount[S] \in Nat
  BY <1>1, DepthFacts, LayoutFacts
<1>3. /\ off[n - 1] \in Nat
      /\ off[n] = off[n - 1] + FieldCount[m]
      /\ off[n] <= FieldCount[S]
      /\ \A j \in 1 .. FieldCount[m] :
           WireFields[S][off[n - 1] + j] = WireFields[m][j]
  BY <1>1, OffsetsExist DEF AreOffsets
<1>4. /\ BaseOf(fr) = fr.fieldIdx - off[n - 1] /\ BaseOf(fr) \in Nat
      /\ \A j \in 1 .. FieldCount[S] :
           WireFields[T][BaseOf(fr) + j] = WireFields[S][j]
      /\ BaseOf(fr) + FieldCount[S] <= FieldCount[T]
  BY DEF BaseOf, Placed
<1>5. /\ gr.struct = S /\ gr.next = n + 1
      /\ gr.fieldIdx = fr.fieldIdx + FieldCount[m]
  BY DEF Advanced
<1>6. gr \in Frames
  BY <1>1, <1>2 DEF Advanced, Frames
<1> HIDE DEF S, n, m, off, gr
<1>7. (n + 1) - 1 = n
  BY <1>1
<1>8. BaseOf(gr) = BaseOf(fr)
  BY <1>1, <1>2, <1>3, <1>4, <1>5, <1>7 DEF BaseOf, off
<1>9. Placed(gr, T)
  <2>1. gr.next \in 1 .. Len(Members[S]) + 1
    BY <1>1, <1>5
  <2>2. QED
    BY <1>4, <1>5, <1>8, <2>1 DEF Placed
<1>10. ASSUME NEW j \in 1 .. FieldCount[m]
       PROVE  WireFields[T][fr.fieldIdx + j] = WireFields[m][j]
  <2>1. off[n - 1] + j \in 1 .. FieldCount[S]
    BY <1>2, <1>3
  <2>2. WireFields[T][BaseOf(fr) + (off[n - 1] + j)]
          = WireFields[S][off[n - 1] + j]
    BY <1>4, <2>1
  <2>3. BaseOf(fr) + (off[n - 1] + j) = fr.fieldIdx + j
    BY <1>1, <1>3, <1>4
  <2>4. QED
    BY <1>3, <2>2, <2>3
<1>11. fr.fieldIdx + FieldCount[m] <= BaseOf(fr) + FieldCount[S]
  BY <1>1, <1>2, <1>3, <1>4
<1>12. QED
  BY <1>2, <1>6, <1>8, <1>9, <1>10, <1>11 DEF S, n, m, gr

(* All but the last of a sequence.                                         *)
LEMMA FrontFacts ==
  ASSUME NEW P, NEW s \in Seq(P), s # <<>>
  PROVE  /\ Front(s) \in Seq(P) /\ Len(Front(s)) = Len(s) - 1
         /\ \A i \in 1 .. Len(s) - 1 : Front(s)[i] = s[i]
<1>1. Len(s) \in Nat /\ Len(s) >= 1
  OBVIOUS
<1>2. \A i \in 1 .. Len(s) - 1 : s[i] \in P
  BY <1>1
<1>3. Front(s) = SubSeq(s, 1, Len(s) - 1)
  BY DEF Front
<1> DEFINE n == Len(s) - 1
<1>4. n \in Nat /\ 1 \in Int /\ n \in Int
  BY <1>1
<1> HIDE DEF n
<1>5. /\ SubSeq(s, 1, n) \in Seq(P)
      /\ Len(SubSeq(s, 1, n)) = IF 1 <= n THEN n - 1 + 1 ELSE 0
      /\ \A i \in 1 .. n - 1 + 1 : SubSeq(s, 1, n)[i] = s[1 + i - 1]
  BY <1>2, <1>4, SubSeqProperties DEF n
<1>6. Len(SubSeq(s, 1, n)) = n
  BY <1>4, <1>5
<1>7. \A i \in 1 .. n : SubSeq(s, 1, n)[i] = s[i]
  <2> TAKE i \in 1 .. n
  <2>1. i \in 1 .. n - 1 + 1 /\ 1 + i - 1 = i
    BY <1>4
  <2>2. QED
    BY <1>5, <2>1
<1>8. QED
  BY <1>3, <1>5, <1>6, <1>7 DEF n

(* A constructor that starts at offset k.                                  *)
LEMMA FrameStarts ==
  ASSUME NEW T \in Structs, NEW S \in Structs, NEW k \in Nat,
         k + FieldCount[S] <= FieldCount[T],
         \A j \in 1 .. FieldCount[S] :
           WireFields[T][k + j] = WireFields[S][j]
  PROVE  /\ [struct |-> S, next |-> 1, fieldIdx |-> k] \in Frames
         /\ Placed([struct |-> S, next |-> 1, fieldIdx |-> k], T)
         /\ BaseOf([struct |-> S, next |-> 1, fieldIdx |-> k]) = k
<1> DEFINE fr == [struct |-> S, next |-> 1, fieldIdx |-> k]
<1>1. fr \in Frames /\ fr.struct = S /\ fr.next = 1 /\ fr.fieldIdx = k
  BY DEF Frames
<1> HIDE DEF fr
<1>2. OffsetsOf(S)[0] = 0 /\ Len(Members[S]) \in Nat
  BY OffsetsExist, DepthFacts DEF AreOffsets
<1>3. BaseOf(fr) = k
  BY <1>1, <1>2 DEF BaseOf
<1>4. Placed(fr, T)
  BY <1>1, <1>2, <1>3 DEF Placed
<1>5. QED
  BY <1>1, <1>3, <1>4 DEF fr

(* What GetField leaves in the reader is the cache of the same line.       *)
LEMMA CacheKeeps ==
  ASSUME CacheInv, NEW n \in Nat, Cache(n)
  PROVE  CacheInv' /\ csvLine' = csvLine
<1> DEFINE c == Scan(commaPositions, n)
<1>1. csvLine' = csvLine /\ commaPositions' = c
      /\ exhausted' = (exhausted \/ Len(commaPositions') <= n)
  BY DEF Cache
<1>2. /\ Begins(c, Commas(csvLine))
      /\ Len(c) > n \/ Len(c) = Len(Commas(csvLine))
      /\ exhausted => c = commaPositions
  BY ScanKeepsCache DEF Scan
<1>3. Begins(commaPositions', Commas(csvLine'))
  BY <1>1, <1>2
<1>4. Len(c) \in Nat
  BY <1>2 DEF Begins
<1>5. exhausted' => Len(commaPositions') = Len(Commas(csvLine'))
  <2>1. CASE exhausted
    BY <1>1, <1>2, <2>1 DEF CacheInv
  <2>2. CASE ~exhausted
    <3> SUFFICES ASSUME exhausted'
                 PROVE  Len(commaPositions') = Len(Commas(csvLine'))
      OBVIOUS
    <3>1. Len(commaPositions') <= n
      BY <1>1, <2>2, Zenon
    <3> HIDE DEF c
    <3>2. QED
      BY <1>1, <1>2, <1>4, <3>1
  <2>3. QED
    BY <2>1, <2>2
<1>6. exhausted' \in BOOLEAN
  BY <1>1 DEF CacheInv
<1>7. QED
  BY <1>1, <1>3, <1>5, <1>6 DEF CacheInv

(* A field looked at leaves the constructors alone.                        *)
LEMMA GetFieldKeeps ==
  ASSUME ReaderInv, NEW n \in Nat, GetField(n)
  PROVE  ReaderInv'
<1>1. CacheInv' /\ csvLine' = csvLine
  BY CacheKeeps DEF ReaderInv, GetField
<1>2. UNCHANGED <<target, frames, values, error>>
  BY DEF GetField
<1>3. FramesPlaced'
  BY <1>2 DEF ReaderInv, FramesPlaced
<1>4. ValuesRead'
  BY <1>1, <1>2 DEF ReaderInv, ValuesRead
<1>5. Ended'
  BY <1>1, <1>2 DEF ReaderInv, Ended, EndedWell, EndedAtFault
<1>6. QED
  BY <1>1, <1>3, <1>4, <1>5 DEF ReaderInv

(* A structure begun has read nothing.                                     *)
LEMMA ConstructKeeps ==
  ASSUME ReaderInv, NEW T \in Structs, Construct(T)
  PROVE  ReaderInv'
<1> DEFINE fr == [struct |-> T, next |-> 1, fieldIdx |-> 0]
<1>1. /\ target' = T /\ frames' = <<fr>> /\ values' = <<>>
      /\ error' = NoError
      /\ UNCHANGED <<csvLine, commaPositions, exhausted>>
  BY DEF Construct
<1>2. CacheInv'
  BY <1>1 DEF ReaderInv, CacheInv
<1>3. T \in AllMembers /\ FieldCount[T] \in Nat /\ T # ""
  BY DepthFacts, LayoutFacts, CsvAssumption
<1>4. fr \in Frames /\ Placed(fr, T) /\ BaseOf(fr) = 0
  <2> DEFINE k == FieldCount[T]
  <2>1. k \in Nat
    BY <1>3
  <2> HIDE DEF k
  <2>2. \A j \in 1 .. k : 0 + j = j
    BY <2>1
  <2>3. \A j \in 1 .. k : WireFields[T][0 + j] = WireFields[T][j]
    BY <2>2
  <2>4. 0 + k <= k
    BY <2>1
  <2>5. QED
    BY <2>3, <2>4, FrameStarts DEF k
<1>5. fr.struct = T /\ fr.fieldIdx = 0
  OBVIOUS
<1> HIDE DEF fr
<1>6. FramesPlaced'
  <2>1. /\ frames' \in Seq(Frames) /\ Len(frames') = 1 /\ frames'[1] = fr
        /\ Len(values') = 0
    BY <1>1, <1>4
  <2>2. \A i \in 1 .. Len(frames') : Placed(frames'[i], target')
    BY <1>1, <1>4, <2>1
  <2>3. 1 .. Len(frames') - 1 = {}
    BY <2>1
  <2>4. QED
    BY <1>1, <1>4, <1>5, <2>1, <2>2, <2>3 DEF FramesPlaced
<1>7. ValuesRead'
  <2>1. SplitOf(csvLine) \in Seq(Seq(Pieces))
    BY SplitIsBetweenCommas DEF ReaderInv, CacheInv
  <2>2. /\ values' \in Seq(Seq(Pieces \ {Comma})) /\ Len(values') = 0
        /\ 1 .. 0 = {}
    BY <1>1
  <2>3. Len(SplitOf(csvLine)) \in Nat
    BY <2>1
  <2>4. QED
    BY <1>1, <2>2, <2>3 DEF ValuesRead
<1>8. Ended'
  BY <1>1, <1>3 DEF Ended
<1>9. QED
  BY <1>2, <1>6, <1>7, <1>8 DEF ReaderInv

(* The constructors under way when the innermost goes on: its frame is     *)
(* replaced by one that has the same base.                                 *)
LEMMA FramesAdvance ==
  ASSUME FramesPlaced, Populating
  PROVE  /\ Stepped \in Seq(Frames) /\ Len(Stepped) = Len(frames)
         /\ Len(frames) \in Nat /\ Len(frames) >= 1
         /\ Stepped[Len(frames)] = Advanced(Last(frames))
         /\ \A i \in 1 .. Len(frames) - 1 : Stepped[i] = frames[i]
         /\ \A i \in 1 .. Len(frames) :
              /\ Placed(Stepped[i], target)
              /\ BaseOf(Stepped[i]) = BaseOf(frames[i])
              /\ Stepped[i].struct = frames[i].struct
         /\ Last(frames) \in Frames /\ Placed(Last(frames), target)
         /\ target \in Structs /\ Last(frames).fieldIdx = Len(values)
<1> DEFINE n == Len(frames)
           fr == frames[n]
<1>1. frames \in Seq(Frames) /\ frames # <<>> /\ target \in Structs
  BY DEF FramesPlaced, Populating
<1>2. n \in Nat /\ n >= 1 /\ n \in 1 .. n /\ fr \in Frames
  BY <1>1
<1>3. Last(frames) = fr
  BY DEF Last
<1>4. Placed(fr, target) /\ fr.fieldIdx = Len(values)
  BY <1>1, <1>2 DEF FramesPlaced
<1>5. fr.next <= Len(Members[fr.struct])
  BY <1>3 DEF Populating
<1>6. Stepped = [frames EXCEPT ![n] = Advanced(fr)]
  BY <1>3 DEF Stepped, Advanced, Member
<1>7. /\ Advanced(fr) \in Frames /\ Placed(Advanced(fr), target)
      /\ BaseOf(Advanced(fr)) = BaseOf(fr)
      /\ Advanced(fr).struct = fr.struct
  BY <1>1, <1>2, <1>4, <1>5, NextMember DEF Advanced
<1> HIDE DEF n, fr
<1>8. /\ Stepped \in Seq(Frames) /\ Len(Stepped) = n
      /\ \A i \in 1 .. n : Stepped[i] = IF i = n THEN Advanced(fr)
                                        ELSE frames[i]
  BY <1>1, <1>2, <1>6, <1>7, ExceptSeq DEF n
<1>9. ASSUME NEW i \in 1 .. n
      PROVE  /\ Placed(Stepped[i], target)
             /\ BaseOf(Stepped[i]) = BaseOf(frames[i])
             /\ Stepped[i].struct = frames[i].struct
  <2>1. CASE i = n
    BY <1>7, <1>8, <2>1 DEF fr
  <2>2. CASE i # n
    <3>1. Stepped[i] = frames[i]
      BY <1>8, <2>2
    <3>2. Placed(frames[i], target)
      BY DEF FramesPlaced, n
    <3>3. QED
      BY <3>1, <3>2
  <2>3. QED
    BY <2>1, <2>2
<1>10. \A i \in 1 .. n - 1 : Stepped[i] = frames[i]
  BY <1>2, <1>8
<1>11. Stepped[n] = Advanced(fr)
  BY <1>2, <1>8
<1>12. QED
  BY <1>1, <1>2, <1>3, <1>4, <1>8, <1>9, <1>10, <1>11 DEF n, fr

(* A structure within begins where the next field is.                      *)
LEMMA PopulateStructKeeps ==
  ASSUME ReaderInv, PopulateStruct
  PROVE  ReaderInv'
<1> DEFINE n == Len(frames)
           fr == Last(frames)
           m == Members[fr.struct][fr.next]
           gr == [struct |-> m, next |-> 1, fieldIdx |-> fr.fieldIdx]
<1>1. /\ Populating /\ m \in Structs
      /\ frames' = Append(Stepped, gr)
      /\ UNCHANGED <<csvLine, commaPositions, exhausted, target, values,
                     error>>
  BY DEF PopulateStruct, Member
<1>2. FramesPlaced
  BY DEF ReaderInv
<1>3. /\ Stepped \in Seq(Frames) /\ Len(Stepped) = n
      /\ n \in Nat /\ n >= 1
      /\ Stepped[n] = Advanced(fr)
      /\ \A i \in 1 .. n - 1 : Stepped[i] = frames[i]
      /\ \A i \in 1 .. n :
           /\ Placed(Stepped[i], target)
           /\ BaseOf(Stepped[i]) = BaseOf(frames[i])
           /\ Stepped[i].struct = frames[i].struct
      /\ fr \in Frames /\ Placed(fr, target)
      /\ target \in Structs /\ fr.fieldIdx = Len(values)
  BY <1>1, <1>2, FramesAdvance
<1>4. fr.next <= Len(Members[fr.struct])
  BY <1>1 DEF Populating
<1>5. /\ fr.fieldIdx + FieldCount[m]
           <= BaseOf(fr) + FieldCount[fr.struct]
      /\ \A j \in 1 .. FieldCount[m] :
           WireFields[target][fr.fieldIdx + j] = WireFields[m][j]
  BY <1>3, <1>4, NextMember
<1>6. fr.fieldIdx \in Nat /\ fr.struct \in Structs
  BY <1>3 DEF Frames
<1>7. /\ FieldCount[m] \in Nat /\ FieldCount[fr.struct] \in Nat
      /\ FieldCount[target] \in Nat
  BY <1>1, <1>3, <1>6, DepthFacts, LayoutFacts
<1>8. fr.fieldIdx + FieldCount[m] <= FieldCount[target]
  <2>1. /\ BaseOf(fr) \in Nat
        /\ BaseOf(fr) + FieldCount[fr.struct] <= FieldCount[target]
    BY <1>3 DEF Placed
  <2> DEFINE b == BaseOf(fr)
             f == FieldCount[m]
             i == fr.fieldIdx
             g == FieldCount[fr.struct]
             t == FieldCount[target]
  <2>2. b + g <= t /\ i + f <= b + g
    BY <1>5, <2>1
  <2>3. b \in Nat /\ f \in Nat /\ i \in Nat /\ g \in Nat /\ t \in Nat
    BY <1>6, <1>7, <2>1
  <2> HIDE DEF b, f, i, g, t
  <2>4. i + f <= t
    BY <2>2, <2>3
  <2>5. QED
    BY <2>4 DEF f, i, t
<1>9. gr \in Frames /\ Placed(gr, target) /\ BaseOf(gr) = fr.fieldIdx
  BY <1>1, <1>3, <1>5, <1>6, <1>8, FrameStarts
<1>10. Advanced(fr).fieldIdx = fr.fieldIdx + FieldCount[m]
  BY DEF Advanced
<1>11. gr.struct = m /\ gr.fieldIdx = fr.fieldIdx
  OBVIOUS
<1> HIDE DEF n, fr, m, gr
<1>12. /\ frames' \in Seq(Frames) /\ Len(frames') = n + 1
       /\ \A i \in 1 .. n : frames'[i] = Stepped[i]
       /\ frames'[n + 1] = gr
  BY <1>1, <1>3, <1>9, AppendProperties
<1>13. FramesPlaced'
  <2>1. \A i \in 1 .. Len(frames') : Placed(frames'[i], target')
    <3> TAKE i \in 1 .. Len(frames')
    <3>1. i \in 1 .. n \/ i = n + 1
      BY <1>3, <1>12
    <3>2. QED
      BY <1>1, <1>3, <1>9, <1>12, <3>1
  <2>2. ASSUME NEW i \in 1 .. Len(frames') - 1
        PROVE  BaseOf(frames'[i + 1]) + FieldCount[frames'[i + 1].struct]
                 = frames'[i].fieldIdx
    <3>1. CASE i = n
      <4>1. frames'[i] = Advanced(fr) /\ frames'[i + 1] = gr
        BY <1>3, <1>12, <3>1
      <4>2. QED
        BY <1>9, <1>10, <1>11, <4>1
    <3>2. CASE i # n
      <4>1. i \in 1 .. n - 1 /\ i \in 1 .. n /\ i + 1 \in 1 .. n
        BY <1>3, <1>12, <3>2
      <4>2. frames'[i] = frames[i] /\ frames'[i + 1] = Stepped[i + 1]
        BY <1>3, <1>12, <4>1
      <4>3. BaseOf(frames[i + 1]) + FieldCount[frames[i + 1].struct]
              = frames[i].fieldIdx
        BY <1>2, <4>1 DEF FramesPlaced, n
      <4>4. QED
        BY <1>3, <4>1, <4>2, <4>3
    <3>3. QED
      BY <3>1, <3>2
  <2>3. /\ target' \in Structs /\ error' = NoError
        /\ frames'[1].struct = target' /\ BaseOf(frames'[1]) = 0
    <3>1. /\ frames[1].struct = target /\ BaseOf(frames[1]) = 0
          /\ error = NoError
      BY <1>1, <1>2 DEF FramesPlaced, Populating
    <3>2. 1 \in 1 .. n /\ frames'[1] = Stepped[1]
      BY <1>3, <1>12
    <3>3. QED
      BY <1>1, <1>3, <3>1, <3>2
  <2>4. frames'[Len(frames')].fieldIdx = Len(values')
    BY <1>1, <1>3, <1>11, <1>12
  <2>5. QED
    BY <1>1, <1>3, <1>12, <2>1, <2>2, <2>3, <2>4 DEF FramesPlaced
<1>14. CacheInv'
  BY <1>1 DEF ReaderInv, CacheInv
<1>15. ValuesRead'
  BY <1>1 DEF ReaderInv, ValuesRead
<1>16. Ended'
  <2>1. target' # "" /\ frames' # <<>>
    <3>1. target \in Structs /\ Len(frames') # 0
      BY <1>3, <1>12
    <3>2. QED
      BY <1>1, <3>1, CsvAssumption
  <2>2. QED
    BY <2>1 DEF Ended
<1>17. QED
  BY <1>13, <1>14, <1>15, <1>16 DEF ReaderInv

(* A constructor that ends has read all of its structure.                  *)
LEMMA ConstructedKeeps ==
  ASSUME ReaderInv, Constructed
  PROVE  ReaderInv'
<1> DEFINE n == Len(frames)
           fr == frames[n]
<1>1. /\ frames # <<>> /\ ~Populating
      /\ frames' = Front(frames)
      /\ UNCHANGED <<csvLine, commaPositions, exhausted, target, values,
                     error>>
  BY DEF Constructed
<1>2. FramesPlaced /\ frames \in Seq(Frames)
  BY DEF ReaderInv, FramesPlaced
<1>3. n \in Nat /\ n >= 1 /\ fr \in Frames /\ n \in 1 .. n
  BY <1>1, <1>2
<1>4. Placed(fr, target) /\ target \in Structs /\ error = NoError
  BY <1>1, <1>2, <1>3 DEF FramesPlaced
<1>5. /\ frames[1].struct = target /\ BaseOf(frames[1]) = 0
      /\ fr.fieldIdx = Len(values)
  BY <1>1, <1>2 DEF FramesPlaced
<1>6. BaseOf(fr) + FieldCount[fr.struct] = fr.fieldIdx
  <2> DEFINE S == fr.struct
  <2>1. S \in Structs /\ fr.next \in Nat /\ fr.fieldIdx \in Nat
    BY <1>3 DEF Frames
  <2>2. Len(Members[S]) \in Nat /\ FieldCount[S] \in Nat
    BY <2>1, DepthFacts, LayoutFacts
  <2>3. fr.next = Len(Members[S]) + 1
    <3>1. ~(fr.next <= Len(Members[S]))
      BY <1>1 DEF Populating, Last
    <3>2. fr.next \in 1 .. Len(Members[S]) + 1
      BY <1>4 DEF Placed
    <3>3. QED
      BY <2>1, <2>2, <3>1, <3>2
  <2>4. OffsetsOf(S)[Len(Members[S])] = FieldCount[S]
    BY <2>1, OffsetsExist DEF AreOffsets
  <2>5. fr.next - 1 = Len(Members[S])
    BY <2>2, <2>3
  <2>6. BaseOf(fr) = fr.fieldIdx - FieldCount[S]
    BY <2>4, <2>5 DEF BaseOf
  <2>7. QED
    BY <2>1, <2>2, <2>6
<1> HIDE DEF n, fr
<1>7. /\ frames' \in Seq(Frames) /\ Len(frames') = n - 1
      /\ \A i \in 1 .. n - 1 : frames'[i] = frames[i]
  BY <1>1, <1>2, FrontFacts DEF n
<1>8. FramesPlaced'
  <2>1. \A i \in 1 .. Len(frames') : Placed(frames'[i], target')
    <3> TAKE i \in 1 .. Len(frames')
    <3>1. i \in 1 .. n - 1 /\ i \in 1 .. n
      BY <1>3, <1>7
    <3>2. QED
      BY <1>1, <1>2, <1>7, <3>1 DEF FramesPlaced, n
  <2>2. ASSUME NEW i \in 1 .. Len(frames') - 1
        PROVE  BaseOf(frames'[i + 1]) + FieldCount[frames'[i + 1].struct]
                 = frames'[i].fieldIdx
    <3>1. i \in 1 .. n - 1 /\ i + 1 \in 1 .. n - 1
      BY <1>3, <1>7
    <3>2. QED
      BY <1>2, <1>7, <3>1 DEF FramesPlaced, n
  <2>3. ASSUME frames' # <<>>
        PROVE  /\ frames'[1].struct = target' /\ BaseOf(frames'[1]) = 0
               /\ frames'[Len(frames')].fieldIdx = Len(values')
    <3>1. n - 1 \in 1 .. n - 1 /\ 1 \in 1 .. n - 1
      <4>1. Len(frames') # 0
        BY <1>7, <2>3
      <4>2. QED
        BY <1>3, <1>7, <4>1
    <3>2. BaseOf(frames[(n - 1) + 1])
            + FieldCount[frames[(n - 1) + 1].struct]
              = frames[n - 1].fieldIdx
      BY <1>2, <3>1 DEF FramesPlaced, n
    <3>3. (n - 1) + 1 = n
      BY <1>3
    <3>4. frames[n - 1].fieldIdx = Len(values)
      BY <1>5, <1>6, <3>2, <3>3 DEF fr
    <3>5. QED
      BY <1>1, <1>5, <1>7, <3>1, <3>4
  <2>4. QED
    BY <1>1, <1>4, <1>7, <2>1, <2>2, <2>3 DEF FramesPlaced
<1>9. CacheInv'
  BY <1>1 DEF ReaderInv, CacheInv
<1>10. ValuesRead'
  BY <1>1 DEF ReaderInv, ValuesRead
<1>11. Ended'
  <2>1. target' # ""
    BY <1>1, <1>4, CsvAssumption
  <2>2. ASSUME frames' = <<>>
        PROVE  EndedWell'
    <3>1. n = 1
      <4>1. Len(frames') = 0
        BY <2>2
      <4>2. QED
        BY <1>3, <1>7, <4>1
    <3>2. fr.struct = target /\ BaseOf(fr) = 0
      BY <1>5, <3>1 DEF fr
    <3>3. FieldCount[target] \in Nat
      BY <1>4, DepthFacts, LayoutFacts
    <3>4. Len(values) = FieldCount[target]
      BY <1>5, <1>6, <3>2, <3>3
    <3>5. QED
      BY <1>1, <1>4, <3>4 DEF EndedWell
  <2>3. QED
    BY <2>1, <2>2 DEF Ended
<1>12. QED
  BY <1>8, <1>9, <1>10, <1>11 DEF ReaderInv

(* A field is the next of the line, and of the target, or there is an      *)
(* error.                                                                  *)
LEMMA PopulateFieldKeeps ==
  ASSUME ReaderInv, PopulateField
  PROVE  ReaderInv'
<1> DEFINE n == Len(frames)
           fr == Last(frames)
           m == Members[fr.struct][fr.next]
           idx == fr.fieldIdx
           fs == SplitOf(csvLine)
<1>1. Populating /\ m \in Fields /\ Cache(idx) /\ UNCHANGED target
  BY DEF PopulateField, Member
<1>2. FramesPlaced /\ CacheInv /\ ValuesRead
  BY DEF ReaderInv
<1>3. /\ Stepped \in Seq(Frames) /\ Len(Stepped) = n
      /\ n \in Nat /\ n >= 1
      /\ Stepped[n] = Advanced(fr)
      /\ \A i \in 1 .. n - 1 : Stepped[i] = frames[i]
      /\ \A i \in 1 .. n :
           /\ Placed(Stepped[i], target)
           /\ BaseOf(Stepped[i]) = BaseOf(frames[i])
           /\ Stepped[i].struct = frames[i].struct
      /\ fr \in Frames /\ Placed(fr, target)
      /\ target \in Structs /\ idx = Len(values)
  BY <1>1, <1>2, FramesAdvance
<1>4. fr.next <= Len(Members[fr.struct])
  BY <1>1 DEF Populating
<1>5. idx \in Nat /\ fr.struct \in Structs
  BY <1>3 DEF Frames
<1>6. /\ FieldCount[m] = 1 /\ WireFields[m] = <<m>>
      /\ FieldCount[fr.struct] \in Nat /\ FieldCount[target] \in Nat
  BY <1>1, <1>3, <1>5, DepthFacts, LayoutFacts DEF AllMembers
<1>7. /\ idx + FieldCount[m] <= BaseOf(fr) + FieldCount[fr.struct]
      /\ \A j \in 1 .. FieldCount[m] :
           WireFields[target][idx + j] = WireFields[m][j]
  BY <1>3, <1>4, NextMember
<1>8. WireFields[target][idx + 1] = m
  <2>1. 1 \in 1 .. FieldCount[m] /\ WireFields[m][1] = m
    BY <1>6
  <2>2. QED
    BY <1>7, <2>1
<1>9. idx + 1 <= FieldCount[target]
  <2>1. /\ BaseOf(fr) \in Nat
        /\ BaseOf(fr) + FieldCount[fr.struct] <= FieldCount[target]
    BY <1>3 DEF Placed
  <2> DEFINE b == BaseOf(fr)
             i == fr.fieldIdx
             g == FieldCount[fr.struct]
             t == FieldCount[target]
  <2>2. b + g <= t /\ i + 1 <= b + g
    BY <1>6, <1>7, <2>1
  <2>3. b \in Nat /\ i \in Nat /\ g \in Nat /\ t \in Nat
    BY <1>5, <1>6, <2>1
  <2> HIDE DEF b, i, g, t
  <2>4. i + 1 <= t
    BY <2>2, <2>3
  <2>5. QED
    BY <2>4 DEF i, t
<1>10. Advanced(fr).fieldIdx = idx + 1
  BY <1>6 DEF Advanced
<1>11. CacheInv' /\ csvLine' = csvLine
  BY <1>1, <1>2, <1>5, CacheKeeps
<1>12. Answer(idx) = IF idx < Len(fs) THEN {fs[idx + 1]} ELSE {}
  BY <1>2, <1>5, AnswerIsOfSplit
<1>13. /\ Len(fs) \in Nat
       /\ \A k \in 1 .. Len(fs) : fs[k] \in Seq(Pieces \ {Comma})
  <2>1. csvLine \in Seq(Pieces)
    BY <1>2 DEF CacheInv
  <2>2. fs \in Seq(Seq(Pieces))
    BY <2>1, SplitIsBetweenCommas
  <2>3. Len(fs) \in Nat
    BY <2>2
  <2>4. \A k \in 1 .. Len(fs) : fs[k] \in Seq(Pieces \ {Comma})
    <3> DEFINE P == Pieces
    <3>1. csvLine \in Seq(P)
      BY <2>1
    <3> HIDE DEF P
    <3>2. \A k \in 1 .. Len(SplitOf(csvLine)) :
            SplitOf(csvLine)[k] \in Seq(P \ {Comma})
      BY <3>1, FieldsHaveNoComma
    <3>3. QED
      BY <3>2 DEF P
  <2>5. QED
    BY <2>3, <2>4
<1>14. /\ values \in Seq(Seq(Pieces \ {Comma})) /\ Len(values) <= Len(fs)
       /\ \A i \in 1 .. Len(values) : values[i] = fs[i]
       /\ \A i \in 1 .. Len(values) : FaultOf(csvLine, target, i) = "none"
  BY <1>2, <1>3, CsvAssumption DEF ValuesRead
<1>15. FaultOf(csvLine, target, idx + 1)
         = IF idx < Len(fs) THEN Fault(KindOf[m], fs[idx + 1])
           ELSE "FieldNotFound"
  <2>1. idx + 1 > Len(fs) <=> ~(idx < Len(fs))
    BY <1>5, <1>13
  <2>2. QED
    BY <1>8, <2>1 DEF FaultOf
<1>16. target # "" /\ target' = target
  BY <1>1, <1>3, CsvAssumption
<1>17. \/ /\ ~(idx < Len(fs)) /\ Throw("FieldNotFound", idx)
       \/ /\ idx < Len(fs) /\ Fault(KindOf[m], fs[idx + 1]) # "none"
          /\ Throw(Fault(KindOf[m], fs[idx + 1]), idx)
       \/ /\ idx < Len(fs) /\ Fault(KindOf[m], fs[idx + 1]) = "none"
          /\ values' = Append(values, fs[idx + 1])
          /\ frames' = Stepped
          /\ UNCHANGED error
  <2>1. \/ Answer(idx) = {} /\ Throw("FieldNotFound", idx)
        \/ \E text \in Answer(idx) :
             \/ /\ Fault(KindOf[m], text) # "none"
                /\ Throw(Fault(KindOf[m], text), idx)
             \/ /\ Fault(KindOf[m], text) = "none"
                /\ values' = Append(values, text)
                /\ frames' = Stepped
                /\ UNCHANGED error
    BY DEF PopulateField, Member
  <2> HIDE DEF fs, idx, m
  <2>2. CASE idx < Len(fs)
    <3>1. Answer(idx) = {fs[idx + 1]}
      BY <1>12, <2>2
    <3>2. QED
      BY <2>1, <2>2, <3>1, Zenon
  <2>3. CASE ~(idx < Len(fs))
    <3>1. Answer(idx) = {}
      BY <1>12, <2>3
    <3>2. QED
      BY <2>1, <2>3, <3>1, Zenon
  <2>4. QED
    BY <2>2, <2>3
<1> HIDE DEF n, fr, m, idx, fs
<1>18. ASSUME FaultOf(csvLine, target, idx + 1) # "none",
              Throw(FaultOf(csvLine, target, idx + 1), idx)
       PROVE  ReaderInv'
  <2>1. /\ error' = [kind |-> FaultOf(csvLine, target, idx + 1),
                     fieldIndex |-> idx]
        /\ frames' = <<>> /\ values' = values
    BY <1>18 DEF Throw
  <2>2. FramesPlaced'
    <3>1. /\ frames' \in Seq(Frames) /\ Len(frames') = 0
          /\ 1 .. 0 = {} /\ 1 .. 0 - 1 = {}
      BY <2>1
    <3>2. QED
      BY <1>3, <1>16, <2>1, <3>1 DEF FramesPlaced
  <2>3. ValuesRead'
    BY <1>11, <1>14, <1>16, <2>1 DEF ValuesRead, fs
  <2>4. Ended'
    <3>1. EndedAtFault'
      <4>1. Len(values') = idx /\ idx < FieldCount[target']
        <5>1. Len(values') = idx
          BY <1>3, <2>1
        <5> DEFINE t == FieldCount[target]
        <5>2. idx \in Nat /\ t \in Nat /\ idx + 1 <= t
          BY <1>5, <1>6, <1>9
        <5> HIDE DEF t
        <5>3. idx < t
          BY <5>2
        <5>4. QED
          BY <1>16, <5>1, <5>3 DEF t
      <4>2. FaultOf(csvLine', target', Len(values') + 1)
              = FaultOf(csvLine, target, idx + 1)
        BY <1>11, <1>16, <4>1
      <4>3. QED
        BY <1>18, <2>1, <4>1, <4>2 DEF EndedAtFault
    <3>2. QED
      BY <1>16, <3>1 DEF Ended
  <2>5. QED
    BY <1>11, <2>2, <2>3, <2>4 DEF ReaderInv
<1>19. ASSUME idx < Len(fs), Fault(KindOf[m], fs[idx + 1]) = "none",
              values' = Append(values, fs[idx + 1]), frames' = Stepped,
              error' = error
       PROVE  ReaderInv'
  <2>1. idx + 1 \in 1 .. Len(fs) /\ fs[idx + 1] \in Seq(Pieces \ {Comma})
    BY <1>5, <1>13, <1>19
  <2>2. /\ values' \in Seq(Seq(Pieces \ {Comma})) /\ Len(values') = idx + 1
        /\ \A i \in 1 .. idx : values'[i] = values[i]
        /\ values'[idx + 1] = fs[idx + 1]
    <3> DEFINE V == Seq(Pieces \ {Comma})
    <3>1. values \in Seq(V) /\ fs[idx + 1] \in V
      BY <1>14, <2>1
    <3> HIDE DEF V
    <3>2. QED
      BY <1>3, <1>19, <3>1, AppendProperties DEF V
  <2>3. FaultOf(csvLine, target, idx + 1) = "none"
    BY <1>15, <1>19
  <2>4. ASSUME NEW i \in 1 .. Len(values')
        PROVE  /\ values'[i] = fs[i]
               /\ FaultOf(csvLine, target, i) = "none"
    <3>1. i \in 1 .. idx \/ i = idx + 1
      BY <1>5, <2>2
    <3>2. QED
      BY <1>3, <1>14, <2>2, <2>3, <3>1
  <2>5. ValuesRead'
    <3>1. Len(values') <= Len(fs)
      BY <2>1, <2>2
    <3>2. QED
      BY <1>11, <1>16, <2>2, <2>4, <3>1 DEF ValuesRead, fs
  <2>6. FramesPlaced'
    <3>1. \A i \in 1 .. Len(frames') : Placed(frames'[i], target')
      BY <1>3, <1>16, <1>19
    <3>2. ASSUME NEW i \in 1 .. Len(frames') - 1
          PROVE  BaseOf(frames'[i + 1]) + FieldCount[frames'[i + 1].struct]
                   = frames'[i].fieldIdx
      <4>1. i \in 1 .. n - 1 /\ i + 1 \in 1 .. n
        BY <1>3, <1>19
      <4>2. BaseOf(frames[i + 1]) + FieldCount[frames[i + 1].struct]
              = frames[i].fieldIdx
        BY <1>2, <4>1 DEF FramesPlaced, n
      <4>3. QED
        BY <1>3, <1>19, <4>1, <4>2
    <3>3. /\ target' \in Structs /\ error' = NoError
          /\ frames'[1].struct = target' /\ BaseOf(frames'[1]) = 0
      <4>1. /\ frames[1].struct = target /\ BaseOf(frames[1]) = 0
            /\ error = NoError
        BY <1>1, <1>2 DEF FramesPlaced, Populating
      <4>2. 1 \in 1 .. n
        BY <1>3
      <4>3. QED
        BY <1>3, <1>16, <1>19, <4>1, <4>2
    <3>4. frames'[Len(frames')].fieldIdx = Len(values')
      BY <1>3, <1>10, <1>19, <2>2
    <3>5. QED
      BY <1>3, <1>19, <3>1, <3>2, <3>3, <3>4 DEF FramesPlaced
  <2>7. Ended'
    <3>1. frames' # <<>>
      <4>1. Len(frames') # 0
        BY <1>3, <1>19
      <4>2. QED
        BY <4>1
    <3>2. QED
      BY <1>16, <3>1 DEF Ended
  <2>8. QED
    BY <1>11, <2>5, <2>6, <2>7 DEF ReaderInv
<1>20. QED
  <2>1. CASE ~(idx < Len(fs)) /\ Throw("FieldNotFound", idx)
    <3>1. FaultOf(csvLine, target, idx + 1) = "FieldNotFound"
      BY <1>15, <2>1
    <3>2. QED
      BY <1>18, <2>1, <3>1
  <2>2. CASE /\ idx < Len(fs) /\ Fault(KindOf[m], fs[idx + 1]) # "none"
             /\ Throw(Fault(KindOf[m], fs[idx + 1]), idx)
    <3>1. FaultOf(csvLine, target, idx + 1) = Fault(KindOf[m], fs[idx + 1])
      BY <1>15, <2>2
    <3>2. QED
      BY <1>18, <2>2, <3>1
  <2>3. CASE /\ idx < Len(fs) /\ Fault(KindOf[m], fs[idx + 1]) = "none"
             /\ values' = Append(values, fs[idx + 1])
             /\ frames' = Stepped
             /\ UNCHANGED error
    BY <1>19, <2>3
  <2>4. QED
    BY <1>17, <2>1, <2>2, <2>3

(* A step of the constructors.                                             *)
LEMMA ConstructionKeeps ==
  ASSUME ReaderInv, Construction
  PROVE  ReaderInv'
BY PopulateFieldKeeps, PopulateStructKeeps, ConstructedKeeps DEF Construction

(* What the reader promises follows.                                       *)
LEMMA AnswersFollow == ReaderInv => AnswersAgreeWithSplit
<1> SUFFICES ASSUME ReaderInv PROVE AnswersAgreeWithSplit
  OBVIOUS
<1>1. CacheInv /\ FieldNums \subseteq Nat
  BY CsvAssumption DEF ReaderInv
<1>2. \A n \in FieldNums :
        Answer(n) = IF n < Len(SplitOf(csvLine))
                      THEN {SplitOf(csvLine)[n + 1]} ELSE {}
  BY <1>1, AnswerIsOfSplit
<1>3. QED
  BY <1>2, LineFacts DEF AnswersAgreeWithSplit

(* A function from 1 .. n is a sequence.                                   *)
LEMMA SequenceOf ==
  ASSUME NEW P, NEW n \in Nat, NEW s \in [1 .. n -> P]
  PROVE  s \in Seq(P)
BY SeqDef, Zenon

(* What has been populated, member by member.                              *)
LEMMA ValuesAre ==
  ASSUME ReaderInv
  PROVE  /\ values \in Seq(Seq(Pieces \ {Comma})) /\ Len(values) \in Nat
         /\ values \in [1 .. Len(values) -> Seq(Pieces \ {Comma})]
         /\ \A i \in 1 .. Len(values) :
              /\ values[i] \in Seq(Pieces \ {Comma})
              /\ values[i] = SplitOf(csvLine)[i]
         /\ Len(values) <= Len(SplitOf(csvLine))
         /\ target # "" => \A i \in 1 .. Len(values) :
                             FaultOf(csvLine, target, i) = "none"
<1> DEFINE V == Seq(Pieces \ {Comma})
<1>1. ValuesRead
  BY DEF ReaderInv
<1>2. values \in Seq(V)
  BY <1>1 DEF ValuesRead
<1> HIDE DEF V
<1>3. /\ Len(values) \in Nat /\ values \in [1 .. Len(values) -> V]
      /\ \A i \in 1 .. Len(values) : values[i] \in V
  BY <1>2
<1>4. QED
  BY <1>1, <1>2, <1>3 DEF ValuesRead, V

(* If the first n are good and the next is not, it is the first bad one.   *)
LEMMA FirstBad ==
  ASSUME NEW n \in Nat, NEW t \in Nat, NEW faulty,
         \A i \in 1 .. n : i \notin faulty
  PROVE  /\ n = t => {i \in 1 .. t : i \in faulty} = {}
         /\ n < t /\ n + 1 \in faulty =>
              /\ {i \in 1 .. t : i \in faulty} # {}
              /\ Min({i \in 1 .. t : i \in faulty}) = n + 1
<1> DEFINE bad == {i \in 1 .. t : i \in faulty}
<1>1. n = t => bad = {}
  OBVIOUS
<1>2. ASSUME n < t, n + 1 \in faulty
      PROVE  bad # {} /\ Min(bad) = n + 1
  <2>1. n + 1 \in bad
    BY <1>2
  <2>2. \A i \in bad : i \in Nat /\ n + 1 <= i
    OBVIOUS
  <2> HIDE DEF bad
  <2>3. ASSUME NEW x \in bad, \A y \in bad : x <= y
        PROVE  x = n + 1
    <3>1. x <= n + 1 /\ n + 1 <= x /\ x \in Nat
      BY <2>1, <2>2, <2>3
    <3>2. QED
      BY <3>1
  <2>4. QED
    BY <2>1, <2>2, <2>3 DEF Min
<1>3. QED
  BY <1>1, <1>2

(* The numbers 1 to n, and the next, are natural numbers.                  *)
LEMMA Numbering ==
  ASSUME NEW n \in Nat
  PROVE  n + 1 \in Nat /\ 1 .. n \subseteq Nat
OBVIOUS

(* The first bad field of a structure that has ended.                      *)
LEMMA BadFieldsAre ==
  ASSUME ReaderInv, frames = <<>>, target # ""
  PROVE  /\ BadFields(target) = {} => EndedWell
         /\ BadFields(target) # {} =>
              EndedAtFault /\ Min(BadFields(target)) = Len(values) + 1
<1> DEFINE faulty == {i \in Nat : FaultOf(csvLine, target, i) # "none"}
           n == Len(values)
           t == FieldCount[target]
           bad == {i \in 1 .. t : i \in faulty}
<1>1. target \in Structs /\ t \in Nat
  <2>1. target \in Structs
    BY DEF ReaderInv, FramesPlaced
  <2>2. QED
    BY <2>1, DepthFacts, LayoutFacts
<1>2. BadFields(target) = bad
  <2>1. 1 .. t \subseteq Nat
    BY <1>1, Numbering
  <2>2. QED
    BY <2>1, LineFacts DEF BadFields
<1>3. n \in Nat /\ \A i \in 1 .. n : i \notin faulty
  BY ValuesAre
<1>4. EndedWell \/ EndedAtFault
  BY DEF ReaderInv, Ended
<1>5. EndedWell => n = t
  BY DEF EndedWell
<1>6. EndedAtFault => n < t /\ n + 1 \in faulty
  <2>1. n + 1 \in Nat
    BY <1>3, Numbering
  <2>2. EndedAtFault => /\ n < t
                        /\ FaultOf(csvLine, target, n + 1) # "none"
    BY DEF EndedAtFault
  <2>3. QED
    BY <2>1, <2>2, Zenon
<1> HIDE DEF faulty, n, t
<1>7. /\ n = t => bad = {}
      /\ n < t /\ n + 1 \in faulty => bad # {} /\ Min(bad) = n + 1
  BY <1>1, <1>3, FirstBad
<1> HIDE DEF bad
<1>8. QED
  BY <1>2, <1>4, <1>5, <1>6, <1>7 DEF n

(* The invariant says where a structure fails.                             *)
LEMMA FailuresFollow == ReaderInv => FailsAtFirstBadField
<1> SUFFICES ASSUME ReaderInv PROVE FailsAtFirstBadField
  OBVIOUS
<1> DEFINE fs == SplitOf(csvLine)
           n == Len(values)
<1>1. /\ values \in Seq(Seq(Pieces)) /\ fs \in Seq(Seq(Pieces))
      /\ n \in Nat /\ n <= Len(fs) /\ \A i \in 1 .. n : values[i] = fs[i]
  <2>1. values \in Seq(Seq(Pieces))
    <3>1. \A i \in 1 .. n : values[i] \in Seq(Pieces)
      <4>1. \A i \in 1 .. n : values[i] \in Seq(Pieces \ {Comma})
        BY ValuesAre
      <4>2. Pieces \ {Comma} \subseteq Pieces
        OBVIOUS
      <4>3. QED
        BY <4>1, <4>2, SeqMonotonic
    <3>2. n \in Nat /\ values \in [1 .. n -> Seq(Pieces \ {Comma})]
      BY ValuesAre
    <3>3. values \in [1 .. n -> Seq(Pieces)]
      BY <3>1, <3>2
    <3> DEFINE V == Seq(Pieces)
    <3>4. n \in Nat /\ values \in [1 .. n -> V]
      BY <3>2, <3>3
    <3> HIDE DEF V, n
    <3>5. values \in Seq(V)
      BY <3>4, SequenceOf
    <3>6. QED
      BY <3>5 DEF V
  <2>2. fs \in Seq(Seq(Pieces))
    BY SplitIsBetweenCommas DEF ReaderInv, CacheInv
  <2>3. QED
    BY <2>1, <2>2, ValuesAre
<1>2. values = SubSeq(fs, 1, n)
  <2> DEFINE V == Seq(Pieces)
             t == SubSeq(fs, 1, n)
  <2>1. \A i \in 1 .. n : fs[i] \in V
    BY <1>1
  <2>2. n \in Int /\ 1 \in Int
    BY <1>1
  <2> HIDE DEF V, n
  <2>3. /\ t \in Seq(V) /\ Len(t) = IF 1 <= n THEN n - 1 + 1 ELSE 0
        /\ \A i \in 1 .. n - 1 + 1 : t[i] = fs[1 + i - 1]
    BY <2>1, <2>2, SubSeqProperties
  <2> HIDE DEF t
  <2>4. Len(t) = n
    BY <1>1, <2>3
  <2>5. \A i \in 1 .. n : t[i] = fs[i]
    <3> TAKE i \in 1 .. n
    <3>1. i \in 1 .. n - 1 + 1 /\ 1 + i - 1 = i
      BY <1>1
    <3>2. QED
      BY <2>3, <3>1
  <2>6. /\ values \in Seq(V) /\ Len(values) = n
        /\ \A i \in 1 .. n : values[i] = t[i]
    BY <1>1, <2>5 DEF V, n
  <2>7. values = t
    BY <2>3, <2>4, <2>6, SeqEqual
  <2>8. QED
    BY <2>7 DEF t
<1>3. ASSUME frames = <<>>, target # ""
      PROVE  IF BadFields(target) = {}
             THEN error = NoError /\ n = FieldCount[target]
             ELSE /\ error = [kind |-> FaultAt(target, Min(BadFields(target))),
                              fieldIndex |-> Min(BadFields(target)) - 1]
                  /\ n = Min(BadFields(target)) - 1
  <2>1. CASE BadFields(target) = {}
    BY <1>3, <2>1, BadFieldsAre DEF EndedWell
  <2>2. CASE BadFields(target) # {}
    <3> DEFINE k == Min(BadFields(target))
    <3>1. EndedAtFault /\ k = n + 1
      BY <1>3, <2>2, BadFieldsAre
    <3> HIDE DEF k
    <3>2. k - 1 = n
      BY <1>1, <3>1
    <3>3. error = [kind |-> FaultAt(target, k), fieldIndex |-> k - 1]
      BY <3>1, <3>2, LineFacts DEF EndedAtFault
    <3>4. QED
      BY <2>2, <3>2, <3>3 DEF k
  <2>3. QED
    BY <2>1, <2>2
<1>4. QED
  BY <1>2, <1>3, LineFacts DEF FailsAtFirstBadField

(* An error is one of the three.                                           *)
LEMMA FaultFacts ==
  ASSUME NEW k, NEW text
  PROVE  Fault(k, text) \in ErrorKinds \cup {"none"}
BY DEF Fault, ErrorKinds

(* The invariant has the types.                                            *)
LEMMA ReaderTypes == ReaderInv => CsvTypeOK
<1> SUFFICES ASSUME ReaderInv PROVE CsvTypeOK
  OBVIOUS
<1>1. csvLine \in Seq(Pieces) /\ exhausted \in BOOLEAN
  BY DEF ReaderInv, CacheInv
<1>2. commaPositions \in Seq(DOMAIN csvLine)
  <2> DEFINE cs == Commas(csvLine)
             L == Len(csvLine)
  <2>1. Begins(commaPositions, cs) /\ AreCommas(cs, csvLine, L)
    BY <1>1, SplitIsBetweenCommas DEF ReaderInv, CacheInv
  <2> HIDE DEF cs
  <2>2. cs \in Seq(1 .. L) /\ Len(cs) \in Nat
    BY <2>1 DEF AreCommas
  <2>3. /\ commaPositions \in Seq(Nat) /\ Len(commaPositions) \in Nat
        /\ Len(commaPositions) <= Len(cs)
    BY <2>1 DEF Begins
  <2>4. \A i \in 1 .. Len(commaPositions) : commaPositions[i] \in 1 .. L
    <3> TAKE i \in 1 .. Len(commaPositions)
    <3>1. i \in 1 .. Len(cs) /\ commaPositions[i] = cs[i]
      BY <2>1, <2>2, <2>3 DEF Begins
    <3>2. QED
      BY <2>2, <3>1
  <2>5. commaPositions \in [1 .. Len(commaPositions) -> 1 .. L]
    BY <2>3, <2>4
  <2>6. DOMAIN csvLine = 1 .. L
    BY <1>1
  <2> HIDE DEF L
  <2>7. commaPositions \in Seq(1 .. L)
    BY <2>3, <2>5, SequenceOf
  <2>8. QED
    BY <2>6, <2>7
<1>3. target \in Structs \cup {""} /\ values \in Seq(Seq(Pieces \ {Comma}))
  BY DEF ReaderInv, FramesPlaced, ValuesRead
<1>4. ASSUME NEW i \in DOMAIN frames
      PROVE  /\ frames[i].struct \in Structs
             /\ frames[i].next \in 1 .. Len(Members[frames[i].struct]) + 1
             /\ frames[i].fieldIdx \in 0 .. FieldCount[target]
  <2> DEFINE fr == frames[i]
             S == fr.struct
             n == fr.next
  <2>1. fr \in Frames /\ Placed(fr, target) /\ frames # <<>>
        /\ target \in Structs
    <3>1. FramesPlaced /\ frames \in Seq(Frames)
      BY DEF ReaderInv, FramesPlaced
    <3>2. i \in 1 .. Len(frames) /\ frames # <<>> /\ frames[i] \in Frames
      BY <3>1
    <3>3. QED
      BY <3>1, <3>2 DEF FramesPlaced
  <2>2. S \in Structs /\ n \in 1 .. Len(Members[S]) + 1 /\ fr.fieldIdx \in Nat
    BY <2>1 DEF Frames, Placed
  <2>3. /\ FieldCount[S] \in Nat /\ FieldCount[target] \in Nat
        /\ Len(Members[S]) \in Nat
    BY <2>1, <2>2, DepthFacts, LayoutFacts
  <2>4. /\ BaseOf(fr) = fr.fieldIdx - OffsetsOf(S)[n - 1]
        /\ BaseOf(fr) \in Nat
        /\ BaseOf(fr) + FieldCount[S] <= FieldCount[target]
    BY <2>1 DEF BaseOf, Placed
  <2>5. OffsetsOf(S)[n - 1] \in Nat /\ OffsetsOf(S)[n - 1] <= FieldCount[S]
    <3> DEFINE off == OffsetsOf(S)
    <3>1. AreOffsets(off, S)
      BY <2>2, OffsetsExist
    <3> HIDE DEF off
    <3>2. CASE n \in 1 .. Len(Members[S])
      <4>1. Members[S][n] \in AllMembers
        BY <2>2, <3>2, DepthFacts
      <4>2. FieldCount[Members[S][n]] \in Nat
        BY <4>1, LayoutFacts
      <4>3. /\ off[n - 1] \in Nat
            /\ off[n] = off[n - 1] + FieldCount[Members[S][n]]
            /\ off[n] <= FieldCount[S]
        BY <3>1, <3>2 DEF AreOffsets
      <4>4. QED
        BY <2>3, <4>2, <4>3 DEF off
    <3>3. CASE n = Len(Members[S]) + 1
      <4>1. n - 1 = Len(Members[S])
        BY <2>3, <3>3
      <4>2. off[n - 1] = FieldCount[S]
        BY <3>1, <4>1 DEF AreOffsets
      <4>3. QED
        BY <2>3, <4>2 DEF off
    <3>4. QED
      BY <2>2, <2>3, <3>2, <3>3
  <2>6. fr.fieldIdx <= FieldCount[target]
    <3> DEFINE b == BaseOf(fr)
               x == fr.fieldIdx
               o == OffsetsOf(S)[n - 1]
               g == FieldCount[S]
               t == FieldCount[target]
    <3>1. /\ b = x - o /\ b + g <= t /\ o <= g
          /\ b \in Nat /\ x \in Nat /\ o \in Nat /\ g \in Nat /\ t \in Nat
      BY <2>2, <2>3, <2>4, <2>5
    <3> HIDE DEF b, x, o, g, t
    <3>2. x <= t
      BY <3>1
    <3>3. QED
      BY <3>2 DEF x, t
  <2>7. QED
    BY <2>2, <2>3, <2>6
<1>5. \/ error = NoError
      \/ error \in [kind : ErrorKinds, fieldIndex : 0 .. FieldCount[target]]
  <2>1. CASE target = "" \/ frames # <<>>
    BY <2>1 DEF ReaderInv, Ended, FramesPlaced
  <2>2. CASE target # "" /\ frames = <<>> /\ EndedAtFault
    <3>1. target \in Structs /\ FieldCount[target] \in Nat
      <4>1. target \in Structs
        BY <1>3, <2>2
      <4>2. QED
        BY <4>1, DepthFacts, LayoutFacts
    <3>2. Len(values) \in 0 .. FieldCount[target]
      <4>1. Len(values) \in Nat
        BY ValuesAre
      <4> DEFINE n == Len(values)
                 t == FieldCount[target]
      <4>2. n \in Nat /\ t \in Nat /\ n < t
        BY <2>2, <3>1, <4>1 DEF EndedAtFault
      <4> HIDE DEF n, t
      <4>3. n \in 0 .. t
        BY <4>2
      <4>4. QED
        BY <4>3 DEF n, t
    <3>3. FaultOf(csvLine, target, Len(values) + 1) \in ErrorKinds
      <4> DEFINE f == FaultOf(csvLine, target, Len(values) + 1)
      <4>1. f \in ErrorKinds \cup {"none"}
        <5>1. "FieldNotFound" \in ErrorKinds
          BY DEF ErrorKinds
        <5>2. QED
          BY <5>1, FaultFacts DEF FaultOf
      <4>2. f # "none"
        BY <2>2 DEF EndedAtFault
      <4> HIDE DEF f
      <4>3. QED
        BY <4>1, <4>2 DEF f
    <3>4. QED
      BY <2>2, <3>2, <3>3 DEF EndedAtFault
  <2>3. CASE target # "" /\ frames = <<>> /\ EndedWell
    BY <2>3 DEF EndedWell
  <2>4. QED
    BY <2>1, <2>2, <2>3 DEF ReaderInv, Ended
<1>6. QED
  BY <1>1, <1>2, <1>3, <1>4, <1>5 DEF CsvTypeOK

-----------------------------------------------------------------------------
(* What the callers rely on: the layout of the header and what a good      *)
(* field is.                                                               *)

(* A structure of two fields.                                              *)
LEMMA PairLayout ==
  ASSUME NEW T \in Structs, NEW f \in Fields, NEW g \in Fields,
         Members[T] = <<f, g>>
  PROVE  FieldCount[T] = 2 /\ WireFields[T][1] = f /\ WireFields[T][2] = g
<1> DEFINE off == OffsetsOf(T)
           W == WireFields
           N == FieldCount
           M == Members[T]
<1>1. Len(M) = 2 /\ M[1] = f /\ M[2] = g
  OBVIOUS
<1>2. /\ N[f] = 1 /\ W[f][1] = f
      /\ N[g] = 1 /\ W[g][1] = g
  BY LayoutFacts DEF AllMembers
<1>3. AreOffsets(off, T)
  BY OffsetsExist
<1> HIDE DEF M
<1>4. /\ off[0] = 0 /\ off[2] = N[T]
      /\ \A i \in 1 .. 2 :
           /\ off[i] = off[i - 1] + N[M[i]]
           /\ \A j \in 1 .. N[M[i]] : W[T][off[i - 1] + j] = W[M[i]][j]
  BY <1>1, <1>3 DEF AreOffsets, M
<1> HIDE DEF off, W, N
<1>5. off[1] = 1 /\ W[T][1] = W[f][1]
  <2>1. 1 \in 1 .. 2 /\ 1 - 1 = 0
    OBVIOUS
  <2>2. /\ off[1] = off[0] + N[f]
        /\ \A j \in 1 .. N[f] : W[T][off[0] + j] = W[f][j]
    BY <1>1, <1>4, <2>1
  <2>3. 1 \in 1 .. 1 /\ 0 + 1 = 1
    OBVIOUS
  <2>4. QED
    BY <1>2, <1>4, <2>2, <2>3
<1>6. off[2] = 2 /\ W[T][2] = W[g][1]
  <2>1. 2 \in 1 .. 2 /\ 2 - 1 = 1
    OBVIOUS
  <2>2. /\ off[2] = off[1] + N[g]
        /\ \A j \in 1 .. N[g] : W[T][off[1] + j] = W[g][j]
    BY <1>1, <1>4, <2>1
  <2>3. 1 \in 1 .. 1 /\ 1 + 1 = 2
    OBVIOUS
  <2>4. QED
    BY <1>2, <1>5, <2>2, <2>3
<1>7. QED
  BY <1>2, <1>4, <1>5, <1>6 DEF W, N

(* The header is such a structure.                                         *)
LEMMA HeaderLayout ==
  /\ FieldCount["MessageHeader"] = 2
  /\ WireFields["MessageHeader"][1] = "_msgType"
  /\ WireFields["MessageHeader"][2] = "_sequenceNumber"
BY PairLayout, LayoutAssumption

(* What a byte or a number is read from is made of numerals.               *)
LEMMA NumbersAreOfNumerals ==
  ASSUME NEW P, NEW text \in Seq(P), NEW kind \in {"byte", "number"},
         Fault(kind, text) = "none"
  PROVE  text \in Seq(Numerals)
<1>1. {k \in DOMAIN Optional : Optional[k] = kind} = {}
  <2>1. \A k \in DOMAIN Optional :
          Optional[k] \in {"char?", "number?", "double?"}
    BY DEF Optional
  <2>2. kind \notin {"char?", "number?", "double?"}
    OBVIOUS
  <2>3. QED
    BY <2>1, <2>2, Zenon
<1>2. Converts(kind, text)
  BY <1>1 DEF Fault
<1>3. IsOne(text, Numerals) \/ IsNumber(text)
  BY <1>2 DEF Converts
<1>4. Len(text) \in Nat /\ DOMAIN text = 1 .. Len(text)
      /\ text \in [1 .. Len(text) -> P]
  OBVIOUS
<1>5. \A i \in 1 .. Len(text) : text[i] \in Numerals
  <2>1. CASE IsOne(text, Numerals)
    BY <1>4, <2>1 DEF IsOne
  <2>2. CASE IsNumber(text)
    BY <1>4, <2>2 DEF IsNumber
  <2>3. QED
    BY <1>3, <2>1, <2>2
<1>6. text \in [1 .. Len(text) -> Numerals]
  BY <1>4, <1>5
<1>7. QED
  BY <1>4, <1>6, SequenceOf

(* Fields 1 to n are good or the structure does not decode.                *)
LEMMA DecodingFacts ==
  ASSUME NEW T \in Structs, NEW i \in 1 .. FieldCount[T], Decodes(T)
  PROVE  /\ i <= Len(Split)
         /\ Fault(KindOf[WireFields[T][i]], Split[i]) = "none"
<1>1. FaultAt(T, i) = "none"
  BY DEF Decodes, BadFields
<1>2. ~(i > Len(Split))
  BY <1>1 DEF FaultAt
<1>3. Fault(KindOf[WireFields[T][i]], Split[i]) = "none"
  BY <1>1, <1>2 DEF FaultAt
<1>4. QED
  BY <1>2, <1>3

(* A line has a field at least.                                            *)
LEMMA SplitFacts ==
  ASSUME csvLine \in Seq(Pieces)
  PROVE  /\ Split \in Seq(Seq(Pieces)) /\ Len(Split) \in Nat
         /\ Len(Split) >= 1
<1>1. Split = SplitOf(csvLine)
  BY LineFacts
<1>2. /\ Split \in Seq(Seq(Pieces))
      /\ Len(Split) = Len(Commas(csvLine)) + 1
      /\ Commas(csvLine) \in Seq(1 .. Len(csvLine))
  BY <1>1, SplitIsBetweenCommas DEF AreFields, AreCommas
<1>3. QED
  BY <1>2

(* The fields of a good header are made of numerals.                       *)
LEMMA HeaderFields ==
  ASSUME csvLine \in Seq(Pieces), Decodes("MessageHeader")
  PROVE  Split[1] \in Seq(Numerals) /\ Split[2] \in Seq(Numerals)
<1> DEFINE T == "MessageHeader"
           n == FieldCount[T]
<1>1. T \in Structs /\ n = 2
  BY HeaderLayout, LayoutAssumption
<1>2. /\ KindOf[WireFields[T][1]] = "byte"
      /\ KindOf[WireFields[T][2]] = "number"
  BY HeaderLayout, LayoutAssumption
<1>3. Split \in Seq(Seq(Pieces)) /\ Len(Split) \in Nat
  BY SplitFacts
<1>4. Decodes(T)
  OBVIOUS
<1> HIDE DEF T
<1>5. 1 \in 1 .. n /\ 2 \in 1 .. n
  BY <1>1
<1>6. /\ 1 <= Len(Split) /\ Fault(KindOf[WireFields[T][1]], Split[1]) = "none"
      /\ 2 <= Len(Split) /\ Fault(KindOf[WireFields[T][2]], Split[2]) = "none"
  BY <1>1, <1>4, <1>5, DecodingFacts
<1>7. Split[1] \in Seq(Pieces) /\ Split[2] \in Seq(Pieces)
  <2> DEFINE V == Seq(Pieces)
  <2>1. Split \in Seq(V) /\ 1 \in 1 .. Len(Split) /\ 2 \in 1 .. Len(Split)
    BY <1>3, <1>6
  <2> HIDE DEF V
  <2>2. Split[1] \in V /\ Split[2] \in V
    BY <2>1
  <2>3. QED
    BY <2>2 DEF V
<1>8. Fault("byte", Split[1]) = "none" /\ Fault("number", Split[2]) = "none"
  BY <1>2, <1>6
<1>9. "byte" \in {"byte", "number"} /\ "number" \in {"byte", "number"}
  OBVIOUS
<1>10. QED
  BY <1>7, <1>8, <1>9, NumbersAreOfNumerals

-----------------------------------------------------------------------------
(* The callers.                                                            *)

(* What the caller should make of the line.                                *)
Right(out, rec, handed) ==
  LET header == caller = "ParseNext" => Decodes("MessageHeader")
  IN /\ out = "none" <=> header /\ Wanted # {}
     /\ caller = "ParseNext" =>
          /\ rec = IF header THEN <<Split[1], Split[2]>> ELSE <<>>
          /\ out = "unknown_msg_type" <=> header /\ TypeOfLine = {}
     /\ out = "none" =>
          \A T \in Wanted : \A f \in DOMAIN handed :
            IF f = "_printedToSip"
              THEN handed[f] = <<"true">> <=> TextOf(T, f) # <<"000">>
              ELSE handed[f] = TextOf(T, f)

RecordedRight ==
  \/ recorded = <<>>
  \/ Decodes("MessageHeader") /\ recorded = <<Split[1], Split[2]>>

MessageRight == outcome = "none" => DOMAIN message = HandedOn(target)

AtStart == recorded = <<>> /\ (caller # "anyone" => target = "")

AtHeader ==
  /\ recorded = <<>>
  /\ IF caller = "ParseNext" THEN target = "MessageHeader" ELSE frames = <<>>

AtBody ==
  /\ target \in TypeOfLine
  /\ IF caller = "ParseNext"
       THEN Decodes("MessageHeader") /\ recorded = <<Split[1], Split[2]>>
       ELSE recorded = <<>>

AtEnd ==
  frames = <<>> /\ outcome \in Outcomes /\ Right(outcome, recorded, message)

CallerInv ==
  /\ caller \in Callers /\ pc \in {"start", "header", "body", "done"}
  /\ caller = "anyone" => pc = "start"
  /\ pc # "done" => outcome = ""
  /\ pc = "start" => AtStart
  /\ pc = "header" => AtHeader
  /\ pc = "body" => AtBody
  /\ pc = "done" => AtEnd
  /\ RecordedRight /\ MessageRight

(* The split of the line, as a function of the line.                       *)
LEMMA SplitIs == Split = SplitOf(csvLine)
BY LineFacts

(* The line and its caller stay, and so does what the line says.           *)
LEMMA LineStays ==
  ASSUME csvLine' = csvLine, caller' = caller
  PROVE  /\ Split' = Split
         /\ \A T : Decodes(T)' <=> Decodes(T)
         /\ TypeOfLine' = TypeOfLine /\ Wanted' = Wanted
         /\ \A T, f : TextOf(T, f)' = TextOf(T, f)
         /\ \A T : HandedOn(T)' = HandedOn(T)
<1>1. Split' = Split
  <2>1. Split = SplitOf(csvLine)
    BY SplitIs
  <2>2. (Split = SplitOf(csvLine))'
    BY SplitIs, PTL
  <2>3. QED
    BY <2>1, <2>2
<1>2. \A T : Decodes(T)' <=> Decodes(T)
  <2>1. \A T, i : FaultAt(T, i)' = FaultAt(T, i)
    BY <1>1 DEF FaultAt
  <2>2. QED
    BY <2>1 DEF Decodes, BadFields
<1>3. TypeOfLine' = TypeOfLine
  BY <1>1 DEF TypeOfLine, Case
<1>4. \A T, f : TextOf(T, f)' = TextOf(T, f)
  BY <1>1 DEF TextOf
<1>5. \A T : HandedOn(T)' = HandedOn(T)
  BY DEF HandedOn
<1>6. Wanted' = Wanted
  <2>1. \A T : IsClosing(T)' <=> IsClosing(T)
    BY <1>4 DEF IsClosing
  <2>2. QED
    BY <1>2, <1>3, <2>1 DEF Wanted
<1>7. QED
  BY <1>1, <1>2, <1>3, <1>4, <1>5, <1>6

(* Which is what LinesAreDecodedWhole says.                                *)
LEMMA RightIsWhole == (pc = "done" => AtEnd) => LinesAreDecodedWhole
BY DEF AtEnd, Right, LinesAreDecodedWhole

(* The type of a line is that of one structure.                            *)
LEMMA OneType ==
  ASSUME NEW T \in TypeOfLine, caller \in Callers
  PROVE  /\ TypeOfLine = {T} /\ T \in Structs
         /\ \A f \in HandedOn(T) : \E i \in DOMAIN WireFields[T] :
              WireFields[T][i] = WireNameOf(f)
<1> DEFINE type == Split[1][1]
<1>1. type \in DOMAIN CaseOf[caller] /\ TypeOfLine = {CaseOf[caller][type]}
  BY DEF TypeOfLine, Case
<1>2. T = CaseOf[caller][type]
  BY <1>1
<1> HIDE DEF type
<1>3. /\ T \in Structs
      /\ \A f \in FieldsFor(caller, T) : \E i \in DOMAIN WireFields[T] :
           WireFields[T][i] = WireNameOf(f)
  BY <1>1, <1>2, LayoutAssumption
<1>4. QED
  BY <1>1, <1>2, <1>3 DEF HandedOn

(* The reader when a structure has been built, or has not.                 *)
LEMMA BuiltIsDecoded ==
  ASSUME ReaderInv, Built, target # ""
  PROVE  /\ Decodes(target) /\ Len(values) = FieldCount[target]
         /\ \A i \in 1 .. FieldCount[target] : values[i] = Split[i]
<1>1. frames = <<>> /\ error = NoError
  BY DEF Built
<1>2. ~EndedAtFault
  BY <1>1 DEF EndedAtFault, NoError
<1>3. BadFields(target) = {} /\ EndedWell
  BY <1>1, <1>2, BadFieldsAre
<1>4. QED
  BY <1>3, ValuesAre, LineFacts DEF Decodes, EndedWell

(* A structure with an error does not decode.                              *)
LEMMA FailedIsBad ==
  ASSUME ReaderInv, Failed, target # ""
  PROVE  ~Decodes(target)
<1>1. frames = <<>> /\ ~EndedWell
  BY DEF Failed, EndedWell
<1>2. QED
  BY <1>1, BadFieldsAre DEF Decodes

(* A step that is not the last leaves nothing to be right about but where  *)
(* the caller is.                                                          *)
LEMMA NotYetDone ==
  ASSUME CallerInv, csvLine' = csvLine, caller' = caller,
         pc # "done", UNCHANGED outcome,
         pc' \in {"start", "header", "body"},
         caller = "anyone" => pc' = "start",
         pc' = "start" => AtStart', pc' = "header" => AtHeader',
         pc' = "body" => AtBody', RecordedRight'
  PROVE  CallerInv'
<1>1. outcome' = "" /\ pc' # "done"
  BY DEF CallerInv
<1>2. MessageRight'
  BY <1>1 DEF MessageRight
<1>3. QED
  BY <1>1, <1>2 DEF CallerInv

(* The last one.                                                           *)
LEMMA DoneNow ==
  ASSUME CallerInv, csvLine' = csvLine, caller' = caller, caller # "anyone",
         pc' = "done", frames' = <<>>, outcome' \in Outcomes,
         Right(outcome', recorded', message'), RecordedRight', MessageRight'
  PROVE  CallerInv'
<1>1. Right(outcome, recorded, message)'
  BY LineStays DEF Right
<1>2. AtEnd'
  BY <1>1 DEF AtEnd
<1>3. QED
  BY <1>2 DEF CallerInv

(* What has been recorded stays right.                                     *)
LEMMA RecordedStays ==
  ASSUME RecordedRight, csvLine' = csvLine, caller' = caller,
         UNCHANGED recorded
  PROVE  RecordedRight'
BY LineStays DEF RecordedRight

DecoderInv == ReaderInv /\ CallerInv

(* The header has been read: the values are the first two fields.          *)
LEMMA HeaderRead ==
  ASSUME DecoderInv, caller = "ParseNext", pc = "header", Built
  PROVE  /\ Decodes("MessageHeader") /\ values = <<Split[1], Split[2]>>
         /\ Case(values[1]) = TypeOfLine
<1>1. target = "MessageHeader" /\ ReaderInv
  BY DEF DecoderInv, CallerInv, AtHeader
<1> DEFINE T == "MessageHeader"
           V == Seq(Pieces \ {Comma})
<1>2. T # ""
  BY LayoutAssumption, CsvAssumption
<1>3. /\ Decodes(T) /\ Len(values) = 2
      /\ \A i \in 1 .. 2 : values[i] = Split[i]
  BY <1>1, <1>2, BuiltIsDecoded, HeaderLayout
<1>4. values \in Seq(V)
  BY <1>1, ValuesAre
<1> HIDE DEF V
<1>5. values = <<values[1], values[2]>>
  BY <1>3, <1>4
<1>6. values[1] = Split[1] /\ values[2] = Split[2]
  BY <1>3
<1>7. QED
  BY <1>3, <1>5, <1>6 DEF TypeOfLine

(* The line is not changed by a structure begun.                           *)
LEMMA ConstructStays ==
  ASSUME NEW T, Construct(T)
  PROVE  csvLine' = csvLine /\ target' = T
BY DEF Construct

(* The actions, one by one: ParseNext begins with the header,              *)
LEMMA ReadHeaderKeeps ==
  ASSUME DecoderInv, ReadHeader
  PROVE  DecoderInv'
<1>1. /\ caller = "ParseNext" /\ pc = "start" /\ pc' = "header"
      /\ Construct("MessageHeader") /\ UNCHANGED <<caller, recorded, outcome>>
  BY DEF ReadHeader
<1>2. ReaderInv'
  BY <1>1, ConstructKeeps, LayoutAssumption DEF DecoderInv
<1>3. csvLine' = csvLine /\ target' = "MessageHeader"
  BY <1>1, ConstructStays
<1>4. CallerInv /\ RecordedRight /\ AtStart
  BY <1>1 DEF DecoderInv, CallerInv
<1>5. AtHeader' /\ RecordedRight'
  BY <1>1, <1>3, <1>4, RecordedStays DEF AtHeader, AtStart
<1>6. CallerInv'
  BY <1>1, <1>3, <1>4, <1>5, NotYetDone
<1>7. QED
  BY <1>2, <1>6 DEF DecoderInv

(* records the number and begins the structure of the type,                *)
LEMMA ReadBodyKeeps ==
  ASSUME DecoderInv, ReadBody
  PROVE  DecoderInv'
<1>1. /\ caller = "ParseNext" /\ pc = "header" /\ pc' = "body" /\ Built
      /\ recorded' = values /\ UNCHANGED <<caller, outcome>>
  BY DEF ReadBody
<1>2. PICK T \in Case(values[1]) : Construct(T)
  BY DEF ReadBody
<1>3. /\ Decodes("MessageHeader") /\ values = <<Split[1], Split[2]>>
      /\ T \in TypeOfLine
  BY <1>1, <1>2, HeaderRead
<1>4. CallerInv /\ T \in Structs
  BY <1>3, OneType DEF DecoderInv, CallerInv
<1>5. ReaderInv'
  BY <1>2, <1>4, ConstructKeeps DEF DecoderInv
<1>6. csvLine' = csvLine /\ target' = T
  BY <1>2, ConstructStays
<1>7. AtBody' /\ RecordedRight'
  BY <1>1, <1>3, <1>6, LineStays DEF AtBody, RecordedRight
<1>8. CallerInv'
  BY <1>1, <1>4, <1>6, <1>7, NotYetDone
<1>9. QED
  BY <1>5, <1>8 DEF DecoderInv

(* The reader has stopped at a bad field.                                  *)
LEMMA BadLine ==
  ASSUME DecoderInv, pc \in {"header", "body"}, Failed,
         pc = "header" => caller = "ParseNext"
  PROVE  /\ target # "" /\ ~Decodes(target)
         /\ pc = "body" => Wanted = {}
<1>1. target # ""
  <2>1. CASE pc = "header"
    <3>1. target = "MessageHeader"
      BY <2>1 DEF DecoderInv, CallerInv, AtHeader
    <3>2. QED
      BY <3>1, LayoutAssumption, CsvAssumption
  <2>2. CASE pc = "body"
    <3>1. target \in TypeOfLine /\ caller \in Callers
      BY <2>2 DEF DecoderInv, CallerInv, AtBody
    <3>2. target \in Structs
      BY <3>1, OneType
    <3>3. QED
      BY <3>2, CsvAssumption
  <2>3. QED
    BY <2>1, <2>2
<1>2. ~Decodes(target)
  BY <1>1, FailedIsBad DEF DecoderInv
<1>3. ASSUME pc = "body" PROVE Wanted = {}
  <2>1. target \in TypeOfLine /\ caller \in Callers
    BY <1>3 DEF DecoderInv, CallerInv, AtBody
  <2>2. TypeOfLine = {target}
    BY <2>1, OneType
  <2>3. QED
    BY <1>2, <2>2 DEF Wanted
<1>4. QED
  BY <1>1, <1>2, <1>3

(* The reader stays as it is.                                              *)
LEMMA ReaderStays ==
  ASSUME ReaderInv, UNCHANGED csvVars
  PROVE  ReaderInv' /\ csvLine' = csvLine /\ frames' = frames
         /\ target' = target
<1>1. UNCHANGED <<csvLine, commaPositions, exhausted, target, frames, values,
                  error>>
  BY DEF csvVars
<1>2. CacheInv'
  BY <1>1 DEF ReaderInv, CacheInv
<1>3. FramesPlaced'
  BY <1>1 DEF ReaderInv, FramesPlaced
<1>4. ValuesRead'
  BY <1>1 DEF ReaderInv, ValuesRead
<1>5. Ended'
  BY <1>1 DEF ReaderInv, Ended, EndedWell, EndedAtFault
<1>6. QED
  BY <1>1, <1>2, <1>3, <1>4, <1>5 DEF ReaderInv

(* A line that is not handed on.                                           *)
LEMMA FinishKeeps ==
  ASSUME DecoderInv, NEW result \in Outcomes \ {"none"}, Finish(result),
         caller # "anyone", frames = <<>>,
         Right(result, recorded', message), RecordedRight'
  PROVE  DecoderInv'
<1>1. /\ pc' = "done" /\ outcome' = result /\ message' = message
      /\ UNCHANGED csvVars /\ caller' = caller
  BY DEF Finish
<1>2. ReaderInv' /\ csvLine' = csvLine /\ frames' = <<>>
  BY <1>1, ReaderStays DEF DecoderInv
<1>3. MessageRight'
  BY <1>1 DEF MessageRight
<1>4. Right(outcome', recorded', message') /\ outcome' \in Outcomes
  BY <1>1
<1>5. CallerInv
  BY DEF DecoderInv
<1>6. CallerInv'
  BY <1>1, <1>2, <1>3, <1>4, <1>5, DoneNow
<1>7. QED
  BY <1>2, <1>6 DEF DecoderInv

(* gives up at a bad field of the header or of the body,                   *)
LEMMA DecodeFailsKeeps ==
  ASSUME DecoderInv, DecodeFails
  PROVE  DecoderInv'
<1>1. /\ caller = "ParseNext" /\ pc \in {"header", "body"} /\ Failed
      /\ Finish("message_decode") /\ recorded' = recorded
  BY DEF DecodeFails
<1>2. ~Decodes(target) /\ (pc = "body" => Wanted = {})
  BY <1>1, BadLine
<1>3. Right("message_decode", recorded, message)
  <2>1. CASE pc = "header"
    <3>1. target = "MessageHeader" /\ recorded = <<>>
      BY <1>1, <2>1 DEF DecoderInv, CallerInv, AtHeader
    <3>2. QED
      BY <1>1, <1>2, <3>1 DEF Right
  <2>2. CASE pc = "body"
    <3>1. /\ Decodes("MessageHeader") /\ recorded = <<Split[1], Split[2]>>
          /\ TypeOfLine # {}
      BY <1>1, <2>2 DEF DecoderInv, CallerInv, AtBody
    <3>2. QED
      BY <1>1, <1>2, <2>2, <3>1 DEF Right
  <2>3. QED
    BY <1>1, <2>1, <2>2
<1>4. RecordedRight'
  BY <1>1, RecordedStays DEF DecoderInv, CallerInv, Finish, csvVars
<1>5. "message_decode" \in Outcomes \ {"none"} /\ frames = <<>>
  BY <1>1 DEF Outcomes, Failed
<1>6. QED
  BY <1>1, <1>3, <1>4, <1>5, FinishKeeps

(* or at a type it does not know.                                          *)
LEMMA UnknownTypeKeeps ==
  ASSUME DecoderInv, UnknownType
  PROVE  DecoderInv'
<1>1. /\ caller = "ParseNext" /\ pc = "header" /\ Built
      /\ Case(values[1]) = {} /\ recorded' = values
      /\ Finish("unknown_msg_type")
  BY DEF UnknownType
<1>2. /\ Decodes("MessageHeader") /\ values = <<Split[1], Split[2]>>
      /\ TypeOfLine = {}
  BY <1>1, HeaderRead
<1>3. Right("unknown_msg_type", recorded', message)
  BY <1>1, <1>2 DEF Right, Wanted
<1>4. RecordedRight'
  <2>1. csvLine' = csvLine /\ caller' = caller
    BY <1>1 DEF Finish, csvVars
  <2>2. QED
    BY <1>1, <1>2, <2>1, LineStays DEF RecordedRight
<1>5. "unknown_msg_type" \in Outcomes \ {"none"} /\ frames = <<>>
  BY <1>1 DEF Outcomes, Built
<1>6. QED
  BY <1>1, <1>3, <1>4, <1>5, FinishKeeps

(* The first field is there.                                               *)
LEMMA TypeIsThere == ReaderInv => Answer(0) = {Split[1]}
<1> SUFFICES ASSUME ReaderInv PROVE Answer(0) = {Split[1]}
  OBVIOUS
<1>1. CacheInv /\ csvLine \in Seq(Pieces)
  BY DEF ReaderInv, CacheInv
<1>2. Len(Split) \in Nat /\ Len(Split) >= 1 /\ Split = SplitOf(csvLine)
  BY <1>1, SplitFacts, SplitIs
<1>3. Answer(0) = IF 0 < Len(Split) THEN {Split[0 + 1]} ELSE {}
  BY <1>1, <1>2, AnswerIsOfSplit
<1>4. 0 < Len(Split) /\ 0 + 1 = 1
  BY <1>2
<1>5. QED
  BY <1>3, <1>4

(* A loader looks at the type,                                             *)
LEMMA LookAtTypeKeeps ==
  ASSUME DecoderInv, LookAtType
  PROVE  DecoderInv'
<1>1. /\ caller \in Loaders /\ pc = "start" /\ pc' = "header"
      /\ GetField(0) /\ UNCHANGED <<caller, recorded, outcome>>
  BY DEF LookAtType
<1>2. ReaderInv'
  BY <1>1, GetFieldKeeps DEF DecoderInv
<1>3. csvLine' = csvLine /\ frames' = <<>>
  BY <1>1 DEF GetField, Cache
<1>4. CallerInv /\ RecordedRight /\ AtStart
  BY <1>1 DEF DecoderInv, CallerInv
<1>5. AtHeader' /\ RecordedRight'
  BY <1>1, <1>3, <1>4, RecordedStays DEF AtHeader, AtStart, Loaders
<1>6. CallerInv'
  BY <1>1, <1>3, <1>4, <1>5, NotYetDone DEF Loaders
<1>7. QED
  BY <1>2, <1>6 DEF DecoderInv

(* skips what it does not look for,                                        *)
LEMMA SkipOtherTypeKeeps ==
  ASSUME DecoderInv, SkipOtherType
  PROVE  DecoderInv'
<1>1. /\ caller \in Loaders /\ pc = "header"
      /\ \A type \in Answer(0) : Case(type) = {}
      /\ Finish("skipped") /\ recorded' = recorded
  BY DEF SkipOtherType
<1>2. caller # "ParseNext" /\ caller # "anyone"
  BY <1>1 DEF Loaders
<1>3. TypeOfLine = {}
  BY <1>1, TypeIsThere DEF DecoderInv, TypeOfLine
<1>4. Right("skipped", recorded', message)
  BY <1>2, <1>3 DEF Right, Wanted
<1>5. RecordedRight'
  BY <1>1, RecordedStays DEF DecoderInv, CallerInv, Finish, csvVars
<1>6. "skipped" \in Outcomes \ {"none"} /\ frames = <<>>
  BY <1>1, <1>2 DEF Outcomes, DecoderInv, CallerInv, AtHeader
<1>7. QED
  BY <1>1, <1>2, <1>4, <1>5, <1>6, FinishKeeps

(* begins the structure of the type,                                       *)
LEMMA ReadRecordKeeps ==
  ASSUME DecoderInv, ReadRecord
  PROVE  DecoderInv'
<1>1. /\ caller \in Loaders /\ pc = "header" /\ pc' = "body"
      /\ UNCHANGED <<caller, recorded, outcome>>
  BY DEF ReadRecord
<1>2. PICK type \in Answer(0) : \E T \in Case(type) : Construct(T)
  BY DEF ReadRecord
<1>3. PICK T \in Case(type) : Construct(T)
  BY <1>2
<1>4. T \in TypeOfLine
  BY <1>2, <1>3, TypeIsThere DEF DecoderInv, TypeOfLine
<1>5. CallerInv /\ T \in Structs /\ RecordedRight
  BY <1>4, OneType DEF DecoderInv, CallerInv
<1>6. ReaderInv'
  BY <1>3, <1>5, ConstructKeeps DEF DecoderInv
<1>7. csvLine' = csvLine /\ target' = T
  BY <1>3, ConstructStays
<1>8. caller # "ParseNext" /\ caller # "anyone" /\ recorded = <<>>
  BY <1>1, <1>5 DEF Loaders, CallerInv, AtHeader
<1>9. AtBody' /\ RecordedRight'
  BY <1>1, <1>4, <1>5, <1>7, <1>8, LineStays, RecordedStays DEF AtBody
<1>10. CallerInv'
  BY <1>1, <1>5, <1>7, <1>8, <1>9, NotYetDone
<1>11. QED
  BY <1>6, <1>10 DEF DecoderInv

(* and skips it at a bad field.                                            *)
LEMMA SkipBadRecordKeeps ==
  ASSUME DecoderInv, SkipBadRecord
  PROVE  DecoderInv'
<1>1. /\ caller \in Loaders /\ pc = "body" /\ Failed
      /\ Finish("skipped") /\ recorded' = recorded
  BY DEF SkipBadRecord
<1>2. caller # "ParseNext" /\ caller # "anyone"
  BY <1>1 DEF Loaders
<1>3. Wanted = {}
  BY <1>1, BadLine
<1>4. Right("skipped", recorded', message)
  BY <1>2, <1>3 DEF Right
<1>5. RecordedRight'
  BY <1>1, RecordedStays DEF DecoderInv, CallerInv, Finish, csvVars
<1>6. "skipped" \in Outcomes \ {"none"} /\ frames = <<>>
  BY <1>1 DEF Outcomes, Failed
<1>7. QED
  BY <1>1, <1>2, <1>4, <1>5, <1>6, FinishKeeps

(* The fields handed on are those of the line.                             *)
LEMMA ValuesAreTexts ==
  ASSUME DecoderInv, pc = "body", Built, NEW f \in HandedOn(target)
  PROVE  /\ f # "_printedToSip" =>
              FieldValue(target, f) = TextOf(target, f)
         /\ f = "_printedToSip" =>
              (FieldValue(target, f) = <<"true">>
                 <=> TextOf(target, f) # <<"000">>)
<1> DEFINE W == WireFields[target]
           at == CHOOSE i \in DOMAIN W : W[i] = WireNameOf(f)
<1>1. target \in TypeOfLine /\ caller \in Callers
  BY DEF DecoderInv, CallerInv, AtBody
<1>2. target \in Structs /\ \E i \in DOMAIN W : W[i] = WireNameOf(f)
  BY <1>1, OneType
<1>3. at \in DOMAIN W
  BY <1>2
<1>4. DOMAIN W = 1 .. FieldCount[target]
  <2>1. target \in AllMembers
    BY <1>2, DepthFacts
  <2>2. W \in Seq(Fields) /\ Len(W) = FieldCount[target]
    BY <2>1, LayoutFacts
  <2> HIDE DEF W
  <2>3. QED
    BY <2>2
<1>5. values[at] = Split[at]
  <2>1. target # ""
    BY <1>2, CsvAssumption
  <2>2. \A i \in 1 .. FieldCount[target] : values[i] = Split[i]
    BY <2>1, BuiltIsDecoded DEF DecoderInv
  <2> HIDE DEF at
  <2>3. QED
    BY <1>3, <1>4, <2>2
<1>6. TextOf(target, f) = Split[at]
  BY DEF TextOf
<1>7. FieldValue(target, f)
        = IF f = "_printedToSip"
            THEN <<IF values[at] = <<"000">> THEN "false" ELSE "true">>
            ELSE values[at]
  BY DEF FieldValue
<1> HIDE DEF at, W
<1>8. <<"false">> # <<"true">>
  OBVIOUS
<1>9. QED
  BY <1>5, <1>6, <1>7, <1>8

(* The structure built is wanted unless it is the closing quote.           *)
LEMMA WantedIsBuilt ==
  ASSUME DecoderInv, pc = "body", Built
  PROVE  /\ ClosingQuoteBuilt <=> IsClosing(target)
         /\ Wanted = IF ClosingQuoteBuilt THEN {} ELSE {target}
<1>1. target \in TypeOfLine /\ caller \in Callers
  BY DEF DecoderInv, CallerInv, AtBody
<1>2. TypeOfLine = {target} /\ target \in Structs
  BY <1>1, OneType
<1>3. Decodes(target)
  BY <1>2, CsvAssumption, BuiltIsDecoded DEF DecoderInv
<1>4. ClosingQuoteBuilt <=> IsClosing(target)
  <2>1. CASE caller # "LoadLastQuote"
    BY <2>1 DEF ClosingQuoteBuilt, IsClosing
  <2>2. CASE caller = "LoadLastQuote"
    <3>1. target = "Quote"
      <4>1. CaseOf["LoadLastQuote"] = [type \in {"140"} |-> "Quote"]
        BY DEF CaseOf
      <4>2. QED
        BY <1>1, <2>2, <4>1 DEF TypeOfLine, Case
    <3>2. PriceFields \subseteq HandedOn(target)
      BY <2>2, <3>1 DEF PriceFields, HandedOn, FieldsFor, TakenFields
    <3>3. \A f \in PriceFields : f # "_printedToSip"
      BY DEF PriceFields
    <3>4. \A f \in PriceFields : FieldValue(target, f) = TextOf(target, f)
      BY <3>2, <3>3, ValuesAreTexts
    <3>5. QED
      BY <3>4 DEF ClosingQuoteBuilt, IsClosing
  <2>3. QED
    BY <2>1, <2>2
<1>5. QED
  BY <1>2, <1>3, <1>4 DEF Wanted

(* The closing quote is skipped although it decodes.                       *)
LEMMA SkipClosingQuoteKeeps ==
  ASSUME DecoderInv, SkipClosingQuote
  PROVE  DecoderInv'
<1>1. /\ pc = "body" /\ Built /\ ClosingQuoteBuilt
      /\ Finish("skipped") /\ recorded' = recorded
  BY DEF SkipClosingQuote
<1>2. caller # "ParseNext" /\ caller # "anyone"
  BY <1>1 DEF ClosingQuoteBuilt
<1>3. Wanted = {}
  BY <1>1, WantedIsBuilt
<1>4. Right("skipped", recorded', message)
  BY <1>2, <1>3 DEF Right
<1>5. RecordedRight'
  BY <1>1, RecordedStays DEF DecoderInv, CallerInv, Finish, csvVars
<1>6. "skipped" \in Outcomes \ {"none"} /\ frames = <<>>
  BY <1>1 DEF Outcomes, Built
<1>7. QED
  BY <1>1, <1>2, <1>4, <1>5, <1>6, FinishKeeps

(* What else has been built is handed on.                                  *)
LEMMA HandOnKeeps ==
  ASSUME DecoderInv, HandOn, ~ClosingQuoteBuilt
  PROVE  DecoderInv'
<1>1. /\ pc = "body" /\ Built /\ ~ClosingQuoteBuilt
      /\ pc' = "done" /\ outcome' = "none"
      /\ message' = [f \in HandedOn(target) |-> FieldValue(target, f)]
      /\ UNCHANGED csvVars /\ caller' = caller /\ recorded' = recorded
  BY DEF HandOn
<1>2. /\ ReaderInv' /\ csvLine' = csvLine /\ frames' = frames
      /\ target' = target
  BY <1>1, ReaderStays DEF DecoderInv
<1>3. /\ target \in TypeOfLine /\ caller \in Callers /\ caller # "anyone"
      /\ CallerInv /\ RecordedRight
      /\ IF caller = "ParseNext"
           THEN Decodes("MessageHeader") /\ recorded = <<Split[1], Split[2]>>
           ELSE recorded = <<>>
  BY <1>1 DEF DecoderInv, CallerInv, AtBody
<1>4. TypeOfLine = {target} /\ target \in Structs
  BY <1>3, OneType
<1>5. Wanted = {target}
  BY <1>1, WantedIsBuilt
<1>6. \A f \in HandedOn(target) :
        IF f = "_printedToSip"
          THEN message'[f] = <<"true">> <=> TextOf(target, f) # <<"000">>
          ELSE message'[f] = TextOf(target, f)
  <2> TAKE f \in HandedOn(target)
  <2>1. message'[f] = FieldValue(target, f)
    BY <1>1
  <2>2. QED
    BY <1>1, <2>1, ValuesAreTexts
<1>7. DOMAIN message' = HandedOn(target)
  BY <1>1
<1>8. Right(outcome', recorded', message')
  <2>1. caller = "ParseNext" => Decodes("MessageHeader")
    BY <1>3
  <2>2. TypeOfLine # {}
    BY <1>4
  <2>3. \A T \in {target} : \A f \in DOMAIN message' :
          IF f = "_printedToSip"
            THEN message'[f] = <<"true">> <=> TextOf(T, f) # <<"000">>
            ELSE message'[f] = TextOf(T, f)
    BY <1>6, <1>7
  <2>4. QED
    BY <1>1, <1>3, <1>5, <2>1, <2>2, <2>3 DEF Right
<1>9. RecordedRight' /\ MessageRight'
  <2>1. HandedOn(target)' = HandedOn(target)
    BY <1>1, <1>2 DEF HandedOn
  <2>2. MessageRight'
    BY <1>7, <2>1 DEF MessageRight
  <2>3. QED
    BY <1>1, <1>2, <1>3, <2>2, RecordedStays
<1>10. frames' = <<>> /\ outcome' \in Outcomes
  BY <1>1, <1>2 DEF Built, Outcomes
<1>11. CallerInv'
  BY <1>1, <1>2, <1>3, <1>8, <1>9, <1>10, DoneNow
<1>12. QED
  BY <1>2, <1>11 DEF DecoderInv

LEMMA EmitMessageKeeps ==
  ASSUME DecoderInv, EmitMessage
  PROVE  DecoderInv'
<1>1. caller = "ParseNext" /\ HandOn
  BY DEF EmitMessage
<1>2. ~ClosingQuoteBuilt
  BY <1>1 DEF ClosingQuoteBuilt
<1>3. QED
  BY <1>1, <1>2, HandOnKeeps

LEMMA StoreRecordKeeps ==
  ASSUME DecoderInv, StoreRecord
  PROVE  DecoderInv'
BY HandOnKeeps DEF StoreRecord

(* A constructor changes neither the line nor the target.                  *)
LEMMA ConstructionStays ==
  ASSUME Construction
  PROVE  frames # <<>> /\ csvLine' = csvLine /\ target' = target
BY DEF Construction, PopulateField, PopulateStruct, Constructed, Populating,
       Cache

(* The constructors go on.                                                 *)
LEMMA BuildKeeps ==
  ASSUME DecoderInv, Build
  PROVE  DecoderInv'
<1>1. Construction /\ UNCHANGED <<caller, pc, recorded, outcome, message>>
  BY DEF Build
<1>2. ReaderInv'
  BY <1>1, ConstructionKeeps DEF DecoderInv
<1>3. frames # <<>> /\ csvLine' = csvLine /\ target' = target
  BY <1>1, ConstructionStays
<1>4. CallerInv /\ RecordedRight /\ pc # "done"
  BY <1>3 DEF DecoderInv, CallerInv, AtEnd
<1>5. RecordedRight'
  BY <1>1, <1>3, <1>4, RecordedStays
<1>6. /\ pc' = "start" => AtStart'
      /\ pc' = "header" => AtHeader'
      /\ pc' = "body" => AtBody'
  <2>1. pc' = "start" => AtStart'
    BY <1>1, <1>3, <1>4 DEF CallerInv, AtStart
  <2>2. pc' = "header" => AtHeader'
    BY <1>1, <1>3, <1>4 DEF CallerInv, AtHeader
  <2>3. pc' = "body" => AtBody'
    BY <1>1, <1>3, <1>4, LineStays DEF CallerInv, AtBody
  <2>4. QED
    BY <2>1, <2>2, <2>3
<1>7. /\ pc' \in {"start", "header", "body"}
      /\ caller = "anyone" => pc' = "start"
  BY <1>1, <1>4 DEF CallerInv
<1>8. CallerInv'
  BY <1>1, <1>3, <1>4, <1>5, <1>6, <1>7, NotYetDone
<1>9. QED
  BY <1>2, <1>8 DEF DecoderInv

(* Anyone uses the reader, in any order.                                   *)
LEMMA UseReaderKeeps ==
  ASSUME DecoderInv, UseReader
  PROVE  DecoderInv'
<1>1. /\ caller = "anyone" /\ CsvNext
      /\ UNCHANGED <<caller, pc, recorded, outcome, message>>
  BY DEF UseReader
<1>2. ReaderInv' /\ csvLine' = csvLine
  <2>1. ASSUME NEW n \in FieldNums, GetField(n)
        PROVE  ReaderInv' /\ csvLine' = csvLine
    <3>1. n \in Nat
      BY CsvAssumption
    <3>2. QED
      BY <2>1, <3>1, GetFieldKeeps DEF DecoderInv, GetField, Cache
  <2>2. ASSUME NEW T \in Structs, Construct(T)
        PROVE  ReaderInv' /\ csvLine' = csvLine
    BY <2>2, ConstructKeeps, ConstructStays DEF DecoderInv
  <2>3. ASSUME Construction
        PROVE  ReaderInv' /\ csvLine' = csvLine
    BY <2>3, ConstructionKeeps, ConstructionStays DEF DecoderInv
  <2>4. QED
    BY <1>1, <2>1, <2>2, <2>3 DEF CsvNext
<1>3. CallerInv /\ RecordedRight /\ pc = "start" /\ AtStart
  BY <1>1 DEF DecoderInv, CallerInv
<1>4. RecordedRight' /\ AtStart'
  BY <1>1, <1>2, <1>3, RecordedStays DEF AtStart
<1>5. CallerInv'
  BY <1>1, <1>2, <1>3, <1>4, NotYetDone
<1>6. QED
  BY <1>2, <1>5 DEF DecoderInv

(* A fresh reader has read nothing.                                        *)
LEMMA InitDecoder == Init => DecoderInv
<1> SUFFICES ASSUME Init PROVE DecoderInv
  OBVIOUS
<1>1. /\ caller \in Callers /\ csvLine \in Seq(Pieces)
      /\ commaPositions = <<>> /\ exhausted = FALSE /\ target = ""
      /\ frames = <<>> /\ values = <<>> /\ error = NoError
      /\ pc = "start" /\ recorded = <<>> /\ outcome = ""
  BY DEF Init, CsvInit
<1>2. /\ csvLine \in Seq(Pieces) /\ commaPositions = <<>>
      /\ frames = <<>> /\ values = <<>>
  BY <1>1
<1>3. 1 .. 0 = {} /\ 1 .. 0 - 1 = {}
  OBVIOUS
<1>4. CacheInv
  <2>1. Commas(csvLine) \in Seq(1 .. Len(csvLine))
    BY <1>1, SplitIsBetweenCommas DEF AreCommas
  <2>2. Len(Commas(csvLine)) \in Nat
    BY <2>1
  <2>3. commaPositions \in Seq(Nat) /\ Len(commaPositions) = 0
    BY <1>2
  <2>4. Begins(commaPositions, Commas(csvLine))
    BY <1>3, <2>2, <2>3 DEF Begins
  <2>5. QED
    BY <1>1, <2>4 DEF CacheInv
<1>5. FramesPlaced
  <2>1. frames \in Seq(Frames) /\ Len(frames) = 0
    BY <1>2
  <2>2. QED
    BY <1>1, <1>3, <2>1 DEF FramesPlaced
<1>6. ValuesRead
  <2>1. values \in Seq(Seq(Pieces \ {Comma})) /\ Len(values) = 0
    BY <1>2
  <2>2. Len(SplitOf(csvLine)) \in Nat
    BY <1>2, SplitFacts, SplitIs
  <2>3. Len(values) <= Len(SplitOf(csvLine))
    BY <2>1, <2>2
  <2>4. 1 .. Len(values) = {}
    BY <1>3, <2>1
  <2>5. QED
    BY <2>1, <2>3, <2>4 DEF ValuesRead
<1>7. Ended
  BY <1>1 DEF Ended
<1>8. CallerInv
  <2>1. AtStart /\ RecordedRight
    BY <1>1 DEF AtStart, RecordedRight
  <2>2. MessageRight
    BY <1>1 DEF MessageRight
  <2>3. QED
    BY <1>1, <2>1, <2>2 DEF CallerInv
<1>9. QED
  BY <1>4, <1>5, <1>6, <1>7, <1>8 DEF DecoderInv, ReaderInv

(* Nothing changes.                                                        *)
LEMMA StutterKeeps ==
  ASSUME DecoderInv, UNCHANGED vars
  PROVE  DecoderInv'
<1>1. UNCHANGED csvVars /\ UNCHANGED <<caller, pc, recorded, outcome, message>>
  BY DEF vars
<1>2. /\ ReaderInv' /\ csvLine' = csvLine /\ frames' = frames
      /\ target' = target
  BY <1>1, ReaderStays DEF DecoderInv
<1>3. AtStart => AtStart'
  BY <1>1, <1>2 DEF AtStart
<1>4. AtHeader => AtHeader'
  BY <1>1, <1>2 DEF AtHeader
<1>5. AtBody => AtBody'
  BY <1>1, <1>2, LineStays DEF AtBody
<1>6. AtEnd => AtEnd'
  BY <1>1, <1>2, LineStays DEF AtEnd, Right
<1>7. RecordedRight => RecordedRight'
  BY <1>1, <1>2, RecordedStays
<1>8. MessageRight => MessageRight'
  <2>1. HandedOn(target)' = HandedOn(target)
    BY <1>1, <1>2 DEF HandedOn
  <2>2. QED
    BY <1>1, <2>1 DEF MessageRight
<1>9. CallerInv'
  BY <1>1, <1>3, <1>4, <1>5, <1>6, <1>7, <1>8 DEF DecoderInv, CallerInv
<1>10. QED
  BY <1>2, <1>9 DEF DecoderInv

(* The invariant the theorems rest on: the reader's state is that of a     *)
(* prefix of the line read, and the caller is where its header and its     *)
(* structure say.                                                          *)
THEOREM InvariantHolds == Spec => []DecoderInv
<1>1. DecoderInv /\ [Next]_vars => DecoderInv'
  <2> SUFFICES ASSUME DecoderInv, [Next]_vars PROVE DecoderInv'
    OBVIOUS
  <2>1. CASE ReadHeader
    BY <2>1, ReadHeaderKeeps
  <2>2. CASE ReadBody
    BY <2>2, ReadBodyKeeps
  <2>3. CASE DecodeFails
    BY <2>3, DecodeFailsKeeps
  <2>4. CASE UnknownType
    BY <2>4, UnknownTypeKeeps
  <2>5. CASE LookAtType
    BY <2>5, LookAtTypeKeeps
  <2>6. CASE SkipOtherType
    BY <2>6, SkipOtherTypeKeeps
  <2>7. CASE ReadRecord
    BY <2>7, ReadRecordKeeps
  <2>8. CASE SkipBadRecord
    BY <2>8, SkipBadRecordKeeps
  <2>9. CASE EmitMessage
    BY <2>9, EmitMessageKeeps
  <2>10. CASE Build
    BY <2>10, BuildKeeps
  <2>11. CASE UseReader
    BY <2>11, UseReaderKeeps
  <2>12. CASE UNCHANGED vars
    BY <2>12, StutterKeeps
  <2>13. CASE SkipClosingQuote
    BY <2>13, SkipClosingQuoteKeeps
  <2>14. CASE StoreRecord
    BY <2>14, StoreRecordKeeps
  <2>15. QED
    BY <2>1, <2>2, <2>3, <2>4, <2>5, <2>6, <2>7, <2>8, <2>9, <2>10, <2>11,
       <2>12, <2>13, <2>14 DEF Next
<1>2. QED
  BY <1>1, InitDecoder, PTL DEF Spec

(* GetField(n) finds the n-th field of the line split at its commas,       *)
(* whatever has been asked of the reader before and however its cache      *)
(* stands.                                                                 *)
THEOREM AnswersHold == Spec => []AnswersAgreeWithSplit
<1>1. DecoderInv => AnswersAgreeWithSplit
  BY AnswersFollow DEF DecoderInv
<1>2. QED
  BY <1>1, InvariantHolds, PTL

(* A structure is populated from consecutive fields, and ends with all of  *)
(* them or at the first one that is missing or does not convert, with its  *)
(* index.                                                                  *)
THEOREM FailuresHold == Spec => []FailsAtFirstBadField
<1>1. DecoderInv => FailsAtFirstBadField
  BY FailuresFollow DEF DecoderInv
<1>2. QED
  BY <1>1, InvariantHolds, PTL

(* ParseNext and the loaders hand a line on exactly when its type is       *)
(* looked for and all its fields convert, but for the closing quote, which *)
(* LoadLastQuote skips; they hand on the texts of the line, and ParseNext  *)
(* records the number of every line whose header can be read.              *)
THEOREM LinesHold == Spec => []LinesAreDecodedWhole
<1>1. DecoderInv => LinesAreDecodedWhole
  BY RightIsWhole DEF DecoderInv, CallerInv
<1>2. QED
  BY <1>1, InvariantHolds, PTL

(* The reader, the constructors and their callers have their types.        *)
THEOREM TypesHold == Spec => []TypeOK
<1>1. DecoderInv => TypeOK
  <2> SUFFICES ASSUME DecoderInv PROVE TypeOK
    OBVIOUS
  <2>1. CsvTypeOK
    BY ReaderTypes DEF DecoderInv
  <2>2. /\ caller \in Callers /\ pc \in {"start", "header", "body", "done"}
        /\ outcome \in Outcomes
    BY DEF DecoderInv, CallerInv, AtEnd, Outcomes
  <2>3. recorded \in {<<>>} \cup (Seq(Numerals) \X Seq(Numerals))
    <3>1. csvLine \in Seq(Pieces) /\ RecordedRight
      BY DEF DecoderInv, ReaderInv, CacheInv, CallerInv
    <3>2. QED
      BY <3>1, HeaderFields DEF RecordedRight
  <2>4. outcome = "none" => DOMAIN message = HandedOn(target)
    BY DEF DecoderInv, CallerInv, MessageRight
  <2>5. QED
    BY <2>1, <2>2, <2>3, <2>4 DEF TypeOK
<1>2. QED
  BY <1>1, InvariantHolds, PTL

=============================================================================
