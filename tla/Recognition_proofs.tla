------------------------- MODULE Recognition_proofs -------------------------
(***************************************************************************)
(* Theorems about reading plates, for any letters, patterns and bounds: no *)
(* reading gets lost in the search but behind equal scores, results come   *)
(* best first, the best plate is the best match, every region that may     *)
(* hold a plate is looked at, and what several analyses are combined to    *)
(* has no two plates in one place, every confident reading, and first what *)
(* all of them read first.                                                 *)
(*                                                                         *)
(* Letters, regions and clusters are collected by folds and scores are     *)
(* sums over sets.  What these do is proved by induction on the size of a  *)
(* set (NatSets, SubsetSets), with the fold's function built up to that    *)
(* size (FoldExists).                                                      *)
(***************************************************************************)
EXTENDS Recognition, FiniteSetTheorems, WellFoundedInduction, TLAPS

(* A plate has been read; the next one may be read.                        *)
NextPlate ==
  /\ pc = "read" /\ pc' = "segment"
  /\ UNCHANGED <<rules, line, letters, platevars, searchvars, resultvars>>

(* Seen from the plate that is read, recognising an image is to read one   *)
(* plate after the other.                                                  *)
LEMMA ReadsPlates ==
  ASSUME [RecognitionNext]_allvars
  PROVE  [ReadingNext \/ NextPlate]_readingvars
<1>1. CASE RecognitionNext
  BY <1>1 DEF RecognitionNext, Detect, Disqualify, BeginReading, Reading,
     EndReading, EndAnalysis, CombineAnalyses, NextCountry, ReadingNext,
     NextPlate
<1>2. CASE UNCHANGED allvars
  BY <1>2 DEF allvars
<1> QED
  BY <1>1, <1>2

---------------------------------------------------------------------------
(* Least and greatest numbers.                                             *)
LEMMA MinIsLeast ==
  ASSUME NEW T, T \subseteq Nat, T # {}
  PROVE  Min(T) \in T /\ \A y \in T : Min(T) <= y
<1>1. \E x \in T : \A y \in T : ~(<<y, x>> \in OpToRel(<, Nat))
  BY NatLessThanWellFounded, WFMin
<1>2. PICK x \in T : \A y \in T : ~(<<y, x>> \in OpToRel(<, Nat))
  BY <1>1
<1>3. \A y \in T : ~(y < x)
  BY <1>2, Zenon DEF OpToRel
<1>4. \A y \in T : x <= y
  BY <1>3
<1> QED
  BY <1>4 DEF Min

LEMMA MaxIsMost ==
  ASSUME NEW n \in Nat, NEW T, T \subseteq 1..n, T # {}
  PROVE  Max(T) \in T
<1> DEFINE U == {n - x : x \in T}
<1>1. U \subseteq Nat /\ U # {}
  <2>1. \A x \in T : n - x \in Nat
    OBVIOUS
  <2>2. PICK x \in T : TRUE
    OBVIOUS
  <2>3. n - x \in U
    BY <2>2
  <2> QED
    BY <2>1, <2>3
<1>2. PICK u \in U : \A y \in U : u <= y
  BY <1>1, MinIsLeast
<1>3. PICK x \in T : u = n - x
  OBVIOUS
<1>4. \A y \in T : x >= y
  <2> SUFFICES ASSUME NEW y \in T PROVE x >= y
    OBVIOUS
  <2>1. n - x <= n - y
    BY <1>2, <1>3
  <2>2. x \in Int /\ y \in Int
    OBVIOUS
  <2> QED
    BY <2>1, <2>2
<1> QED
  BY <1>4 DEF Max

---------------------------------------------------------------------------
(* Induction, as a fact about sets instead of predicates.                  *)
LEMMA NatSets ==
  ASSUME NEW G, 0 \in G, \A n \in Nat : n \in G => n + 1 \in G
  PROVE  Nat \subseteq G
<1> SUFFICES ASSUME Nat \ G # {} PROVE FALSE
  OBVIOUS
<1> DEFINE m == Min(Nat \ G)
<1>1. m \in Nat \ G /\ \A y \in Nat \ G : m <= y
  BY MinIsLeast
<1> HIDE DEF m
<1>2. m - 1 \in Nat /\ m - 1 \in G
  BY <1>1
<1> QED
  BY <1>1, <1>2

(* C chooses an element of every set.                                      *)
Chooses(C, S) == \A s \in SUBSET S : s # {} => C[s] \in s

LEMMA SubsetSets ==
  ASSUME NEW S, IsFiniteSet(S), NEW C, Chooses(C, S), NEW G, {} \in G,
         \A s \in SUBSET S : s # {} /\ s \ {C[s]} \in G => s \in G
  PROVE  SUBSET S \subseteq G
<1> DEFINE N == {n \in Nat : \A s \in SUBSET S : Cardinality(s) = n => s \in G}
<1>1. \A s \in SUBSET S : IsFiniteSet(s) /\ Cardinality(s) \in Nat
  BY FS_Subset, FS_CardinalityType
<1>2. 0 \in N
  BY <1>1, FS_EmptySet
<1>3. ASSUME NEW n \in Nat, n \in N PROVE n + 1 \in N
  <2> SUFFICES ASSUME NEW s \in SUBSET S, Cardinality(s) = n + 1 PROVE s \in G
    OBVIOUS
  <2>1. s # {}
    BY FS_EmptySet
  <2>2. C[s] \in s
    BY <2>1 DEF Chooses
  <2>3. Cardinality(s \ {C[s]}) = n
    <3>1. Cardinality(s \ {C[s]}) = Cardinality(s) - 1
      BY <1>1, <2>2, FS_RemoveElement
    <3> QED
      BY <3>1
  <2>4. s \ {C[s]} \in G
    BY <1>3, <2>3
  <2> QED
    BY <2>1, <2>4
<1>4. Nat \subseteq N
  <2> HIDE DEF N
  <2> QED
    BY <1>2, <1>3, NatSets
<1> QED
  BY <1>1, <1>4

(* Folding over the subsets of a finite set.                               *)
Folds(h, S, F, C, base) ==
  \A s \in SUBSET S : h[s] = IF s = {} THEN base ELSE F[<<C[s], h[s \ {C[s]}]>>]

LEMMA FoldExists ==
  ASSUME NEW S, IsFiniteSet(S), NEW V, NEW base \in V, NEW F \in [S \X V -> V],
         NEW C, Chooses(C, S)
  PROVE  \E h \in [SUBSET S -> V] : Folds(h, S, F, C, base)
<1> DEFINE D(n) == {s \in SUBSET S : Cardinality(s) <= n}
           Good(h, n) == \A s \in D(n) :
              h[s] = IF s = {} THEN base ELSE F[<<C[s], h[s \ {C[s]}]>>]
           N == {n \in Nat : \E h \in [D(n) -> V] : Good(h, n)}
<1>1. \A s \in SUBSET S : /\ IsFiniteSet(s) /\ Cardinality(s) \in Nat
                          /\ Cardinality(s) <= Cardinality(S)
                          /\ Cardinality(s) = 0 <=> s = {}
  BY FS_Subset, FS_CardinalityType, FS_EmptySet
<1>2. 0 \in N
  <2>1. \A s \in D(0) : s = {}
    BY <1>1
  <2>2. [s \in D(0) |-> base] \in [D(0) -> V]
    OBVIOUS
  <2>3. Good([s \in D(0) |-> base], 0)
    BY <2>1
  <2> QED
    BY <2>2, <2>3
<1>3. ASSUME NEW n \in Nat, n \in N PROVE n + 1 \in N
  <2>1. PICK h \in [D(n) -> V] : Good(h, n)
    BY <1>3
  <2> DEFINE e(s) == IF s = {} THEN base ELSE F[<<C[s], h[s \ {C[s]}]>>]
             k == [s \in D(n + 1) |-> e(s)]
  <2>2. ASSUME NEW s \in D(n + 1), s # {}
        PROVE  C[s] \in S /\ s \ {C[s]} \in D(n)
    <3>1. C[s] \in s
      BY <2>2 DEF Chooses
    <3>2. Cardinality(s \ {C[s]}) = Cardinality(s) - 1
      BY <1>1, <3>1, FS_RemoveElement
    <3> QED
      BY <1>1, <3>1, <3>2
  <2>3. \A s \in D(n + 1) : e(s) \in V
    BY <2>2
  <2>4. k \in [D(n + 1) -> V]
    BY <2>3
  <2>5. \A s \in D(n) : s \in D(n + 1) /\ k[s] = h[s]
    <3>1. \A s \in D(n) : s \in D(n + 1)
      BY <1>1
    <3>2. \A s \in D(n + 1) : k[s] = e(s)
      OBVIOUS
    <3> HIDE DEF k
    <3> QED
      BY <2>1, <3>1, <3>2
  <2>6. Good(k, n + 1)
    <3> SUFFICES ASSUME NEW s \in D(n + 1)
                 PROVE  k[s] = IF s = {} THEN base ELSE F[<<C[s], k[s \ {C[s]}]>>]
      OBVIOUS
    <3>1. k[s] = e(s)
      OBVIOUS
    <3>2. s # {} => k[s \ {C[s]}] = h[s \ {C[s]}]
      BY <2>2, <2>5
    <3> HIDE DEF k
    <3> QED
      BY <3>1, <3>2
  <2>7. \E g \in [D(n + 1) -> V] : Good(g, n + 1)
    <3> HIDE DEF k, Good, D
    <3> QED
      BY <2>4, <2>6
  <2> HIDE DEF Good, D
  <2> QED
    BY <2>7
<1>4. Nat \subseteq N
  <2> HIDE DEF N
  <2> QED
    BY <1>2, <1>3, NatSets
<1> DEFINE n == Cardinality(S)
<1>5. n \in Nat /\ D(n) = SUBSET S
  BY <1>1, FS_CardinalityType
<1>6. PICK h \in [D(n) -> V] : Good(h, n)
  BY <1>4, <1>5
<1> QED
  BY <1>5, <1>6 DEF Folds

---------------------------------------------------------------------------
(* Sums, as MapThenSumSet adds them up.                                    *)
One(s) == CHOOSE x \in s : TRUE

Sums(h, T, S) ==
  \A s \in SUBSET S : h[s] = IF s = {} THEN 0 ELSE T[One(s)] + h[s \ {One(s)}]

LEMMA OneChooses == ASSUME NEW S PROVE Chooses([s \in SUBSET S |-> One(s)], S)
BY DEF Chooses, One

LEMMA SumsExist ==
  ASSUME NEW S, IsFiniteSet(S), NEW T \in [S -> Int]
  PROVE  \E h \in [SUBSET S -> Int] : Sums(h, T, S)
<1> DEFINE F == [x \in S \X Int |-> T[x[1]] + x[2]]
           C == [s \in SUBSET S |-> One(s)]
<1>1. F \in [S \X Int -> Int]
  OBVIOUS
<1>2. PICK h \in [SUBSET S -> Int] : Folds(h, S, F, C, 0)
  <2> HIDE DEF F, C
  <2>1. Chooses(C, S)
    BY OneChooses DEF C
  <2>2. 0 \in Int
    OBVIOUS
  <2> QED
    BY <1>1, <2>1, <2>2, FoldExists
<1>3. ASSUME NEW s \in SUBSET S
      PROVE  h[s] = IF s = {} THEN 0 ELSE T[One(s)] + h[s \ {One(s)}]
  <2>1. CASE s = {}
    BY <1>2, <2>1 DEF Folds
  <2>2. CASE s # {}
    <3>1. One(s) \in S /\ C[s] = One(s) /\ h[s \ {One(s)}] \in Int
      BY <2>2 DEF One
    <3>2. h[s] = F[<<One(s), h[s \ {One(s)}]>>]
      BY <1>2, <2>2, <3>1 DEF Folds
    <3> QED
      BY <2>2, <3>1, <3>2
  <2> QED
    BY <2>1, <2>2
<1> QED
  BY <1>3 DEF Sums

LEMMA SumInduction ==
  ASSUME NEW S, IsFiniteSet(S), NEW G, {} \in G,
         \A s \in SUBSET S : s # {} /\ s \ {One(s)} \in G => s \in G
  PROVE  SUBSET S \subseteq G
<1> DEFINE C == [s \in SUBSET S |-> One(s)]
<1>1. \A s \in SUBSET S : C[s] = One(s)
  OBVIOUS
<1>2. Chooses(C, S)
  BY OneChooses
<1> HIDE DEF C
<1> QED
  BY <1>1, <1>2, SubsetSets

LEMMA SumsTyped ==
  ASSUME NEW S, IsFiniteSet(S), NEW T \in [S -> Int], NEW h, Sums(h, T, S)
  PROVE  \A s \in SUBSET S : h[s] \in Int
<1> DEFINE G == {s \in SUBSET S : h[s] \in Int}
<1>1. {} \in G
  <2>1. {} \in SUBSET S /\ h[{}] = 0
    BY DEF Sums
  <2> QED
    BY <2>1
<1>2. ASSUME NEW s \in SUBSET S, s # {}, s \ {One(s)} \in G PROVE s \in G
  <2>1. One(s) \in S
    BY <1>2 DEF One
  <2>2. T[One(s)] \in Int /\ h[s \ {One(s)}] \in Int
    BY <1>2, <2>1
  <2>3. h[s] = T[One(s)] + h[s \ {One(s)}]
    BY <1>2 DEF Sums
  <2> QED
    BY <2>2, <2>3
<1>3. SUBSET S \subseteq G
  <2> HIDE DEF G
  <2> QED
    BY <1>1, <1>2, SumInduction
<1> QED
  BY <1>3

(* Larger numbers, larger sum.                                             *)
LEMMA SumsGrow ==
  ASSUME NEW S, IsFiniteSet(S), NEW T \in [S -> Int], NEW U \in [S -> Int],
         NEW h, Sums(h, T, S), NEW k, Sums(k, U, S),
         \A x \in S : T[x] <= U[x]
  PROVE  h[S] <= k[S]
<1> DEFINE G == {s \in SUBSET S : h[s] <= k[s]}
<1>1. \A s \in SUBSET S : h[s] \in Int /\ k[s] \in Int
  BY SumsTyped
<1>2. {} \in G
  <2>1. {} \in SUBSET S /\ h[{}] = 0 /\ k[{}] = 0
    BY DEF Sums
  <2> QED
    BY <2>1
<1>3. ASSUME NEW s \in SUBSET S, s # {}, s \ {One(s)} \in G PROVE s \in G
  <2>1. One(s) \in S
    BY <1>3 DEF One
  <2>2. /\ h[s] = T[One(s)] + h[s \ {One(s)}]
        /\ k[s] = U[One(s)] + k[s \ {One(s)}]
    BY <1>3 DEF Sums
  <2>3. /\ T[One(s)] \in Int /\ U[One(s)] \in Int /\ T[One(s)] <= U[One(s)]
        /\ h[s \ {One(s)}] \in Int /\ k[s \ {One(s)}] \in Int
        /\ h[s \ {One(s)}] <= k[s \ {One(s)}]
    BY <1>1, <1>3, <2>1
  <2> QED
    BY <2>2, <2>3
<1>4. SUBSET S \subseteq G
  <2> HIDE DEF G
  <2> QED
    BY <1>2, <1>3, SumInduction
<1> QED
  BY <1>4

(* Another number in one place.                                            *)
LEMMA SumsShift ==
  ASSUME NEW S, IsFiniteSet(S), NEW T \in [S -> Int], NEW U \in [S -> Int],
         NEW h, Sums(h, T, S), NEW k, Sums(k, U, S),
         NEW i \in S, \A x \in S \ {i} : U[x] = T[x]
  PROVE  k[S] = h[S] - (T[i] - U[i])
<1> DEFINE G == {s \in SUBSET S : k[s] = IF i \in s THEN h[s] - (T[i] - U[i])
                                         ELSE h[s]}
<1>1. \A s \in SUBSET S : h[s] \in Int /\ k[s] \in Int
  BY SumsTyped
<1>2. {} \in G
  <2>1. {} \in SUBSET S /\ h[{}] = 0 /\ k[{}] = 0
    BY DEF Sums
  <2> QED
    BY <2>1
<1>3. ASSUME NEW s \in SUBSET S, s # {}, s \ {One(s)} \in G PROVE s \in G
  <2>1. One(s) \in s
    BY <1>3 DEF One
  <2>2. /\ h[s] = T[One(s)] + h[s \ {One(s)}]
        /\ k[s] = U[One(s)] + k[s \ {One(s)}]
    BY <1>3 DEF Sums
  <2>3. /\ T[One(s)] \in Int /\ U[One(s)] \in Int /\ T[i] \in Int /\ U[i] \in Int
        /\ h[s \ {One(s)}] \in Int /\ k[s \ {One(s)}] \in Int
    BY <1>1, <2>1
  <2>4. k[s \ {One(s)}] = IF i \in s \ {One(s)} THEN h[s \ {One(s)}] - (T[i] - U[i])
                          ELSE h[s \ {One(s)}]
    BY <1>3
  <2>5. CASE One(s) = i
    BY <2>1, <2>2, <2>3, <2>4, <2>5
  <2>6. CASE One(s) # i
    BY <2>1, <2>2, <2>3, <2>4, <2>6
  <2> QED
    BY <2>5, <2>6
<1>4. SUBSET S \subseteq G
  <2> HIDE DEF G
  <2> QED
    BY <1>2, <1>3, SumInduction
<1> QED
  BY <1>4

(* Sums of natural numbers.                                                *)
LEMMA SumsNatural ==
  ASSUME NEW S, IsFiniteSet(S), NEW T \in [S -> Nat], NEW h, Sums(h, T, S)
  PROVE  \A s \in SUBSET S : h[s] \in Nat
<1> DEFINE G == {s \in SUBSET S : h[s] \in Nat}
<1>1. {} \in G
  <2>1. {} \in SUBSET S /\ h[{}] = 0
    BY DEF Sums
  <2> QED
    BY <2>1
<1>2. ASSUME NEW s \in SUBSET S, s # {}, s \ {One(s)} \in G PROVE s \in G
  <2>1. One(s) \in S
    BY <1>2 DEF One
  <2>2. T[One(s)] \in Nat /\ h[s \ {One(s)}] \in Nat
    BY <1>2, <2>1
  <2>3. h[s] = T[One(s)] + h[s \ {One(s)}]
    BY <1>2 DEF Sums
  <2> QED
    BY <2>2, <2>3
<1>3. SUBSET S \subseteq G
  <2> HIDE DEF G
  <2> QED
    BY <1>1, <1>2, SumInduction
<1> QED
  BY <1>3

(* Any element may be added last.                                          *)
LEMMA SumsTake ==
  ASSUME NEW S, IsFiniteSet(S), NEW T \in [S -> Int], NEW h, Sums(h, T, S)
  PROVE  \A s \in SUBSET S : \A x \in s : h[s] = T[x] + h[s \ {x}]
<1> DEFINE D(n) == {s \in SUBSET S : Cardinality(s) = n}
           N == {n \in Nat : \A s \in D(n) : \A x \in s : h[s] = T[x] + h[s \ {x}]}
<1>1. \A s \in SUBSET S : /\ IsFiniteSet(s) /\ Cardinality(s) \in Nat
                          /\ Cardinality(s) = 0 <=> s = {}
                          /\ h[s] \in Int
  BY FS_Subset, FS_CardinalityType, FS_EmptySet, SumsTyped
<1>2. 0 \in N
  BY <1>1
<1>3. ASSUME NEW n \in Nat, n \in N PROVE n + 1 \in N
  <2> SUFFICES ASSUME NEW s \in D(n + 1), NEW x \in s PROVE h[s] = T[x] + h[s \ {x}]
    OBVIOUS
  <2>1. s # {} /\ s \in SUBSET S
    OBVIOUS
  <2>2. PICK a : a = One(s)
    OBVIOUS
  <2>3. a \in s /\ h[s] = T[a] + h[s \ {a}]
    BY <2>1, <2>2 DEF Sums, One
  <2>4. CASE a = x
    BY <2>3, <2>4
  <2>5. CASE a # x
    <3>1. Cardinality(s \ {a}) = n /\ Cardinality(s \ {x}) = n
      <4>1. IsFiniteSet(s) /\ Cardinality(s) = n + 1
        BY <1>1
      <4>2. /\ Cardinality(s \ {a}) = Cardinality(s) - 1
            /\ Cardinality(s \ {x}) = Cardinality(s) - 1
        BY <2>3, <4>1, FS_RemoveElement
      <4> QED
        BY <4>1, <4>2
    <3>2. s \ {a} \in D(n) /\ s \ {x} \in D(n) /\ x \in s \ {a} /\ a \in s \ {x}
      BY <2>1, <2>3, <2>5, <3>1
    <3>3. /\ h[s \ {a}] = T[x] + h[(s \ {a}) \ {x}]
          /\ h[s \ {x}] = T[a] + h[(s \ {x}) \ {a}]
      BY <1>3, <3>2
    <3>4. (s \ {a}) \ {x} = (s \ {x}) \ {a} /\ (s \ {a}) \ {x} \in SUBSET S
      BY <2>1
    <3>5. PICK r : r = (s \ {a}) \ {x}
      OBVIOUS
    <3>6. T[a] \in Int /\ T[x] \in Int /\ h[r] \in Int
      BY <1>1, <2>1, <2>3, <3>4, <3>5
    <3>7. h[s \ {a}] = T[x] + h[r] /\ h[s \ {x}] = T[a] + h[r]
      BY <3>3, <3>4, <3>5
    <3>8. h[s] = T[a] + (T[x] + h[r])
      BY <2>3, <3>7
    <3>9. T[a] + (T[x] + h[r]) = T[x] + (T[a] + h[r])
      BY <3>6
    <3> QED
      BY <3>7, <3>8, <3>9
  <2> QED
    BY <2>4, <2>5
<1>4. Nat \subseteq N
  <2> HIDE DEF N
  <2> QED
    BY <1>2, <1>3, NatSets
<1> SUFFICES ASSUME NEW s \in SUBSET S, NEW x \in s PROVE h[s] = T[x] + h[s \ {x}]
  OBVIOUS
<1>5. Cardinality(s) \in N
  <2> HIDE DEF N
  <2> QED
    BY <1>1, <1>4
<1> QED
  BY <1>5

(* Every summand has a larger counterpart of its own.                      *)
LEMMA SumsLess ==
  ASSUME NEW S, IsFiniteSet(S), NEW T \in [S -> Int], NEW h, Sums(h, T, S), S # {},
         NEW R, IsFiniteSet(R), NEW U \in [R -> Nat], NEW k, Sums(k, U, R),
         NEW f \in [S -> R], \A x, y \in S : f[x] = f[y] => x = y,
         \A x \in S : T[x] < U[f[x]]
  PROVE  h[S] < k[R]
<1> DEFINE I(s) == {f[x] : x \in s}
           G == {s \in SUBSET S : \A r \in SUBSET R :
                   I(s) \subseteq r => h[s] <= k[r] /\ (s # {} => h[s] < k[r])}
<1>1. \A s \in SUBSET S : h[s] \in Int
  BY SumsTyped
<1>2. \A r \in SUBSET R : k[r] \in Nat
  BY SumsNatural
<1>3. {} \in G
  <2>1. h[{}] = 0 /\ {} \in SUBSET S
    BY DEF Sums
  <2> QED
    BY <1>2, <2>1
<1>4. ASSUME NEW s \in SUBSET S, s # {}, s \ {One(s)} \in G PROVE s \in G
  <2> SUFFICES ASSUME NEW r \in SUBSET R, I(s) \subseteq r PROVE h[s] < k[r]
    BY <1>1, <1>2
  <2>1. PICK a : a = One(s)
    OBVIOUS
  <2>2. a \in s /\ h[s] = T[a] + h[s \ {a}]
    BY <1>4, <2>1 DEF Sums, One
  <2>3. f[a] \in r
    BY <2>2
  <2>4. k[r] = U[f[a]] + k[r \ {f[a]}]
    <3>1. U \in [R -> Int]
      OBVIOUS
    <3> QED
      BY <2>3, <3>1, SumsTake
  <2>5. I(s \ {a}) \subseteq r \ {f[a]}
    BY <2>2
  <2>6. s \ {a} \in G /\ r \ {f[a]} \in SUBSET R
    BY <1>4, <2>1
  <2>7. h[s \ {a}] <= k[r \ {f[a]}]
    BY <2>5, <2>6
  <2>8. /\ T[a] \in Int /\ U[f[a]] \in Int /\ T[a] < U[f[a]]
        /\ h[s \ {a}] \in Int /\ k[r \ {f[a]}] \in Int
    BY <1>1, <1>2, <2>2
  <2> QED
    BY <2>2, <2>4, <2>7, <2>8
<1>5. SUBSET S \subseteq G
  <2> HIDE DEF G
  <2> QED
    BY <1>3, <1>4, SumInduction
<1>6. S \in G /\ I(S) \subseteq R
  BY <1>5
<1> QED
  BY <1>6

---------------------------------------------------------------------------
(* Sequences.                                                              *)
LEMMA SeqParts ==
  ASSUME NEW S, NEW s \in Seq(S)
  PROVE  /\ Len(s) \in Nat /\ DOMAIN s = 1 .. Len(s)
         /\ \A i \in DOMAIN s : s[i] \in S
OBVIOUS

LEMMA SeqMade ==
  ASSUME NEW S, NEW n \in Nat, NEW s \in [1..n -> S]
  PROVE  s \in Seq(S) /\ Len(s) = n
OBVIOUS

LEMMA SeqLonger ==
  ASSUME NEW S, NEW s \in Seq(S), NEW x \in S
  PROVE  /\ Append(s, x) \in Seq(S) /\ Len(Append(s, x)) = Len(s) + 1
         /\ \A i \in DOMAIN s : i \in DOMAIN Append(s, x) /\ Append(s, x)[i] = s[i]
         /\ Append(s, x)[Len(s) + 1] = x
         /\ \A i \in DOMAIN Append(s, x) : i \in DOMAIN s \/ i = Len(s) + 1
OBVIOUS

(* s holds what q holds, and then what r holds.                            *)
Joins(s, q, r) ==
  /\ Len(s) = Len(q) + Len(r)
  /\ \A k \in DOMAIN q : k \in DOMAIN s /\ s[k] = q[k]
  /\ \A k \in DOMAIN r : Len(q) + k \in DOMAIN s /\ s[Len(q) + k] = r[k]
  /\ \A k \in DOMAIN s : k \in DOMAIN q \/ \E j \in DOMAIN r : k = Len(q) + j

LEMMA SeqJoined ==
  ASSUME NEW S, NEW q \in Seq(S), NEW r \in Seq(S)
  PROVE  q \o r \in Seq(S) /\ Joins(q \o r, q, r)
<1>1. /\ q \o r \in Seq(S) /\ Len(q \o r) = Len(q) + Len(r)
      /\ Len(q) \in Nat /\ Len(r) \in Nat
      /\ DOMAIN q = 1 .. Len(q) /\ DOMAIN r = 1 .. Len(r)
      /\ DOMAIN (q \o r) = 1 .. Len(q) + Len(r)
  OBVIOUS
<1>2. \A k \in DOMAIN q : k \in DOMAIN (q \o r) /\ (q \o r)[k] = q[k]
  BY <1>1
<1>3. \A k \in DOMAIN r : /\ Len(q) + k \in DOMAIN (q \o r)
                          /\ (q \o r)[Len(q) + k] = r[k]
  BY <1>1
<1>4. ASSUME NEW k \in DOMAIN (q \o r), k \notin DOMAIN q
      PROVE  \E j \in DOMAIN r : k = Len(q) + j
  <2>1. k - Len(q) \in DOMAIN r /\ k = Len(q) + (k - Len(q))
    BY <1>1, <1>4
  <2> QED
    BY <2>1
<1> QED
  BY <1>1, <1>2, <1>3, <1>4 DEF Joins

(* Sequences of sequences, flattened: from left to right.                  *)
LEMMA FlattenSteps ==
  ASSUME NEW T, NEW s \in Seq(Seq(T)), Len(s) # 0
  PROVE  \E k : /\ FlattenSeq(s) = k[Len(s)]
                /\ \A i \in 1 .. Len(s) : k[i] = IF i = 1 THEN s[i] ELSE k[i-1] \o s[i]
<1> DEFINE n == Len(s)
           Is(h) == h = [i \in 1..n |-> IF i = 1 THEN s[i] ELSE h[i-1] \o s[i]]
           Up(h, m) == \A i \in 1..m : i <= n =>
                         h[i] = IF i = 1 THEN s[i] ELSE h[i-1] \o s[i]
           N == {m \in Nat : \E h \in [1..m -> Seq(T)] : Up(h, m)}
<1>1. n \in Nat \ {0} /\ \A i \in 1..n : s[i] \in Seq(T)
  OBVIOUS
<1>2. FlattenSeq(s) = (CHOOSE h : Is(h))[n]
  BY DEF FlattenSeq
<1> HIDE DEF n
<1>3. 0 \in N
  <2>1. [i \in 1..0 |-> <<>>] \in [1..0 -> Seq(T)] /\ Up([i \in 1..0 |-> <<>>], 0)
    OBVIOUS
  <2> HIDE DEF Up
  <2> QED
    BY <2>1
<1>4. ASSUME NEW m \in Nat, m \in N PROVE m + 1 \in N
  <2>1. PICK h \in [1..m -> Seq(T)] : Up(h, m)
    BY <1>4
  <2> DEFINE x == IF m + 1 > n THEN <<>> ELSE IF m = 0 THEN s[1] ELSE h[m] \o s[m + 1]
             g == [i \in 1..(m + 1) |-> IF i = m + 1 THEN x ELSE h[i]]
  <2>2. x \in Seq(T)
    <3>1. m # 0 => h[m] \in Seq(T)
      OBVIOUS
    <3>2. m + 1 <= n => s[m + 1] \in Seq(T)
      BY <1>1
    <3>3. m # 0 /\ m + 1 <= n => h[m] \o s[m + 1] \in Seq(T)
      BY <3>1, <3>2
    <3>4. s[1] \in Seq(T) /\ <<>> \in Seq(T)
      BY <1>1
    <3> QED
      BY <1>1, <3>2, <3>3, <3>4
  <2>3. g \in [1..(m + 1) -> Seq(T)]
    <3> HIDE DEF x
    <3> QED
      BY <2>2
  <2>4. \A i \in 1..m : g[i] = h[i]
    <3>1. \A i \in 1..m : i \in 1..(m + 1) /\ i # m + 1
      OBVIOUS
    <3> HIDE DEF x
    <3> QED
      BY <3>1
  <2>5. g[m + 1] = x
    OBVIOUS
  <2>6. ASSUME NEW i \in 1..(m + 1), i <= n
        PROVE  g[i] = IF i = 1 THEN s[i] ELSE g[i-1] \o s[i]
    <3> HIDE DEF g
    <3>1. CASE i \in 1..m
      <4>1. i # 1 => i - 1 \in 1..m
        BY <3>1
      <4> QED
        BY <2>1, <2>4, <2>6, <3>1, <4>1
    <3>2. CASE i = m + 1
      <4>1. m # 0 => m \in 1..m /\ i - 1 = m
        BY <3>2
      <4>2. ~(m + 1 > n)
        BY <1>1, <2>6, <3>2
      <4> QED
        BY <2>4, <2>5, <3>2, <4>1, <4>2
    <3> QED
      BY <3>1, <3>2
  <2>7. Up(g, m + 1)
    BY <2>6
  <2> HIDE DEF g, Up
  <2> QED
    BY <2>3, <2>7
<1>5. Nat \subseteq N
  <2> HIDE DEF N
  <2> QED
    BY <1>3, <1>4, NatSets
<1>6. PICK h \in [1..n -> Seq(T)] : \A i \in 1..n :
        h[i] = IF i = 1 THEN s[i] ELSE h[i-1] \o s[i]
  <2>1. n \in N
    <3> HIDE DEF N
    <3> QED
      BY <1>1, <1>5
  <2>2. \A i \in 1..n : i <= n
    BY <1>1
  <2> QED
    BY <2>1, <2>2
<1>7. Is(h)
  BY <1>6
<1> DEFINE k == CHOOSE g : Is(g)
<1>8. Is(k)
  <2> HIDE DEF Is
  <2> QED
    BY <1>7
<1> HIDE DEF k
<1>9. \A i \in 1..n : k[i] = IF i = 1 THEN s[i] ELSE k[i-1] \o s[i]
  BY <1>8
<1>10. FlattenSeq(s) = k[n]
  BY <1>2 DEF k
<1> QED
  BY <1>9, <1>10 DEF n

(* What holds of the first sequence and of one more, joined.               *)
LEMMA FlattenInduction ==
  ASSUME NEW T, NEW s \in Seq(Seq(T)), Len(s) # 0, NEW G, <<1, s[1]>> \in G,
         \A m \in 1 .. Len(s) - 1, q \in Seq(T) :
           <<m, q>> \in G => <<m + 1, q \o s[m + 1]>> \in G
  PROVE  FlattenSeq(s) \in Seq(T) /\ <<Len(s), FlattenSeq(s)>> \in G
<1> DEFINE n == Len(s)
<1>1. PICK k : /\ FlattenSeq(s) = k[n]
               /\ \A i \in 1 .. n : k[i] = IF i = 1 THEN s[i] ELSE k[i-1] \o s[i]
  BY FlattenSteps
<1>2. n \in Nat \ {0} /\ \A i \in 1..n : s[i] \in Seq(T)
  OBVIOUS
<1> HIDE DEF n
<1> DEFINE M == {m \in Nat : m + 1 <= n => k[m + 1] \in Seq(T) /\ <<m + 1, k[m + 1]>> \in G}
<1>3. 0 \in M
  <2>1. k[1] = s[1] /\ s[1] \in Seq(T)
    BY <1>1, <1>2
  <2>2. k[0 + 1] \in Seq(T) /\ <<0 + 1, k[0 + 1]>> \in G
    BY <2>1
  <2> QED
    BY <2>2
<1>4. ASSUME NEW m \in Nat, m \in M PROVE m + 1 \in M
  <2> SUFFICES ASSUME (m + 1) + 1 <= n
               PROVE  k[(m + 1) + 1] \in Seq(T) /\ <<(m + 1) + 1, k[(m + 1) + 1]>> \in G
    OBVIOUS
  <2>1. k[m + 1] \in Seq(T) /\ <<m + 1, k[m + 1]>> \in G
    BY <1>2, <1>4
  <2>2. /\ (m + 1) + 1 \in 1..n /\ ((m + 1) + 1) - 1 = m + 1 /\ (m + 1) + 1 # 1
        /\ m + 1 \in 1 .. n - 1
    BY <1>2
  <2>3. k[(m + 1) + 1] = k[m + 1] \o s[(m + 1) + 1]
    BY <1>1, <2>2
  <2>4. k[m + 1] \o s[(m + 1) + 1] \in Seq(T)
    BY <1>2, <2>1, <2>2
  <2> QED
    BY <2>1, <2>2, <2>3, <2>4 DEF n
<1>5. Nat \subseteq M
  <2> HIDE DEF M
  <2> QED
    BY <1>3, <1>4, NatSets
<1>6. n - 1 \in M /\ (n - 1) + 1 = n
  <2> HIDE DEF M
  <2>1. n - 1 \in Nat /\ (n - 1) + 1 = n
    BY <1>2
  <2> QED
    BY <1>5, <2>1
<1>7. k[n] \in Seq(T) /\ <<n, k[n]>> \in G
  BY <1>2, <1>6
<1> QED
  BY <1>1, <1>7 DEF n

(* A flattened sequence holds every element once: w tells whence.          *)
Places(s) == {x \in (DOMAIN s) \X Nat : x[2] \in DOMAIN s[x[1]]}

Whence(w, r, s, P) ==
  /\ w \in [DOMAIN r -> P]
  /\ \A i \in DOMAIN r : r[i] = s[w[i][1]][w[i][2]]
  /\ \A i, j \in DOMAIN r : w[i] = w[j] => i = j
  /\ \A x \in P : \E i \in DOMAIN r : w[i] = x

LEMMA FlattenPlaces ==
  ASSUME NEW T, NEW s \in Seq(Seq(T))
  PROVE  FlattenSeq(s) \in Seq(T) /\ \E w : Whence(w, FlattenSeq(s), s, Places(s))
<1>1. CASE Len(s) = 0
  <2>1. s = <<>> /\ FlattenSeq(s) = s
    BY <1>1 DEF FlattenSeq
  <2>2. s \in Seq(T) /\ DOMAIN s = {}
    BY <2>1
  <2>3. Whence(s, s, s, Places(s))
    BY <2>1, <2>2 DEF Whence, Places
  <2> QED
    BY <2>1, <2>2, <2>3
<1>2. CASE Len(s) # 0
  <2> DEFINE P(m) == {x \in (1..m) \X Nat : x[2] \in DOMAIN s[x[1]]}
             G == {x \in Nat \X Seq(T) : \E w : Whence(w, x[2], s, P(x[1]))}
  <2>1. Len(s) \in Nat \ {0} /\ DOMAIN s = 1 .. Len(s) /\ \A i \in DOMAIN s : s[i] \in Seq(T)
    BY <1>2
  <2>2. <<1, s[1]>> \in G
    <3> DEFINE r == s[1]
               w == [i \in DOMAIN r |-> <<1, i>>]
    <3>1. r \in Seq(T) /\ DOMAIN r = 1 .. Len(r) /\ Len(r) \in Nat
      BY <2>1
    <3>2. \A i \in DOMAIN r : w[i] = <<1, i>> /\ <<1, i>> \in P(1)
      BY <3>1
    <3>3. \A x \in P(1) : x[2] \in DOMAIN r /\ x = <<1, x[2]>>
      OBVIOUS
    <3>4. w \in [DOMAIN r -> P(1)]
      BY <3>2
    <3>5. Whence(w, r, s, P(1))
      <4> HIDE DEF P
      <4>1. \A x \in P(1) : \E i \in DOMAIN r : w[i] = x
        BY <3>2, <3>3
      <4> QED
        BY <3>2, <3>4, <4>1 DEF Whence
    <3> HIDE DEF w, P, r
    <3>6. r \in Seq(T) /\ \E v : Whence(v, r, s, P(1))
      BY <3>1, <3>5
    <3> QED
      BY <3>6 DEF r
  <2>3. ASSUME NEW m \in 1 .. Len(s) - 1, NEW q \in Seq(T), <<m, q>> \in G
        PROVE  <<m + 1, q \o s[m + 1]>> \in G
    <3>1. PICK v : Whence(v, q, s, P(m))
      BY <2>3
    <3>2. PICK t \in Seq(T) : t = s[m + 1]
      BY <2>1
    <3> PICK r : r = q \o t
      OBVIOUS
    <3> DEFINE w == [i \in DOMAIN r |-> IF i \in DOMAIN q THEN v[i]
                                        ELSE <<m + 1, i - Len(q)>>]
    <3>3. /\ r \in Seq(T)
          /\ \A k \in DOMAIN q : k \in DOMAIN r /\ r[k] = q[k]
          /\ \A k \in DOMAIN t : Len(q) + k \in DOMAIN r /\ r[Len(q) + k] = t[k]
          /\ \A k \in DOMAIN r : k \in DOMAIN q \/ \E j \in DOMAIN t : k = Len(q) + j
      <4>1. q \o t \in Seq(T) /\ Joins(q \o t, q, t)
        BY SeqJoined
      <4>2. r = q \o t
        OBVIOUS
      <4> QED
        BY ONLY <4>1, <4>2 DEF Joins
    <3>4. /\ Len(q) \in Nat /\ DOMAIN q = 1 .. Len(q)
          /\ Len(t) \in Nat /\ DOMAIN t = 1 .. Len(t)
      OBVIOUS
    <3>5. /\ \A k \in DOMAIN q : w[k] = v[k]
          /\ \A k \in DOMAIN t : w[Len(q) + k] = <<m + 1, k>>
      <4>1. \A k \in DOMAIN q : w[k] = v[k]
        BY <3>3
      <4>2. ASSUME NEW k \in DOMAIN t PROVE w[Len(q) + k] = <<m + 1, k>>
        <5>1. Len(q) + k \in DOMAIN r /\ Len(q) + k \notin DOMAIN q /\ (Len(q) + k) - Len(q) = k
          BY <3>3, <3>4
        <5> QED
          BY <5>1
      <4> QED
        BY <4>1, <4>2
    <3>6. /\ \A x \in P(m) : x \in P(m + 1) /\ x[1] # m + 1
          /\ \A k \in DOMAIN t : <<m + 1, k>> \in P(m + 1)
          /\ \A x \in P(m + 1) : x \in P(m) \/ \E k \in DOMAIN t : x = <<m + 1, k>>
      <4>1. ASSUME NEW x \in P(m) PROVE x \in P(m + 1) /\ x[1] # m + 1
        <5>1. x[1] \in 1 .. m + 1 /\ x[1] # m + 1
          OBVIOUS
        <5>2. x \in (1 .. m + 1) \X Nat /\ x[2] \in DOMAIN s[x[1]]
          BY <5>1
        <5> QED
          BY <5>1, <5>2
      <4>2. \A k \in DOMAIN t : <<m + 1, k>> \in P(m + 1)
        BY <3>2, <3>4
      <4>3. ASSUME NEW x \in P(m + 1), x \notin P(m)
            PROVE  \E k \in DOMAIN t : x = <<m + 1, k>>
        <5>1. x[1] = m + 1 /\ x[2] \in DOMAIN s[m + 1] /\ x = <<x[1], x[2]>>
          BY <4>3
        <5> QED
          BY <3>2, <5>1
      <4> QED
        BY <4>1, <4>2, <4>3
    <3>7. /\ DOMAIN w = DOMAIN r /\ w = [i \in DOMAIN r |-> w[i]]
      OBVIOUS
    <3> HIDE DEF w, P
    <3>8. \A k \in DOMAIN q : /\ v[k] \in P(m) /\ q[k] = s[v[k][1]][v[k][2]]
      BY <3>1 DEF Whence
    <3>9. \A i \in DOMAIN r : w[i] \in P(m + 1) /\ r[i] = s[w[i][1]][w[i][2]]
      <4> SUFFICES ASSUME NEW i \in DOMAIN r
                   PROVE  w[i] \in P(m + 1) /\ r[i] = s[w[i][1]][w[i][2]]
        OBVIOUS
      <4>1. CASE i \in DOMAIN q
        BY <3>3, <3>5, <3>6, <3>8, <4>1
      <4>2. ASSUME NEW j \in DOMAIN t, i = Len(q) + j
            PROVE  w[i] \in P(m + 1) /\ r[i] = s[w[i][1]][w[i][2]]
        <5>1. w[i] = <<m + 1, j>> /\ r[i] = t[j]
          BY <3>3, <3>5, <4>2
        <5>2. w[i][1] = m + 1 /\ w[i][2] = j
          BY <5>1
        <5>3. s[w[i][1]][w[i][2]] = t[j]
          BY <3>2, <5>2
        <5> QED
          BY <3>6, <5>1, <5>3
      <4> QED
        BY <3>3, <4>1, <4>2
    <3>10. ASSUME NEW i \in DOMAIN r, NEW j \in DOMAIN r, w[i] = w[j] PROVE i = j
      <4>1. CASE i \in DOMAIN q /\ j \in DOMAIN q
        BY <3>1, <3>5, <3>10, <4>1 DEF Whence
      <4>2. ASSUME NEW a \in DOMAIN t, NEW b \in DOMAIN t, i = Len(q) + a, j = Len(q) + b
            PROVE  i = j
        <5>1. <<m + 1, a>> = <<m + 1, b>>
          BY <3>5, <3>10, <4>2
        <5> QED
          BY <4>2, <5>1
      <4>3. ASSUME NEW a \in DOMAIN q, NEW b \in DOMAIN t, w[a] = w[Len(q) + b] PROVE FALSE
        <5>1. w[a] \in P(m) /\ w[a] = <<m + 1, b>>
          BY <3>5, <3>8, <4>3
        <5> QED
          BY <3>6, <5>1
      <4> QED
        BY <3>3, <3>10, <4>1, <4>2, <4>3
    <3>11. ASSUME NEW x \in P(m + 1) PROVE \E i \in DOMAIN r : w[i] = x
      <4>1. CASE x \in P(m)
        <5>1. PICK k \in DOMAIN q : v[k] = x
          BY <3>1, <4>1 DEF Whence
        <5>2. k \in DOMAIN r /\ w[k] = x
          BY <3>3, <3>5, <5>1
        <5> QED
          BY <5>2
      <4>2. ASSUME NEW k \in DOMAIN t, x = <<m + 1, k>> PROVE \E i \in DOMAIN r : w[i] = x
        BY <3>3, <3>5, <4>2
      <4> QED
        BY <3>6, <4>1, <4>2
    <3>12. w \in [DOMAIN r -> P(m + 1)]
      BY <3>7, <3>9
    <3>13. Whence(w, r, s, P(m + 1))
      BY <3>9, <3>10, <3>11, <3>12 DEF Whence
    <3>14. r = q \o s[m + 1]
      BY <3>2
    <3>15. m + 1 \in Nat /\ r \in Seq(T) /\ \E u : Whence(u, r, s, P(m + 1))
      BY <2>1, <3>3, <3>13
    <3>16. <<m + 1, r>> \in G
      BY <3>15
    <3> QED
      BY <3>14, <3>16
  <2>4. FlattenSeq(s) \in Seq(T) /\ <<Len(s), FlattenSeq(s)>> \in G
    <3> HIDE DEF G
    <3> QED
      BY <1>2, <2>2, <2>3, FlattenInduction
  <2>5. P(Len(s)) = Places(s)
    BY <2>1 DEF Places
  <2>6. PICK w : Whence(w, FlattenSeq(s), s, P(Len(s)))
    BY <2>4
  <2> QED
    BY <2>4, <2>5, <2>6
<1> QED
  BY <1>1, <1>2

LEMMA FlattenTyped ==
  ASSUME NEW T, NEW s \in Seq(Seq(T))
  PROVE  FlattenSeq(s) \in Seq(T)
BY FlattenPlaces

---------------------------------------------------------------------------
(* Picks and the order Above on them.                                      *)

(* A pick maps positions to ranks, beyond the first only where there are   *)
(* as many letters.                                                        *)
LEMMA PicksAre ==
  ASSUME LettersTyped
  PROVE  \A p : p \in Picks <=>
           /\ p \in [Positions -> Nat \ {0}]
           /\ \A i \in Positions : p[i] = 1 \/ p[i] <= Len(letters[i])
<1>1. \A i \in Positions : Len(letters[i]) \in Nat
  BY DEF LettersTyped, Positions
<1>2. \A i \in Positions : \A r : r \in Ranks(i) <=>
                   r \in Nat \ {0} /\ (r = 1 \/ r <= Len(letters[i]))
  BY <1>1 DEF Ranks
<1>3. ASSUME NEW p \in Picks
      PROVE  /\ p \in [Positions -> Nat \ {0}]
             /\ \A i \in Positions : p[i] = 1 \/ p[i] <= Len(letters[i])
  <2>1. p \in [Positions -> UNION {Ranks(i) : i \in Positions}]
    BY DEF Picks
  <2>2. \A i \in Positions : p[i] \in Ranks(i)
    BY DEF Picks
  <2> QED
    BY <1>2, <2>1, <2>2
<1>4. ASSUME NEW p \in [Positions -> Nat \ {0}],
             \A i \in Positions : p[i] = 1 \/ p[i] <= Len(letters[i])
      PROVE  p \in Picks
  <2>1. \A i \in Positions : p[i] \in Ranks(i)
    BY <1>2, <1>4
  <2> QED
    BY <2>1 DEF Picks
<1> QED
  BY <1>3, <1>4

(* The pick of a child.                                                    *)
Next1(p, i) == [p EXCEPT ![i] = @ + 1]

LEMMA ChildPicks ==
  ASSUME LettersTyped, NEW top, top.pick \in Picks, NEW i \in Grows(top)
  PROVE  /\ Child(top, i).pick = Next1(top.pick, i)
         /\ Next1(top.pick, i) \in Picks
         /\ Above(Next1(top.pick, i), top.pick)
<1>1. /\ i \in Positions
      /\ top.pick \in [Positions -> Nat \ {0}]
      /\ \A k \in Positions : top.pick[k] = 1 \/ top.pick[k] <= Len(letters[k])
  BY PicksAre DEF Grows
<1>2. top.pick[i] + 1 <= Len(letters[i])
  BY <1>1 DEF Grows, LettersTyped, Positions
<1>3. Next1(top.pick, i) \in Picks
  BY <1>1, <1>2, PicksAre DEF Next1
<1>4. Above(Next1(top.pick, i), top.pick)
  BY <1>1 DEF Above, Next1
<1> QED
  BY <1>3, <1>4 DEF Child, Next1

(* What is above a pick is that pick or above one of its children.         *)
LEMMA AboveChild ==
  ASSUME LettersTyped, NEW top, top.pick \in Picks, NEW p \in Picks,
         Above(p, top.pick), p # top.pick
  PROVE  \E i \in Grows(top) : Above(p, Next1(top.pick, i))
<1> DEFINE t == top.pick
<1>1. /\ t \in [Positions -> Nat \ {0}] /\ p \in [Positions -> Nat \ {0}]
      /\ \A k \in Positions : p[k] = 1 \/ p[k] <= Len(letters[k])
  BY PicksAre
<1>2. PICK i \in Positions : p[i] # t[i]
  BY <1>1
<1>3. t[i] < p[i]
  BY <1>1, <1>2 DEF Above
<1>4. i \in Grows(top)
  <2>1. Len(letters[i]) \in Nat
    BY DEF LettersTyped, Positions
  <2>2. p[i] <= Len(letters[i]) /\ t[i] \in Nat /\ p[i] \in Nat
    BY <1>1, <1>3
  <2> QED
    BY <1>3, <2>1, <2>2 DEF Grows
<1>5. Above(p, Next1(t, i))
  BY <1>1, <1>3 DEF Above, Next1
<1> QED
  BY <1>4, <1>5

LEMMA FirstIsPick == LettersTyped => FirstPick \in Picks
  BY PicksAre DEF FirstPick

LEMMA FirstIsPickNext == (LettersTyped => FirstPick \in Picks)'
  BY FirstIsPick, PTL

LEMMA AboveOrders ==
  ASSUME LettersTyped, NEW p \in Picks
  PROVE  /\ Above(p, p)
         /\ \A q, r \in Picks : Above(p, q) /\ Above(q, r) => Above(p, r)
<1>1. \A q \in Picks : \A i \in Positions : q[i] \in Nat
  BY PicksAre
<1>2. Above(p, p)
  BY <1>1 DEF Above
<1>3. ASSUME NEW q \in Picks, NEW r \in Picks, Above(p, q), Above(q, r)
      PROVE  Above(p, r)
  <2>1. ASSUME NEW i \in Positions PROVE r[i] <= p[i]
    <3>1. p[i] \in Nat /\ q[i] \in Nat /\ r[i] \in Nat
      BY <1>1
    <3>2. q[i] <= p[i] /\ r[i] <= q[i]
      BY <1>3 DEF Above
    <3> QED
      BY <3>1, <3>2
  <2> QED
    BY <2>1 DEF Above
<1> QED
  BY <1>2, <1>3

---------------------------------------------------------------------------
(* The scores that a pick's letters have.                                  *)
Totals(pick) == [i \in Lettered |-> letters[i][pick[i]].total]

LEMMA LetteredIs ==
  ASSUME LettersTyped
  PROVE  /\ Lettered \subseteq Positions /\ IsFiniteSet(Lettered)
         /\ \A i \in Positions : /\ letters[i] \in Seq(Letter)
                                 /\ Len(letters[i]) \in Nat
                                 /\ DOMAIN letters[i] = 1 .. Len(letters[i])
         /\ \A i \in Lettered : Len(letters[i]) > 0
<1>1. Positions = 1 .. Len(letters) /\ Len(letters) \in Nat
  BY DEF LettersTyped, Positions
<1>2. IsFiniteSet(Positions)
  BY <1>1, FS_Interval
<1>3. Lettered \subseteq Positions
  BY DEF Lettered
<1>4. \A i \in Positions : letters[i] \in Seq(Letter)
  BY DEF LettersTyped, Positions
<1> QED
  BY <1>2, <1>3, <1>4, FS_Subset DEF Lettered

LEMMA PickTotals ==
  ASSUME LettersTyped, NEW pick \in Picks
  PROVE  Totals(pick) \in [Lettered -> Int]
<1> SUFFICES ASSUME NEW i \in Lettered PROVE letters[i][pick[i]].total \in Int
  BY DEF Totals
<1>1. pick[i] \in Nat \ {0} /\ (pick[i] = 1 \/ pick[i] <= Len(letters[i]))
  BY PicksAre, LetteredIs
<1>2. pick[i] \in DOMAIN letters[i] /\ letters[i] \in Seq(Letter)
  BY <1>1, LetteredIs
<1>3. letters[i][pick[i]] \in Letter
  BY <1>2
<1> QED
  BY <1>3 DEF Letter

(* A score is a sum of these.                                              *)
LEMMA ScoreSums ==
  ASSUME LettersTyped, NEW pick \in Picks
  PROVE  \E h : Sums(h, Totals(pick), Lettered) /\ ScoreOf(pick) = h[Lettered]
<1> DEFINE Is(h) == h = [s \in SUBSET Lettered |->
             IF s = {} THEN 0
             ELSE letters[One(s)][pick[One(s)]].total + h[s \ {One(s)}]]
<1>1. ScoreOf(pick) = (CHOOSE h : Is(h))[Lettered]
  BY DEF ScoreOf, MapThenSumSet, MapThenFoldSet, One
<1>2. \A s \in SUBSET Lettered : s # {} =>
        Totals(pick)[One(s)] = letters[One(s)][pick[One(s)]].total
  BY DEF Totals, One
<1>3. PICK g \in [SUBSET Lettered -> Int] : Sums(g, Totals(pick), Lettered)
  BY SumsExist, PickTotals, LetteredIs
<1>4. Is(g)
  <2>1. \A s \in SUBSET Lettered : g[s] =
             IF s = {} THEN 0
             ELSE letters[One(s)][pick[One(s)]].total + g[s \ {One(s)}]
    BY <1>2, <1>3 DEF Sums
  <2> QED
    BY <2>1
<1> DEFINE k == CHOOSE h : Is(h)
<1>5. Is(k)
  <2> HIDE DEF Is
  <2> QED
    BY <1>4
<1>6. Sums(k, Totals(pick), Lettered)
  <2> HIDE DEF k
  <2>1. \A s \in SUBSET Lettered : k[s] =
             IF s = {} THEN 0
             ELSE letters[One(s)][pick[One(s)]].total + k[s \ {One(s)}]
    BY <1>5
  <2> QED
    BY <1>2, <2>1 DEF Sums
<1> QED
  BY <1>1, <1>6

LEMMA ScoreTyped ==
  ASSUME LettersTyped, NEW pick \in Picks
  PROVE  ScoreOf(pick) \in Int
<1>1. PICK h : Sums(h, Totals(pick), Lettered) /\ ScoreOf(pick) = h[Lettered]
  BY ScoreSums
<1> QED
  BY <1>1, SumsTyped, PickTotals, LetteredIs

(* What a child's score is computed to be is its score.                    *)
LEMMA ChildScore ==
  ASSUME LettersTyped, NEW pick \in Picks, NEW i \in Positions,
         pick[i] < Len(letters[i]), Next1(pick, i) \in Picks
  PROVE  ScoreOf(Next1(pick, i)) =
           ScoreOf(pick) - (letters[i][pick[i]].total - letters[i][pick[i] + 1].total)
<1> DEFINE q == Next1(pick, i)
<1>1. i \in Lettered /\ pick \in [Positions -> Nat \ {0}]
  BY PicksAre, LetteredIs DEF Lettered
<1>2. /\ Totals(pick)[i] = letters[i][pick[i]].total
      /\ Totals(q)[i] = letters[i][pick[i] + 1].total
      /\ \A x \in Lettered \ {i} : Totals(q)[x] = Totals(pick)[x]
  BY <1>1, LetteredIs DEF Totals, Next1
<1>3. PICK h : Sums(h, Totals(pick), Lettered) /\ ScoreOf(pick) = h[Lettered]
  BY ScoreSums
<1>4. PICK k : Sums(k, Totals(q), Lettered) /\ ScoreOf(q) = k[Lettered]
  BY ScoreSums
<1>5. Totals(pick) \in [Lettered -> Int] /\ Totals(q) \in [Lettered -> Int]
  BY PickTotals
<1>6. k[Lettered] = h[Lettered] - (Totals(pick)[i] - Totals(q)[i])
  <2> DEFINE T == Totals(pick)
             U == Totals(q)
  <2>1. /\ T \in [Lettered -> Int] /\ U \in [Lettered -> Int]
        /\ Sums(h, T, Lettered) /\ Sums(k, U, Lettered)
        /\ \A x \in Lettered \ {i} : U[x] = T[x]
    BY <1>2, <1>3, <1>4, <1>5
  <2>2. IsFiniteSet(Lettered) /\ i \in Lettered
    BY <1>1, LetteredIs
  <2> HIDE DEF T, U
  <2>3. k[Lettered] = h[Lettered] - (T[i] - U[i])
    BY <2>1, <2>2, SumsShift
  <2> QED
    BY <2>3 DEF T, U
<1> QED
  BY <1>2, <1>3, <1>4, <1>6

(* A child takes the letter after that of its parent.                      *)
LEMMA ChildRanks ==
  ASSUME LettersTyped, NEW top \in [pick : Picks, score : Int],
         NEW i \in Grows(top)
  PROVE  /\ top.pick[i] \in DOMAIN letters[i]
         /\ top.pick[i] + 1 \in DOMAIN letters[i]
         /\ top.pick[i] \in Nat
<1>1. letters[i] \in Seq(Letter) /\ i \in Positions
  BY DEF LettersTyped, Positions, Grows
<1>2. top.pick \in Picks
  OBVIOUS
<1>3. top.pick[i] \in Nat \ {0}
  BY <1>1, <1>2, PicksAre
<1>4. /\ top.pick[i] < Len(letters[i]) /\ Len(letters[i]) \in Nat
      /\ DOMAIN letters[i] = 1..Len(letters[i])
  BY <1>1 DEF Grows
<1> QED
  BY <1>3, <1>4

LEMMA LetterTotals ==
  ASSUME LettersTyped, NEW i \in Positions, NEW k \in DOMAIN letters[i]
  PROVE  letters[i][k].total \in Int
<1>1. letters[i] \in Seq(Letter)
  BY DEF LettersTyped, Positions
<1>2. letters[i][k] \in Letter
  BY <1>1
<1> QED
  BY <1>2 DEF Letter

(* Children are no better than their parent.                               *)
LEMMA ChildrenFall ==
  ASSUME LettersTyped, NEW top \in [pick : Picks, score : Int],
         NEW i \in Grows(top), Descending(letters[i])
  PROVE  Child(top, i).score <= top.score
<1> DEFINE r == top.pick[i]
<1>1. r \in DOMAIN letters[i] /\ r + 1 \in DOMAIN letters[i] /\ r \in Nat
  BY ChildRanks
<1>2. i \in Positions
  BY DEF Grows
<1>3. letters[i][r].total \in Int /\ letters[i][r + 1].total \in Int
  BY <1>1, <1>2, LetterTotals
<1>4. letters[i][r].total >= letters[i][r + 1].total
  BY <1>1 DEF Descending
<1>5. Child(top, i).score = top.score - (letters[i][r].total - letters[i][r + 1].total)
  BY DEF Child
<1>6. top.score \in Int
  OBVIOUS
<1> HIDE DEF r
<1> QED
  BY <1>3, <1>4, <1>5, <1>6

(* Scores stay numbers.                                                    *)
LEMMA ChildTyped ==
  ASSUME LettersTyped, NEW top \in [pick : Picks, score : Int],
         NEW i \in Grows(top)
  PROVE  Child(top, i).score \in Int
<1> DEFINE r == top.pick[i]
<1>1. r \in DOMAIN letters[i] /\ r + 1 \in DOMAIN letters[i]
  BY ChildRanks
<1>2. i \in Positions
  BY DEF Grows
<1>3. letters[i][r].total \in Int /\ letters[i][r + 1].total \in Int
  BY <1>1, <1>2, LetterTotals
<1> QED
  BY <1>3 DEF Child

(* Letters that come later count no more, so that what is above a pick     *)
(* scores no more.                                                         *)
LEMMA AboveScoresLess ==
  ASSUME LettersTyped, \A i \in Positions : Descending(letters[i]),
         NEW p \in Picks, NEW q \in Picks, Above(p, q)
  PROVE  ScoreOf(p) <= ScoreOf(q)
<1>1. \A x \in Lettered : Totals(p)[x] <= Totals(q)[x]
  <2> SUFFICES ASSUME NEW x \in Lettered
               PROVE  letters[x][p[x]].total <= letters[x][q[x]].total
    BY DEF Totals
  <2>1. /\ x \in Positions /\ p[x] \in DOMAIN letters[x] /\ q[x] \in DOMAIN letters[x]
        /\ p[x] \in Nat /\ q[x] \in Nat /\ q[x] <= p[x]
    BY PicksAre, LetteredIs DEF Above
  <2>2. letters[x][p[x]] \in Letter /\ letters[x][q[x]] \in Letter
    BY <2>1, LetteredIs
  <2>3. letters[x][p[x]].total \in Nat /\ letters[x][q[x]].total \in Nat
    BY <2>2 DEF Letter
  <2>4. CASE q[x] = p[x]
    BY <2>3, <2>4
  <2>5. CASE q[x] < p[x]
    BY <2>1, <2>5 DEF Descending
  <2> QED
    BY <2>1, <2>4, <2>5
<1>2. PICK h : Sums(h, Totals(p), Lettered) /\ ScoreOf(p) = h[Lettered]
  BY ScoreSums
<1>3. PICK k : Sums(k, Totals(q), Lettered) /\ ScoreOf(q) = k[Lettered]
  BY ScoreSums
<1>4. Totals(p) \in [Lettered -> Int] /\ Totals(q) \in [Lettered -> Int]
  BY PickTotals
<1> QED
  BY <1>1, <1>2, <1>3, <1>4, LetteredIs, SumsGrow

---------------------------------------------------------------------------
(* Collecting letters.                                                     *)

(* What every letter that is added preserves, LettersWith does.            *)
LEMMA LettersFold ==
  ASSUME NEW V, letters \in V, NEW heard, NEW X, CharsOf(heard) \in Seq(X),
         \A ls \in V, c \in X :
           AddLetter(ls, c.letter, line, PositionOf(line, c.index), c.conf) \in V
  PROVE  LettersWith(heard) \in V
<1> DEFINE cs == CharsOf(heard)
           S == DOMAIN cs
           add(ls, c) == AddLetter(ls, c.letter, line, PositionOf(line, c.index), c.conf)
           Is(h) == h = [s \in SUBSET S |-> IF s = {} THEN letters
                                            ELSE add(h[s \ {Max(s)}], cs[Max(s)])]
           C == [s \in SUBSET S |-> Max(s)]
           F == [x \in S \X V |-> add(x[2], cs[x[1]])]
<1>1. LettersWith(heard) = (CHOOSE h : Is(h))[S]
  BY DEF LettersWith, FoldLeft, MapThenFoldSet
<1>2. \A ls \in V, c \in X : add(ls, c) \in V
  OBVIOUS
<1>3. cs \in Seq(X)
  OBVIOUS
<1> HIDE DEF cs, add
<1>4. S = 1..Len(cs) /\ Len(cs) \in Nat /\ IsFiniteSet(S) /\ \A i \in S : cs[i] \in X
  <2>1. S = 1..Len(cs) /\ Len(cs) \in Nat
    BY <1>3
  <2>2. IsFiniteSet(1..Len(cs))
    BY <2>1, FS_Interval
  <2> QED
    BY <1>3, <2>1, <2>2
<1> HIDE DEF S
<1>5. \A s \in SUBSET S : s # {} => Max(s) \in s /\ C[s] = Max(s)
  BY <1>4, MaxIsMost
<1>6. Chooses(C, S)
  BY <1>5 DEF Chooses
<1>7. F \in [S \X V -> V]
  BY <1>2, <1>4
<1>8. PICK g \in [SUBSET S -> V] : Folds(g, S, F, C, letters)
  <2> HIDE DEF F, C
  <2> QED
    BY <1>4, <1>6, <1>7, FoldExists
<1>9. Is(g)
  <2>1. ASSUME NEW s \in SUBSET S
        PROVE  g[s] = IF s = {} THEN letters ELSE add(g[s \ {Max(s)}], cs[Max(s)])
    <3>1. CASE s = {}
      BY <1>8, <3>1 DEF Folds
    <3>2. CASE s # {}
      <4>1. Max(s) \in S /\ g[s \ {Max(s)}] \in V /\ C[s] = Max(s)
        BY <1>5, <3>2
      <4>2. g[s] = F[<<Max(s), g[s \ {Max(s)}]>>]
        BY <1>8, <3>2, <4>1 DEF Folds
      <4> QED
        BY <3>2, <4>1, <4>2
    <3> QED
      BY <3>1, <3>2
  <2> QED
    BY <2>1
<1> DEFINE k == CHOOSE h : Is(h)
<1>10. Is(k)
  <2> HIDE DEF Is
  <2> QED
    BY <1>9
<1> HIDE DEF k
<1>11. \A s \in SUBSET S :
         k[s] = IF s = {} THEN letters ELSE add(k[s \ {Max(s)}], cs[Max(s)])
  BY <1>10
<1> DEFINE G == {s \in SUBSET S : k[s] \in V}
<1>12. {} \in G
  <2>1. {} \in SUBSET S /\ k[{}] = letters
    BY <1>11
  <2> QED
    BY <2>1
<1>13. ASSUME NEW s \in SUBSET S, s # {}, s \ {C[s]} \in G PROVE s \in G
  <2>1. k[s] = add(k[s \ {Max(s)}], cs[Max(s)])
    BY <1>11, <1>13
  <2>2. k[s \ {Max(s)}] \in V /\ cs[Max(s)] \in X
    BY <1>4, <1>5, <1>13
  <2> QED
    BY <1>2, <2>1, <2>2
<1>14. SUBSET S \subseteq G
  <2> HIDE DEF G, C
  <2> QED
    BY <1>4, <1>6, <1>12, <1>13, SubsetSets
<1> QED
  BY <1>1, <1>14 DEF k

(* The characters of a line.                                               *)
Char(n) == [letter : STRING, conf : Nat, index : 0 .. n - 1]

LEMMA CharsTyped ==
  ASSUME NEW n \in Nat, NEW heard \in [1..Thresholds -> [1..n -> Heard]]
  PROVE  CharsOf(heard) \in Seq(Char(n))
<1> DEFINE ofBox(t, b) ==
             LET c == heard[t][b] IN
               [k \in 1..(IF c = <<>> THEN 0 ELSE Len(c) + 1) |->
                  [letter |-> c[IF k = 1 THEN 1 ELSE k - 1].letter,
                   conf   |-> c[IF k = 1 THEN 1 ELSE k - 1].conf,
                   index  |-> b - 1]]
           ofImage(t) == [b \in 1..n |-> ofBox(t, b)]
<1>1. ASSUME NEW t \in 1..Thresholds, NEW b \in 1..n
      PROVE  ofBox(t, b) \in Seq(Char(n))
  <2> DEFINE c == heard[t][b]
             m == IF c = <<>> THEN 0 ELSE Len(c) + 1
  <2>1. c \in Seq([letter : STRING, conf : Nat])
    BY ReadingAssumption
  <2> HIDE DEF c
  <2>2. m \in Nat
    BY <2>1
  <2>3. ASSUME NEW k \in 1..m
        PROVE  [letter |-> c[IF k = 1 THEN 1 ELSE k - 1].letter,
                conf   |-> c[IF k = 1 THEN 1 ELSE k - 1].conf,
                index  |-> b - 1] \in Char(n)
    <3> DEFINE i == IF k = 1 THEN 1 ELSE k - 1
    <3>1. c # <<>> /\ i \in 1..Len(c)
      BY <2>1, <2>3
    <3> HIDE DEF i
    <3>2. c[i] \in [letter : STRING, conf : Nat]
      BY <2>1, <3>1, SeqParts
    <3>3. b - 1 \in 0 .. n - 1
      OBVIOUS
    <3> QED
      BY <3>2, <3>3 DEF i, Char
  <2>4. ofBox(t, b) = [k \in 1..m |->
                        [letter |-> c[IF k = 1 THEN 1 ELSE k - 1].letter,
                         conf   |-> c[IF k = 1 THEN 1 ELSE k - 1].conf,
                         index  |-> b - 1]]
    BY DEF c
  <2> HIDE DEF m, ofBox
  <2> QED
    BY <2>2, <2>3, <2>4
<1>2. CharsOf(heard) = FlattenSeq([t \in 1..Thresholds |-> FlattenSeq(ofImage(t))])
  BY DEF CharsOf
<1> HIDE DEF ofBox
<1>3. Thresholds \in Nat
  BY ReadingAssumption
<1>4. \A t \in 1..Thresholds : FlattenSeq(ofImage(t)) \in Seq(Char(n))
  <2> SUFFICES ASSUME NEW t \in 1..Thresholds
               PROVE  FlattenSeq(ofImage(t)) \in Seq(Char(n))
    OBVIOUS
  <2>1. ofImage(t) \in Seq(Seq(Char(n)))
    BY <1>1
  <2> HIDE DEF ofImage
  <2> QED
    BY <2>1, FlattenTyped
<1> HIDE DEF ofImage
<1>5. [t \in 1..Thresholds |-> FlattenSeq(ofImage(t))] \in Seq(Seq(Char(n)))
  BY <1>3, <1>4
<1> QED
  BY <1>2, <1>5, FlattenTyped

(* Every letter of r has its line from the same position of ls, or is one  *)
(* of line l at pos.                                                       *)
LinesFrom(r, ls, l, pos) ==
  \A i \in DOMAIN r : \A j \in DOMAIN r[i] :
    \/ i = pos + 1 /\ r[i][j].line = l
    \/ i \in DOMAIN ls /\ \E k \in DOMAIN ls[i] : r[i][j].line = ls[i][k].line

(* One letter more.                                                        *)
LEMMA LetterInserted ==
  ASSUME NEW ls \in Seq(Seq(Letter)), NEW letter \in Symbol, NEW l \in Nat,
         NEW pos \in Nat, NEW score \in Nat,
         NEW r, r = InsertLetter(ls, letter, l, pos, score)
  PROVE  r \in Seq(Seq(Letter)) /\ LinesFrom(r, ls, l, pos)
<1> DEFINE room == [i \in 1..(pos + 1 - Len(ls)) |-> <<>>]
           padded == ls \o room
           here   == padded[pos + 1]
           same   == {i \in DOMAIN here : here[i].letter = letter /\ here[i].line = l}
           added  == [i \in DOMAIN here |->
                        IF i \in same
                        THEN [letter |-> letter, line |-> l,
                              total |-> here[i].total + score, occ |-> here[i].occ + 1]
                        ELSE here[i]]
           new    == [letter |-> letter, line |-> l, total |-> score, occ |-> 1]
           there  == IF same = {} THEN Append(here, new) ELSE added
<1>1. r = [padded EXCEPT ![pos + 1] = there]
  BY DEF InsertLetter
<1>2. Len(ls) \in Nat /\ <<>> \in Seq(Letter)
  OBVIOUS
<1>3. room \in Seq(Seq(Letter)) /\ \A i \in DOMAIN room : room[i] = <<>>
  <2>1. pos + 1 - Len(ls) \in Int
    BY <1>2
  <2>2. \/ pos + 1 - Len(ls) \in Nat /\ DOMAIN room = 1..(pos + 1 - Len(ls))
        \/ room = <<>>
    BY <2>1
  <2> QED
    BY <1>2, <2>2
<1>4. Len(room) \in Nat /\ (pos + 1 > Len(ls) => Len(room) = pos + 1 - Len(ls))
  <2>1. Len(room) \in Nat
    BY <1>3, SeqParts
  <2>2. ASSUME pos + 1 > Len(ls) PROVE Len(room) = pos + 1 - Len(ls)
    <3>1. pos + 1 - Len(ls) \in Nat
      BY <1>2, <2>2
    <3>2. room \in [1..(pos + 1 - Len(ls)) -> {<<>>}]
      OBVIOUS
    <3> HIDE DEF room
    <3> QED
      BY <3>1, <3>2, SeqMade
  <2> QED
    BY <2>1, <2>2
<1> HIDE DEF room
<1>5. /\ padded \in Seq(Seq(Letter)) /\ Len(padded) = Len(ls) + Len(room)
      /\ DOMAIN padded = 1 .. Len(ls) + Len(room)
      /\ \A i \in DOMAIN padded : padded[i] = IF i <= Len(ls) THEN ls[i]
                                              ELSE room[i - Len(ls)]
  BY <1>3
<1>6. \A i \in DOMAIN padded : \/ i \in DOMAIN ls /\ padded[i] = ls[i]
                               \/ padded[i] = <<>>
  BY <1>2, <1>3, <1>4, <1>5
<1>7. pos + 1 \in DOMAIN padded
  BY <1>2, <1>4, <1>5
<1> HIDE DEF padded
<1>8. here \in Seq(Letter)
  BY <1>5, <1>7
<1> HIDE DEF here
<1>9. new \in Letter
  BY DEF Letter
<1>10. \A i \in DOMAIN here : /\ here[i] \in Letter
                              /\ added[i] \in Letter /\ added[i].line = here[i].line
  <2> SUFFICES ASSUME NEW i \in DOMAIN here
               PROVE  /\ here[i] \in Letter
                      /\ added[i] \in Letter /\ added[i].line = here[i].line
    OBVIOUS
  <2>1. here[i] \in Letter
    BY <1>8, SeqParts
  <2>2. CASE i \in same
    <3>1. added[i] = [letter |-> letter, line |-> l,
                      total |-> here[i].total + score, occ |-> here[i].occ + 1]
      BY <2>2
    <3>2. here[i].line = l
      BY <2>2
    <3>3. here[i].total + score \in Nat /\ here[i].occ + 1 \in Nat \ {0}
      BY <2>1 DEF Letter
    <3> HIDE DEF added, same
    <3> QED
      BY <2>1, <3>1, <3>2, <3>3 DEF Letter
  <2>3. CASE i \notin same
    <3>1. added[i] = here[i]
      BY <2>3
    <3> QED
      BY <2>1, <3>1
  <2> QED
    BY <2>2, <2>3
<1>11. /\ there \in Seq(Letter)
       /\ \A j \in DOMAIN there :
            there[j].line = l \/ \E k \in DOMAIN here : there[j].line = here[k].line
  <2>1. CASE same = {}
    <3> HIDE DEF same
    <3>1. there = Append(here, new)
      BY <2>1
    <3> HIDE DEF there, new
    <3>2. there \in Seq(Letter)
      BY <1>8, <1>9, <3>1, SeqLonger
    <3>3. \A j \in DOMAIN there :
            (there[j] = new) \/ (j \in DOMAIN here /\ there[j] = here[j])
      BY <1>8, <1>9, <3>1, SeqLonger
    <3>4. new.line = l
      BY DEF new
    <3> QED
      BY <3>2, <3>3, <3>4
  <2>2. CASE same # {}
    <3>1. there = added
      BY <2>2
    <3>2. DOMAIN here = 1 .. Len(here) /\ Len(here) \in Nat
      BY <1>8, SeqParts
    <3>3. added \in [1 .. Len(here) -> Letter]
      <4>1. \A i \in DOMAIN here : added[i] \in Letter
        BY <1>10
      <4>2. added = [i \in DOMAIN here |-> added[i]]
        OBVIOUS
      <4> HIDE DEF added
      <4> QED
        BY <3>2, <4>1, <4>2
    <3>4. DOMAIN there = DOMAIN here
      BY <3>1
    <3> HIDE DEF added, there
    <3>5. there \in Seq(Letter)
      BY <3>1, <3>2, <3>3, SeqMade
    <3> QED
      BY <1>10, <3>1, <3>4, <3>5
  <2> QED
    BY <2>1, <2>2
<1> HIDE DEF there
<1>12. /\ r \in Seq(Seq(Letter)) /\ DOMAIN r = DOMAIN padded
       /\ r[pos + 1] = there /\ \A i \in DOMAIN r : i # pos + 1 => r[i] = padded[i]
  BY <1>1, <1>5, <1>7, <1>11
<1>13. ASSUME NEW i \in DOMAIN r, NEW j \in DOMAIN r[i]
       PROVE  \/ i = pos + 1 /\ r[i][j].line = l
              \/ i \in DOMAIN ls /\ \E k \in DOMAIN ls[i] : r[i][j].line = ls[i][k].line
  <2>1. CASE i = pos + 1
    <3>1. r[i][j].line = l \/ \E k \in DOMAIN here : r[i][j].line = here[k].line
      BY <1>11, <1>12, <2>1
    <3>2. here = padded[i]
      BY <2>1 DEF here
    <3>3. \/ i \in DOMAIN ls /\ here = ls[i]
          \/ here = <<>>
      BY <1>6, <1>12, <2>1, <3>2
    <3>4. here = <<>> => DOMAIN here = {}
      OBVIOUS
    <3> QED
      BY <2>1, <3>1, <3>3, <3>4
  <2>2. CASE i # pos + 1
    <3>1. i \in DOMAIN padded /\ r[i] = padded[i] /\ r[i] # <<>>
      BY <1>12, <2>2
    <3> QED
      BY <1>6, <3>1
  <2> QED
    BY <2>1, <2>2
<1> QED
  BY <1>12, <1>13 DEF LinesFrom

LEMMA LetterAdded ==
  ASSUME NEW ls \in Seq(Seq(Letter)), NEW letter \in Symbol, NEW l \in Nat,
         NEW pos \in Nat, NEW conf \in Nat,
         NEW r, r = AddLetter(ls, letter, l, pos, conf)
  PROVE  r \in Seq(Seq(Letter)) /\ LinesFrom(r, ls, l, pos)
<1>1. MinConfidence \in Nat /\ SkipLevel \in Nat
  BY ReadingAssumption
<1>2. CASE conf < MinConfidence
  <2>1. r = ls
    BY <1>2 DEF AddLetter
  <2> QED
    BY <2>1 DEF LinesFrom
<1>3. CASE ~(conf < MinConfidence)
  <2> PICK one : one = InsertLetter(ls, letter, l, pos, conf - MinConfidence)
    OBVIOUS
  <2>1. conf - MinConfidence \in Nat
    BY <1>1, <1>3
  <2>2. one \in Seq(Seq(Letter)) /\ LinesFrom(one, ls, l, pos)
    BY <2>1, LetterInserted
  <2>3. CASE ~(conf < SkipLevel)
    <3>1. r = one
      BY <1>3, <2>3 DEF AddLetter
    <3> QED
      BY <2>2, <3>1
  <2>4. CASE conf < SkipLevel
    <3>1. r = InsertLetter(one, Skip, l, pos, SkipLevel - conf)
      BY <1>3, <2>4 DEF AddLetter
    <3>2. SkipLevel - conf \in Nat
      BY <1>1, <2>4
    <3>3. Skip \in Symbol
      BY DEF Symbol
    <3>4. r \in Seq(Seq(Letter)) /\ LinesFrom(r, one, l, pos)
      BY <2>2, <3>1, <3>2, <3>3, LetterInserted
    <3>5. ASSUME NEW i \in DOMAIN r, NEW j \in DOMAIN r[i],
                 ~(i = pos + 1 /\ r[i][j].line = l)
          PROVE  i \in DOMAIN ls /\ \E k \in DOMAIN ls[i] : r[i][j].line = ls[i][k].line
      <4>1. i \in DOMAIN one /\ \E k \in DOMAIN one[i] : r[i][j].line = one[i][k].line
        BY <3>4, <3>5 DEF LinesFrom
      <4> QED
        BY <2>2, <3>5, <4>1 DEF LinesFrom
    <3> QED
      BY <3>4, <3>5 DEF LinesFrom
  <2> QED
    BY <2>3, <2>4
<1> QED
  BY <1>2, <1>3

LEMMA PositionTyped ==
  ASSUME NEW l \in Nat, NEW x \in Nat
  PROVE  PositionOf(l, x) \in Nat /\ PositionOf(l, x) = l * MaxChars + x
<1>1. MaxChars \in Nat
  BY ReadingAssumption
<1>2. l * MaxChars \in Nat
  BY <1>1
<1> QED
  BY <1>2 DEF PositionOf

(* The line that is read next has so many boxes.                           *)
LEMMA LineRead ==
  ASSUME boxes \in Seq(Nat), line \in 0..Len(boxes), ReadLine
  PROVE  /\ line + 1 \in DOMAIN boxes /\ boxes[line + 1] \in Nat /\ line \in Nat
         /\ line + 1 \in 0..Len(boxes)
         /\ \E heard : /\ CharsOf(heard) \in Seq(Char(boxes[line + 1]))
                       /\ letters' = LettersWith(heard)
<1>1. /\ line + 1 \in DOMAIN boxes /\ boxes[line + 1] \in Nat /\ line \in Nat
      /\ line + 1 \in 0..Len(boxes)
  BY DEF ReadLine
<1>2. PICK heard \in [1..Thresholds -> [1..boxes[line + 1] -> Heard]] :
        letters' = LettersWith(heard)
  BY DEF ReadLine
<1> QED
  BY <1>1, <1>2, CharsTyped

LEMMA LineTyped ==
  ASSUME LettersTyped, boxes \in Seq(Nat), line \in 0..Len(boxes), ReadLine
  PROVE  LettersTyped'
<1>1. PICK heard : /\ CharsOf(heard) \in Seq(Char(boxes[line + 1]))
                   /\ letters' = LettersWith(heard)
  BY LineRead
<1>2. ASSUME NEW ls \in Seq(Seq(Letter)), NEW c \in Char(boxes[line + 1])
      PROVE  AddLetter(ls, c.letter, line, PositionOf(line, c.index), c.conf)
               \in Seq(Seq(Letter))
  <2>1. /\ c.letter \in Symbol /\ c.conf \in Nat /\ c.index \in Nat /\ line \in Nat
        /\ MaxChars \in Nat
    BY LineRead, ReadingAssumption DEF Char, Symbol
  <2>2. PositionOf(line, c.index) \in Nat
    BY <2>1, PositionTyped
  <2> QED
    BY <2>1, <2>2, LetterAdded
<1>3. letters \in Seq(Seq(Letter))
  BY DEF LettersTyped
<1>4. LettersWith(heard) \in Seq(Seq(Letter))
  BY <1>1, <1>2, <1>3, LettersFold
<1> QED
  BY <1>1, <1>4 DEF LettersTyped

---------------------------------------------------------------------------
(* The positions that a line's letters may have.                           *)
Within(l, i) ==
  /\ l + 1 \in DOMAIN boxes
  /\ l * MaxChars <= i - 1 /\ i - 1 < l * MaxChars + boxes[l + 1]

(* Two lines with a position in common.                                    *)
LEMMA WithinBoth ==
  ASSUME boxes \in Seq(Nat), NEW l \in Nat, NEW k \in Nat, NEW i \in Nat,
         Within(l, i), Within(k, i), l < k
  PROVE  boxes[l + 1] > (k - l) * MaxChars
<1>1. MaxChars \in Nat /\ k - l \in Nat /\ boxes[l + 1] \in Nat
  BY ReadingAssumption DEF Within
<1>2. /\ l * MaxChars \in Nat /\ k * MaxChars \in Nat /\ (k - l) * MaxChars \in Nat
      /\ k * MaxChars = l * MaxChars + (k - l) * MaxChars
  BY <1>1
<1>3. k * MaxChars <= i - 1 /\ i - 1 < l * MaxChars + boxes[l + 1]
  BY DEF Within
<1> QED
  BY <1>1, <1>2, <1>3

LinesPlaced ==
  \A i \in Positions : \A j \in DOMAIN letters[i] : Within(letters[i][j].line, i)

LEMMA PlacedApart ==
  ASSUME LettersTyped, LinesPlaced, boxes \in Seq(Nat)
  PROVE  LinesApart
<1> SUFFICES ASSUME NEW i \in Positions,
                    NEW j \in DOMAIN letters[i], NEW k \in DOMAIN letters[i],
                    letters[i][j].line < letters[i][k].line
             PROVE  boxes[letters[i][j].line + 1]
                      > (letters[i][k].line - letters[i][j].line) * MaxChars
  BY DEF LinesApart
<1>1. i \in Nat /\ letters[i] \in Seq(Letter)
  BY DEF LettersTyped, Positions
<1>2. letters[i][j] \in Letter /\ letters[i][k] \in Letter
  BY <1>1, SeqParts
<1>3. letters[i][j].line \in Nat /\ letters[i][k].line \in Nat
  BY <1>2 DEF Letter
<1>4. Within(letters[i][j].line, i) /\ Within(letters[i][k].line, i)
  BY DEF LinesPlaced
<1> QED
  BY <1>1, <1>3, <1>4, WithinBoth

LEMMA LinePlaced ==
  ASSUME LettersTyped, boxes \in Seq(Nat), line \in 0..Len(boxes), LinesPlaced, ReadLine
  PROVE  LinesPlaced'
<1> SUFFICES \A i \in DOMAIN letters' : \A j \in DOMAIN letters'[i] :
               Within(letters'[i][j].line, i)
  BY DEF LinesPlaced, Positions, ReadLine, Within
<1> DEFINE V == {ls \in Seq(Seq(Letter)) :
                   \A i \in DOMAIN ls : \A j \in DOMAIN ls[i] : Within(ls[i][j].line, i)}
<1>1. PICK heard : /\ CharsOf(heard) \in Seq(Char(boxes[line + 1]))
                   /\ letters' = LettersWith(heard)
  BY LineRead
<1>2. ASSUME NEW ls \in V, NEW c \in Char(boxes[line + 1])
      PROVE  AddLetter(ls, c.letter, line, PositionOf(line, c.index), c.conf) \in V
  <2> DEFINE pos == PositionOf(line, c.index)
  <2>1. /\ c.letter \in Symbol /\ c.conf \in Nat /\ c.index \in Nat /\ line \in Nat
        /\ MaxChars \in Nat /\ c.index < boxes[line + 1]
        /\ boxes[line + 1] \in Nat /\ line + 1 \in DOMAIN boxes
    BY LineRead, ReadingAssumption DEF Char, Symbol
  <2>2. line * MaxChars \in Nat
    BY <2>1
  <2>3. pos \in Nat /\ pos = line * MaxChars + c.index
    <3>1. PositionOf(line, c.index) \in Nat
      BY <2>1, PositionTyped
    <3> QED
      BY <3>1 DEF PositionOf
  <2>4. Within(line, pos + 1)
    <3> PICK a : a = line * MaxChars
      OBVIOUS
    <3> PICK b : b = boxes[line + 1]
      OBVIOUS
    <3> PICK n : n = pos
      OBVIOUS
    <3>1. a \in Nat /\ b \in Nat /\ n \in Nat /\ n = a + c.index
      BY <2>1, <2>2, <2>3
    <3>2. c.index \in Nat /\ c.index < b
      BY <2>1
    <3>3. a <= (n + 1) - 1 /\ (n + 1) - 1 < a + b
      BY ONLY <3>1, <3>2
    <3> QED
      BY <2>1, <3>3 DEF Within
  <2> HIDE DEF pos
  <2> PICK r : r = AddLetter(ls, c.letter, line, pos, c.conf)
    OBVIOUS
  <2>5. r \in Seq(Seq(Letter)) /\ LinesFrom(r, ls, line, pos)
    BY <2>1, <2>3, LetterAdded
  <2>6. ASSUME NEW i \in DOMAIN r, NEW j \in DOMAIN r[i]
        PROVE  Within(r[i][j].line, i)
    <3>1. CASE i = pos + 1 /\ r[i][j].line = line
      BY <2>4, <3>1
    <3>2. CASE i \in DOMAIN ls /\ \E k \in DOMAIN ls[i] : r[i][j].line = ls[i][k].line
      BY <3>2
    <3> QED
      BY <2>5, <3>1, <3>2 DEF LinesFrom
  <2>7. r \in V
    BY <2>5, <2>6
  <2> QED
    BY <2>7 DEF pos
<1>3. letters \in V
  BY DEF LettersTyped, LinesPlaced, Positions
<1>4. LettersWith(heard) \in V
  <2> HIDE DEF V
  <2> QED
    BY <1>1, <1>2, <1>3, LettersFold
<1> QED
  BY <1>1, <1>4

---------------------------------------------------------------------------
(* Types of the variables of a reading.                                    *)

(* What every step preserves: types, and where the letters of a line are.  *)
ReadingInv ==
  /\ ReadingTypeOK
  /\ boxes \in Seq(Nat)
  /\ LinesPlaced

(* Sorting the letters of a position.                                      *)
LEMMA LettersSorted ==
  ASSUME LettersTyped, StartSearch
  PROVE  /\ LettersTyped' /\ Positions' = Positions
         /\ \A i \in Positions : Descending(letters'[i])
         /\ LinesPlaced => LinesPlaced'
<1>1. /\ Positions = 1 .. Len(letters) /\ Len(letters) \in Nat
      /\ \A i \in Positions : letters[i] \in Seq(Letter)
  BY DEF Positions, LettersTyped
<1>2. /\ letters' \in [Positions -> UNION {Sorted(letters[i]) : i \in Positions}]
      /\ \A i \in Positions : letters'[i] \in Sorted(letters[i])
  BY DEF StartSearch
<1>3. Positions' = Positions
  BY <1>2 DEF Positions
<1>4. ASSUME NEW i \in Positions
      PROVE  /\ letters'[i] \in Seq(Letter) /\ Descending(letters'[i])
             /\ \A j \in DOMAIN letters'[i] : \E k \in DOMAIN letters[i] :
                  letters'[i][j] = letters[i][k]
  <2>1. PICK l \in Seq(Letter) : l = letters[i]
    BY <1>1
  <2>2. PICK s : s = letters'[i]
    OBVIOUS
  <2>3. s \in [DOMAIN l -> ToSet(l)] /\ Descending(s)
    BY <1>2, <2>1, <2>2 DEF Sorted
  <2>4. DOMAIN l = 1 .. Len(l) /\ Len(l) \in Nat /\ ToSet(l) \subseteq Letter
    BY SeqParts DEF ToSet
  <2>5. s \in Seq(Letter)
    BY <2>3, <2>4, SeqMade
  <2>6. \A j \in DOMAIN s : \E k \in DOMAIN l : s[j] = l[k]
    BY <2>3 DEF ToSet
  <2> QED
    BY <2>1, <2>2, <2>3, <2>5, <2>6
<1>5. LettersTyped'
  <2>1. letters' \in [1 .. Len(letters) -> Seq(Letter)]
    BY <1>1, <1>2, <1>4
  <2> QED
    BY <1>1, <2>1, SeqMade DEF LettersTyped
<1>6. ASSUME LinesPlaced PROVE LinesPlaced'
  <2>1. boxes' = boxes
    BY DEF StartSearch, platevars
  <2>2. \A a, b : Within(a, b)' <=> Within(a, b)
    BY <2>1 DEF Within
  <2>3. ASSUME NEW i \in Positions, NEW j \in DOMAIN letters'[i]
        PROVE  Within(letters'[i][j].line, i)
    BY <1>4, <1>6, <2>3 DEF LinesPlaced
  <2> QED
    BY <1>3, <2>2, <2>3 DEF LinesPlaced, Within
<1> QED
  BY <1>3, <1>4, <1>5, <1>6

LEMMA FirstScored == LettersTyped => ScoreOf(FirstPick) \in Int
  BY FirstIsPick, ScoreTyped

LEMMA FirstScoredNext == (LettersTyped => ScoreOf(FirstPick) \in Int)'
  BY FirstScored, PTL

(* The search starts with one pick.                                        *)
LEMMA StartTyped ==
  ASSUME ReadingInv, StartSearch
  PROVE  ReadingInv'
<1>1. /\ LettersTyped' /\ Positions' = Positions /\ LinesPlaced'
  BY LettersSorted DEF ReadingInv, ReadingTypeOK
<1>2. UNCHANGED <<line, boxes, ink>>
  BY DEF StartSearch, platevars
<1>3. FirstPick' = FirstPick
  BY <1>1 DEF FirstPick
<1>4. CASE pc' = "read"
  <2>1. UNCHANGED <<hashes, misses>>
    BY <1>4 DEF StartSearch
  <2> QED
    BY <1>1, <1>2, <1>4, <2>1 DEF ReadingInv, ReadingTypeOK, CarriedIsTotal
<1>5. CASE pc' # "read"
  <2>1. /\ queue' = {[pick |-> FirstPick, score |-> ScoreOf(FirstPick)']}
        /\ hashes' = {} /\ misses' = 0
        /\ reached' = {FirstPick} /\ lost' = {} /\ pc' = "search"
    BY <1>5 DEF StartSearch
  <2>2. FirstPick \in Picks'
    BY <1>1, <1>3, FirstIsPickNext
  <2>3. ScoreOf(FirstPick)' \in Int
    BY <1>1, FirstScoredNext
  <2>4. queue' \subseteq [pick : Picks', score : Int]
    BY <2>1, <2>2, <2>3
  <2>5. CarriedIsTotal'
    <3>1. PICK fp : fp = FirstPick'
      OBVIOUS
    <3>2. ScoreOf(FirstPick)' = ScoreOf(fp)'
      BY <3>1 DEF ScoreOf
    <3>3. \A q \in queue' : q.pick = fp /\ q.score = ScoreOf(fp)'
      BY <1>3, <2>1, <3>1, <3>2
    <3> SUFFICES ASSUME NEW q \in queue' PROVE q.score = ScoreOf(q.pick)'
      BY DEF CarriedIsTotal
    <3> QED
      BY <3>3
  <2> QED
    BY <1>1, <1>2, <2>1, <2>2, <2>4, <2>5 DEF ReadingInv, ReadingTypeOK
<1> QED
  BY <1>4, <1>5

LEMMA SameLetters ==
  ASSUME letters' = letters
  PROVE  /\ LettersTyped' <=> LettersTyped
         /\ Positions' = Positions /\ Picks' = Picks /\ Lettered' = Lettered
         /\ \A p : ScoreOf(p)' = ScoreOf(p)
<1>1. (LettersTyped' <=> LettersTyped) /\ Positions' = Positions
  BY DEF LettersTyped, Positions
<1>2. Picks' = Picks /\ Lettered' = Lettered
  BY <1>1 DEF Picks, Ranks, Lettered
<1>3. \A p : ScoreOf(p)' = ScoreOf(p)
  BY DEF ScoreOf, MapThenSumSet, MapThenFoldSet, Lettered, Positions
<1> QED
  BY <1>1, <1>2, <1>3

(* A child is a pick with its score.                                       *)
LEMMA ChildCarries ==
  ASSUME LettersTyped, NEW top \in [pick : Picks, score : Int],
         top.score = ScoreOf(top.pick), NEW i \in Grows(top)
  PROVE  /\ Child(top, i) \in [pick : Picks, score : Int]
         /\ Child(top, i).score = ScoreOf(Child(top, i).pick)
<1> DEFINE p == top.pick
<1>1. p \in Picks /\ i \in Positions /\ p[i] < Len(letters[i])
  BY DEF Grows
<1>2. Child(top, i).pick = Next1(p, i) /\ Next1(p, i) \in Picks
  BY <1>1, ChildPicks
<1>3. Child(top, i).score =
        top.score - (letters[i][p[i]].total - letters[i][p[i] + 1].total)
  BY DEF Child
<1>4. ScoreOf(Next1(p, i)) =
        ScoreOf(p) - (letters[i][p[i]].total - letters[i][p[i] + 1].total)
  BY <1>1, <1>2, ChildScore
<1>5. Child(top, i).score \in Int
  BY ChildTyped
<1>6. Child(top, i) = [pick |-> Child(top, i).pick, score |-> Child(top, i).score]
  BY DEF Child
<1> QED
  BY <1>2, <1>3, <1>4, <1>5, <1>6

LEMMA SearchTyped ==
  ASSUME ReadingInv, Search
  PROVE  ReadingInv'
<1>1. /\ pc = "search" /\ pc' \in {"search", "rank"}
      /\ UNCHANGED <<letters, line, boxes, ink>>
  BY DEF Search, platevars
<1>2. /\ LettersTyped /\ hashes \subseteq Int /\ misses \in Nat
      /\ queue \subseteq [pick : Picks, score : Int]
      /\ reached \subseteq Picks /\ lost \subseteq Picks
      /\ \A q \in queue : q.score = ScoreOf(q.pick)
  BY <1>1 DEF ReadingInv, ReadingTypeOK, CarriedIsTotal
<1>3. /\ LettersTyped' /\ Picks' = Picks /\ \A p : ScoreOf(p)' = ScoreOf(p)
      /\ LinesPlaced'
  <2>1. LinesPlaced'
    BY <1>1 DEF ReadingInv, LinesPlaced, Positions, Within
  <2> QED
    BY <1>1, <1>2, <2>1, SameLetters
<1>4. PICK top \in queue :
        /\ misses' \in {0, misses + 1}
        /\ \/ queue' = queue \ {top} /\ UNCHANGED <<hashes, reached, lost>>
           \/ LET kids == {Child(top, i) : i \in Pushed(top)} IN
                /\ queue' = (queue \ {top}) \cup kids
                /\ hashes' = hashes \cup {k.score : k \in kids}
                /\ reached' = reached \cup {k.pick : k \in kids}
                /\ lost' = lost \cup
                     ({Child(top, i).pick : i \in Grows(top)} \ reached')
  BY DEF Search
<1>5. \A i \in Grows(top) : /\ Child(top, i) \in [pick : Picks, score : Int]
                            /\ Child(top, i).score = ScoreOf(Child(top, i).pick)
  BY <1>2, ChildCarries
<1>6. /\ queue' \subseteq [pick : Picks, score : Int] /\ hashes' \subseteq Int
      /\ reached' \subseteq Picks /\ lost' \subseteq Picks
      /\ \A q \in queue' : q.score = ScoreOf(q.pick)
  <2>1. CASE queue' = queue \ {top} /\ UNCHANGED <<hashes, reached, lost>>
    BY <1>2, <2>1
  <2>2. CASE LET kids == {Child(top, i) : i \in Pushed(top)} IN
                /\ queue' = (queue \ {top}) \cup kids
                /\ hashes' = hashes \cup {k.score : k \in kids}
                /\ reached' = reached \cup {k.pick : k \in kids}
                /\ lost' = lost \cup
                     ({Child(top, i).pick : i \in Grows(top)} \ reached')
    <3> DEFINE kids == {Child(top, i) : i \in Pushed(top)}
    <3>1. \A k \in kids : /\ k \in [pick : Picks, score : Int]
                          /\ k.score = ScoreOf(k.pick)
      BY <1>5 DEF Pushed
    <3>2. {Child(top, i).pick : i \in Grows(top)} \subseteq Picks
      BY <1>5
    <3>3. /\ queue' = (queue \ {top}) \cup kids
          /\ hashes' = hashes \cup {k.score : k \in kids}
          /\ reached' = reached \cup {k.pick : k \in kids}
          /\ lost' \subseteq lost \cup {Child(top, i).pick : i \in Grows(top)}
      BY <2>2
    <3> HIDE DEF kids
    <3> QED
      BY <1>2, <3>1, <3>2, <3>3
  <2> QED
    BY <1>4, <2>1, <2>2
<1>7. misses' \in Nat
  BY <1>2, <1>4
<1>8. CarriedIsTotal'
  BY <1>3, <1>6 DEF CarriedIsTotal
<1> QED
  BY <1>1, <1>3, <1>6, <1>7, <1>8 DEF ReadingInv, ReadingTypeOK

(* Only letters, picks and scores of the plate at hand are about, whatever *)
(* Tesseract reports and however the lines are segmented.                  *)
LEMMA ReadingIsTyped == RecognitionSpec => []ReadingInv
<1>1. RecognitionInit => ReadingInv
  <2> SUFFICES ASSUME RecognitionInit PROVE ReadingInv
    OBVIOUS
  <2>1. /\ pc = "segment" /\ boxes = <<>> /\ ink = "white" /\ line = 0
        /\ letters = <<>> /\ hashes = {} /\ misses = 0
    BY DEF RecognitionInit, ReadingInit
  <2>2. LettersTyped /\ boxes \in Seq(Nat) /\ line \in 0..Len(boxes)
    BY <2>1 DEF LettersTyped
  <2>3. LinesPlaced
    BY <2>1 DEF LinesPlaced, Positions
  <2> QED
    BY <2>1, <2>2, <2>3 DEF ReadingInv, ReadingTypeOK, CarriedIsTotal
<1>2. ReadingInv /\ [RecognitionNext]_allvars => ReadingInv'
  <2> SUFFICES ASSUME ReadingInv, [RecognitionNext]_allvars PROVE ReadingInv'
    OBVIOUS
  <2>1. [ReadingNext \/ NextPlate]_readingvars
    BY ReadsPlates
  <2>2. CASE Segment
    <3>1. /\ boxes' \in Seq(Nat) /\ ink' = "white" /\ line' = 0 /\ letters' = <<>>
          /\ pc' = "lines" /\ UNCHANGED <<hashes, misses>>
      BY <2>2, ReadingAssumption DEF Segment, searchvars
    <3>2. LettersTyped' /\ line' \in 0..Len(boxes')
      BY <3>1 DEF LettersTyped
    <3>3. LinesPlaced'
      BY <3>1 DEF LinesPlaced, Positions
    <3> QED
      BY <3>1, <3>2, <3>3 DEF ReadingInv, ReadingTypeOK, CarriedIsTotal
  <2>3. CASE ReadLine
    <3>1. LettersTyped /\ boxes \in Seq(Nat) /\ line \in 0..Len(boxes) /\ LinesPlaced
      BY DEF ReadingInv, ReadingTypeOK
    <3>2. LettersTyped' /\ LinesPlaced'
      BY <2>3, <3>1, LineTyped, LinePlaced
    <3>3. /\ pc = "lines" /\ line' = line + 1 /\ ink' = Inverted(ink)
          /\ UNCHANGED <<pc, boxes, hashes, misses>>
      BY <2>3 DEF ReadLine, searchvars
    <3>4. line' \in 0..Len(boxes') /\ ink' \in {"white", "black"}
      BY <2>3, <3>1, <3>3, LineRead DEF Inverted
    <3> QED
      BY <3>1, <3>2, <3>3, <3>4 DEF ReadingInv, ReadingTypeOK, CarriedIsTotal
  <2>4. CASE StartSearch
    BY <2>4, StartTyped
  <2>5. CASE Search
    BY <2>5, SearchTyped
  <2>6. CASE Rank \/ NextPlate
    <3>1. /\ pc' \in {"read", "segment"} /\ UNCHANGED <<letters, line, boxes, ink>>
          /\ hashes' \subseteq Int /\ misses' \in Nat
      <4>1. hashes \subseteq Int /\ misses \in Nat
        BY DEF ReadingInv, ReadingTypeOK
      <4>2. CASE Rank
        BY <4>2 DEF Rank, platevars
      <4>3. CASE NextPlate
        BY <4>1, <4>3 DEF NextPlate, platevars, searchvars
      <4> QED
        BY <2>6, <4>2, <4>3
    <3>2. LettersTyped' /\ LinesPlaced'
      BY <3>1 DEF ReadingInv, ReadingTypeOK, LettersTyped, LinesPlaced,
         Positions, Within
    <3> QED
      BY <3>1, <3>2 DEF ReadingInv, ReadingTypeOK, CarriedIsTotal
  <2>7. CASE UNCHANGED readingvars
    <3>1. UNCHANGED <<pc, line, letters, boxes, ink, queue, hashes, misses, reached, lost>>
      BY <2>7 DEF readingvars, platevars, searchvars
    <3>2. /\ LettersTyped' /\ Picks' = Picks /\ \A p : ScoreOf(p)' = ScoreOf(p)
      BY <3>1, SameLetters DEF ReadingInv, ReadingTypeOK
    <3>3. LinesPlaced'
      BY <3>1 DEF ReadingInv, LinesPlaced, Positions, Within
    <3>4. CarriedIsTotal'
      BY <3>1, <3>2 DEF ReadingInv, ReadingTypeOK, CarriedIsTotal
    <3> QED
      BY <3>1, <3>2, <3>3, <3>4 DEF ReadingInv, ReadingTypeOK
  <2> QED
    BY <2>1, <2>2, <2>3, <2>4, <2>5, <2>6, <2>7 DEF ReadingNext
<1> QED
  BY <1>1, <1>2, PTL DEF RecognitionSpec

(* Letters of two lines meet at a position only if the upper line is too   *)
(* long, however many letters are read, and sorting does not move them.    *)
THEOREM LinesAreApart == RecognitionSpec => []LinesApart
<1>1. ReadingInv => LinesApart
  BY PlacedApart DEF ReadingInv, ReadingTypeOK
<1> QED
  BY <1>1, ReadingIsTyped, PTL


---------------------------------------------------------------------------
(* The search loses nothing but what it takes for seen.                    *)

(* Whatever lies above a pick that was queued has been analysed, or lies   *)
(* above one that is queued or was dropped and is not below that pick.     *)
Covered ==
  \A v \in reached, p \in Picks : Above(p, v) =>
    \/ p \in Analysed
    \/ \E r \in QueuedPicks \cup lost : Above(r, v) /\ Above(p, r)

PicksInv ==
  pc \in {"search", "rank"} =>
    /\ QueuedPicks \subseteq reached
    /\ reached \subseteq Picks /\ lost \subseteq Picks
    /\ FirstPick \in reached
    /\ Unstopped => Covered

(* Covered says as much of every pick, the first one being below all.      *)
LEMMA CoveredIsEnough ==
  ASSUME LettersTyped, PicksInv
  PROVE  NothingElseLost
<1> SUFFICES ASSUME Unstopped, NEW p \in Picks
             PROVE  p \in Analysed \/ \E q \in QueuedPicks \cup lost : Above(p, q)
  BY DEF NothingElseLost
<1>1. Covered /\ FirstPick \in reached
  BY DEF PicksInv, Unstopped
<1>2. Above(p, FirstPick)
  BY PicksAre DEF Above, FirstPick
<1> QED
  BY <1>1, <1>2 DEF Covered

(* The first permutation is all there is to begin with.                    *)
LEMMA StartCovers ==
  ASSUME LettersTyped, LettersTyped', StartSearch
  PROVE  PicksInv'
<1> SUFFICES ASSUME letters # <<>> PROVE PicksInv'
  BY DEF StartSearch, PicksInv
<1>1. Positions' = Positions
  <2>1. letters' \in [Positions -> UNION {Sorted(letters[i]) : i \in Positions}]
    BY DEF StartSearch
  <2> QED
    BY <2>1 DEF Positions
<1>2. FirstPick' = FirstPick
  BY <1>1 DEF FirstPick
<1>3. /\ QueuedPicks' = {FirstPick} /\ reached' = {FirstPick} /\ lost' = {}
  <2>1. queue' = {[pick |-> FirstPick, score |-> ScoreOf(FirstPick)']}
    BY DEF StartSearch
  <2>2. QueuedPicks' = {FirstPick}
    BY <2>1 DEF QueuedPicks
  <2> QED
    BY <2>2 DEF StartSearch
<1>4. FirstPick' \in Picks'
  BY FirstIsPickNext
<1>5. Above(FirstPick, FirstPick)'
  BY DEF Above, FirstPick
<1>6. Covered'
  BY <1>2, <1>3, <1>5 DEF Covered
<1> QED
  BY <1>2, <1>3, <1>4, <1>6 DEF PicksInv

(* A round of the search that goes on: the children of the permutation     *)
(* that was analysed stand for all that lies above it.                     *)
LEMMA SearchCovers ==
  ASSUME LettersTyped, PicksInv, Search
  PROVE  PicksInv'
<1>1. pc = "search" /\ letters' = letters
  BY DEF Search
<1>2. /\ Positions' = Positions /\ Picks' = Picks /\ FirstPick' = FirstPick
      /\ \A p, q : Above(p, q)' <=> Above(p, q)
  BY <1>1 DEF Positions, Picks, Ranks, FirstPick, Above
<1>3. /\ QueuedPicks \subseteq reached /\ reached \subseteq Picks
      /\ lost \subseteq Picks /\ FirstPick \in reached /\ Covered
  BY <1>1 DEF PicksInv, Unstopped
<1>4. PICK top \in queue :
        \/ /\ queue' = queue \ {top}
           /\ pc' = "rank" /\ UNCHANGED <<reached, lost>>
           /\ Len(results') >= TopN \/ misses' >= 2 * TopN
        \/ LET kids == {Child(top, i) : i \in Pushed(top)} IN
             /\ queue' = (queue \ {top}) \cup kids
             /\ reached' = reached \cup {k.pick : k \in kids}
             /\ lost' = lost \cup
                  ({Child(top, i).pick : i \in Grows(top)} \ reached')
             /\ pc' \in {"rank", "search"}
  BY DEF Search
<1>5. top.pick \in Picks /\ top.pick \in QueuedPicks /\ top.pick \in reached
  BY <1>3 DEF QueuedPicks
<1>6. CASE /\ queue' = queue \ {top}
           /\ pc' = "rank" /\ UNCHANGED <<reached, lost>>
           /\ Len(results') >= TopN \/ misses' >= 2 * TopN
  <2>1. QueuedPicks' \subseteq QueuedPicks
    BY <1>6 DEF QueuedPicks
  <2>2. ~Unstopped'
    BY <1>6 DEF Unstopped
  <2> QED
    BY <1>2, <1>3, <1>6, <2>1, <2>2 DEF PicksInv
<1>7. CASE LET kids == {Child(top, i) : i \in Pushed(top)} IN
             /\ queue' = (queue \ {top}) \cup kids
             /\ reached' = reached \cup {k.pick : k \in kids}
             /\ lost' = lost \cup
                  ({Child(top, i).pick : i \in Grows(top)} \ reached')
             /\ pc' \in {"rank", "search"}
  <2> DEFINE t == top.pick
             new == {Child(top, i).pick : i \in Pushed(top)}
             next == {Child(top, i).pick : i \in Grows(top)}
  <2>1. /\ reached' = reached \cup new
        /\ lost' = lost \cup (next \ reached')
        /\ QueuedPicks' \subseteq QueuedPicks \cup new
        /\ QueuedPicks \ {t} \subseteq QueuedPicks'
        /\ new \subseteq QueuedPicks'
    BY <1>7 DEF QueuedPicks
  <2>2. new \subseteq next /\ next \subseteq Picks
    BY <1>5, ChildPicks DEF Pushed
  <2>3. \A p \in Picks : Above(p, t) /\ p # t =>
          \E c \in next : Above(p, c) /\ Above(c, t) /\ ~Above(t, c)
    <3> SUFFICES ASSUME NEW p \in Picks, Above(p, t), p # t
                 PROVE  \E c \in next : Above(p, c) /\ Above(c, t) /\ ~Above(t, c)
      OBVIOUS
    <3>1. PICK i \in Grows(top) : Above(p, Next1(t, i))
      BY <1>5, AboveChild
    <3>2. Child(top, i).pick = Next1(t, i) /\ Above(Next1(t, i), t)
      BY <1>5, ChildPicks
    <3>3. ~Above(t, Next1(t, i))
      <4>1. i \in Positions /\ t \in [Positions -> Nat \ {0}]
        BY <1>5, PicksAre DEF Grows
      <4>2. Next1(t, i)[i] = t[i] + 1 /\ t[i] \in Nat
        BY <4>1 DEF Next1
      <4> QED
        BY <4>1, <4>2 DEF Above
    <3> QED
      BY <3>1, <3>2, <3>3
  <2> HIDE DEF new, next, t
  <2>4. ASSUME NEW v \in reached', NEW p \in Picks, Above(p, v)
        PROVE  \/ p \in Analysed'
               \/ \E r \in QueuedPicks' \cup lost' : Above(r, v) /\ Above(p, r)
    <3>1. t \in Picks /\ t \in QueuedPicks /\ p \in Picks
      BY <1>2, <1>5, <2>4 DEF t
    <3>2. QueuedPicks \subseteq reached /\ lost \subseteq lost'
      BY <1>3, <2>1
    <3>3. ASSUME p \in reached PROVE p \in Analysed' \/ p \in QueuedPicks'
      BY <2>1, <3>3 DEF Analysed
    <3>4. CASE v \in new
      BY <2>1, <2>2, <2>4, <3>4, AboveOrders
    <3>5. CASE v \in reached
      <4>1. v \in Picks
        BY <1>3, <3>5
      <4>2. CASE p \in Analysed
        BY <2>4, <3>1, <3>3, <4>1, <4>2, AboveOrders DEF Analysed
      <4>3. ASSUME NEW r \in QueuedPicks \cup lost, Above(r, v), Above(p, r), r # t
            PROVE  r \in QueuedPicks' \cup lost'
        BY <2>1, <3>2, <4>3
      <4>4. CASE Above(t, v) /\ Above(p, t) /\ t \notin QueuedPicks' \cup lost'
        <5>1. CASE p = t
          BY <2>1, <3>1, <3>2, <4>4, <5>1 DEF Analysed
        <5>2. CASE p # t
          <6>1. PICK c \in next : Above(p, c) /\ Above(c, t) /\ ~Above(t, c)
            BY <2>3, <3>1, <4>4, <5>2
          <6>2. c \in Picks /\ Above(c, v)
            BY <2>2, <3>1, <4>1, <4>4, <6>1, AboveOrders
          <6>3. CASE c \in QueuedPicks' \cup lost'
            BY <6>1, <6>2, <6>3
          <6>4. CASE c \notin QueuedPicks' \cup lost'
            <7>1. c \in reached
              BY <2>1, <2>2, <6>1, <6>4
            <7>2. CASE p \in Analysed
              BY <4>2, <7>2
            <7>3. ASSUME NEW r \in QueuedPicks \cup lost, Above(r, c), Above(p, r)
                  PROVE  /\ r \in QueuedPicks' \cup lost'
                         /\ Above(r, v)
              <8>1. r \in Picks
                BY <1>3, <3>2
              <8>2. Above(r, v)
                BY <4>1, <6>2, <7>3, <8>1, AboveOrders
              <8>3. r # t
                BY <6>1, <7>3
              <8> QED
                BY <2>1, <3>2, <8>2, <8>3
            <7> QED
              BY <1>3, <3>1, <6>1, <7>1, <7>2, <7>3 DEF Covered
          <6> QED
            BY <6>3, <6>4
        <5> QED
          BY <5>1, <5>2
      <4>5. p \in Analysed \/ \E r \in QueuedPicks \cup lost : Above(r, v) /\ Above(p, r)
        BY <1>3, <2>4, <3>1, <3>5 DEF Covered
      <4> QED
        BY <4>2, <4>3, <4>4, <4>5
    <3> QED
      BY <2>1, <3>4, <3>5
  <2>5. Covered'
    BY <1>2, <2>4 DEF Covered
  <2> QED
    BY <1>2, <1>3, <2>1, <2>2, <2>5 DEF PicksInv
<1> QED
  BY <1>4, <1>6, <1>7

LEMMA PicksCovered == RecognitionSpec => []PicksInv
<1>1. RecognitionInit => PicksInv
  BY DEF RecognitionInit, ReadingInit, PicksInv
<1>2. LettersTyped /\ LettersTyped' /\ PicksInv /\ [RecognitionNext]_allvars
      => PicksInv'
  <2> SUFFICES ASSUME LettersTyped, LettersTyped', PicksInv,
                      [RecognitionNext]_allvars
               PROVE  PicksInv'
    OBVIOUS
  <2>1. [ReadingNext \/ NextPlate]_readingvars
    BY ReadsPlates
  <2>2. CASE StartSearch
    BY <2>2, StartCovers
  <2>3. CASE Search
    BY <2>3, SearchCovers
  <2>4. CASE UNCHANGED readingvars
    <3>1. UNCHANGED <<pc, letters, queue, reached, lost, results, misses>>
      BY <2>4 DEF readingvars, searchvars, resultvars
    <3>2. /\ QueuedPicks' = QueuedPicks /\ Positions' = Positions
          /\ Unstopped' <=> Unstopped
      BY <3>1 DEF QueuedPicks, Positions, Unstopped
    <3>3. /\ Picks' = Picks /\ FirstPick' = FirstPick
          /\ \A p, q : Above(p, q)' <=> Above(p, q)
      BY <3>1, <3>2 DEF Picks, Ranks, FirstPick, Above
    <3>4. Analysed' = Analysed
      BY <3>1, <3>2 DEF Analysed
    <3>5. Covered' <=> Covered
      BY <3>1, <3>2, <3>3, <3>4 DEF Covered
    <3> QED
      BY <3>1, <3>2, <3>3, <3>5 DEF PicksInv
  <2>5. CASE Segment \/ ReadLine \/ Rank \/ NextPlate
    BY <2>5 DEF Segment, ReadLine, Rank, NextPlate, PicksInv
  <2> QED
    BY <2>1, <2>2, <2>3, <2>4, <2>5 DEF ReadingNext
<1>3. ReadingInv => LettersTyped
  BY DEF ReadingInv, ReadingTypeOK
<1> QED
  BY <1>1, <1>2, <1>3, ReadingIsTyped, PTL DEF RecognitionSpec

(* In the search no reading gets lost but behind permutations whose score  *)
(* had been seen before, however the letters are distributed.              *)
THEOREM NothingIsLost == RecognitionSpec => []NothingElseLost
<1>1. ReadingInv /\ PicksInv => NothingElseLost
  BY CoveredIsEnough DEF ReadingInv, ReadingTypeOK
<1> QED
  BY <1>1, ReadingIsTyped, PicksCovered, PTL

---------------------------------------------------------------------------
(* Results come best first.                                                *)

TotalsTyped ==
  /\ \E S : results \in Seq(S)
  /\ \A k \in DOMAIN results : results[k].total \in Int

(* While the search is on, letters fall at every position, and no queued   *)
(* permutation exceeds a result that is there already.                     *)
OrderInv ==
  /\ TotalsTyped
  /\ BestFirst
  /\ pc = "lines" => results = <<>> /\ best = 0
  /\ pc = "search" =>
       /\ \A i \in Positions : Descending(letters[i])
       /\ \A q \in queue : \A k \in DOMAIN results : q.score <= results[k].total

(* One more result, no better than those that are there.                   *)
LEMMA ResultsGrow ==
  ASSUME TotalsTyped, BestFirst, NEW new, results' = Append(results, new),
         new.total \in Int,
         \A k \in DOMAIN results : new.total <= results[k].total
  PROVE  /\ TotalsTyped' /\ BestFirst'
         /\ \A x \in Int : /\ x <= new.total
                         => \A k \in DOMAIN results' : x <= results'[k].total
<1>1. PICK S : results \in Seq(S)
  BY DEF TotalsTyped
<1>2. results \in Seq(S \cup {new}) /\ results' \in Seq(S \cup {new})
  BY <1>1
<1>3. /\ DOMAIN results = 1..Len(results) /\ Len(results) \in Nat
      /\ DOMAIN results' = 1..(Len(results) + 1)
      /\ results'[Len(results) + 1] = new
      /\ \A k \in DOMAIN results : results'[k] = results[k]
  BY <1>2
<1>4. \A k \in DOMAIN results' : k \in DOMAIN results \/ k = Len(results) + 1
  BY <1>3
<1>5. TotalsTyped'
  BY <1>2, <1>3, <1>4 DEF TotalsTyped
<1>6. BestFirst'
  <2> SUFFICES ASSUME NEW j \in DOMAIN results', NEW k \in DOMAIN results', j < k
               PROVE  results'[j].total >= results'[k].total
    BY DEF BestFirst
  <2>1. j \in DOMAIN results
    BY <1>3, <1>4
  <2>2. CASE k \in DOMAIN results
    BY <1>3, <2>1, <2>2 DEF BestFirst
  <2>3. CASE k = Len(results) + 1
    <3>1. results[j].total \in Int /\ new.total <= results[j].total
      BY <2>1 DEF TotalsTyped
    <3> QED
      BY <1>3, <2>1, <2>3, <3>1
  <2> QED
    BY <1>4, <2>2, <2>3
<1>7. ASSUME NEW x \in Int, x <= new.total, NEW k \in DOMAIN results'
      PROVE  x <= results'[k].total
  <2>1. CASE k \in DOMAIN results
    <3>1. results[k].total \in Int /\ new.total <= results[k].total
      BY <2>1 DEF TotalsTyped
    <3> QED
      BY <1>3, <1>7, <2>1, <3>1
  <2> QED
    BY <1>3, <1>4, <1>7, <2>1
<1> QED
  BY <1>5, <1>6, <1>7

(* A round of the search.                                                  *)
LEMMA SearchOrders ==
  ASSUME ReadingTypeOK, OrderInv, Search
  PROVE  OrderInv'
<1>1. pc = "search" /\ letters' = letters /\ pc' \in {"search", "rank"}
  BY DEF Search
<1>2. /\ LettersTyped /\ TotalsTyped /\ BestFirst
      /\ queue \subseteq [pick : Picks, score : Int]
      /\ \A q \in queue : q.score = ScoreOf(q.pick)
      /\ \A i \in Positions : Descending(letters[i])
      /\ \A q \in queue : \A k \in DOMAIN results : q.score <= results[k].total
  BY <1>1 DEF ReadingTypeOK, OrderInv, CarriedIsTotal
<1>3. PICK top \in queue :
        /\ \A q \in queue : q.score <= top.score
        /\ results' \in {results, Append(results, ResultOf(top.pick))}
        /\ \A q \in queue' : q \in queue \/ \E i \in Grows(top) : q = Child(top, i)
  BY DEF Search, Pushed
<1>4. top \in [pick : Picks, score : Int]
  BY <1>2
<1>5. \A q \in queue' : q.score \in Int /\ q.score <= top.score
  <2> SUFFICES ASSUME NEW q \in queue' PROVE q.score \in Int /\ q.score <= top.score
    OBVIOUS
  <2>1. CASE q \in queue
    BY <1>2, <1>3, <2>1
  <2>2. ASSUME NEW i \in Grows(top), q = Child(top, i)
        PROVE  q.score \in Int /\ q.score <= top.score
    <3>1. q.score <= top.score
      BY <1>2, <1>4, <2>2, ChildrenFall DEF Grows
    <3>2. q.score \in Int
      BY <1>2, <1>4, <2>2, ChildTyped
    <3> QED
      BY <3>1, <3>2
  <2> QED
    BY <1>3, <2>1, <2>2
<1>6. CASE results' = results
  <2>1. \A q \in queue' : \A k \in DOMAIN results : q.score <= results[k].total
    <3> SUFFICES ASSUME NEW q \in queue', NEW k \in DOMAIN results
                 PROVE  q.score <= results[k].total
      OBVIOUS
    <3>1. /\ q.score \in Int /\ q.score <= top.score /\ top.score \in Int
          /\ results[k].total \in Int /\ top.score <= results[k].total
      BY <1>2, <1>4, <1>5 DEF TotalsTyped
    <3> QED
      BY <3>1
  <2> QED
    BY <1>1, <1>2, <1>6, <2>1 DEF OrderInv, TotalsTyped, BestFirst, Positions,
       Descending
<1>7. CASE results' = Append(results, ResultOf(top.pick))
  <2> DEFINE new == ResultOf(top.pick)
  <2>1. new.total = top.score /\ top.score \in Int
    BY <1>2, <1>4 DEF ResultOf
  <2>2. \A k \in DOMAIN results : new.total <= results[k].total
    BY <1>2, <2>1
  <2> HIDE DEF new
  <2>3. /\ TotalsTyped' /\ BestFirst'
        /\ \A x \in Int : /\ x <= new.total
                         => \A k \in DOMAIN results' : x <= results'[k].total
    BY <1>2, <1>7, <2>1, <2>2, ResultsGrow DEF new
  <2>4. \A q \in queue' : \A k \in DOMAIN results' : q.score <= results'[k].total
    BY <1>5, <2>1, <2>3
  <2> QED
    BY <1>1, <1>2, <2>3, <2>4 DEF OrderInv, Positions, Descending
<1> QED
  BY <1>3, <1>6, <1>7

LEMMA ResultsOrdered == RecognitionSpec => []OrderInv
<1>1. RecognitionInit => OrderInv
  <2> SUFFICES ASSUME RecognitionInit PROVE OrderInv
    OBVIOUS
  <2>1. results = <<>> /\ pc = "segment"
    BY DEF RecognitionInit, ReadingInit
  <2>2. results \in Seq({})
    BY <2>1
  <2> QED
    BY <2>1, <2>2 DEF OrderInv, TotalsTyped, BestFirst
<1>2. ReadingTypeOK /\ OrderInv /\ [RecognitionNext]_allvars => OrderInv'
  <2> SUFFICES ASSUME ReadingTypeOK, OrderInv, [RecognitionNext]_allvars
               PROVE  OrderInv'
    OBVIOUS
  <2>1. [ReadingNext \/ NextPlate]_readingvars
    BY ReadsPlates
  <2>2. CASE Search
    BY <2>2, SearchOrders
  <2>3. CASE Segment
    <3>1. results' = <<>> /\ best' = 0 /\ pc' = "lines"
      BY <2>3 DEF Segment
    <3>2. results' \in Seq({})
      BY <3>1
    <3> QED
      BY <3>1, <3>2 DEF OrderInv, TotalsTyped, BestFirst
  <2>4. CASE StartSearch
    <3>1. results = <<>> /\ results' = results /\ pc' \in {"read", "search"}
      BY <2>4 DEF StartSearch, OrderInv, resultvars
    <3>2. \A i \in Positions' : Descending(letters'[i])
      <4>1. /\ letters' \in [Positions -> UNION {Sorted(letters[i]) : i \in Positions}]
            /\ \A i \in Positions : letters'[i] \in Sorted(letters[i])
        BY <2>4 DEF StartSearch
      <4>2. Positions' = Positions
        BY <4>1 DEF Positions
      <4> QED
        BY <4>1, <4>2 DEF Sorted
    <3> QED
      BY <3>1, <3>2 DEF OrderInv, TotalsTyped, BestFirst, Descending
  <2>5. CASE ReadLine
    <3>1. UNCHANGED <<pc, results, best>> /\ pc = "lines"
      BY <2>5 DEF ReadLine, resultvars
    <3> QED
      BY <3>1 DEF OrderInv, TotalsTyped, BestFirst
  <2>6. CASE Rank \/ NextPlate
    <3>1. UNCHANGED results /\ pc' \in {"read", "segment"}
      BY <2>6 DEF Rank, NextPlate, resultvars
    <3> QED
      BY <3>1 DEF OrderInv, TotalsTyped, BestFirst
  <2>7. CASE UNCHANGED readingvars
    <3>1. UNCHANGED <<pc, letters, queue, results, best>>
      BY <2>7 DEF readingvars, searchvars, resultvars
    <3> QED
      BY <3>1 DEF OrderInv, TotalsTyped, BestFirst, Positions, Descending
  <2> QED
    BY <2>1, <2>2, <2>3, <2>4, <2>5, <2>6, <2>7 DEF ReadingNext
<1>3. ReadingInv => ReadingTypeOK
  BY DEF ReadingInv
<1> QED
  BY <1>1, <1>2, <1>3, ReadingIsTyped, PTL DEF RecognitionSpec

(* Results come best first for whatever letters are read.                  *)
THEOREM ResultsAreOrdered == RecognitionSpec => []BestFirst
<1>1. OrderInv => BestFirst
  BY DEF OrderInv
<1> QED
  BY <1>1, ResultsOrdered, PTL

---------------------------------------------------------------------------
(* No better reading is missed than those that are reported.               *)

(* While the search is on, what has not been analysed lies above a queued  *)
(* permutation, which is no better than the results.                       *)
LEMMA QueueBounds ==
  ASSUME ReadingTypeOK, OrderInv, NothingElseLost, pc = "search", lost = {},
         NEW p \in Picks \ Analysed
  PROVE  \E q \in queue : ScoreOf(p) <= q.score
<1>1. PICK v \in QueuedPicks : Above(p, v)
  BY DEF NothingElseLost, Unstopped
<1>2. PICK q \in queue : q.pick = v
  BY DEF QueuedPicks
<1>3. q.score = ScoreOf(v) /\ v \in Picks
  BY <1>2 DEF ReadingTypeOK, CarriedIsTotal
<1>4. ScoreOf(p) <= ScoreOf(v)
  BY <1>1, <1>3, AboveScoresLess DEF ReadingTypeOK, OrderInv
<1> QED
  BY <1>3, <1>4

(* The round that ends the search.                                         *)
LEMMA LastRoundMisses ==
  ASSUME ReadingTypeOK, OrderInv, NothingElseLost, NothingElseLost', Search,
         pc' = "rank"
  PROVE  NothingBetterMissed'
<1> SUFFICES ASSUME lost' = {}, NEW p \in Picks' \ Analysed', NEW k \in DOMAIN results'
             PROVE  ScoreOf(p)' <= results'[k].total
  BY DEF NothingBetterMissed
<1>1. pc = "search" /\ letters' = letters
  BY DEF Search
<1>2. /\ LettersTyped /\ TotalsTyped /\ BestFirst
      /\ queue \subseteq [pick : Picks, score : Int]
      /\ \A q \in queue : q.score = ScoreOf(q.pick)
      /\ \A q \in queue : \A j \in DOMAIN results : q.score <= results[j].total
  BY <1>1 DEF ReadingTypeOK, OrderInv, CarriedIsTotal
<1>3. Picks' = Picks /\ ScoreOf(p)' = ScoreOf(p)
  BY <1>1, SameLetters
<1>4. PICK top \in queue :
        /\ \A q \in queue : q.score <= top.score
        /\ results' \in {results, Append(results, ResultOf(top.pick))}
        /\ \/ queue' = queue \ {top} /\ UNCHANGED <<reached, lost>>
           \/ /\ ~(Len(results') >= TopN \/ misses' >= 2 * TopN)
              /\ queue' = {}
  BY DEF Search
<1>5. CASE ~(Len(results') >= TopN \/ misses' >= 2 * TopN) /\ queue' = {}
  <2>1. Unstopped' /\ QueuedPicks' = {}
    BY <1>5 DEF Unstopped, QueuedPicks
  <2> QED
    BY <2>1 DEF NothingElseLost
<1>6. CASE queue' = queue \ {top} /\ UNCHANGED <<reached, lost>>
  <2>1. QueuedPicks' \subseteq QueuedPicks
    BY <1>6 DEF QueuedPicks
  <2>2. p \in Picks \ Analysed /\ lost = {}
    BY <1>3, <1>6, <2>1 DEF Analysed
  <2>3. PICK q \in queue : ScoreOf(p) <= q.score
    BY <1>1, <2>2, QueueBounds
  <2>4. /\ ScoreOf(p) \in Int /\ q.score \in Int /\ top.score \in Int
        /\ q.score <= top.score
    BY <1>2, <1>4, <2>2, ScoreTyped
  <2>5. ScoreOf(p) <= top.score
    BY <2>3, <2>4
  <2>6. CASE results' = results
    BY <1>2, <1>3, <2>4, <2>5, <2>6 DEF TotalsTyped
  <2>7. CASE results' = Append(results, ResultOf(top.pick))
    <3> DEFINE new == ResultOf(top.pick)
    <3>1. new.total = top.score
      BY <1>2 DEF ResultOf
    <3>2. \A j \in DOMAIN results : new.total <= results[j].total
      BY <1>2, <3>1
    <3> HIDE DEF new
    <3>3. \A x \in Int : x <= new.total => \A j \in DOMAIN results' : x <= results'[j].total
      BY <1>2, <2>4, <2>7, <3>1, <3>2, ResultsGrow DEF new
    <3> QED
      BY <1>3, <2>4, <2>5, <3>1, <3>3
  <2> QED
    BY <1>4, <2>6, <2>7
<1> QED
  BY <1>4, <1>5, <1>6

(* Unless permutations were dropped, the search stops only with readings   *)
(* at least as good as any it has not looked at.                           *)
THEOREM NothingBetterIsMissed == RecognitionSpec => []NothingBetterMissed
<1> DEFINE Inv == pc = "rank" => NothingBetterMissed
<1>1. RecognitionInit => Inv
  BY DEF RecognitionInit, ReadingInit
<1>2. /\ ReadingTypeOK /\ OrderInv /\ NothingElseLost /\ NothingElseLost'
      /\ Inv /\ [RecognitionNext]_allvars
      => Inv'
  <2> SUFFICES ASSUME ReadingTypeOK, OrderInv, NothingElseLost, NothingElseLost',
                      Inv, [RecognitionNext]_allvars, pc' = "rank"
               PROVE  NothingBetterMissed'
    OBVIOUS
  <2>1. [ReadingNext \/ NextPlate]_readingvars
    BY ReadsPlates
  <2>2. CASE Search
    BY <2>2, LastRoundMisses
  <2>3. CASE Segment \/ ReadLine \/ StartSearch \/ Rank \/ NextPlate
    BY <2>3 DEF Segment, ReadLine, StartSearch, Rank, NextPlate
  <2>4. CASE UNCHANGED readingvars
    <3>1. UNCHANGED <<pc, letters, queue, reached, lost, results>>
      BY <2>4 DEF readingvars, searchvars, resultvars
    <3>2. Analysed' = Analysed
      BY <3>1 DEF Analysed, QueuedPicks
    <3> QED
      BY <3>1, <3>2, SameLetters DEF NothingBetterMissed
  <2> QED
    BY <2>1, <2>2, <2>3, <2>4 DEF ReadingNext
<1>3. ReadingTypeOK /\ OrderInv /\ NothingElseLost /\ Inv => NothingBetterMissed
  <2> SUFFICES ASSUME ReadingTypeOK, OrderInv, NothingElseLost, pc = "search", lost = {},
                      NEW p \in Picks \ Analysed, NEW k \in DOMAIN results
               PROVE  ScoreOf(p) <= results[k].total
    BY DEF NothingBetterMissed
  <2>1. PICK q \in queue : ScoreOf(p) <= q.score
    BY QueueBounds
  <2>2. q.score <= results[k].total /\ q.score \in Int /\ results[k].total \in Int
    BY DEF OrderInv, TotalsTyped, ReadingTypeOK
  <2>3. ScoreOf(p) \in Int
    BY ScoreTyped DEF ReadingTypeOK
  <2> QED
    BY <2>1, <2>2, <2>3
<1>4. ReadingInv => ReadingTypeOK
  BY DEF ReadingInv
<1> QED
  BY <1>1, <1>2, <1>3, <1>4, ReadingIsTyped, ResultsOrdered, NothingIsLost, PTL
  DEF RecognitionSpec

---------------------------------------------------------------------------
(* The best plate.                                                         *)

BestInv ==
  /\ pc = "lines" => results = <<>> /\ best = 0
  /\ pc = "read" => best = IF results = <<>> THEN 0 ELSE BestIndex

LEMMA BestChosen == RecognitionSpec => []BestInv
<1>1. RecognitionInit => BestInv
  BY DEF RecognitionInit, ReadingInit, BestInv
<1>2. BestInv /\ [RecognitionNext]_allvars => BestInv'
  <2> SUFFICES ASSUME BestInv, [RecognitionNext]_allvars PROVE BestInv'
    OBVIOUS
  <2>1. [ReadingNext \/ NextPlate]_readingvars
    BY ReadsPlates
  <2>2. CASE Segment \/ ReadLine \/ Search \/ NextPlate
    BY <2>2 DEF Segment, ReadLine, Search, NextPlate, BestInv, resultvars
  <2>3. CASE StartSearch
    BY <2>3 DEF StartSearch, BestInv, resultvars
  <2>4. CASE Rank
    BY <2>4 DEF Rank, BestInv, BestIndex, Matching
  <2>5. CASE UNCHANGED readingvars
    <3>1. UNCHANGED <<pc, results, best>>
      BY <2>5 DEF readingvars, resultvars
    <3> QED
      BY <3>1 DEF BestInv, BestIndex, Matching
  <2> QED
    BY <2>1, <2>2, <2>3, <2>4, <2>5 DEF ReadingNext
<1> QED
  BY <1>1, <1>2, PTL DEF RecognitionSpec

(* The best plate matches the pattern if any reading does, and is the one  *)
(* of most confidence among those.                                         *)
THEOREM BestIsMatch == RecognitionSpec => []BestIsBestMatch
<1>1. BestInv /\ OrderInv => BestIsBestMatch
  <2> SUFFICES ASSUME BestInv, BestFirst, TotalsTyped, pc = "read",
                      NEW k \in DOMAIN results, results[k].match = "yes"
               PROVE  /\ results[best].match = "yes"
                      /\ results[best].total >= results[k].total
    BY DEF BestIsBestMatch, OrderInv
  <2>1. PICK S : results \in Seq(S)
    BY DEF TotalsTyped
  <2>2. Matching \subseteq Nat /\ k \in Matching
    BY <2>1 DEF Matching
  <2>3. results # <<>>
    OBVIOUS
  <2>4. best = Min(Matching)
    BY <2>2, <2>3 DEF BestInv, BestIndex
  <2>5. best \in Matching /\ best <= k
    BY <2>2, <2>4, MinIsLeast
  <2>6. best \in DOMAIN results /\ results[best].match = "yes"
    BY <2>5 DEF Matching
  <2>7. results[best].total >= results[k].total
    <3>1. CASE best = k
      BY <3>1 DEF TotalsTyped
    <3>2. CASE best < k
      BY <2>6, <3>2 DEF BestFirst
    <3>3. best \in Nat /\ k \in Nat
      BY <2>2, <2>5
    <3> QED
      BY <2>5, <3>1, <3>2, <3>3
  <2> QED
    BY <2>6, <2>7
<1> QED
  BY <1>1, BestChosen, ResultsOrdered, PTL

---------------------------------------------------------------------------
(* The scores of the readings.                                             *)

LEMMA ScoreNatural ==
  ASSUME LettersTyped, NEW pick \in Picks
  PROVE  ScoreOf(pick) \in Nat /\ (Lettered = {} => ScoreOf(pick) = 0)
<1>1. PICK h : Sums(h, Totals(pick), Lettered) /\ ScoreOf(pick) = h[Lettered]
  BY ScoreSums
<1>2. Totals(pick) \in [Lettered -> Nat]
  <2> SUFFICES ASSUME NEW i \in Lettered PROVE letters[i][pick[i]].total \in Nat
    BY DEF Totals
  <2>1. pick[i] \in Nat \ {0} /\ (pick[i] = 1 \/ pick[i] <= Len(letters[i]))
    BY PicksAre, LetteredIs
  <2>2. pick[i] \in DOMAIN letters[i] /\ letters[i] \in Seq(Letter)
    BY <2>1, LetteredIs
  <2>3. letters[i][pick[i]] \in Letter
    BY <2>2
  <2> QED
    BY <2>3 DEF Letter
<1>3. h[Lettered] \in Nat
  BY <1>1, <1>2, SumsNatural, LetteredIs
<1>4. Lettered = {} => h[Lettered] = 0
  BY <1>1 DEF Sums
<1> QED
  BY <1>1, <1>3, <1>4

LEMMA MaxPercentNatural ==
  ASSUME LettersTyped, Lettered # {}
  PROVE  MaxPercent \in Nat
<1> DEFINE e(i) == letters[i][1].total \div letters[i][1].occ + MinConfidence
           T == [i \in Lettered |-> e(i)]
           Is(h) == h = [s \in SUBSET Lettered |->
             IF s = {} THEN 0 ELSE e(One(s)) + h[s \ {One(s)}]]
           sum == (CHOOSE h : Is(h))[Lettered]
<1>1. MaxPercent = sum \div Cardinality(Lettered)
  BY DEF MaxPercent, MapThenSumSet, MapThenFoldSet, One
<1>2. T \in [Lettered -> Nat]
  <2> SUFFICES ASSUME NEW i \in Lettered PROVE e(i) \in Nat
    OBVIOUS
  <2>1. letters[i] \in Seq(Letter) /\ 1 \in DOMAIN letters[i]
    BY LetteredIs
  <2>2. letters[i][1] \in Letter
    BY <2>1
  <2>3. letters[i][1].total \in Nat /\ letters[i][1].occ \in Nat \ {0}
    BY <2>2 DEF Letter
  <2> QED
    BY <2>3, ReadingAssumption
<1>3. \A s \in SUBSET Lettered : s # {} => T[One(s)] = e(One(s))
  BY DEF One
<1> HIDE DEF T, e
<1>4. PICK g \in [SUBSET Lettered -> Int] : Sums(g, T, Lettered)
  <2>1. T \in [Lettered -> Int]
    BY <1>2
  <2> QED
    BY <2>1, SumsExist, LetteredIs
<1>5. Is(g)
  <2>1. \A s \in SUBSET Lettered : g[s] =
             IF s = {} THEN 0 ELSE e(One(s)) + g[s \ {One(s)}]
    BY <1>3, <1>4 DEF Sums
  <2> QED
    BY <2>1
<1> DEFINE k == CHOOSE h : Is(h)
<1>6. Is(k)
  <2> HIDE DEF Is
  <2> QED
    BY <1>5
<1>7. Sums(k, T, Lettered)
  <2> HIDE DEF k
  <2>1. \A s \in SUBSET Lettered : k[s] =
             IF s = {} THEN 0 ELSE e(One(s)) + k[s \ {One(s)}]
    BY <1>6
  <2> QED
    BY <1>3, <2>1 DEF Sums
<1>8. sum \in Nat
  <2>1. sum = k[Lettered]
    OBVIOUS
  <2> HIDE DEF k, sum
  <2>2. k[Lettered] \in Nat
    BY <1>2, <1>7, SumsNatural, LetteredIs
  <2> QED
    BY <2>1, <2>2
<1>9. Cardinality(Lettered) \in Nat \ {0}
  BY LetteredIs, FS_CardinalityType, FS_EmptySet
<1> HIDE DEF sum
<1> QED
  BY <1>1, <1>8, <1>9

(* Percentages do not rise with falling totals.                            *)
LEMMA PercentFalls ==
  ASSUME NEW m \in Nat, NEW h \in Nat, h # 0, NEW t \in Nat, t <= h
  PROVE  (m * t) \div h \in Nat /\ (m * t) \div h <= (m * h) \div h
<1>1. m * t \in Nat /\ m * h \in Nat /\ m * t <= m * h
  <2>1. h - t \in Nat /\ m * (h - t) \in Nat
    OBVIOUS
  <2>2. m * h = m * t + m * (h - t)
    BY <2>1
  <2> QED
    BY <2>1, <2>2
<1> PICK a \in Nat, b \in Nat : a = m * t /\ b = m * h
  BY <1>1
<1>2. a \div h \in Nat /\ a \div h <= b \div h
  <2>1. a <= b
    BY <1>1
  <2> PICK x \in Int, y \in Int : x = a \div h /\ y = b \div h
    OBVIOUS
  <2>2. /\ h * x <= a /\ a < h * x + h
        /\ h * y <= b /\ b < h * y + h
    OBVIOUS
  <2>3. x <= y
    <3> SUFFICES ASSUME y + 1 <= x PROVE FALSE
      OBVIOUS
    <3>1. x - (y + 1) \in Nat /\ h * (x - (y + 1)) \in Nat
      OBVIOUS
    <3>2. h * x = h * y + h + h * (x - (y + 1))
      BY <3>1
    <3> QED
      BY <2>1, <2>2, <3>1, <3>2
  <2>4. x \in Nat
    <3> SUFFICES ASSUME x + 1 <= 0 PROVE FALSE
      OBVIOUS
    <3>1. -(x + 1) \in Nat /\ h * (-(x + 1)) \in Nat
      OBVIOUS
    <3>2. h * x + h = -(h * (-(x + 1)))
      BY <3>1
    <3> QED
      BY <2>2, <3>1, <3>2
  <2> QED
    BY <2>3, <2>4
<1> QED
  BY <1>2

(* Results spell different words; their percentages are no numbers, or the *)
(* first one's is the highest.                                             *)
WordsDiffer == \A j, k \in DOMAIN results : results[j].word = results[k].word => j = k

ScoredInv ==
  /\ WordsDiffer
  /\ pc \in {"search", "rank"} =>
       \A k \in DOMAIN results : /\ results[k].total \in Nat
                                 /\ Lettered = {} => results[k].total = 0
  /\ pc = "read" =>
       \/ \A k \in DOMAIN results : percents[k] = NotANumber
       \/ \A k \in DOMAIN results : percents[k] \in Nat /\ percents[k] <= percents[1]

LEMMA SearchScores ==
  ASSUME ReadingTypeOK, TotalsTyped, ScoredInv, Search
  PROVE  ScoredInv'
<1>1. pc = "search" /\ letters' = letters /\ pc' \in {"search", "rank"}
  BY DEF Search
<1>2. PICK top \in queue :
        \/ results' = results
        \/ Accepted(top.pick) /\ results' = Append(results, ResultOf(top.pick))
  BY DEF Search
<1>3. Lettered' = Lettered
  BY <1>1 DEF Lettered, Positions
<1>4. CASE results' = results
  BY <1>1, <1>3, <1>4 DEF ScoredInv, WordsDiffer
<1>5. CASE Accepted(top.pick) /\ results' = Append(results, ResultOf(top.pick))
  <2> PICK new : new = ResultOf(top.pick)
    OBVIOUS
  <2>1. new.word = Word(top.pick) /\ new.total = ScoreOf(top.pick)
    BY DEF ResultOf
  <2>2. \A k \in DOMAIN results : results[k].word # new.word
    BY <1>5, <2>1 DEF Accepted
  <2>3. top.pick \in Picks /\ LettersTyped
    BY <1>1 DEF ReadingTypeOK
  <2>4. new.total \in Nat /\ (Lettered = {} => new.total = 0)
    BY <2>1, <2>3, ScoreNatural
  <2>5. PICK S : results \in Seq(S)
    BY DEF TotalsTyped
  <2>6. results \in Seq(S \cup {new})
    <3>1. results \in [1 .. Len(results) -> S \cup {new}] /\ Len(results) \in Nat
      BY <2>5
    <3> QED
      BY <3>1, SeqMade
  <2>7. /\ \A k \in DOMAIN results : results'[k] = results[k]
        /\ \A k \in DOMAIN results' : k \in DOMAIN results \/ k = Len(results) + 1
        /\ results'[Len(results) + 1] = new
    BY <1>5, <2>6, SeqLonger
  <2>8. WordsDiffer'
    <3> SUFFICES ASSUME NEW j \in DOMAIN results', NEW k \in DOMAIN results',
                        results'[j].word = results'[k].word
                 PROVE  j = k
      BY DEF WordsDiffer
    <3>1. CASE j \in DOMAIN results /\ k \in DOMAIN results
      BY <2>7, <3>1 DEF ScoredInv, WordsDiffer
    <3> QED
      BY <2>2, <2>7, <3>1
  <2>9. \A k \in DOMAIN results' : /\ results'[k].total \in Nat
                                   /\ Lettered = {} => results'[k].total = 0
    BY <1>1, <2>4, <2>7 DEF ScoredInv
  <2> QED
    BY <1>1, <1>3, <2>8, <2>9 DEF ScoredInv
<1> QED
  BY <1>2, <1>4, <1>5

LEMMA RankScores ==
  ASSUME ReadingTypeOK, OrderInv, ScoredInv, Rank
  PROVE  ScoredInv'
<1>1. pc = "rank" /\ pc' = "read" /\ results' = results
  BY DEF Rank
<1>2. WordsDiffer'
  BY <1>1 DEF ScoredInv, WordsDiffer
<1>3. \A k \in DOMAIN results : percents'[k] = Percent(results[k].total, results[1].total)
  BY DEF Rank
<1>4. ASSUME NEW n \in DOMAIN results
      PROVE  1 \in DOMAIN results
  BY DEF OrderInv, TotalsTyped
<1>5. CASE results[1].total = 0
  <2>1. \A k \in DOMAIN results : percents'[k] = NotANumber
    BY <1>3, <1>5 DEF Percent
  <2> QED
    BY <1>1, <1>2, <2>1 DEF ScoredInv
<1>6. CASE results[1].total # 0
  <2> SUFFICES ASSUME NEW k \in DOMAIN results
               PROVE  percents'[k] \in Nat /\ percents'[k] <= percents'[1]
    BY <1>1, <1>2 DEF ScoredInv
  <2>1. 1 \in DOMAIN results
    BY <1>4
  <2>2. Lettered # {} /\ results[1].total \in Nat /\ results[k].total \in Nat
    BY <1>1, <1>6, <2>1 DEF ScoredInv
  <2>3. results[k].total <= results[1].total
    <3>1. k = 1 \/ 1 < k
      BY DEF OrderInv, TotalsTyped
    <3> QED
      BY <2>1, <2>2, <3>1 DEF OrderInv, BestFirst
  <2>4. MaxPercent \in Nat
    BY <2>2, MaxPercentNatural DEF ReadingTypeOK
  <2>5. /\ percents'[k] = (MaxPercent * results[k].total) \div results[1].total
        /\ percents'[1] = (MaxPercent * results[1].total) \div results[1].total
    BY <1>3, <1>6, <2>1 DEF Percent
  <2> QED
    BY <1>6, <2>2, <2>3, <2>4, <2>5, PercentFalls
<1> QED
  BY <1>5, <1>6

LEMMA ResultsScored == RecognitionSpec => []ScoredInv
<1>1. RecognitionInit => ScoredInv
  BY DEF RecognitionInit, ReadingInit, ScoredInv, WordsDiffer
<1>2. ReadingTypeOK /\ OrderInv /\ ScoredInv /\ [RecognitionNext]_allvars => ScoredInv'
  <2> SUFFICES ASSUME ReadingTypeOK, OrderInv, ScoredInv, [RecognitionNext]_allvars
               PROVE  ScoredInv'
    OBVIOUS
  <2>1. [ReadingNext \/ NextPlate]_readingvars
    BY ReadsPlates
  <2>2. CASE Search
    BY <2>2, SearchScores DEF OrderInv
  <2>3. CASE Rank
    BY <2>3, RankScores
  <2>4. CASE Segment \/ ReadLine \/ StartSearch
    <3>1. results' = <<>>
      BY <2>4 DEF Segment, ReadLine, StartSearch, OrderInv, resultvars
    <3> QED
      BY <3>1 DEF ScoredInv, WordsDiffer
  <2>5. CASE NextPlate
    <3>1. results' = results /\ pc' = "segment"
      BY <2>5 DEF NextPlate, resultvars
    <3> QED
      BY <3>1 DEF ScoredInv, WordsDiffer
  <2>6. CASE UNCHANGED readingvars
    <3>1. UNCHANGED <<pc, letters, results, percents>>
      BY <2>6 DEF readingvars, resultvars
    <3> QED
      BY <3>1 DEF ScoredInv, WordsDiffer, Lettered, Positions
  <2> QED
    BY <2>1, <2>2, <2>3, <2>4, <2>5, <2>6 DEF ReadingNext
<1>3. ReadingInv => ReadingTypeOK
  BY DEF ReadingInv
<1> QED
  BY <1>1, <1>2, <1>3, ReadingIsTyped, ResultsOrdered, PTL DEF RecognitionSpec

---------------------------------------------------------------------------
(* The regions of an image.                                                *)

(* q is a list of the members of S, without repetition.                    *)
Lists(q, S) ==
  /\ q \in Seq(S)
  /\ \A x \in S : \E k \in DOMAIN q : q[k] = x
  /\ \A j, k \in DOMAIN q : q[j] = q[k] => j = k

LEMMA ListLonger ==
  ASSUME NEW S, NEW x \in S, NEW q, Lists(q, S \ {x})
  PROVE  Lists(Append(q, x), S)
<1>1. q \in Seq(S \ {x}) /\ q \in Seq(S)
  <2>1. q \in Seq(S \ {x})
    BY DEF Lists
  <2>2. q \in [1 .. Len(q) -> S] /\ Len(q) \in Nat
    BY <2>1
  <2> QED
    BY <2>1, <2>2, SeqMade
<1>2. /\ Len(q) \in Nat /\ DOMAIN q = 1 .. Len(q)
      /\ \A k \in DOMAIN q : q[k] \in S \ {x}
  BY <1>1, SeqParts
<1> DEFINE r == Append(q, x)
<1>3. /\ r \in Seq(S)
      /\ \A k \in DOMAIN q : k \in DOMAIN r /\ r[k] = q[k]
      /\ r[Len(q) + 1] = x /\ Len(q) + 1 \in DOMAIN r
      /\ \A k \in DOMAIN r : k \in DOMAIN q \/ k = Len(q) + 1
  BY <1>1, SeqLonger
<1> HIDE DEF r
<1>4. \A y \in S : \E k \in DOMAIN r : r[k] = y
  BY <1>3 DEF Lists
<1>5. ASSUME NEW j \in DOMAIN r, NEW k \in DOMAIN r, r[j] = r[k] PROVE j = k
  BY <1>2, <1>3, <1>5 DEF Lists
<1>6. Lists(r, S)
  BY <1>3, <1>4, <1>5 DEF Lists
<1> QED
  BY <1>6 DEF r

(* Regions are pushed back once each.                                      *)
LEMMA RegionsListed ==
  ASSUME NEW n \in Nat, NEW S, S \subseteq 1..n
  PROVE  Lists(SmallestFirst(S), S)
<1> DEFINE V == Seq(S)
           Is(h) == h = [s \in SUBSET S |-> IF s = {} THEN <<>>
                                            ELSE Append(h[s \ {Max(s)}], Max(s))]
           C == [s \in SUBSET S |-> Max(s)]
           F == [x \in S \X V |-> Append(x[2], x[1])]
<1>1. SmallestFirst(S) = (CHOOSE h : Is(h))[S]
  BY DEF SmallestFirst, MapThenFoldSet
<1>2. IsFiniteSet(S)
  <2>1. IsFiniteSet(1..n)
    BY FS_Interval
  <2> QED
    BY <2>1, FS_Subset
<1>3. \A s \in SUBSET S : s # {} => Max(s) \in s /\ C[s] = Max(s)
  BY MaxIsMost
<1>4. Chooses(C, S)
  BY <1>3 DEF Chooses
<1>5. <<>> \in V /\ F \in [S \X V -> V]
  BY SeqLonger
<1>6. PICK g \in [SUBSET S -> V] : Folds(g, S, F, C, <<>>)
  <2> HIDE DEF F, C, V
  <2> QED
    BY <1>2, <1>4, <1>5, FoldExists
<1>7. Is(g)
  <2>1. ASSUME NEW s \in SUBSET S
        PROVE  g[s] = IF s = {} THEN <<>> ELSE Append(g[s \ {Max(s)}], Max(s))
    <3>1. CASE s = {}
      BY <1>6, <3>1 DEF Folds
    <3>2. CASE s # {}
      <4>1. Max(s) \in S /\ g[s \ {Max(s)}] \in V /\ C[s] = Max(s)
        BY <1>3, <3>2
      <4>2. g[s] = F[<<Max(s), g[s \ {Max(s)}]>>]
        BY <1>6, <3>2, <4>1 DEF Folds
      <4> QED
        BY <3>2, <4>1, <4>2
    <3> QED
      BY <3>1, <3>2
  <2> QED
    BY <2>1
<1> DEFINE k == CHOOSE h : Is(h)
<1>8. Is(k)
  <2> HIDE DEF Is
  <2> QED
    BY <1>7
<1> HIDE DEF k
<1>9. \A s \in SUBSET S :
        k[s] = IF s = {} THEN <<>> ELSE Append(k[s \ {Max(s)}], Max(s))
  BY <1>8
<1> DEFINE G == {s \in SUBSET S : Lists(k[s], s)}
<1>10. {} \in G
  <2>1. {} \in SUBSET S /\ k[{}] = <<>>
    BY <1>9
  <2>2. Lists(<<>>, {})
    BY DEF Lists
  <2> QED
    BY <2>1, <2>2
<1>11. ASSUME NEW s \in SUBSET S, s # {}, s \ {C[s]} \in G PROVE s \in G
  <2>1. PICK m : m = Max(s)
    OBVIOUS
  <2>2. k[s] = Append(k[s \ {m}], m) /\ m \in s /\ C[s] = m
    BY <1>3, <1>9, <1>11, <2>1
  <2>3. Lists(k[s \ {m}], s \ {m})
    BY <1>11, <2>2
  <2>4. Lists(k[s], s)
    BY <2>2, <2>3, ListLonger
  <2> QED
    BY <2>4
<1>12. SUBSET S \subseteq G
  <2> HIDE DEF G, C
  <2> QED
    BY <1>2, <1>4, <1>10, <1>11, SubsetSets
<1> QED
  BY <1>1, <1>12 DEF k

LEMMA ListPopped ==
  ASSUME NEW S, NEW q, Lists(q, S), q # <<>>
  PROVE  Head(q) \in S /\ Lists(Tail(q), S \ {Head(q)})
<1>1. /\ q \in Seq(S) /\ Len(q) \in Nat /\ DOMAIN q = 1 .. Len(q)
      /\ \A k \in DOMAIN q : q[k] \in S
  BY SeqParts DEF Lists
<1>2. Len(q) - 1 \in Nat /\ 1 \in DOMAIN q /\ Head(q) = q[1]
  BY <1>1
<1> DEFINE r == Tail(q)
<1>3. /\ DOMAIN r = 1 .. Len(q) - 1 /\ Len(r) = Len(q) - 1
      /\ \A k \in DOMAIN r : r[k] = q[k + 1] /\ k + 1 \in DOMAIN q
      /\ r \in Seq(S)
  BY <1>1, <1>2
<1> HIDE DEF r
<1>4. \A k \in DOMAIN r : r[k] \in S \ {q[1]}
  <2> SUFFICES ASSUME NEW k \in DOMAIN r PROVE r[k] \in S \ {q[1]}
    OBVIOUS
  <2>1. k + 1 # 1 /\ k + 1 \in DOMAIN q /\ r[k] = q[k + 1]
    BY <1>1, <1>2, <1>3
  <2> QED
    BY <1>1, <1>2, <2>1 DEF Lists
<1>5. r \in Seq(S \ {q[1]})
  <2>1. r \in [1 .. Len(q) - 1 -> S \ {q[1]}]
    BY <1>3, <1>4
  <2> QED
    BY <1>2, <2>1, SeqMade
<1>6. ASSUME NEW x \in S \ {q[1]} PROVE \E k \in DOMAIN r : r[k] = x
  <2>1. PICK k \in DOMAIN q : q[k] = x
    BY DEF Lists
  <2>2. k # 1
    BY <2>1
  <2>3. k - 1 \in DOMAIN r /\ (k - 1) + 1 = k
    BY <1>1, <1>3, <2>2
  <2> QED
    BY <1>3, <2>1, <2>3
<1>7. ASSUME NEW j \in DOMAIN r, NEW k \in DOMAIN r, r[j] = r[k] PROVE j = k
  <2>1. j + 1 = k + 1
    BY <1>3, <1>7 DEF Lists
  <2> QED
    BY <1>1, <1>3, <2>1
<1>8. Lists(r, S \ {q[1]})
  BY <1>5, <1>6, <1>7 DEF Lists
<1> QED
  BY <1>1, <1>2, <1>8 DEF r

LEMMA ListsJoined ==
  ASSUME NEW S, NEW T, S \cap T = {}, NEW q, Lists(q, S), NEW r, Lists(r, T)
  PROVE  Lists(q \o r, S \cup T)
<1>1. q \in Seq(S) /\ r \in Seq(T)
  BY DEF Lists
<1>2. q \in Seq(S \cup T) /\ r \in Seq(S \cup T)
  <2>1. /\ q \in [1 .. Len(q) -> S \cup T] /\ Len(q) \in Nat
        /\ r \in [1 .. Len(r) -> S \cup T] /\ Len(r) \in Nat
    BY <1>1
  <2> QED
    BY <2>1, SeqMade
<1> DEFINE s == q \o r
<1>3. /\ s \in Seq(S \cup T)
      /\ \A k \in DOMAIN q : k \in DOMAIN s /\ s[k] = q[k] /\ q[k] \in S
      /\ \A k \in DOMAIN r : /\ Len(q) + k \in DOMAIN s
                             /\ s[Len(q) + k] = r[k] /\ r[k] \in T
      /\ \A k \in DOMAIN s : k \in DOMAIN q \/ \E j \in DOMAIN r : k = Len(q) + j
  BY <1>1, <1>2, SeqJoined, SeqParts DEF Joins
<1> HIDE DEF s
<1>4. \A x \in S \cup T : \E k \in DOMAIN s : s[k] = x
  BY <1>3 DEF Lists
<1>5. ASSUME NEW j \in DOMAIN s, NEW k \in DOMAIN s, s[j] = s[k] PROVE j = k
  <2>1. CASE j \in DOMAIN q /\ k \in DOMAIN q
    BY <1>3, <1>5, <2>1 DEF Lists
  <2>2. ASSUME NEW a \in DOMAIN r, NEW b \in DOMAIN r, j = Len(q) + a, k = Len(q) + b
        PROVE  j = k
    BY <1>3, <1>5, <2>2 DEF Lists
  <2>3. CASE j \in DOMAIN q /\ k \notin DOMAIN q
    BY <1>3, <1>5, <2>3
  <2>4. CASE j \notin DOMAIN q /\ k \in DOMAIN q
    BY <1>3, <1>5, <2>4
  <2> QED
    BY <1>3, <2>1, <2>2, <2>3, <2>4
<1>6. Lists(s, S \cup T)
  BY <1>3, <1>4, <1>5 DEF Lists
<1> QED
  BY <1>6 DEF s

(* Regions that were tried and are no plates: their children are due.      *)
Opened == {i \in tried : /\ stage = "read" => i # place
                         /\ \A k \in DOMAIN plates : plates[k].place # task.places[i]}

ChildrenOf(k) == {i \in detected : /\ Containing(detected, i) # {}
                                   /\ Min(Containing(detected, i)) = k}

(* The regions that are looked at: those at the top and what lies in an    *)
(* opened one.                                                             *)
Due == {i \in detected : \/ Containing(detected, i) = {}
                         \/ Min(Containing(detected, i)) \in Opened}

Looking == stage \in {"next", "read"}

(* The queue holds what is due and has not been tried, once.               *)
RegionsInv ==
  /\ task \in Tasks /\ country \in DOMAIN task.countries
  /\ stage \in {"detect", "next", "read", "combine", "merged", "done"}
  /\ detected \subseteq DOMAIN task.places /\ tried \subseteq detected
  /\ ~Looking => regionQueue = <<>>
  /\ Looking => /\ tried \subseteq Due
                /\ Lists(regionQueue, Due \ tried)
                /\ \A k \in DOMAIN plates : \E i \in tried :
                     plates[k].place = task.places[i] /\ (stage = "read" => i # place)
  /\ stage = "read" => place \in tried
  /\ \E S : plates \in Seq(S)

LEMMA PlacesApart ==
  ASSUME task \in Tasks
  PROVE  /\ \E n \in Nat : DOMAIN task.places = 1 .. n
         /\ \A i, j \in DOMAIN task.places : task.places[i] = task.places[j] => i = j
         /\ task.finds \subseteq SUBSET (DOMAIN task.places)
<1>1. task.places \in Seq(Range(task.places)) /\ IsInjective(task.places)
  BY TasksAssumption
<1>2. DOMAIN task.places = 1 .. Len(task.places) /\ Len(task.places) \in Nat
  BY <1>1, SeqParts
<1> QED
  BY <1>1, <1>2, TasksAssumption DEF IsInjective

(* A region is no child of itself.                                         *)
LEMMA ParentIsLarger ==
  ASSUME task \in Tasks, detected \subseteq DOMAIN task.places, NEW i \in detected,
         Containing(detected, i) # {}
  PROVE  Min(Containing(detected, i)) \in detected /\ Min(Containing(detected, i)) # i
<1>1. Containing(detected, i) \subseteq detected /\ detected \subseteq Nat
  BY PlacesApart DEF Containing
<1>2. Min(Containing(detected, i)) \in Containing(detected, i)
  BY <1>1, MinIsLeast
<1>3. \A k \in Containing(detected, i) : k \in detected /\ i < k
  BY DEF Containing
<1> QED
  BY <1>1, <1>2, <1>3

LEMMA ChildrenListed ==
  ASSUME task \in Tasks, detected \subseteq DOMAIN task.places, NEW k
  PROVE  Lists(ChildrenIn(detected, k), ChildrenOf(k))
<1>1. PICK n \in Nat : DOMAIN task.places = 1 .. n
  BY PlacesApart
<1>2. ChildrenOf(k) \subseteq 1 .. n
  BY <1>1 DEF ChildrenOf
<1>3. Lists(SmallestFirst(ChildrenOf(k)), ChildrenOf(k))
  BY <1>2, RegionsListed
<1> QED
  BY <1>3 DEF ChildrenIn, ChildrenOf

(* Once a region is opened, its children are due, and are not in the queue *)
(* yet.                                                                    *)
LEMMA OpenOne ==
  ASSUME RegionsInv, Looking, NEW h \in detected, h \notin Opened,
         UNCHANGED <<detected, task>>, Opened' = Opened \cup {h}
  PROVE  Due' = Due \cup ChildrenOf(h) /\ Due \cap ChildrenOf(h) = {}
         /\ h \notin ChildrenOf(h)
<1>1. Due' = {i \in detected : \/ Containing(detected, i) = {}
                              \/ Min(Containing(detected, i)) \in Opened \cup {h}}
  BY DEF Due, Containing, Min
<1>2. h \notin ChildrenOf(h)
  BY ParentIsLarger DEF ChildrenOf, RegionsInv
<1> QED
  BY <1>1, <1>2 DEF Due, ChildrenOf

LEMMA DetectRegions ==
  ASSUME RegionsInv, Detect
  PROVE  RegionsInv'
<1>1. PICK found \in task.finds : detected' = found
  BY DEF Detect
<1>2. /\ plates' = <<>> /\ tried' = {} /\ stage' = "next" /\ regionQueue' = TopLevel(found)
      /\ UNCHANGED <<task, country>>
  BY <1>1 DEF Detect
<1>3. PICK n \in Nat : DOMAIN task.places = 1 .. n
  BY PlacesApart DEF RegionsInv
<1>4. found \subseteq DOMAIN task.places
  BY PlacesApart DEF RegionsInv
<1> DEFINE S == {i \in found : Containing(found, i) = {}}
<1>5. Lists(TopLevel(found), S)
  <2>1. S \subseteq 1 .. n
    BY <1>3, <1>4
  <2> HIDE DEF S
  <2>2. Lists(SmallestFirst(S), S)
    BY <2>1, RegionsListed
  <2> QED
    BY <2>2 DEF TopLevel, S
<1>6. Due' = S
  <2>1. Opened' = {}
    BY <1>2 DEF Opened
  <2>2. \A i : Containing(detected, i)' = Containing(found, i)
    BY <1>1, <1>2 DEF Containing
  <2> QED
    BY <1>1, <2>1, <2>2 DEF Due
<1>7. plates' \in Seq({})
  BY <1>2
<1> HIDE DEF S
<1>8. Due' \ tried' = S /\ tried' \subseteq Due'
  BY <1>2, <1>6
<1> QED
  BY <1>1, <1>2, <1>4, <1>5, <1>7, <1>8 DEF RegionsInv, Looking

LEMMA DisqualifyRegions ==
  ASSUME RegionsInv, Disqualify
  PROVE  RegionsInv'
<1> DEFINE h == Head(regionQueue)
<1>1. /\ stage = "next" /\ regionQueue # <<>> /\ tried' = tried \cup {h}
      /\ regionQueue' = Tail(regionQueue) \o ChildrenIn(detected, h)
      /\ UNCHANGED <<task, stage, country, detected, place, plates>>
  BY DEF Disqualify
<1>2. /\ h \in Due \ tried /\ Lists(Tail(regionQueue), (Due \ tried) \ {h})
      /\ tried \subseteq Due /\ Looking
  BY <1>1, ListPopped DEF RegionsInv, Looking
<1>3. h \in detected /\ h \in DOMAIN task.places /\ h \notin Opened
  BY <1>2 DEF Due, RegionsInv, Opened
<1> HIDE DEF h
<1>4. \A k \in DOMAIN plates : plates[k].place # task.places[h]
  BY <1>2, <1>3, PlacesApart DEF RegionsInv
<1>5. Opened' = Opened \cup {h}
  BY <1>1, <1>4 DEF Opened
<1>6. /\ Due' = Due \cup ChildrenOf(h) /\ Due \cap ChildrenOf(h) = {}
      /\ h \notin ChildrenOf(h)
  BY <1>1, <1>2, <1>3, <1>5, OpenOne
<1>7. Lists(ChildrenIn(detected, h), ChildrenOf(h))
  BY ChildrenListed DEF RegionsInv
<1>8. Lists(regionQueue', ((Due \ tried) \ {h}) \cup ChildrenOf(h))
  BY <1>1, <1>2, <1>6, <1>7, ListsJoined
<1>9. Due' \ tried' = ((Due \ tried) \ {h}) \cup ChildrenOf(h) /\ tried' \subseteq Due'
  BY <1>1, <1>2, <1>6
<1>10. Lists(regionQueue', Due' \ tried')
  BY <1>8, <1>9
<1> QED
  BY <1>1, <1>2, <1>3, <1>9, <1>10 DEF RegionsInv, Looking

LEMMA BeginRegions ==
  ASSUME RegionsInv, BeginReading
  PROVE  RegionsInv'
<1> DEFINE h == Head(regionQueue)
<1>1. /\ stage = "next" /\ regionQueue # <<>> /\ stage' = "read" /\ place' = h
      /\ tried' = tried \cup {h} /\ regionQueue' = Tail(regionQueue)
      /\ UNCHANGED <<task, country, detected, plates>>
  BY DEF BeginReading
<1>2. /\ h \in Due \ tried /\ Lists(Tail(regionQueue), (Due \ tried) \ {h})
      /\ tried \subseteq Due /\ Looking
  BY <1>1, ListPopped DEF RegionsInv, Looking
<1>3. h \in detected
  BY <1>2 DEF Due
<1> HIDE DEF h
<1>4. Opened' = Opened
  BY <1>1, <1>2 DEF Opened
<1>5. Due' = Due
  BY <1>1, <1>4 DEF Due, Containing, Min
<1>6. Due' \ tried' = (Due \ tried) \ {h} /\ tried' \subseteq Due'
  BY <1>1, <1>2, <1>5
<1>7. Lists(regionQueue', Due' \ tried')
  BY <1>1, <1>2, <1>6
<1>8. \A k \in DOMAIN plates : \E i \in tried : plates[k].place = task.places[i] /\ i # h
  BY <1>2 DEF RegionsInv
<1> QED
  BY <1>1, <1>3, <1>6, <1>7, <1>8 DEF RegionsInv, Looking

LEMMA EndRegions ==
  ASSUME RegionsInv, EndReading
  PROVE  RegionsInv'
<1>1. /\ stage = "read" /\ stage' = "next"
      /\ UNCHANGED <<task, country, detected, place, tried>>
  BY DEF EndReading
<1>2. /\ place \in tried /\ tried \subseteq Due /\ Looking
      /\ tried \subseteq detected /\ detected \subseteq DOMAIN task.places
      /\ place \in detected /\ place \in DOMAIN task.places
      /\ Lists(regionQueue, Due \ tried)
      /\ \A k \in DOMAIN plates : \E i \in tried :
           plates[k].place = task.places[i] /\ i # place
  BY <1>1 DEF RegionsInv, Looking
<1>3. CASE plates' = Append(plates, PlateRead) /\ UNCHANGED regionQueue
  <2>1. PICK S : plates \in Seq(S)
    BY DEF RegionsInv
  <2> DEFINE new == PlateRead
  <2>2. new.place = task.places[place]
    BY DEF PlateRead
  <2> HIDE DEF new
  <2>3. plates \in Seq(S \cup {new})
    <3>1. plates \in [1 .. Len(plates) -> S \cup {new}] /\ Len(plates) \in Nat
      BY <2>1
    <3> QED
      BY <3>1, SeqMade
  <2>4. /\ plates' \in Seq(S \cup {new})
        /\ \A k \in DOMAIN plates : k \in DOMAIN plates' /\ plates'[k] = plates[k]
        /\ \A k \in DOMAIN plates' : k \in DOMAIN plates \/ k = Len(plates) + 1
        /\ plates'[Len(plates) + 1] = new
    BY <1>3, <2>3, SeqLonger DEF new
  <2>5. Len(plates) + 1 \in DOMAIN plates'
    <3>1. Len(plates) \in Nat /\ Len(plates') = Len(plates) + 1
      BY <1>3, <2>3, SeqLonger DEF new
    <3> QED
      BY <2>4, <3>1, SeqParts
  <2>6. Opened' = Opened
    <3>1. \A i \in tried : task.places[place] # task.places[i] <=> i # place
      BY <1>2, PlacesApart DEF RegionsInv
    <3>2. \A i : (\A k \in DOMAIN plates' : plates'[k].place # task.places[i]) <=>
                   /\ \A k \in DOMAIN plates : plates[k].place # task.places[i]
                   /\ task.places[place] # task.places[i]
      BY <2>2, <2>4, <2>5
    <3> QED
      BY <1>1, <3>1, <3>2 DEF Opened
  <2>7. Due' = Due
    BY <1>1, <2>6 DEF Due, Containing, Min
  <2>8. \A k \in DOMAIN plates' : \E i \in tried : plates'[k].place = task.places[i]
    BY <1>2, <2>2, <2>4
  <2>9. Lists(regionQueue, Due \ tried)'
    BY <1>1, <1>2, <1>3, <2>7
  <2> QED
    BY <1>1, <1>2, <2>4, <2>7, <2>8, <2>9 DEF RegionsInv, Looking
<1>4. CASE regionQueue' = regionQueue \o ChildrenIn(detected, place) /\ UNCHANGED plates
  <2>1. \A k \in DOMAIN plates : plates[k].place # task.places[place]
    BY <1>2, PlacesApart DEF RegionsInv
  <2>2. place \notin Opened
    BY <1>1 DEF Opened
  <2>3. Opened' = Opened \cup {place}
    BY <1>1, <1>2, <1>4, <2>1 DEF Opened
  <2>4. /\ Due' = Due \cup ChildrenOf(place) /\ Due \cap ChildrenOf(place) = {}
    BY <1>1, <1>2, <2>2, <2>3, OpenOne
  <2>5. Lists(ChildrenIn(detected, place), ChildrenOf(place))
    BY ChildrenListed DEF RegionsInv
  <2>6. Lists(regionQueue', (Due \ tried) \cup ChildrenOf(place))
    BY <1>2, <1>4, <2>4, <2>5, ListsJoined
  <2>7. Due' \ tried' = (Due \ tried) \cup ChildrenOf(place) /\ tried' \subseteq Due'
    BY <1>1, <1>2, <2>4
  <2>8. Lists(regionQueue', Due' \ tried')
    BY <2>6, <2>7
  <2>9. \A k \in DOMAIN plates : \E i \in tried : plates[k].place = task.places[i]
    BY <1>2
  <2> QED
    BY <1>1, <1>2, <1>4, <2>7, <2>8, <2>9 DEF RegionsInv, Looking
<1> QED
  BY <1>3, <1>4 DEF EndReading

LEMMA RegionsTracked == RecognitionSpec => []RegionsInv
<1>1. RecognitionInit => RegionsInv
  <2> SUFFICES ASSUME RecognitionInit PROVE RegionsInv
    OBVIOUS
  <2>1. /\ task \in Tasks /\ country = 1 /\ stage = "detect" /\ detected = {}
        /\ tried = {} /\ regionQueue = <<>> /\ plates = <<>>
    BY DEF RecognitionInit
  <2>2. country \in DOMAIN task.countries
    <3>1. task.countries \in Seq(DOMAIN DefaultRegion) /\ task.countries # <<>>
      BY <2>1, TasksAssumption
    <3> QED
      BY <2>1, <3>1
  <2>3. plates \in Seq({})
    BY <2>1
  <2> QED
    BY <2>1, <2>2, <2>3 DEF RegionsInv, Looking
<1>2. RegionsInv /\ [RecognitionNext]_allvars => RegionsInv'
  <2> SUFFICES ASSUME RegionsInv, [RecognitionNext]_allvars PROVE RegionsInv'
    OBVIOUS
  <2>1. CASE Detect
    BY <2>1, DetectRegions
  <2>2. CASE Disqualify
    BY <2>2, DisqualifyRegions
  <2>3. CASE BeginReading
    BY <2>3, BeginRegions
  <2>4. CASE EndReading
    BY <2>4, EndRegions
  <2>5. CASE EndAnalysis
    <3>1. /\ stage = "next" /\ regionQueue = <<>> /\ stage' \in {"detect", "combine"}
          /\ UNCHANGED <<task, country, detected, tried, regionQueue, plates>>
      BY <2>5 DEF EndAnalysis
    <3> QED
      BY <3>1 DEF RegionsInv, Looking
  <2>6. CASE CombineAnalyses
    <3>1. /\ stage = "combine" /\ stage' = "merged"
          /\ UNCHANGED <<task, country, detected, tried, regionQueue, plates>>
      BY <2>6 DEF CombineAnalyses
    <3> QED
      BY <3>1 DEF RegionsInv, Looking
  <2>7. CASE NextCountry
    <3>1. /\ stage = "merged" /\ stage' \in {"detect", "done"}
          /\ UNCHANGED <<task, detected, tried, regionQueue, plates>>
          /\ \/ country' = country
             \/ country < Len(task.countries) /\ country' = country + 1
      BY <2>7 DEF NextCountry
    <3>2. country' \in DOMAIN task.countries
      <4>1. /\ country \in DOMAIN task.countries
            /\ task.countries \in Seq(DOMAIN DefaultRegion)
        BY TasksAssumption DEF RegionsInv
      <4> QED
        BY <3>1, <4>1
    <3> QED
      BY <3>1, <3>2 DEF RegionsInv, Looking
  <2>8. CASE Reading \/ UNCHANGED allvars
    <3>1. UNCHANGED recvars
      BY <2>8 DEF Reading, allvars
    <3>2. UNCHANGED <<task, stage, country, detected, regionQueue, place, plates, tried>>
      BY <3>1 DEF recvars
    <3>3. Opened' = Opened /\ Due' = Due
      BY <3>2 DEF Opened, Due, Containing, Min
    <3> QED
      BY <3>2, <3>3 DEF RegionsInv, Looking
  <2> QED
    BY <2>1, <2>2, <2>3, <2>4, <2>5, <2>6, <2>7, <2>8 DEF RecognitionNext
<1> QED
  BY <1>1, <1>2, PTL DEF RecognitionSpec

(* A region is looked at if and only if it lies in none that was detected, *)
(* or in one that was looked at and is no plate.                           *)
THEOREM RegionsAreLookedAt == RecognitionSpec => []LookedAtIfNeeded
<1>1. RegionsInv => LookedAtIfNeeded
  <2> SUFFICES ASSUME RegionsInv, stage = "next", regionQueue = <<>>, NEW i \in detected
               PROVE  i \in tried <=> (Containing(detected, i) # {} =>
                        /\ Min(Containing(detected, i)) \in tried
                        /\ \A k \in DOMAIN plates :
                             plates[k].place # task.places[Min(Containing(detected, i))])
    BY DEF LookedAtIfNeeded
  <2>1. tried \subseteq Due /\ Lists(regionQueue, Due \ tried)
    BY DEF RegionsInv, Looking
  <2>2. Due \ tried = {}
    BY <2>1 DEF Lists
  <2>3. i \in tried <=> i \in Due
    BY <2>1, <2>2
  <2> QED
    BY <2>3 DEF Due, Opened
<1> QED
  BY <1>1, RegionsTracked, PTL

---------------------------------------------------------------------------
(* The plates of an analysis.                                              *)

(* There are never more results than wanted.                               *)
ResultsInv ==
  /\ Len(results) <= TopN
  /\ pc = "search" => Len(results) < TopN

LEMMA ResultsBounded == RecognitionSpec => []ResultsInv
<1>1. RecognitionInit => ResultsInv
  BY ReadingAssumption DEF RecognitionInit, ReadingInit, ResultsInv
<1>2. OrderInv /\ ResultsInv /\ [RecognitionNext]_allvars => ResultsInv'
  <2> SUFFICES ASSUME OrderInv, ResultsInv, [RecognitionNext]_allvars
               PROVE  ResultsInv'
    OBVIOUS
  <2>1. [ReadingNext \/ NextPlate]_readingvars
    BY ReadsPlates
  <2>2. CASE Segment \/ StartSearch
    <3>1. results' = <<>>
      BY <2>2 DEF Segment, StartSearch, OrderInv, resultvars
    <3> QED
      BY <3>1, ReadingAssumption DEF ResultsInv
  <2>3. CASE Search
    <3>1. PICK S : results \in Seq(S)
      BY DEF OrderInv, TotalsTyped
    <3>2. Len(results) \in Nat /\ Len(results) < TopN
      BY <2>3, <3>1 DEF Search, ResultsInv
    <3>3. PICK top \in queue : results' \in {results, Append(results, ResultOf(top.pick))}
      BY <2>3 DEF Search
    <3>4. Len(results') \in {Len(results), Len(results) + 1}
      BY <3>1, <3>3
    <3>5. pc' = "search" => ~(Len(results') >= TopN)
      BY <2>3 DEF Search
    <3> QED
      BY <3>2, <3>4, <3>5, ReadingAssumption DEF ResultsInv
  <2>4. CASE ReadLine \/ Rank \/ NextPlate \/ UNCHANGED readingvars
    <3>1. results' = results /\ (pc' = "search" => pc = "search")
      BY <2>4 DEF ReadLine, Rank, NextPlate, readingvars, resultvars
    <3> QED
      BY <3>1 DEF ResultsInv
  <2> QED
    BY <2>1, <2>2, <2>3, <2>4 DEF ReadingNext
<1> QED
  BY <1>1, <1>2, ResultsOrdered, PTL DEF RecognitionSpec

(* The readings of a plate, of which there are not too many, and the best. *)
Legible(p) ==
  /\ \E S : p.top \in Seq(S)
  /\ Len(p.top) <= TopN
  /\ p.bestPlate \in ToSet(p.top)
  /\ \A k \in DOMAIN p.top :
       p.top[k] = [word |-> p.top[k].word, percent |-> p.top[k].percent,
                   match |-> p.top[k].match]

(* A plate's readings as they are scored.                                  *)
Scored(p) ==
  /\ \A j, k \in DOMAIN p.top : p.top[j].word = p.top[k].word => j = k
  /\ \/ \A k \in DOMAIN p.top : p.top[k].percent = NotANumber
     \/ \A k \in DOMAIN p.top : /\ p.top[k].percent \in Nat
                                /\ p.top[k].percent <= p.top[1].percent

PlatesInv ==
  /\ \E S : plates \in Seq(S)
  /\ \A k \in DOMAIN plates : Legible(plates[k]) /\ Scored(plates[k])

LEMMA PlateLegible ==
  ASSUME OrderInv, BestInv, ResultsInv, pc = "read", results # <<>>
  PROVE  Legible(PlateRead)
<1> DEFINE e(k) == [word |-> results[k].word, percent |-> percents[k],
                    match |-> results[k].match]
           top == [k \in DOMAIN results |-> e(k)]
           b == IF best = 0 THEN 1 ELSE best
<1>1. PICK S : results \in Seq(S)
  BY DEF OrderInv, TotalsTyped
<1>2. DOMAIN results = 1 .. Len(results) /\ Len(results) \in Nat \ {0}
  BY <1>1
<1>3. best \in DOMAIN results
  <2>1. best = BestIndex
    BY DEF BestInv
  <2>2. Matching \subseteq DOMAIN results /\ Matching \subseteq Nat
    BY <1>2 DEF Matching
  <2>3. CASE Matching = {}
    BY <1>2, <2>1, <2>3 DEF BestIndex
  <2>4. CASE Matching # {}
    BY <2>1, <2>2, <2>4, MinIsLeast DEF BestIndex
  <2> QED
    BY <2>3, <2>4
<1>4. b \in DOMAIN results
  BY <1>2, <1>3
<1>5. PlateRead.top = top /\ PlateRead.bestPlate = top[b]
  BY DEF PlateRead
<1>6. DOMAIN top = 1 .. Len(results) /\ \A k \in DOMAIN top : top[k] = e(k)
  BY <1>2
<1> HIDE DEF top, b
<1>7. top \in Seq({top[k] : k \in DOMAIN top}) /\ Len(top) = Len(results)
  <2>1. top = [k \in 1 .. Len(results) |-> top[k]]
    BY <1>2 DEF top
  <2> DEFINE T == {top[k] : k \in DOMAIN top}
  <2>2. top \in [1 .. Len(results) -> T]
    BY <1>6, <2>1
  <2> HIDE DEF T
  <2>3. top \in Seq(T) /\ Len(top) = Len(results)
    BY <1>2, <2>2, SeqMade
  <2> QED
    BY <2>3 DEF T
<1>8. top[b] \in ToSet(top)
  BY <1>2, <1>4, <1>6 DEF ToSet
<1> QED
  BY <1>5, <1>6, <1>7, <1>8 DEF Legible, ResultsInv

LEMMA PlateScored ==
  ASSUME TotalsTyped, ScoredInv, pc = "read"
  PROVE  Scored(PlateRead)
<1> DEFINE e(k) == [word |-> results[k].word, percent |-> percents[k],
                    match |-> results[k].match]
           top == [k \in DOMAIN results |-> e(k)]
<1>1. PlateRead.top = top
  BY DEF PlateRead
<1>2. DOMAIN top = DOMAIN results
  OBVIOUS
<1>3. \A k \in DOMAIN results : /\ top[k].word = results[k].word
                                /\ top[k].percent = percents[k]
                                /\ 1 \in DOMAIN results
  BY DEF TotalsTyped
<1> HIDE DEF top
<1> QED
  BY <1>1, <1>2, <1>3 DEF Scored, ScoredInv, WordsDiffer

LEMMA PlatesLegible == RecognitionSpec => []PlatesInv
<1>1. RecognitionInit => PlatesInv
  <2> SUFFICES ASSUME RecognitionInit PROVE PlatesInv
    OBVIOUS
  <2>1. plates = <<>>
    BY DEF RecognitionInit
  <2>2. plates \in Seq({})
    BY <2>1
  <2> QED
    BY <2>1, <2>2 DEF PlatesInv
<1>2. /\ OrderInv /\ BestInv /\ ResultsInv /\ ScoredInv /\ PlatesInv
      /\ [RecognitionNext]_allvars
      => PlatesInv'
  <2> SUFFICES ASSUME OrderInv, BestInv, ResultsInv, ScoredInv, PlatesInv,
                      [RecognitionNext]_allvars
               PROVE  PlatesInv'
    OBVIOUS
  <2>1. CASE plates' = plates
    BY <2>1 DEF PlatesInv, Legible, Scored
  <2>2. CASE plates' = <<>>
    <3>1. plates' \in Seq({})
      BY <2>2
    <3> QED
      BY <2>2, <3>1 DEF PlatesInv
  <2>3. CASE pc = "read" /\ results # <<>> /\ plates' = Append(plates, PlateRead)
    <3>1. Legible(PlateRead) /\ Scored(PlateRead)
      BY <2>3, PlateLegible, PlateScored DEF OrderInv
    <3>2. PICK S : plates \in Seq(S)
      BY DEF PlatesInv
    <3>3. PICK new : new = PlateRead
      OBVIOUS
    <3>4. plates \in Seq(S \cup {new})
      <4>1. plates \in [1 .. Len(plates) -> S \cup {new}] /\ Len(plates) \in Nat
        BY <3>2
      <4> QED
        BY <4>1, SeqMade
    <3>5. /\ plates' \in Seq(S \cup {new})
          /\ \A k \in DOMAIN plates : plates'[k] = plates[k]
          /\ \A k \in DOMAIN plates' : k \in DOMAIN plates \/ k = Len(plates) + 1
          /\ plates'[Len(plates) + 1] = new
      BY <2>3, <3>3, <3>4, SeqLonger
    <3>6. \A k \in DOMAIN plates' : Legible(plates'[k]) /\ Scored(plates'[k])
      BY <3>1, <3>3, <3>5 DEF PlatesInv
    <3> QED
      BY <3>5, <3>6 DEF PlatesInv, Legible, Scored
  <2>4. \/ plates' = plates \/ plates' = <<>>
        \/ pc = "read" /\ results # <<>> /\ plates' = Append(plates, PlateRead)
    <3>1. CASE UNCHANGED allvars \/ Reading
      BY <3>1 DEF allvars, Reading, recvars
    <3> QED
      BY <3>1 DEF RecognitionNext, Detect, Disqualify, BeginReading, EndReading,
         EndAnalysis, CombineAnalyses, NextCountry
  <2> QED
    BY <2>1, <2>2, <2>3, <2>4
<1> QED
  BY <1>1, <1>2, ResultsOrdered, BestChosen, ResultsBounded, ResultsScored, PTL
  DEF RecognitionSpec

(* Every variable has its type; the queue holds regions that have not been *)
(* tried, and every plate's best reading is one of at most TopN.           *)
THEOREM RecognitionIsTyped == RecognitionSpec => []RecognitionTypeOK
<1>1. ReadingInv /\ RegionsInv /\ PlatesInv => RecognitionTypeOK
  <2> SUFFICES ASSUME ReadingInv, RegionsInv, PlatesInv PROVE RecognitionTypeOK
    OBVIOUS
  <2>1. ToSet(regionQueue) \subseteq detected \ tried
    <3>1. CASE Looking
      <4>1. Lists(regionQueue, Due \ tried) /\ Due \subseteq detected
        BY <3>1 DEF RegionsInv, Due
      <4>2. \A k \in DOMAIN regionQueue : regionQueue[k] \in Due \ tried
        BY <4>1, SeqParts DEF Lists
      <4> QED
        BY <4>1, <4>2 DEF ToSet
    <3>2. CASE ~Looking
      BY <3>2 DEF RegionsInv, ToSet
    <3> QED
      BY <3>1, <3>2
  <2> QED
    BY <2>1 DEF RecognitionTypeOK, ReadingInv, RegionsInv, PlatesInv, Legible
<1> QED
  BY <1>1, ReadingIsTyped, RegionsTracked, PlatesLegible, PTL

---------------------------------------------------------------------------
(* Combining the plates of several analyses.                               *)

(* A chain of overlapping plates, all of them seen, leads from p to q.     *)
Tied(p, q, seen) ==
  \A S \in SUBSET seen :
    p \in S /\ (\A r \in S, t \in seen : Overlap(r, t) => t \in S) => q \in S

PlacesOf(P) == {p.place : p \in P}

(* Clusters of the plates Q, which are some of P: none is empty, none has  *)
(* a first plate that overlaps another one's, and a chain of overlapping   *)
(* plates leads from each plate to its cluster's first.                    *)
Clustering(cs, Q, P) ==
  /\ cs \in Seq(Seq(P))
  /\ \A c \in DOMAIN cs : 1 \in DOMAIN cs[c]
  /\ \A c, d \in DOMAIN cs : c # d => ~Overlap(cs[c][1].place, cs[d][1].place)
  /\ \A c \in DOMAIN cs : \A k \in DOMAIN cs[c] :
       Tied(cs[c][k].place, cs[c][1].place, PlacesOf(P))
  /\ \A q \in Q : \E c \in DOMAIN cs : \E k \in DOMAIN cs[c] : cs[c][k] = q

LEMMA OverlapSymmetric == \A p, q : Overlap(p, q) => Overlap(q, p)
<1> SUFFICES ASSUME NEW p, NEW q, Overlap(p, q) PROVE Overlap(q, p)
  OBVIOUS
<1>1. CASE p = q
  BY <1>1 DEF Overlap
<1>2. CASE <<p, q>> \in Near
  <2>1. PICK n : n \in Near /\ n = <<p, q>>
    BY <1>2
  <2>2. <<n[2], n[1]>> \in Near
    BY <2>1, TasksAssumption
  <2> QED
    BY <2>1, <2>2 DEF Overlap
<1> QED
  BY <1>1, <1>2 DEF Overlap

(* A plate joins the first cluster with a plate that it overlaps.          *)
LEMMA JoinedKeeps ==
  ASSUME NEW P, NEW Q, NEW cs, Clustering(cs, Q, P), NEW p \in P
  PROVE  Clustering(Joined(cs, p), Q \cup {p}, P)
<1> DEFINE fits == {c \in DOMAIN cs : \E k \in DOMAIN cs[c] :
                                        Overlap(p.place, cs[c][k].place)}
           seen == PlacesOf(P)
           js == Joined(cs, p)
<1>1. /\ cs \in Seq(Seq(P)) /\ Len(cs) \in Nat /\ DOMAIN cs = 1 .. Len(cs)
      /\ \A c \in DOMAIN cs : /\ cs[c] \in Seq(P) /\ Len(cs[c]) \in Nat
                              /\ DOMAIN cs[c] = 1 .. Len(cs[c])
                              /\ \A k \in DOMAIN cs[c] : cs[c][k] \in P
                              /\ 1 \in DOMAIN cs[c]
  BY SeqParts DEF Clustering
<1>2. p.place \in seen
  BY DEF PlacesOf
<1>3. CASE fits = {}
  <2> DEFINE new == <<p>>
  <2>1. js = Append(cs, new)
    BY <1>3 DEF Joined
  <2>2. new \in Seq(P) /\ DOMAIN new = {1} /\ new[1] = p
    OBVIOUS
  <2> HIDE DEF new
  <2> DEFINE ks == Append(cs, new)
  <2>3. /\ ks \in Seq(Seq(P))
        /\ \A c \in DOMAIN cs : c \in DOMAIN ks /\ ks[c] = cs[c]
        /\ ks[Len(cs) + 1] = new /\ Len(cs) + 1 \in DOMAIN ks
        /\ \A c \in DOMAIN ks : c \in DOMAIN cs \/ c = Len(cs) + 1
    BY <1>1, <2>2, SeqLonger
  <2> HIDE DEF ks
  <2>4. \A c \in DOMAIN ks : 1 \in DOMAIN ks[c]
    BY <1>1, <2>2, <2>3
  <2>5. \A c \in DOMAIN cs : ~Overlap(p.place, cs[c][1].place) /\ ~Overlap(cs[c][1].place, p.place)
    BY <1>1, <1>3, OverlapSymmetric
  <2>6. ASSUME NEW c \in DOMAIN ks, NEW d \in DOMAIN ks, c # d
        PROVE  ~Overlap(ks[c][1].place, ks[d][1].place)
    <3>1. CASE c \in DOMAIN cs /\ d \in DOMAIN cs
      BY <2>3, <2>6, <3>1 DEF Clustering
    <3>2. CASE c \in DOMAIN cs /\ d = Len(cs) + 1
      BY <2>2, <2>3, <2>5, <3>2
    <3>3. CASE c = Len(cs) + 1 /\ d \in DOMAIN cs
      BY <2>2, <2>3, <2>5, <3>3
    <3> QED
      BY <2>3, <2>6, <3>1, <3>2, <3>3
  <2>7. ASSUME NEW c \in DOMAIN ks, NEW k \in DOMAIN ks[c]
        PROVE  Tied(ks[c][k].place, ks[c][1].place, seen)
    <3>1. CASE c \in DOMAIN cs
      BY <2>3, <2>7, <3>1 DEF Clustering
    <3>2. CASE c = Len(cs) + 1
      BY <2>2, <2>3, <2>7, <3>2 DEF Tied
    <3> QED
      BY <2>3, <3>1, <3>2
  <2>8. ASSUME NEW q \in Q \cup {p}
        PROVE  \E c \in DOMAIN ks : \E k \in DOMAIN ks[c] : ks[c][k] = q
    <3>1. CASE q = p
      BY <2>2, <2>3, <3>1
    <3>2. CASE q # p
      BY <2>3, <3>2 DEF Clustering
    <3> QED
      BY <3>1, <3>2
  <2>9. Clustering(ks, Q \cup {p}, P)
    BY <2>3, <2>4, <2>6, <2>7, <2>8 DEF Clustering
  <2> QED
    BY <2>1, <2>9 DEF ks
<1>4. CASE fits # {}
  <2>1. PICK m : m = Min(fits)
    OBVIOUS
  <2>2. m \in DOMAIN cs /\ \E k \in DOMAIN cs[m] : Overlap(p.place, cs[m][k].place)
    <3>1. fits \subseteq Nat
      BY <1>1
    <3>2. m \in fits
      <4> HIDE DEF fits
      <4> QED
        BY <1>4, <2>1, <3>1, MinIsLeast
    <3> QED
      BY <3>2
  <2>3. js = [cs EXCEPT ![m] = Append(cs[m], p)]
    BY <1>4, <2>1, <2>2 DEF Joined
  <2> DEFINE new == Append(cs[m], p)
             n == Len(cs[m]) + 1
             ks == [cs EXCEPT ![m] = new]
  <2>4. /\ new \in Seq(P)
        /\ \A k \in DOMAIN cs[m] : k \in DOMAIN new /\ new[k] = cs[m][k]
        /\ new[n] = p /\ n \in DOMAIN new
        /\ \A k \in DOMAIN new : k \in DOMAIN cs[m] \/ k = n
        /\ new[1] = cs[m][1] /\ 1 \in DOMAIN new
    BY <1>1, <2>2, SeqLonger
  <2> HIDE DEF new, n
  <2>5. /\ ks \in Seq(Seq(P)) /\ DOMAIN ks = DOMAIN cs /\ ks[m] = new
        /\ \A c \in DOMAIN cs : c # m => ks[c] = cs[c]
    <3>1. DOMAIN ks = DOMAIN cs /\ ks[m] = new /\ \A c \in DOMAIN cs : c # m => ks[c] = cs[c]
      BY <2>2
    <3>2. ks \in [1 .. Len(cs) -> Seq(P)]
      BY <1>1, <2>2, <2>4
    <3> HIDE DEF ks
    <3>3. ks \in Seq(Seq(P))
      BY <1>1, <3>2, SeqMade
    <3> QED
      BY <3>1, <3>3
  <2> HIDE DEF ks
  <2>6. \A c \in DOMAIN cs : ks[c][1] = cs[c][1] /\ 1 \in DOMAIN ks[c]
    BY <1>1, <2>4, <2>5
  <2>7. \A c, d \in DOMAIN ks : c # d => ~Overlap(ks[c][1].place, ks[d][1].place)
    BY <2>5, <2>6 DEF Clustering
  <2>8. ASSUME NEW c \in DOMAIN ks, NEW k \in DOMAIN ks[c]
        PROVE  Tied(ks[c][k].place, ks[c][1].place, seen)
    <3>1. CASE c # m
      BY <2>5, <2>6, <2>8, <3>1 DEF Clustering
    <3>2. CASE c = m /\ k \in DOMAIN cs[m]
      BY <2>2, <2>4, <2>5, <2>6, <3>2 DEF Clustering
    <3>3. CASE c = m /\ k = n
      <4>1. PICK j \in DOMAIN cs[m] : Overlap(p.place, cs[m][j].place)
        BY <2>2
      <4>2. cs[m][j].place \in seen
        BY <1>1, <2>2 DEF PlacesOf
      <4>3. Tied(cs[m][j].place, cs[m][1].place, seen)
        BY <2>2 DEF Clustering
      <4>4. Tied(p.place, cs[m][1].place, seen)
        <5> HIDE DEF seen
        <5> QED
          BY <4>1, <4>2, <4>3 DEF Tied
      <4> QED
        BY <2>2, <2>4, <2>5, <2>6, <3>3, <4>4
    <3> QED
      BY <2>4, <2>5, <2>8, <3>1, <3>2, <3>3
  <2>9. ASSUME NEW q \in Q \cup {p}
        PROVE  \E c \in DOMAIN ks : \E k \in DOMAIN ks[c] : ks[c][k] = q
    <3>1. CASE q = p
      BY <2>2, <2>4, <2>5, <3>1
    <3>2. CASE q # p
      <4>1. PICK c \in DOMAIN cs : \E k \in DOMAIN cs[c] : cs[c][k] = q
        BY <3>2 DEF Clustering
      <4>2. CASE c = m
        BY <2>4, <2>5, <4>1, <4>2
      <4>3. CASE c # m
        BY <2>5, <4>1, <4>3
      <4> QED
        BY <4>2, <4>3
    <3> QED
      BY <3>1, <3>2
  <2>10. Clustering(ks, Q \cup {p}, P)
    BY <2>5, <2>6, <2>7, <2>8, <2>9 DEF Clustering
  <2> QED
    BY <2>3, <2>10 DEF ks, new
<1> QED
  BY <1>3, <1>4

(* All the plates, joined one after the other.                             *)
LEMMA ClustersAre ==
  ASSUME NEW P, NEW found, NEW flat \in Seq(P), FlattenSeq(found) = flat
  PROVE  Clustering(Clusters(found), {flat[i] : i \in DOMAIN flat}, P)
<1> DEFINE S == DOMAIN flat
           V == {cs \in Seq(Seq(P)) : Clustering(cs, {}, P)}
           Is(h) == h = [s \in SUBSET S |-> IF s = {} THEN <<>>
                                            ELSE Joined(h[s \ {Max(s)}], flat[Max(s)])]
           C == [s \in SUBSET S |-> Max(s)]
           F == [x \in S \X V |-> Joined(x[2], flat[x[1]])]
<1>1. Clusters(found) = (CHOOSE h : Is(h))[S]
  BY DEF Clusters, FoldLeft, MapThenFoldSet
<1>2. S = 1..Len(flat) /\ Len(flat) \in Nat /\ IsFiniteSet(S) /\ \A i \in S : flat[i] \in P
  <2>1. S = 1..Len(flat) /\ Len(flat) \in Nat
    OBVIOUS
  <2>2. IsFiniteSet(1..Len(flat))
    BY <2>1, FS_Interval
  <2> QED
    BY <2>1, <2>2
<1>3. <<>> \in V /\ Clustering(<<>>, {}, P)
  BY DEF Clustering
<1>4. \A cs \in V, p \in P : Joined(cs, p) \in V
  <2> SUFFICES ASSUME NEW cs \in V, NEW p \in P PROVE Joined(cs, p) \in V
    OBVIOUS
  <2>1. Clustering(Joined(cs, p), {} \cup {p}, P)
    BY JoinedKeeps
  <2> QED
    BY <2>1 DEF Clustering
<1> HIDE DEF S, V
<1>5. \A s \in SUBSET S : s # {} => Max(s) \in s /\ C[s] = Max(s)
  BY <1>2, MaxIsMost
<1>6. Chooses(C, S)
  BY <1>5 DEF Chooses
<1>7. F \in [S \X V -> V]
  BY <1>2, <1>4
<1>8. PICK g \in [SUBSET S -> V] : Folds(g, S, F, C, <<>>)
  <2> HIDE DEF F, C
  <2> QED
    BY <1>2, <1>3, <1>6, <1>7, FoldExists
<1>9. Is(g)
  <2>1. ASSUME NEW s \in SUBSET S
        PROVE  g[s] = IF s = {} THEN <<>> ELSE Joined(g[s \ {Max(s)}], flat[Max(s)])
    <3>1. CASE s = {}
      BY <1>8, <3>1 DEF Folds
    <3>2. CASE s # {}
      <4>1. Max(s) \in S /\ g[s \ {Max(s)}] \in V /\ C[s] = Max(s)
        BY <1>5, <3>2
      <4>2. g[s] = F[<<Max(s), g[s \ {Max(s)}]>>]
        BY <1>8, <3>2, <4>1 DEF Folds
      <4> QED
        BY <3>2, <4>1, <4>2
    <3> QED
      BY <3>1, <3>2
  <2> QED
    BY <2>1
<1> DEFINE k == CHOOSE h : Is(h)
<1>10. Is(k)
  <2> HIDE DEF Is
  <2> QED
    BY <1>9
<1> HIDE DEF k
<1>11. \A s \in SUBSET S :
         k[s] = IF s = {} THEN <<>> ELSE Joined(k[s \ {Max(s)}], flat[Max(s)])
  BY <1>10
<1> DEFINE Q(s) == {flat[i] : i \in s}
           G == {s \in SUBSET S : Clustering(k[s], Q(s), P)}
<1>12. {} \in G
  <2>1. {} \in SUBSET S /\ k[{}] = <<>> /\ Q({}) = {}
    BY <1>11
  <2> QED
    BY <1>3, <2>1
<1>13. ASSUME NEW s \in SUBSET S, s # {}, s \ {C[s]} \in G PROVE s \in G
  <2>1. PICK m : m = Max(s)
    OBVIOUS
  <2>2. k[s] = Joined(k[s \ {m}], flat[m]) /\ m \in s /\ C[s] = m /\ flat[m] \in P
    BY <1>2, <1>5, <1>11, <1>13, <2>1
  <2>3. Clustering(k[s \ {m}], Q(s \ {m}), P)
    BY <1>13, <2>2
  <2>4. Clustering(k[s], Q(s \ {m}) \cup {flat[m]}, P)
    BY <2>2, <2>3, JoinedKeeps
  <2>5. Q(s \ {m}) \cup {flat[m]} = Q(s)
    BY <2>2
  <2> QED
    BY <2>4, <2>5
<1>14. SUBSET S \subseteq G
  <2>1. IsFiniteSet(S)
    BY <1>2
  <2> HIDE DEF G, C, Q, Is, F
  <2>2. \A s \in SUBSET S : s # {} /\ s \ {C[s]} \in G => s \in G
    BY <1>13
  <2> QED
    BY <2>1, <1>6, <1>12, <2>2, SubsetSets
<1> QED
  BY <1>1, <1>14 DEF k, S

(* What a cluster is combined to: one plate in the first one's place, with *)
(* every word that counts or as many as are wanted; nothing if none does.  *)
Represents(x, cluster) ==
  \/ x = <<>> /\ Candidates(cluster) = {}
  \/ /\ x = <<x[1]>> /\ x[1].place = cluster[1].place
     /\ \A c \in Candidates(cluster) :
          \/ cluster[c[1]].top[c[2]].word \in Words(x[1])
          \/ Len(x[1].top) = TopN

(* Numbered pairs have a first one.                                        *)
LEMMA FirstPair ==
  ASSUME NEW T, T \subseteq Nat \X Nat, T # {}
  PROVE  \E c \in T : \A d \in T : c[1] < d[1] \/ (c[1] = d[1] /\ c[2] <= d[2])
<1> DEFINE I == {c[1] : c \in T}
<1>1. I \subseteq Nat /\ I # {}
  OBVIOUS
<1>2. PICK i : i \in I /\ \A j \in I : i <= j
  <2> HIDE DEF I
  <2> QED
    BY <1>1, MinIsLeast
<1> DEFINE K == {c[2] : c \in {e \in T : e[1] = i}}
<1>3. K \subseteq Nat /\ K # {}
  BY <1>2
<1>4. PICK k : k \in K /\ \A j \in K : k <= j
  <2> HIDE DEF K
  <2> QED
    BY <1>3, MinIsLeast
<1>5. PICK c \in T : c[1] = i /\ c[2] = k
  BY <1>4
<1>6. ASSUME NEW d \in T PROVE c[1] < d[1] \/ (c[1] = d[1] /\ c[2] <= d[2])
  <2>1. d[1] \in I /\ d[1] \in Nat /\ c[1] \in Nat
    OBVIOUS
  <2>2. d[1] = i => d[2] \in K
    OBVIOUS
  <2> HIDE DEF I, K
  <2> QED
    BY <1>2, <1>4, <1>5, <2>1, <2>2
<1> QED
  BY <1>6

(* The entry of a word keeps the word.                                     *)
LEMMA EntryKeepsWord ==
  ASSUME NEW cluster, NEW P, cluster \in Seq(P), \A p \in P : Legible(p),
         NEW c \in Candidates(cluster)
  PROVE  Entry(cluster, cluster[c[1]].top[c[2]].word).plate.word
           = cluster[c[1]].top[c[2]].word
<1> DEFINE at(d) == cluster[d[1]].top[d[2]]
           word == at(c).word
           mine == {d \in Candidates(cluster) : at(d).word = word}
           isFirst(f) == \A d \in mine : f[1] < d[1] \/ (f[1] = d[1] /\ f[2] <= d[2])
           first == CHOOSE f \in mine : isFirst(f)
           most == Max({at(d).percent : d \in mine})
           plate == [at(first) EXCEPT !.percent = IF @ = NotANumber THEN @ ELSE most]
<1>1. Entry(cluster, word).plate = plate
  BY DEF Entry
<1>2. c \in mine
  OBVIOUS
<1>3. mine \subseteq Nat \X Nat
  <2>1. DOMAIN cluster \subseteq Nat
    OBVIOUS
  <2>2. 1..TopN \subseteq Nat
    BY ReadingAssumption
  <2> QED
    BY <2>1, <2>2 DEF Candidates
<1>4. \E f \in mine : isFirst(f)
  <2> HIDE DEF mine
  <2> QED
    BY <1>2, <1>3, FirstPair
<1>5. first \in mine
  <2> HIDE DEF mine, isFirst
  <2> QED
    BY <1>4
<1>6. PICK f : f = first
  OBVIOUS
<1>7. f \in Candidates(cluster) /\ at(f).word = word
  BY <1>5, <1>6
<1>8. f[1] \in DOMAIN cluster /\ f[2] \in DOMAIN cluster[f[1]].top
  <2>1. /\ f[1] \in DOMAIN cluster /\ f[2] \in 1..TopN
        /\ f[2] <= Len(cluster[f[1]].top)
    BY <1>7 DEF Candidates
  <2>2. Legible(cluster[f[1]])
    BY <2>1
  <2>3. PICK T : cluster[f[1]].top \in Seq(T)
    BY <2>2 DEF Legible
  <2> QED
    BY <2>1, <2>3, ReadingAssumption
<1>9. at(f) = [word |-> at(f).word, percent |-> at(f).percent, match |-> at(f).match]
  <2>1. Legible(cluster[f[1]])
    BY <1>8
  <2> QED
    BY <1>8, <2>1 DEF Legible
<1>10. plate.word = at(f).word
  <2>1. plate = [at(f) EXCEPT !.percent = IF @ = NotANumber THEN @ ELSE most]
    BY <1>6
  <2>2. PICK a : a = at(f)
    OBVIOUS
  <2> HIDE DEF most, at, plate
  <2>3. "word" \in DOMAIN a
    BY <1>9, <2>2
  <2>4. [a EXCEPT !.percent = IF @ = NotANumber THEN @ ELSE most].word = a.word
    BY <2>3
  <2> QED
    BY <2>1, <2>2, <2>4
<1> HIDE DEF plate
<1> QED
  BY <1>1, <1>7, <1>10

LEMMA EntriesFinite ==
  ASSUME NEW cluster, NEW P, cluster \in Seq(P)
  PROVE  /\ IsFiniteSet(Candidates(cluster)) /\ IsFiniteSet(Entries(cluster))
         /\ Cardinality(Entries(cluster)) \in Nat
         /\ \A c \in Candidates(cluster) :
              Entry(cluster, cluster[c[1]].top[c[2]].word) \in Entries(cluster)
<1> DEFINE S == Candidates(cluster)
           T == Entries(cluster)
           e(c) == Entry(cluster, cluster[c[1]].top[c[2]].word)
           f == [c \in S |-> e(c)]
<1>1. IsFiniteSet(S)
  <2>1. Len(cluster) \in Nat /\ DOMAIN cluster = 1..Len(cluster) /\ TopN \in Nat
    BY ReadingAssumption
  <2>2. IsFiniteSet(1..Len(cluster)) /\ IsFiniteSet(1..TopN)
    BY <2>1, FS_Interval
  <2>3. IsFiniteSet((DOMAIN cluster) \X (1..TopN))
    BY <2>1, <2>2, FS_Product
  <2>4. S \in SUBSET ((DOMAIN cluster) \X (1..TopN))
    BY DEF Candidates
  <2> QED
    BY <2>3, <2>4, FS_Subset
<1>2. T = {e(c) : c \in S}
  BY DEF Entries
<1> HIDE DEF S, T, e
<1>3. f \in Surjection(S, T)
  <2>1. f \in [S -> T] /\ \A t \in T : \E c \in S : f[c] = t
    BY <1>2
  <2> HIDE DEF f
  <2> QED
    BY <2>1 DEF Surjection
<1>4. IsFiniteSet(T)
  <2> HIDE DEF f
  <2> QED
    BY <1>1, <1>3, FS_Surjection
<1>5. Cardinality(T) \in Nat
  BY <1>4, FS_CardinalityType
<1>6. \A c \in S : e(c) \in T
  BY <1>2
<1> QED
  BY <1>1, <1>4, <1>5, <1>6 DEF S, T, e

(* A ranking holds every entry, or as many as are wanted.                  *)
LEMMA RankingHolds ==
  ASSUME NEW E, IsFiniteSet(E), Cardinality(E) \in Nat, NEW s \in Rankings(E)
  PROVE  \/ \A e \in E : \E k \in DOMAIN s : s[k] = e
         \/ DOMAIN s = 1..TopN
<1> DEFINE n == Min({TopN, Cardinality(E)})
<1>1. s \in [1..n -> E] /\ IsInjective(s)
  BY DEF Rankings
<1>2. n \in {TopN, Cardinality(E)} /\ n \in Nat
  <2>1. {TopN, Cardinality(E)} \subseteq Nat /\ {TopN, Cardinality(E)} # {}
    BY ReadingAssumption
  <2> QED
    BY <2>1, MinIsLeast
<1> HIDE DEF n
<1>3. CASE n = Cardinality(E)
  <2>1. s \in Injection(1..n, E)
    BY <1>1 DEF Injection
  <2>2. Cardinality(1..n) = n
    BY <1>2, FS_Interval
  <2>3. s \in Surjection(1..n, E)
    BY <1>3, <2>1, <2>2, FS_Injection
  <2> QED
    BY <1>1, <2>3 DEF Surjection
<1>4. CASE n = TopN
  BY <1>1, <1>4
<1> QED
  BY <1>2, <1>3, <1>4

LEMMA CombinedAre ==
  ASSUME NEW cluster, NEW P, cluster \in Seq(P), \A p \in P : Legible(p),
         NEW x \in Combined(cluster)
  PROVE  Represents(x, cluster)
<1>1. CASE Candidates(cluster) = {}
  BY <1>1 DEF Combined, Represents
<1>2. CASE Candidates(cluster) # {}
  <2> DEFINE E == Entries(cluster)
  <2>1. PICK s \in Rankings(E), r \in BestRegions(cluster) :
          x = <<[place |-> cluster[1].place, country |-> NoCountry,
                 region |-> r.region, stateConf |-> r.conf,
                 top |-> [k \in DOMAIN s |-> s[k].plate],
                 bestPlate |-> s[1].plate]>>
    BY <1>2 DEF Combined
  <2> DEFINE top == [k \in DOMAIN s |-> s[k].plate]
  <2>2. x = <<x[1]>> /\ x[1].place = cluster[1].place /\ x[1].top = top
    BY <2>1
  <2>3. IsFiniteSet(E) /\ Cardinality(E) \in Nat
    BY EntriesFinite
  <2>4. CASE DOMAIN s = 1..TopN
    <3>1. Len(top) = TopN
      BY <2>4, ReadingAssumption
    <3> QED
      BY <2>2, <3>1 DEF Represents
  <2>5. CASE \A e \in E : \E k \in DOMAIN s : s[k] = e
    <3> SUFFICES ASSUME NEW c \in Candidates(cluster)
                 PROVE  cluster[c[1]].top[c[2]].word \in Words(x[1])
      BY <2>2 DEF Represents
    <3> DEFINE w == cluster[c[1]].top[c[2]].word
    <3>1. Entry(cluster, w) \in E
      BY EntriesFinite
    <3>2. PICK k \in DOMAIN s : s[k] = Entry(cluster, w)
      <4> HIDE DEF E, w
      <4> QED
        BY <2>5, <3>1
    <3>3. Entry(cluster, w).plate.word = w
      BY EntryKeepsWord
    <3>4. k \in DOMAIN top /\ top[k] = s[k].plate
      OBVIOUS
    <3> HIDE DEF top, w
    <3>5. top[k].word = w
      BY <3>2, <3>3, <3>4
    <3>6. w \in Words(x[1])
      BY <2>2, <3>4, <3>5 DEF Words
    <3> QED
      BY <3>6 DEF w
  <2> QED
    <3> HIDE DEF E
    <3> QED
      BY <2>3, <2>4, <2>5, RankingHolds
<1> QED
  BY <1>1, <1>2

(* The candidates that spell a word, and what an entry sums up.            *)
Spelling(cluster, word) ==
  {c \in Candidates(cluster) : cluster[c[1]].top[c[2]].word = word}

PointsOf(cluster, s) == [c \in s |-> Points(cluster[c[1]].top[c[2]], c[2])]

(* Plates whose percentages are numbers.                                   *)
Clear(cluster) ==
  \A c \in Candidates(cluster) : cluster[c[1]].top[c[2]].percent \in Nat

LEMMA PointsTyped ==
  ASSUME NEW cluster, Clear(cluster), NEW c \in Candidates(cluster)
  PROVE  Points(cluster[c[1]].top[c[2]], c[2]) \in Nat
<1> DEFINE p == cluster[c[1]].top[c[2]]
           k == c[2]
<1>1. /\ p.percent \in Nat /\ k \in 1..TopN /\ TopN \in Nat \ {0}
      /\ p.percent >= 75
  <2>1. p.percent \in Nat /\ k \in 1..TopN /\ Counts(p)
    BY DEF Clear, Candidates
  <2>2. p.percent # NotANumber
    BY <2>1 DEF NotANumber
  <2> QED
    BY <2>1, <2>2, ReadingAssumption DEF Counts, MinPercent
<1>2. Points(p, k) = TopN * (4 * (p.percent - 60)
                           + (IF p.match = "yes" THEN 150 ELSE 0) + 65)
                   - 65 * (k - 1)
  BY DEF Points
<1> HIDE DEF p, k
<1> DEFINE b == IF p.match = "yes" THEN 150 ELSE 0
           z == 4 * (p.percent - 60) + b
<1>3. b \in Nat
  OBVIOUS
<1>4. z \in Nat
  <2> HIDE DEF b
  <2> QED
    BY <1>1, <1>3
<1>5. Points(p, k) = TopN * (z + 65) - 65 * (k - 1)
  BY <1>2
<1> HIDE DEF z
<1>6. TopN * (z + 65) = TopN * z + 65 * TopN /\ TopN * z \in Nat
  BY <1>1, <1>4
<1>7. Points(p, k) \in Nat
  BY <1>1, <1>5, <1>6
<1> QED
  BY <1>7 DEF p, k

LEMMA EntryPoints ==
  ASSUME NEW cluster, NEW P, cluster \in Seq(P), Clear(cluster), NEW word
  PROVE  LET s == Spelling(cluster, word) IN
           /\ IsFiniteSet(s) /\ PointsOf(cluster, s) \in [s -> Nat]
           /\ \E h : /\ Sums(h, PointsOf(cluster, s), s)
                     /\ Entry(cluster, word).points = h[s]
<1> DEFINE mine == Spelling(cluster, word)
           e(c) == Points(cluster[c[1]].top[c[2]], c[2])
           T == PointsOf(cluster, mine)
           Is(h) == h = [s \in SUBSET mine |->
             IF s = {} THEN 0 ELSE e(One(s)) + h[s \ {One(s)}]]
<1>1. Entry(cluster, word).points = (CHOOSE h : Is(h))[mine]
  BY DEF Entry, MapThenSumSet, MapThenFoldSet, One, Spelling
<1>2. mine \in SUBSET Candidates(cluster)
  BY DEF Spelling
<1>3. IsFiniteSet(mine)
  BY <1>2, EntriesFinite, FS_Subset
<1>4. T \in [mine -> Nat]
  BY <1>2, PointsTyped DEF PointsOf
<1>5. \A s \in SUBSET mine : s # {} => T[One(s)] = e(One(s))
  BY DEF One, PointsOf
<1> HIDE DEF T, e, mine
<1>6. PICK g \in [SUBSET mine -> Int] : Sums(g, T, mine)
  <2>1. T \in [mine -> Int]
    BY <1>4
  <2> QED
    BY <1>3, <2>1, SumsExist
<1>7. Is(g)
  <2>1. \A s \in SUBSET mine : g[s] =
             IF s = {} THEN 0 ELSE e(One(s)) + g[s \ {One(s)}]
    BY <1>5, <1>6 DEF Sums
  <2> QED
    BY <2>1
<1> DEFINE k == CHOOSE h : Is(h)
<1>8. Is(k)
  <2> HIDE DEF Is
  <2> QED
    BY <1>7
<1>9. Sums(k, T, mine)
  <2> HIDE DEF k
  <2>1. \A s \in SUBSET mine : k[s] =
             IF s = {} THEN 0 ELSE e(One(s)) + k[s \ {One(s)}]
    BY <1>8
  <2> QED
    BY <1>5, <2>1 DEF Sums
<1>10. Entry(cluster, word).points = k[mine]
  BY <1>1
<1> HIDE DEF k
<1> QED
  BY <1>3, <1>4, <1>9, <1>10 DEF T, mine

(* What a plate reads first, with confidence and to the pattern.           *)
First(p, w) == /\ p.top[1].word = w /\ p.top[1].match = "yes"
               /\ p.top[1].percent >= MinPercent

(* A first reading earns more than a later one, which is not more          *)
(* confident.                                                              *)
LEMMA FirstEarnsMore ==
  ASSUME NEW p, NEW r, NEW k \in Nat, k > 1, p.percent \in Nat, r.percent \in Nat,
         p.percent <= r.percent, r.match = "yes"
  PROVE  Points(p, k) < Points(r, 1) /\ Points(p, k) \in Int
<1> DEFINE b == IF p.match = "yes" THEN 150 ELSE 0
           y == 4 * (p.percent - 60) + b + 65
           z == 4 * (r.percent - 60) + 150 + 65
<1>1. b \in Nat /\ b <= 150
  OBVIOUS
<1>2. Points(p, k) = TopN * y - 65 * (k - 1) /\ Points(r, 1) = TopN * z - 65 * (1 - 1)
  BY DEF Points
<1>3. y \in Int /\ z \in Int /\ y <= z
  <2> HIDE DEF b
  <2> QED
    BY <1>1
<1> HIDE DEF y, z
<1>4. TopN \in Nat /\ TopN * y \in Int /\ TopN * z \in Int
  BY <1>3, ReadingAssumption
<1>5. TopN * y <= TopN * z
  <2>1. z - y \in Nat /\ TopN * (z - y) \in Nat
    BY <1>3, <1>4
  <2>2. TopN * z = TopN * y + TopN * (z - y)
    BY <1>3, <1>4
  <2> QED
    BY <1>4, <2>1, <2>2
<1> QED
  BY <1>2, <1>4, <1>5

(* The reading that every plate of a cluster puts first.                   *)
LEMMA FirstIsCandidate ==
  ASSUME NEW cluster, NEW P, cluster \in Seq(P),
         \A p \in P : Legible(p) /\ Scored(p), NEW w, \A p \in P : First(p, w)
  PROVE  /\ Clear(cluster)
         /\ \A i \in DOMAIN cluster : <<i, 1>> \in Spelling(cluster, w)
         /\ \A c \in Candidates(cluster) :
              /\ c = <<c[1], c[2]>> /\ c[1] \in DOMAIN cluster /\ c[2] \in Nat
              /\ c[2] \in DOMAIN cluster[c[1]].top /\ 1 \in DOMAIN cluster[c[1]].top
              /\ cluster[c[1]].top[c[2]].percent <= cluster[c[1]].top[1].percent
              /\ cluster[c[1]].top[1].percent \in Nat
<1>1. ASSUME NEW p \in P
      PROVE  /\ 1 \in DOMAIN p.top /\ Len(p.top) \in Nat \ {0}
             /\ DOMAIN p.top = 1 .. Len(p.top)
             /\ \A k \in DOMAIN p.top : /\ p.top[k].percent \in Nat
                                        /\ p.top[k].percent <= p.top[1].percent
  <2>1. Legible(p) /\ Scored(p) /\ First(p, w)
    OBVIOUS
  <2>2. PICK S : p.top \in Seq(S)
    BY <2>1 DEF Legible
  <2>3. p.top # <<>>
    BY <2>1 DEF Legible, ToSet
  <2>4. 1 \in DOMAIN p.top /\ Len(p.top) \in Nat \ {0} /\ DOMAIN p.top = 1 .. Len(p.top)
    BY <2>2, <2>3
  <2>5. p.top[1].percent # NotANumber
    BY <2>1 DEF First, MinPercent, NotANumber
  <2> QED
    BY <2>1, <2>4, <2>5 DEF Scored
<1>2. \A i \in DOMAIN cluster : cluster[i] \in P
  OBVIOUS
<1>3. ASSUME NEW c \in Candidates(cluster)
      PROVE  /\ c = <<c[1], c[2]>> /\ c[1] \in DOMAIN cluster /\ c[2] \in Nat
             /\ c[2] \in DOMAIN cluster[c[1]].top
  <2>1. c \in (DOMAIN cluster) \X (1..TopN) /\ c[2] <= Len(cluster[c[1]].top)
    BY DEF Candidates
  <2>2. cluster[c[1]] \in P /\ TopN \in Nat
    BY <1>2, <2>1, ReadingAssumption
  <2> QED
    BY <1>1, <2>1, <2>2
<1>4. ASSUME NEW i \in DOMAIN cluster PROVE <<i, 1>> \in Spelling(cluster, w)
  <2>1. cluster[i] \in P /\ First(cluster[i], w)
    BY <1>2
  <2>2. PICK x : x = <<i, 1>>
    OBVIOUS
  <2>3. x \in (DOMAIN cluster) \X (1..TopN) /\ x[1] = i /\ x[2] = 1
    BY <2>2, ReadingAssumption
  <2>4. 1 <= Len(cluster[i].top) /\ Counts(cluster[i].top[1])
    BY <1>1, <2>1 DEF First, Counts
  <2>5. x \in Spelling(cluster, w)
    BY <2>1, <2>3, <2>4 DEF Spelling, Candidates, First
  <2> QED
    BY <2>2, <2>5
<1> QED
  BY <1>1, <1>2, <1>3, <1>4 DEF Clear

LEMMA Outscored ==
  ASSUME NEW cluster, NEW P, cluster \in Seq(P),
         \A p \in P : Legible(p) /\ Scored(p), NEW w, \A p \in P : First(p, w),
         NEW v, v # w, Spelling(cluster, v) # {}
  PROVE  Entry(cluster, v).points < Entry(cluster, w).points
<1> PICK S, R : S = Spelling(cluster, v) /\ R = Spelling(cluster, w)
  OBVIOUS
<1> DEFINE T == PointsOf(cluster, S)
           U == PointsOf(cluster, R)
           f == [c \in S |-> <<c[1], 1>>]
<1>1. /\ Clear(cluster)
      /\ \A i \in DOMAIN cluster : <<i, 1>> \in R
      /\ \A c \in S : /\ c \in Candidates(cluster) /\ cluster[c[1]].top[c[2]].word = v
                      /\ c = <<c[1], c[2]>> /\ c[1] \in DOMAIN cluster /\ c[2] \in Nat
                      /\ c[2] \in DOMAIN cluster[c[1]].top /\ 1 \in DOMAIN cluster[c[1]].top
                      /\ cluster[c[1]].top[c[2]].percent <= cluster[c[1]].top[1].percent
                      /\ cluster[c[1]].top[1].percent \in Nat
  <2>1. /\ Clear(cluster)
        /\ \A i \in DOMAIN cluster : <<i, 1>> \in Spelling(cluster, w)
        /\ \A c \in Candidates(cluster) :
             /\ c = <<c[1], c[2]>> /\ c[1] \in DOMAIN cluster /\ c[2] \in Nat
             /\ c[2] \in DOMAIN cluster[c[1]].top /\ 1 \in DOMAIN cluster[c[1]].top
             /\ cluster[c[1]].top[c[2]].percent <= cluster[c[1]].top[1].percent
             /\ cluster[c[1]].top[1].percent \in Nat
    BY FirstIsCandidate, Zenon
  <2>2. \A c \in S : c \in Candidates(cluster) /\ cluster[c[1]].top[c[2]].word = v
    BY DEF Spelling
  <2> QED
    BY <2>1, <2>2
<1>2. /\ IsFiniteSet(S) /\ T \in [S -> Nat]
      /\ IsFiniteSet(R) /\ U \in [R -> Nat]
  BY <1>1, EntryPoints
<1>3. PICK h : Sums(h, T, S) /\ Entry(cluster, v).points = h[S]
  BY <1>1, EntryPoints
<1>4. PICK k : Sums(k, U, R) /\ Entry(cluster, w).points = k[R]
  BY <1>1, EntryPoints
<1>5. f \in [S -> R]
  BY <1>1
<1>6. ASSUME NEW x \in S, NEW y \in S, f[x] = f[y] PROVE x = y
  <2>1. x[1] = y[1]
    BY <1>6
  <2>2. cluster[x[1]] \in P
    BY <1>1
  <2>3. /\ x[2] \in DOMAIN cluster[x[1]].top /\ y[2] \in DOMAIN cluster[x[1]].top
        /\ cluster[x[1]].top[x[2]].word = cluster[x[1]].top[y[2]].word
    BY <1>1, <2>1
  <2>4. x[2] = y[2]
    BY <2>2, <2>3 DEF Scored
  <2> QED
    BY <1>1, <2>1, <2>4
<1>7. ASSUME NEW x \in S PROVE T[x] < U[f[x]]
  <2>1. cluster[x[1]] \in P
    BY <1>1
  <2>2. First(cluster[x[1]], w)
    BY <2>1
  <2>3. x[2] # 1
    BY <1>1, <2>2 DEF First
  <2>4. x[2] > 1 /\ x[2] \in Nat
    <3>1. Legible(cluster[x[1]])
      BY <2>1
    <3>2. PICK Z : cluster[x[1]].top \in Seq(Z)
      BY <3>1 DEF Legible
    <3>3. x[2] \in 1 .. Len(cluster[x[1]].top)
      BY <1>1, <3>2
    <3> QED
      BY <2>3, <3>3
  <2>5. cluster[x[1]].top[x[2]].percent \in Nat
    BY <1>1 DEF Clear
  <2>6. Points(cluster[x[1]].top[x[2]], x[2]) < Points(cluster[x[1]].top[1], 1)
    BY <1>1, <2>2, <2>4, <2>5, FirstEarnsMore DEF First
  <2>7. /\ T[x] = Points(cluster[x[1]].top[x[2]], x[2])
        /\ f[x] = <<x[1], 1>> /\ f[x] \in R
    BY <1>5 DEF PointsOf
  <2>8. PICK y \in R : y = <<x[1], 1>>
    BY <2>7
  <2>9. U[y] = Points(cluster[y[1]].top[y[2]], y[2]) /\ y[1] = x[1] /\ y[2] = 1
    BY <2>8 DEF PointsOf
  <2> HIDE DEF T, U, f
  <2> QED
    BY <2>6, <2>7, <2>8, <2>9
<1> HIDE DEF T, U, f
<1>8. h[S] < k[R]
  <2>1. T \in [S -> Int] /\ S # {}
    BY <1>2
  <2>2. \A x, y \in S : f[x] = f[y] => x = y
    BY <1>6
  <2>3. \A x \in S : T[x] < U[f[x]]
    BY <1>7
  <2>4. IsFiniteSet(S) /\ IsFiniteSet(R) /\ U \in [R -> Nat]
    BY <1>2
  <2>5. Sums(h, T, S) /\ Sums(k, U, R)
    BY <1>3, <1>4
  <2> QED
    BY ONLY <1>5, <2>1, <2>2, <2>3, <2>4, <2>5, SumsLess
<1> QED
  BY <1>3, <1>4, <1>8

(* It is what the cluster is combined to.                                  *)
LEMMA UnanimousFirst ==
  ASSUME NEW cluster, NEW P, cluster \in Seq(P),
         \A p \in P : Legible(p) /\ Scored(p), NEW w, \A p \in P : First(p, w),
         NEW x \in Combined(cluster), x # <<>>
  PROVE  x[1].bestPlate.word = w
<1> DEFINE E == Entries(cluster)
           spelled(c) == cluster[c[1]].top[c[2]].word
<1>1. Candidates(cluster) # {}
  BY DEF Combined
<1>2. PICK s \in Rankings(E), r \in BestRegions(cluster) :
        x = <<[place |-> cluster[1].place, country |-> NoCountry,
               region |-> r.region, stateConf |-> r.conf,
               top |-> [k \in DOMAIN s |-> s[k].plate],
               bestPlate |-> s[1].plate]>>
  BY <1>1 DEF Combined
<1>3. x[1].bestPlate = s[1].plate
  BY <1>2
<1>4. /\ Clear(cluster)
      /\ \A i \in DOMAIN cluster : <<i, 1>> \in Spelling(cluster, w)
      /\ \A c \in Candidates(cluster) : c[1] \in DOMAIN cluster
  BY FirstIsCandidate
<1>5. PICK b \in Candidates(cluster) : spelled(b) = w
  BY <1>1, <1>4 DEF Spelling
<1>6. /\ IsFiniteSet(E) /\ Cardinality(E) \in Nat
      /\ \A c \in Candidates(cluster) : Entry(cluster, spelled(c)) \in E
  BY EntriesFinite
<1>7. \A e \in E : \E c \in Candidates(cluster) : e = Entry(cluster, spelled(c))
  BY DEF Entries
<1>8. ASSUME NEW e \in E PROVE ~e.unclear
  <2>1. PICK c \in Candidates(cluster) : e = Entry(cluster, spelled(c))
    BY <1>7
  <2>2. e.unclear = \E d \in {d \in Candidates(cluster) : spelled(d) = spelled(c)} :
                       cluster[d[1]].top[d[2]].percent = NotANumber
    BY <2>1 DEF Entry
  <2>3. NotANumber \notin Nat
    BY DEF NotANumber
  <2> QED
    BY <1>4, <2>2, <2>3 DEF Clear
<1> HIDE DEF E, spelled
<1>9. 1 \in DOMAIN s /\ s[1] \in E
  <2> DEFINE n == Min({TopN, Cardinality(E)})
  <2>1. s \in [1..n -> E]
    BY DEF Rankings
  <2>2. E # {}
    BY <1>5, <1>6
  <2>3. Cardinality(E) # 0
    BY <1>6, <2>2, FS_EmptySet
  <2>4. {TopN, Cardinality(E)} \subseteq Nat /\ {TopN, Cardinality(E)} # {}
    BY <1>6, ReadingAssumption
  <2>5. n \in {TopN, Cardinality(E)}
    BY <2>4, MinIsLeast
  <2> HIDE DEF n
  <2>6. n \in Nat /\ n # 0
    BY <2>3, <2>4, <2>5, ReadingAssumption
  <2> QED
    BY <2>1, <2>6
<1>10. PICK a \in Candidates(cluster) : s[1] = Entry(cluster, spelled(a))
  BY <1>7, <1>9
<1>11. ASSUME spelled(a) # w PROVE FALSE
  <2>1. a \in Spelling(cluster, spelled(a))
    BY DEF Spelling, spelled
  <2>2. Entry(cluster, spelled(a)).points < Entry(cluster, w).points
    <3> PICK v : v = spelled(a)
      OBVIOUS
    <3> QED
      BY <1>11, <2>1, Outscored
  <2>3. PICK e \in E : e = Entry(cluster, w)
    BY <1>5, <1>6
  <2>4. e.points > s[1].points
    BY <1>10, <2>2, <2>3
  <2>5. \E j \in 1..(1 - 1) : s[j] = e
    BY <1>8, <1>9, <2>4 DEF Rankings
  <2> QED
    BY <2>5
<1>12. Entry(cluster, spelled(a)).plate.word = spelled(a)
  BY EntryKeepsWord DEF spelled
<1> QED
  BY <1>3, <1>10, <1>11, <1>12

(* What the plates P of several analyses are combined to: plates apart,    *)
(* among them one for every confident reading; what all P read first comes *)
(* first.                                                                  *)
Apart(R) == \A i, j \in DOMAIN R : i # j => ~Overlap(R[i].place, R[j].place)

Survive(R, P) ==
  \A p \in P : \A k \in DOMAIN p.top :
    Counts(p.top[k]) =>
      \E q \in ToSet(R) : /\ Tied(p.place, q.place, PlacesOf(P))
                          /\ p.top[k].word \in Words(q) \/ Len(q.top) = TopN

Agree(R, P) ==
  \A v : (\A p \in P : First(p, v)) => \A q \in ToSet(R) : q.bestPlate.word = v

LEMMA ClustersCombined ==
  ASSUME NEW P, NEW cs, Clustering(cs, P, P), \A p \in P : Legible(p) /\ Scored(p),
         NEW f, DOMAIN f = DOMAIN cs, \A c \in DOMAIN cs : f[c] \in Combined(cs[c]),
         f = [c \in DOMAIN f |-> f[c]], NEW R, R = FlattenSeq(f)
  PROVE  (\E S : R \in Seq(S)) /\ Apart(R) /\ Survive(R, P) /\ Agree(R, P)
<1> DEFINE T == {f[c][1] : c \in DOMAIN f}
<1>1. /\ Len(cs) \in Nat /\ DOMAIN cs = 1 .. Len(cs)
      /\ \A c \in DOMAIN cs : /\ cs[c] \in Seq(P) /\ Len(cs[c]) \in Nat
                              /\ DOMAIN cs[c] = 1 .. Len(cs[c])
                              /\ \A k \in DOMAIN cs[c] : cs[c][k] \in P
  BY SeqParts DEF Clustering
<1>2. \A c \in DOMAIN cs : Represents(f[c], cs[c])
  BY <1>1, CombinedAre
<1>3. \A c \in DOMAIN cs : f[c] \in Seq(T)
  <2> SUFFICES ASSUME NEW c \in DOMAIN cs PROVE f[c] \in Seq(T)
    OBVIOUS
  <2>1. f[c] = <<>> \/ f[c] = <<f[c][1]>>
    BY <1>2 DEF Represents
  <2>2. PICK t : t = f[c][1]
    OBVIOUS
  <2>3. t \in T
    BY <2>2
  <2> HIDE DEF T
  <2>4. <<>> \in Seq(T) /\ <<t>> \in Seq(T)
    BY <2>3
  <2> QED
    BY <2>1, <2>2, <2>4
<1>4. f \in Seq(Seq(T))
  <2> HIDE DEF T
  <2>1. f \in [1 .. Len(cs) -> Seq(T)]
    BY <1>1, <1>3
  <2> QED
    BY <1>1, <2>1, SeqMade
<1> HIDE DEF T
<1>6. R \in Seq(T) /\ \E w : Whence(w, R, f, Places(f))
  BY <1>4, FlattenPlaces
<1>7. PICK w : Whence(w, R, f, Places(f))
  BY <1>6
<1>8. ASSUME NEW c \in DOMAIN cs
      PROVE  \A k : k \in DOMAIN f[c] <=> (f[c] # <<>> /\ k = 1)
  <2>1. f[c] = <<>> \/ f[c] = <<f[c][1]>>
    BY <1>2 DEF Represents
  <2>2. PICK t : t = f[c][1]
    OBVIOUS
  <2>3. DOMAIN <<t>> = {1} /\ DOMAIN <<>> = {} /\ <<t>> # <<>>
    OBVIOUS
  <2> QED
    BY <2>1, <2>2, <2>3
<1>9. ASSUME NEW i \in DOMAIN R
      PROVE  /\ w[i] = <<w[i][1], 1>> /\ w[i][1] \in DOMAIN cs /\ f[w[i][1]] # <<>>
             /\ R[i] = f[w[i][1]][1] /\ R[i].place = cs[w[i][1]][1].place
  <2>1. w[i] \in Places(f) /\ R[i] = f[w[i][1]][w[i][2]]
    BY <1>7 DEF Whence
  <2>2. /\ w[i][1] \in DOMAIN cs /\ w[i][2] \in DOMAIN f[w[i][1]]
        /\ w[i] = <<w[i][1], w[i][2]>>
    BY <2>1 DEF Places
  <2>3. PICK c \in DOMAIN cs : c = w[i][1]
    BY <2>2
  <2>4. f[c] # <<>> /\ w[i][2] = 1
    BY <1>8, <2>2, <2>3
  <2>5. f[c][1].place = cs[c][1].place
    BY <1>2, <2>4 DEF Represents
  <2> QED
    BY <2>1, <2>2, <2>3, <2>4, <2>5
<1>10. Apart(R)
  <2> SUFFICES ASSUME NEW i \in DOMAIN R, NEW j \in DOMAIN R, i # j
               PROVE  ~Overlap(R[i].place, R[j].place)
    BY DEF Apart
  <2>1. w[i] # w[j]
    BY <1>7 DEF Whence
  <2>2. PICK c \in DOMAIN cs, d \in DOMAIN cs : c = w[i][1] /\ d = w[j][1]
    BY <1>9
  <2>3. c # d
    BY <1>9, <2>1, <2>2
  <2>4. R[i].place = cs[c][1].place /\ R[j].place = cs[d][1].place
    BY <1>9, <2>2
  <2> QED
    BY <2>3, <2>4 DEF Clustering
<1>11. ASSUME NEW p \in P, NEW k \in DOMAIN p.top, Counts(p.top[k])
       PROVE  \E q \in ToSet(R) : /\ Tied(p.place, q.place, PlacesOf(P))
                                  /\ p.top[k].word \in Words(q) \/ Len(q.top) = TopN
  <2>1. PICK c \in DOMAIN cs : \E j \in DOMAIN cs[c] : cs[c][j] = p
    BY DEF Clustering
  <2>2. PICK j \in DOMAIN cs[c] : cs[c][j] = p
    BY <2>1
  <2>3. k \in 1..TopN /\ k <= Len(p.top)
    <3>1. Legible(p)
      OBVIOUS
    <3>2. PICK S : p.top \in Seq(S)
      BY <3>1 DEF Legible
    <3>3. Len(p.top) <= TopN
      BY <3>1 DEF Legible
    <3>4. Len(p.top) \in Nat /\ k \in 1 .. Len(p.top)
      BY <3>2
    <3> QED
      BY <3>3, <3>4, ReadingAssumption
  <2>4. PICK x : x = <<j, k>>
    OBVIOUS
  <2>5. x[1] = j /\ x[2] = k
    BY <2>4
  <2>6. x \in Candidates(cs[c])
    <3>1. x \in (DOMAIN cs[c]) \X (1..TopN)
      BY <2>3, <2>4
    <3> QED
      BY <1>11, <2>2, <2>3, <2>5, <3>1 DEF Candidates
  <2>7. /\ f[c] # <<>> /\ f[c][1].place = cs[c][1].place
        /\ p.top[k].word \in Words(f[c][1]) \/ Len(f[c][1].top) = TopN
    <3>1. f[c] = <<f[c][1]>>
      BY <1>2, <2>6 DEF Represents
    <3>2. f[c] # <<>>
      <4>1. PICK t : t = f[c][1]
        OBVIOUS
      <4>2. <<t>> # <<>>
        OBVIOUS
      <4> QED
        BY <3>1, <4>1, <4>2
    <3> QED
      BY <1>2, <2>2, <2>5, <2>6, <3>2 DEF Represents
  <2>8. <<c, 1>> \in Places(f)
    <3>1. 1 \in DOMAIN f[c] /\ c \in DOMAIN f
      BY <1>8, <2>7
    <3> QED
      BY <3>1 DEF Places
  <2>9. PICK i \in DOMAIN R : w[i] = <<c, 1>>
    BY <1>7, <2>8 DEF Whence
  <2>10. R[i] = f[c][1]
    BY <1>9, <2>9
  <2>11. R[i] \in ToSet(R)
    BY DEF ToSet
  <2>12. Tied(p.place, R[i].place, PlacesOf(P))
    BY <2>2, <2>7, <2>10 DEF Clustering
  <2> QED
    BY <2>7, <2>10, <2>11, <2>12
<1>12. ASSUME NEW v, \A p \in P : First(p, v), NEW q \in ToSet(R)
       PROVE  q.bestPlate.word = v
  <2>1. PICK i \in DOMAIN R : R[i] = q
    BY DEF ToSet
  <2>2. PICK c \in DOMAIN cs : c = w[i][1]
    BY <1>9
  <2>3. f[c] # <<>> /\ q = f[c][1] /\ f[c] \in Combined(cs[c]) /\ cs[c] \in Seq(P)
    BY <1>1, <1>9, <2>1, <2>2
  <2>4. PICK x \in Combined(cs[c]) : x = f[c]
    BY <2>3
  <2>5. x[1].bestPlate.word = v
    BY <1>12, <2>3, <2>4, UnanimousFirst
  <2> QED
    BY <2>3, <2>4, <2>5
<1> QED
  BY <1>6, <1>10, <1>11, <1>12 DEF Survive, Agree

LEMMA AnalysesCombined ==
  ASSUME NEW P, NEW found \in Seq(Seq(P)), \A p \in P : Legible(p) /\ Scored(p),
         Len(found) # 1, NEW R \in Aggregates("combine", found),
         NEW Q, Q = ToSet(FlattenSeq(found))
  PROVE  (\E S : R \in Seq(S)) /\ Apart(R) /\ Survive(R, Q) /\ Agree(R, Q)
<1>1. PICK flat : flat = FlattenSeq(found)
  OBVIOUS
<1>2. flat \in Seq(P) /\ flat \in Seq(Q) /\ Q \subseteq P /\ Q = {flat[i] : i \in DOMAIN flat}
  <2>1. flat \in Seq(P)
    BY <1>1, FlattenTyped
  <2>2. Q = {flat[i] : i \in DOMAIN flat}
    BY <1>1 DEF ToSet
  <2>3. flat \in [1 .. Len(flat) -> Q] /\ Len(flat) \in Nat /\ Q \subseteq P
    BY <2>1, <2>2
  <2> QED
    BY <2>1, <2>2, <2>3, SeqMade
<1> PICK cs : cs = Clusters(found)
  OBVIOUS
<1>3. Clustering(cs, Q, Q)
  <2>1. Clustering(Clusters(found), {flat[i] : i \in DOMAIN flat}, Q)
    BY <1>1, <1>2, ClustersAre
  <2> QED
    BY <1>2, <2>1
<1> DEFINE o == [c \in DOMAIN cs |-> Combined(cs[c])]
<1>4. PICK f \in [DOMAIN o -> UNION Range(o)] :
        (\A c \in DOMAIN o : f[c] \in o[c]) /\ R = FlattenSeq(f)
  <2>1. \A c : Merge("combine", cs[c]) = Combined(cs[c])
    BY DEF Merge
  <2> DEFINE O == {[c \in DOMAIN ds |-> Merge("combine", ds[c])] : ds \in {Clusters(found)}}
             Fs(options) == {g \in [DOMAIN options -> UNION Range(options)] :
                               \A c \in DOMAIN options : g[c] \in options[c]}
  <2>2. Aggregates("combine", found) = UNION {{FlattenSeq(f) : f \in Fs(options)} : options \in O}
    BY DEF Aggregates
  <2>3. \A options \in O : options = o
    BY <2>1
  <2> HIDE DEF O, o, Fs
  <2>4. PICK f \in Fs(o) : R = FlattenSeq(f)
    BY <2>2, <2>3
  <2> QED
    BY <2>4 DEF Fs
<1>5. DOMAIN f = DOMAIN cs /\ f = [c \in DOMAIN f |-> f[c]]
  OBVIOUS
<1>6. \A c \in DOMAIN cs : f[c] \in Combined(cs[c])
  BY <1>4
<1>7. \A p \in Q : Legible(p) /\ Scored(p)
  BY <1>2
<1> HIDE DEF o
<1> QED
  BY <1>3, <1>4, <1>5, <1>6, <1>7, ClustersCombined

(* The plates of a country's analyses so far, of which there are as many   *)
(* as there should be when they are combined.                              *)
AnalysesInv ==
  /\ \E S : analyses \in Seq(Seq(S)) /\ \A p \in S : Legible(p) /\ Scored(p)
  /\ stage \in {"detect", "next", "read"} => Len(analyses) < task.analyses
  /\ stage = "combine" => Len(analyses) = task.analyses
  /\ \E S : merged \in Seq(S)

LEMMA AnalysisEnds ==
  ASSUME task \in Tasks, PlatesInv, AnalysesInv, EndAnalysis
  PROVE  AnalysesInv'
<1>1. /\ analyses' = Append(analyses, plates) /\ stage = "next"
      /\ stage' = IF Len(analyses') < task.analyses THEN "detect" ELSE "combine"
      /\ UNCHANGED <<task, merged>>
  BY DEF EndAnalysis
<1>2. PICK S : analyses \in Seq(Seq(S)) /\ \A p \in S : Legible(p) /\ Scored(p)
  BY DEF AnalysesInv
<1>3. PICK T : plates \in Seq(T)
  BY DEF PlatesInv
<1> DEFINE U == S \cup {plates[k] : k \in DOMAIN plates}
<1>4. \A p \in U : Legible(p) /\ Scored(p)
  BY <1>2 DEF PlatesInv
<1>5. plates \in Seq(U)
  <2>1. plates \in [1 .. Len(plates) -> U] /\ Len(plates) \in Nat
    BY <1>3
  <2> QED
    BY <2>1, SeqMade
<1>6. analyses \in Seq(Seq(U))
  <2>1. /\ Len(analyses) \in Nat /\ DOMAIN analyses = 1 .. Len(analyses)
        /\ \A i \in DOMAIN analyses : analyses[i] \in Seq(S)
        /\ analyses = [i \in 1 .. Len(analyses) |-> analyses[i]]
    BY <1>2
  <2>2. S \subseteq U
    OBVIOUS
  <2> HIDE DEF U
  <2>3. ASSUME NEW i \in DOMAIN analyses PROVE analyses[i] \in Seq(U)
    <3>1. PICK q \in Seq(S) : q = analyses[i]
      BY <2>1
    <3>2. q \in [1 .. Len(q) -> U] /\ Len(q) \in Nat
      BY <2>2
    <3> QED
      BY <3>1, <3>2, SeqMade
  <2>4. analyses \in [1 .. Len(analyses) -> Seq(U)]
    BY <2>1, <2>3
  <2> QED
    BY <2>1, <2>4, SeqMade
<1> HIDE DEF U
<1>7. analyses' \in Seq(Seq(U)) /\ Len(analyses') = Len(analyses) + 1
  BY <1>1, <1>5, <1>6, SeqLonger
<1>8. Len(analyses) \in Nat /\ task.analyses \in Nat /\ Len(analyses) < task.analyses
  BY <1>1, <1>6, TasksAssumption DEF AnalysesInv
<1>9. /\ stage' = "detect" => Len(analyses') < task.analyses
      /\ stage' = "combine" => Len(analyses') = task.analyses
      /\ stage' \in {"detect", "combine"}
  BY <1>1, <1>7, <1>8
<1> QED
  BY <1>1, <1>4, <1>7, <1>9 DEF AnalysesInv

LEMMA AnalysesCounted == RecognitionSpec => []AnalysesInv
<1>1. RecognitionInit => AnalysesInv
  <2> SUFFICES ASSUME RecognitionInit PROVE AnalysesInv
    OBVIOUS
  <2>1. analyses = <<>> /\ merged = <<>> /\ stage = "detect" /\ task \in Tasks
    BY DEF RecognitionInit
  <2>2. <<>> \in Seq({}) /\ <<>> \in Seq(Seq({})) /\ Len(<<>>) = 0
    OBVIOUS
  <2>3. task.analyses \in Nat \ {0}
    BY <2>1, TasksAssumption
  <2>4. analyses \in Seq(Seq({})) /\ \A p \in {} : Legible(p) /\ Scored(p)
    BY <2>1, <2>2
  <2>5. Len(analyses) < task.analyses
    BY <2>1, <2>2, <2>3
  <2>6. \E S : analyses \in Seq(Seq(S)) /\ \A p \in S : Legible(p) /\ Scored(p)
    BY ONLY <2>4
  <2>7. \E S : merged \in Seq(S)
    BY <2>1, <2>2
  <2> QED
    BY <2>1, <2>5, <2>6, <2>7 DEF AnalysesInv
<1>2. RegionsInv /\ PlatesInv /\ AnalysesInv /\ [RecognitionNext]_allvars => AnalysesInv'
  <2> SUFFICES ASSUME RegionsInv, PlatesInv, AnalysesInv, [RecognitionNext]_allvars
               PROVE  AnalysesInv'
    OBVIOUS
  <2>1. CASE EndAnalysis
    BY <2>1, AnalysisEnds DEF RegionsInv
  <2>2. CASE CombineAnalyses
    <3>1. PICK R : merged' = Append(merged, R)
      BY <2>2 DEF CombineAnalyses
    <3>2. PICK S : merged \in Seq(S)
      BY DEF AnalysesInv
    <3>3. merged \in Seq(S \cup {R})
      <4>1. merged \in [1 .. Len(merged) -> S \cup {R}] /\ Len(merged) \in Nat
        BY <3>2
      <4> QED
        BY <4>1, SeqMade
    <3>4. merged' \in Seq(S \cup {R})
      BY <3>1, <3>3, SeqLonger
    <3>5. stage' = "merged" /\ UNCHANGED <<task, analyses>>
      BY <2>2 DEF CombineAnalyses
    <3> QED
      BY <3>4, <3>5 DEF AnalysesInv
  <2>3. CASE NextCountry
    <3>1. /\ UNCHANGED <<task, merged>>
          /\ \/ analyses' = <<>> /\ stage' = "detect"
             \/ UNCHANGED analyses /\ stage' = "done"
      BY <2>3 DEF NextCountry
    <3>2. <<>> \in Seq(Seq({})) /\ Len(<<>>) = 0
      OBVIOUS
    <3>3. task.analyses \in Nat \ {0}
      BY TasksAssumption DEF RegionsInv
    <3>4. 0 < task.analyses /\ <<>> \in Seq(Seq({})) /\ \A p \in {} : Legible(p) /\ Scored(p)
      BY <3>2, <3>3
    <3>5. CASE analyses' = <<>> /\ stage' = "detect"
      <4>1. /\ analyses' \in Seq(Seq({})) /\ \A p \in {} : Legible(p) /\ Scored(p)
        BY <3>2, <3>4, <3>5
      <4>2. \E S : analyses' \in Seq(Seq(S)) /\ \A p \in S : Legible(p) /\ Scored(p)
        BY ONLY <4>1
      <4>3. Len(analyses') < task'.analyses
        BY <3>1, <3>2, <3>4, <3>5
      <4> QED
        BY <3>1, <3>5, <4>2, <4>3 DEF AnalysesInv
    <3>6. CASE UNCHANGED analyses /\ stage' = "done"
      BY <3>1, <3>6 DEF AnalysesInv
    <3> QED
      BY <3>1, <3>5, <3>6
  <2>4. CASE Detect \/ Disqualify \/ BeginReading \/ EndReading
    <3>1. /\ UNCHANGED <<task, analyses, merged>>
          /\ stage \in {"detect", "next", "read"} /\ stage' \in {"next", "read"}
      BY <2>4 DEF Detect, Disqualify, BeginReading, EndReading
    <3> QED
      BY <3>1 DEF AnalysesInv
  <2>5. CASE Reading \/ UNCHANGED allvars
    <3>1. UNCHANGED <<task, stage, analyses, merged>>
      BY <2>5 DEF Reading, allvars, recvars
    <3> QED
      BY <3>1 DEF AnalysesInv
  <2> QED
    BY <2>1, <2>2, <2>3, <2>4, <2>5 DEF RecognitionNext
<1> QED
  BY <1>1, <1>2, RegionsTracked, PlatesLegible, PTL DEF RecognitionSpec

(* The analyses that have just been combined.                              *)
CombinedInv ==
  JustCombined =>
    LET Q == ToSet(FlattenSeq(analyses)) IN
      Apart(Result) /\ Survive(Result, Q) /\ Agree(Result, Q)

LEMMA AnalysesAreCombined == RecognitionSpec => []CombinedInv
<1>1. RecognitionInit => CombinedInv
  BY DEF RecognitionInit, CombinedInv, JustCombined
<1>2. AnalysesInv /\ CombinedInv /\ [RecognitionNext]_allvars => CombinedInv'
  <2> SUFFICES ASSUME AnalysesInv, CombinedInv, [RecognitionNext]_allvars
               PROVE  CombinedInv'
    OBVIOUS
  <2>1. CASE CombineAnalyses
    <3> SUFFICES ASSUME task.analyses > 1 PROVE CombinedInv'
      BY <2>1 DEF CombineAnalyses, CombinedInv, JustCombined
    <3>1. PICK R \in Aggregates("combine", analyses) : merged' = Append(merged, R)
      BY <2>1 DEF CombineAnalyses
    <3>2. PICK Q : Q = ToSet(FlattenSeq(analyses))
      OBVIOUS
    <3>3. Len(analyses) = task.analyses /\ analyses' = analyses
      BY <2>1 DEF CombineAnalyses, AnalysesInv
    <3>4. PICK P : analyses \in Seq(Seq(P)) /\ \A p \in P : Legible(p) /\ Scored(p)
      BY DEF AnalysesInv
    <3>5. Len(analyses) # 1
      BY <3>3, <3>4
    <3>6. Apart(R) /\ Survive(R, Q) /\ Agree(R, Q)
      BY <3>2, <3>4, <3>5, AnalysesCombined
    <3>7. Result' = R
      <4>1. PICK S : merged \in Seq(S)
        BY DEF AnalysesInv
      <4>2. merged \in Seq(S \cup {R})
        <5>1. merged \in [1 .. Len(merged) -> S \cup {R}] /\ Len(merged) \in Nat
          BY <4>1
        <5> QED
          BY <5>1, SeqMade
      <4>3. merged'[Len(merged')] = R
        BY <3>1, <4>2, SeqLonger
      <4> QED
        BY <4>3 DEF Result, Last
    <3>8. Q = ToSet(FlattenSeq(analyses'))
      BY <3>2, <3>3
    <3>9. Apart(Result') /\ Survive(Result', Q) /\ Agree(Result', Q)
      BY <3>6, <3>7
    <3> QED
      BY <3>8, <3>9 DEF CombinedInv, Apart, Survive, Agree
  <2>2. CASE Reading \/ UNCHANGED allvars
    <3>1. UNCHANGED <<task, stage, analyses, merged>>
      BY <2>2 DEF Reading, allvars, recvars
    <3> QED
      BY <3>1 DEF CombinedInv, JustCombined, Apart, Survive, Agree, Result, Last
  <2>3. CASE \/ Detect \/ Disqualify \/ BeginReading \/ EndReading
             \/ EndAnalysis \/ NextCountry
    <3>1. stage' # "merged"
      BY <2>3 DEF Detect, Disqualify, BeginReading, EndReading, EndAnalysis, NextCountry
    <3> QED
      BY <3>1 DEF CombinedInv, JustCombined
  <2> QED
    BY <2>1, <2>2, <2>3 DEF RecognitionNext
<1> QED
  BY <1>1, <1>2, AnalysesCounted, PTL DEF RecognitionSpec

(* No two plates of a result overlap, whatever the analyses have found.    *)
THEOREM PlatesAreApart == RecognitionSpec => []PlatesApart
<1>1. CombinedInv => PlatesApart
  BY DEF CombinedInv, PlatesApart, Apart
<1> QED
  BY <1>1, AnalysesAreCombined, PTL

(* No confident reading is lost: it is among the readings of a plate that  *)
(* a chain of overlapping plates leads to, unless these are full.          *)
THEOREM ReadingsSurvive == RecognitionSpec => []ConfidentReadingsSurvive
<1>1. CombinedInv => ConfidentReadingsSurvive
  <2> DEFINE Q == ToSet(FlattenSeq(analyses))
  <2> SUFFICES ASSUME Survive(Result, Q), NEW p \in Q, NEW k \in DOMAIN p.top,
                      Counts(p.top[k])
               PROVE  \E q \in ToSet(Result) :
                        /\ Linked(p.place, q.place)
                        /\ p.top[k].word \in Words(q) \/ Len(q.top) = TopN
    BY DEF CombinedInv, ConfidentReadingsSurvive
  <2>1. PICK q \in ToSet(Result) : /\ Tied(p.place, q.place, PlacesOf(Q))
                                   /\ p.top[k].word \in Words(q) \/ Len(q.top) = TopN
    BY DEF Survive
  <2>2. Linked(p.place, q.place)
    BY <2>1 DEF Linked, Tied, PlacesOf
  <2> QED
    BY <2>1, <2>2
<1> QED
  BY <1>1, AnalysesAreCombined, PTL

(* What all plates of all analyses read first, with confidence and to the  *)
(* pattern, comes first in what they are combined to: other readings earn  *)
(* fewer points from every plate.                                          *)
THEOREM UnanimityWins == RecognitionSpec => []UnanimousWins
<1>1. CombinedInv => UnanimousWins
  BY DEF CombinedInv, UnanimousWins, Agree, First
<1> QED
  BY <1>1, AnalysesAreCombined, PTL

---------------------------------------------------------------------------
(* The only region of a country.                                           *)

(* A state without patterns is reported for c.                             *)
Reported(c) == \E s \in task.states : CountryOf[s.state] = c /\ s.state \notin DOMAIN Patterns

(* One region and no surprises, so far.                                    *)
OneRegion(c) == Cardinality(Loaded(c)) = 1 /\ ~Reported(c)

(* As long as none is, a country with one region has no other in the map,  *)
(* nor in use; and a region that is looked up belongs to the country.      *)
OnlyInv ==
  /\ task \in Tasks /\ country \in DOMAIN task.countries
  /\ DOMAIN Patterns \subseteq DOMAIN rules
  /\ \E S : plates \in Seq(S)
  /\ \A c : OneRegion(c) => PatternsOf(c) = Loaded(c)
  /\ \A k \in DOMAIN plates :
       OneRegion(plates[k].country) => plates[k].region \in Loaded(plates[k].country)
  /\ stage = "read" =>
       LET c == task.countries[country] IN
         /\ region = NoRegion \/ CountryOf[region] = c
         /\ OneRegion(c) => region \in Loaded(c)

LEMMA RulesGrow ==
  ASSUME NEW pick
  PROVE  /\ DOMAIN rules \subseteq DOMAIN RulesAfter(pick)
         /\ \A r \in DOMAIN RulesAfter(pick) :
              r \in DOMAIN rules \/ (r = region /\ region # NoRegion)
BY DEF RulesAfter

(* The region that a plate is read by without a state.                     *)
LEMMA UsualIsOwn ==
  ASSUME OnlyInv, NEW c, c = task.countries[country]
  PROVE  /\ UsualRegion = NoRegion \/ CountryOf[UsualRegion] = c
         /\ OneRegion(c) => UsualRegion \in Loaded(c)
<1>1. c \in DOMAIN DefaultRegion
  <2>1. task.countries \in Seq(DOMAIN DefaultRegion) /\ country \in DOMAIN task.countries
    BY TasksAssumption DEF OnlyInv
  <2> QED
    BY <2>1, SeqParts
<1>2. DefaultRegion[c] = NoRegion \/ CountryOf[DefaultRegion[c]] = c
  BY <1>1, TasksAssumption
<1>3. CASE Cardinality(PatternsOf(c)) = 1
  <2>1. PatternsOf(c) # {}
    BY <1>3, FS_EmptySet
  <2>2. UsualRegion \in PatternsOf(c)
    <3>1. UsualRegion = CHOOSE r \in PatternsOf(c) : TRUE
      BY <1>3 DEF UsualRegion
    <3> QED
      BY <2>1, <3>1
  <2> QED
    BY <2>2 DEF PatternsOf, OnlyInv
<1>4. CASE Cardinality(PatternsOf(c)) # 1
  <2>1. UsualRegion = DefaultRegion[c]
    BY <1>4 DEF UsualRegion
  <2>2. ~OneRegion(c)
    BY <1>4 DEF OnlyInv, OneRegion
  <2> QED
    BY <1>2, <2>1, <2>2
<1> QED
  BY <1>3, <1>4

(* A country with patterns for a single region has its plates read by      *)
(* them, unless a state without patterns is reported for it.               *)
THEOREM OnlyRegion == RecognitionSpec => []OnlyRegionIsUsed
<1>1. RecognitionInit => OnlyInv
  <2> SUFFICES ASSUME RecognitionInit PROVE OnlyInv
    OBVIOUS
  <2>1. rules = Patterns /\ plates = <<>> /\ stage = "detect" /\ task \in Tasks /\ country = 1
    BY DEF RecognitionInit, ReadingInit
  <2>2. plates \in Seq({})
    BY <2>1
  <2>3. 1 \in DOMAIN task.countries
    <3>1. task.countries \in Seq(DOMAIN DefaultRegion) /\ task.countries # <<>>
      BY <2>1, TasksAssumption
    <3> QED
      BY <3>1
  <2>4. \A c : PatternsOf(c) = Loaded(c)
    BY <2>1 DEF PatternsOf, Loaded
  <2> QED
    BY <2>1, <2>2, <2>3, <2>4 DEF OnlyInv
<1>2. OnlyInv /\ [RecognitionNext]_allvars => OnlyInv'
  <2> SUFFICES ASSUME OnlyInv, [RecognitionNext]_allvars PROVE OnlyInv'
    OBVIOUS
  <2>0. ASSUME rules' = rules, task' = task
        PROVE  \A c : PatternsOf(c)' = PatternsOf(c) /\ OneRegion(c)' = OneRegion(c)
    BY <2>0 DEF PatternsOf, OneRegion, Reported, Loaded
  <2>1. CASE Detect
    <3>1. /\ plates' = <<>> /\ stage' = "next" /\ rules' = rules /\ task' = task
          /\ country' = country
      BY <2>1 DEF Detect, readingvars
    <3>2. plates' \in Seq({})
      BY <3>1
    <3> QED
      BY <2>0, <3>1, <3>2 DEF OnlyInv, Loaded
  <2>2. CASE BeginReading
    <3>1. UNCHANGED <<plates, task, country, rules>>
      BY <2>2 DEF BeginReading, Segment
    <3> DEFINE c == task.countries[country]
    <3>2. /\ region' = NoRegion \/ CountryOf[region'] = c
          /\ OneRegion(c) => region' \in Loaded(c)
      <4>1. CASE region' = UsualRegion
        BY <4>1, UsualIsOwn
      <4>2. ASSUME NEW s \in task.states, CountryOf[s.state] = c, region' = s.state
            PROVE  /\ CountryOf[region'] = c
                   /\ OneRegion(c) => region' \in Loaded(c)
        BY <4>2 DEF OneRegion, Reported, Loaded
      <4> QED
        BY <2>2, <4>1, <4>2 DEF BeginReading
    <3> QED
      BY <2>0, <3>1, <3>2 DEF OnlyInv, Loaded
  <2>3. CASE Reading
    <3>1. UNCHANGED <<plates, task, country, stage, region>> /\ stage = "read"
      BY <2>3 DEF Reading, recvars, ReadLine, StartSearch, Search, Rank, platevars
    <3>2. /\ DOMAIN rules \subseteq DOMAIN rules'
          /\ \A r \in DOMAIN rules' : r \in DOMAIN rules \/ (r = region /\ region # NoRegion)
      <4>1. rules' = rules \/ \E pick : rules' = RulesAfter(pick)
        BY <2>3 DEF Reading, ReadLine, StartSearch, Search, Rank
      <4> QED
        BY <4>1, RulesGrow
    <3>3. \A c : OneRegion(c)' = OneRegion(c)
      BY <3>1 DEF OneRegion, Reported, Loaded
    <3>4. ASSUME NEW c, OneRegion(c)
          PROVE  PatternsOf(c)' = Loaded(c)
      <4>1. PatternsOf(c) = Loaded(c) /\ PatternsOf(c) \subseteq PatternsOf(c)'
        BY <3>2, <3>4 DEF OnlyInv, PatternsOf
      <4>2. ASSUME NEW r \in DOMAIN rules', CountryOf[r] = c
            PROVE  r \in Loaded(c)
        <5>1. CASE r \in DOMAIN rules
          BY <4>1, <4>2, <5>1 DEF PatternsOf
        <5>2. CASE r = region /\ region # NoRegion
          BY <3>1, <3>4, <4>2, <5>2 DEF OnlyInv
        <5> QED
          BY <3>2, <5>1, <5>2
      <4> QED
        BY <4>1, <4>2 DEF PatternsOf
    <3> QED
      BY <3>1, <3>2, <3>3, <3>4 DEF OnlyInv, Loaded
  <2>4. CASE EndReading
    <3>1. /\ UNCHANGED <<rules, region, task, country>>
          /\ stage = "read" /\ stage' = "next"
      BY <2>4 DEF EndReading, platevars
    <3>2. plates' = plates \/ plates' = Append(plates, PlateRead)
      BY <2>4 DEF EndReading
    <3>3. PICK S : plates \in Seq(S)
      BY DEF OnlyInv
    <3>4. CASE plates' = plates
      BY <2>0, <3>1, <3>4 DEF OnlyInv, Loaded
    <3>5. CASE plates' = Append(plates, PlateRead)
      <4> DEFINE new == PlateRead
      <4>1. new.country = task.countries[country] /\ new.region = region
        BY DEF PlateRead
      <4> HIDE DEF new
      <4>2. plates' \in Seq(S \cup {new})
        BY <3>3, <3>5 DEF new
      <4>3. \A k \in DOMAIN plates' : \/ k \in DOMAIN plates /\ plates'[k] = plates[k]
                                      \/ plates'[k] = new
        BY <3>3, <3>5 DEF new
      <4> QED
        BY <2>0, <3>1, <4>1, <4>2, <4>3 DEF OnlyInv, Loaded
    <3> QED
      BY <3>2, <3>4, <3>5
  <2>5. CASE Disqualify \/ EndAnalysis \/ CombineAnalyses
    <3>1. UNCHANGED <<rules, plates, task, country>> /\ (stage' = "read" => FALSE)
      BY <2>5 DEF Disqualify, EndAnalysis, CombineAnalyses, readingvars
    <3> QED
      BY <2>0, <3>1 DEF OnlyInv, Loaded
  <2>6. CASE NextCountry
    <3>1. UNCHANGED <<rules, plates, task>> /\ (stage' = "read" => FALSE)
      BY <2>6 DEF NextCountry, readingvars
    <3>2. country' \in DOMAIN task.countries
      <4>1. task.countries \in Seq(DOMAIN DefaultRegion) /\ country \in DOMAIN task.countries
        BY TasksAssumption DEF OnlyInv
      <4> QED
        BY <2>6, <4>1 DEF NextCountry
    <3> QED
      BY <2>0, <3>1, <3>2 DEF OnlyInv, Loaded
  <2>7. CASE UNCHANGED allvars
    <3>1. UNCHANGED <<rules, plates, task, country, stage, region>>
      BY <2>7 DEF allvars, recvars, readingvars, platevars
    <3> QED
      BY <2>0, <3>1 DEF OnlyInv, Loaded
  <2> QED
    BY <2>1, <2>2, <2>3, <2>4, <2>5, <2>6, <2>7 DEF RecognitionNext
<1>3. OnlyInv => OnlyRegionIsUsed
  BY DEF OnlyInv, OnlyRegionIsUsed, OneRegion, Reported
<1> QED
  BY <1>1, <1>2, <1>3, PTL DEF RecognitionSpec
=============================================================================
