-------------------------- MODULE PartitionProofs --------------------------
(* Theorems about partition_weighted for any number of Workers, any weights *)
(* and any range, and the lemmas on numbers that all proofs share.          *)
EXTENDS Partition, FiniteSetTheorems, TLAPS

(* The least-number principle, from the well-foundedness of strict          *)
(* inclusion on finite sets: the initial segments 0 .. k stand for the      *)
(* numbers k.                                                               *)
LEMMA LeastNumber ==
    ASSUME NEW K \in SUBSET Nat, K # {}
    PROVE  \E m \in K : \A k \in K : m <= k
<1> DEFINE Segments == {0 .. k : k \in K}
           R == StrictSubsetOrdering(Nat)
<1>1. IsWellFoundedOn(R, FiniteSubsetsOf(Nat))
    BY FS_StrictSubsetOrderingWellFounded
<1>2. Segments \subseteq FiniteSubsetsOf(Nat)
    <2>1. ASSUME NEW k \in K
          PROVE  0 .. k \in SUBSET Nat /\ IsFiniteSet(0 .. k)
        BY FS_Interval
    <2> QED
        BY <2>1 DEF FiniteSubsetsOf
<1>3. Segments # {}
    OBVIOUS
<1>4. \E X \in Segments : \A Y \in Segments : <<Y, X>> \notin R
    <2> HIDE DEF Segments, R
    <2> QED
        BY <1>1, <1>2, <1>3, WFMin
<1>5. PICK m \in K : \A k \in K : <<0 .. k, 0 .. m>> \notin R
    BY <1>4
<1>6. ASSUME NEW k \in K, k < m
      PROVE  FALSE
    <2>1. 0 .. k \in SUBSET Nat /\ 0 .. m \in SUBSET Nat
        OBVIOUS
    <2>2. 0 .. k \subseteq 0 .. m /\ 0 .. k # 0 .. m
        <3>1. m \in 0 .. m /\ m \notin 0 .. k
            BY <1>6
        <3> QED
            BY <1>6, <3>1
    <2>3. <<0 .. k, 0 .. m>> \in R
        BY <2>1, <2>2 DEF StrictSubsetOrdering
    <2> QED
        BY <2>3, <1>5
<1> QED
    BY <1>6

(* What is left of induction without an operator for a parameter: a set    *)
(* that has 0 and with each number the next has them all.                  *)
LEMMA Upwards ==
    ASSUME NEW n \in Nat, NEW P, 0 \in P, \A k \in 1 .. n : k - 1 \in P => k \in P
    PROVE  \A k \in 0 .. n : k \in P
<1> DEFINE Missing == {k \in 0 .. n : k \notin P}
<1> SUFFICES ASSUME Missing # {} PROVE FALSE
  OBVIOUS
<1>1. PICK m \in Missing : \A k \in Missing : m <= k
  <2>1. Missing \in SUBSET Nat
    OBVIOUS
  <2> HIDE DEF Missing
  <2> QED
    BY <2>1, LeastNumber
<1>2. m \in 1 .. n /\ m - 1 \in 0 .. n /\ m - 1 \notin Missing
  BY <1>1
<1> QED
  BY <1>1, <1>2

(* A function that is defined by recursion on 0 .. n exists.               *)
Iterates(f, n, z, G) == f[0] = z /\ \A k \in 1 .. n : f[k] = G[k][f[k - 1]]

LEMMA Recursion ==
    ASSUME NEW n \in Nat, NEW T, NEW z \in T, NEW G \in [1 .. n -> [T -> T]]
    PROVE  \E f \in [0 .. n -> T] : Iterates(f, n, z, G)
<1> DEFINE Upto(m, f) == f \in [0 .. m -> T] /\ f[0] = z /\ \A k \in 1 .. m : f[k] = G[k][f[k - 1]]
           P == {m \in 0 .. n : \E f : Upto(m, f)}
<1>1. 0 \in P
  <2>1. Upto(0, [k \in {0} |-> z])
    <3>1. 0 .. 0 = {0} /\ 1 .. 0 = {}
      OBVIOUS
    <3> QED
      BY <3>1
  <2> HIDE DEF Upto
  <2> QED
    BY <2>1
<1>2. ASSUME NEW m \in 1 .. n, m - 1 \in P PROVE m \in P
  <2>1. PICK f : Upto(m - 1, f)
    BY <1>2
  <2> DEFINE g == [k \in 0 .. m |-> IF k = m THEN G[m][f[m - 1]] ELSE f[k]]
  <2>2. Upto(m, g)
    <3>1. f[m - 1] \in T /\ m - 1 \in 0 .. m - 1 /\ m # 0
      BY <2>1
    <3>2. G[m][f[m - 1]] \in T
      BY <3>1
    <3>3. g \in [0 .. m -> T]
      BY <2>1, <3>2
    <3>4. \A k \in 0 .. m - 1 : g[k] = f[k]
      OBVIOUS
    <3>5. g[m] = G[m][g[m - 1]]
      BY <3>1, <3>4
    <3>6. \A k \in 1 .. m - 1 : g[k] = G[k][g[k - 1]]
      BY <2>1, <3>4
    <3> QED
      BY <2>1, <3>1, <3>3, <3>4, <3>5, <3>6
  <2> HIDE DEF g, Upto
  <2> QED
    BY <2>2
<1>3. n \in P
  <2> HIDE DEF P
  <2>1. \A k \in 0 .. n : k \in P
    BY <1>1, <1>2, Upwards
  <2> QED
    BY <2>1
<1>4. PICK f : Upto(n, f)
  <2> HIDE DEF Upto
  <2> QED
    BY <1>3
<1> QED
  BY <1>4 DEF Iterates

(* Integer division by a positive number is monotone. *)
LEMMA DivMonotone ==
    ASSUME NEW T \in Nat \ {0}, NEW x \in Int, NEW y \in Int, x <= y
    PROVE  x \div T <= y \div T
<1> DEFINE p == x \div T
           q == y \div T
<1>1. p \in Int /\ q \in Int
    OBVIOUS
<1>2. T * p <= x /\ y < T * q + T
    OBVIOUS
<1>3. T * p < T * (q + 1)
    BY <1>1, <1>2
<1> HIDE DEF p, q
<1>4. p < q + 1
    BY <1>1, <1>3
<1>5. p <= q
    BY <1>1, <1>4
<1> QED
    BY <1>5 DEF p, q

(* A multiple of the divisor is divided without rounding. *)
LEMMA DivExact ==
    ASSUME NEW T \in Nat \ {0}, NEW x \in Int
    PROVE  (x * T) \div T = x
    OBVIOUS

(* The total of the weights is positive. *)
LEMMA TotalPositive ==
    ASSUME NEW b, IsWeighting(b)
    PROVE  b[N] \in Nat \ {0}
<1>1. N - 1 \in Worker /\ N - 1 \in 0 .. N /\ N \in 0 .. N
    BY NAssumption DEF Worker
<1>2. b[N - 1] < b[(N - 1) + 1]
    BY <1>1 DEF IsWeighting
<1>3. (N - 1) + 1 = N
    BY NAssumption
<1> QED
    BY <1>1, <1>2, <1>3 DEF IsWeighting

(* Every cut of a range is an integer. *)
LEMMA CutType ==
    ASSUME NEW b, IsWeighting(b), NEW start \in Int, NEW end \in Int,
           NEW v \in 0 .. N
    PROVE  WorkerStart(b, start, end, v) \in Int
<1>1. b[N] \in Nat \ {0}
    BY TotalPositive
<1>2. b[v] \in Nat
    BY DEF IsWeighting
<1>3. (end - start) * b[v] \in Int
    BY <1>2
<1>4. ((end - start) * b[v]) \div b[N] \in Int
    BY <1>1, <1>3
<1> QED
    BY <1>4 DEF WorkerStart

(* The cuts before and after a Worker's share are integers. *)
LEMMA WorkerStartType ==
    ASSUME NEW b, IsWeighting(b), NEW start \in Int, NEW end \in Int,
           NEW w \in Worker
    PROVE  /\ WorkerStart(b, start, end, w) \in Int
           /\ WorkerEnd(b, start, end, w) \in Int
<1>1. w \in 0 .. N /\ w + 1 \in 0 .. N
    BY NAssumption DEF Worker
<1> QED
    BY <1>1, CutType DEF WorkerEnd

(* Running sums of positive weights never decrease: in a counterexample,    *)
(* the running sum before the least w breaking it is already too small.     *)
LEMMA RunningSumsGrow ==
    ASSUME NEW b, IsWeighting(b), NEW v \in 0 .. N, NEW w \in 0 .. N, v <= w
    PROVE  b[v] <= b[w]
<1> DEFINE K == {k \in 0 .. N : v <= k /\ b[k] < b[v]}
<1> SUFFICES ASSUME K # {} PROVE FALSE
    <2>1. b[v] \in Nat /\ b[w] \in Nat
        BY DEF IsWeighting
    <2> QED
        BY <2>1
<1>1. K \in SUBSET Nat
    BY NAssumption
<1>2. PICK m \in K : \A k \in K : m <= k
    <2> HIDE DEF K
    <2> QED
        BY <1>1, LeastNumber
<1>3. m # v /\ m - 1 \in 0 .. N /\ v <= m - 1 /\ m - 1 \in Worker
    <2>1. b[v] \in Nat
        BY DEF IsWeighting
    <2> QED
        BY <1>2, <2>1, NAssumption DEF Worker
<1>4. b[m - 1] < b[m]
    <2>1. b[m - 1] < b[(m - 1) + 1]
        BY <1>3 DEF IsWeighting
    <2>2. (m - 1) + 1 = m
        BY <1>2, NAssumption
    <2> QED
        BY <2>1, <2>2
<1>5. b[m - 1] \in Nat /\ b[m] \in Nat /\ b[v] \in Nat
    BY <1>2, <1>3 DEF IsWeighting
<1>6. m - 1 \in K
    BY <1>2, <1>3, <1>4, <1>5
<1>7. m \in Int
    BY <1>2, NAssumption
<1> QED
    BY <1>2, <1>6, <1>7

(* The cuts are in the order of the Workers. *)
LEMMA CutsGrow ==
    ASSUME NEW b, IsWeighting(b), NEW start \in Int, NEW end \in Int,
           start <= end, NEW v \in 0 .. N, NEW w \in 0 .. N, v <= w
    PROVE  WorkerStart(b, start, end, v) <= WorkerStart(b, start, end, w)
<1> DEFINE L == end - start
<1>1. b[N] \in Nat \ {0}
    BY TotalPositive
<1>2. b[v] \in Nat /\ b[w] \in Nat /\ b[v] <= b[w]
    BY RunningSumsGrow DEF IsWeighting
<1>3. L \in Nat
    OBVIOUS
<1> HIDE DEF L
<1>4. L * b[v] \in Int /\ L * b[w] \in Int /\ L * b[v] <= L * b[w]
    BY <1>2, <1>3
<1>5. (L * b[v]) \div b[N] <= (L * b[w]) \div b[N]
    BY <1>1, <1>4, DivMonotone
<1>6. (L * b[v]) \div b[N] \in Int /\ (L * b[w]) \div b[N] \in Int
    BY <1>1, <1>4
<1>7. start + (L * b[v]) \div b[N] <= start + (L * b[w]) \div b[N]
    BY <1>5, <1>6
<1> QED
    BY <1>7 DEF WorkerStart, L

(* The first cut is the start of the range and the last its end. *)
LEMMA OuterCuts ==
    ASSUME NEW b, IsWeighting(b), NEW start \in Int, NEW end \in Int
    PROVE  /\ WorkerStart(b, start, end, 0) = start
           /\ WorkerStart(b, start, end, N) = end
<1> DEFINE L == end - start
<1>1. b[N] \in Nat \ {0} /\ b[0] = 0
    BY TotalPositive DEF IsWeighting
<1>2. L \in Int /\ start + L = end
    OBVIOUS
<1> HIDE DEF L
<1>3. (L * b[N]) \div b[N] = L
    BY <1>1, <1>2, DivExact
<1>4. (L * b[0]) \div b[N] = 0
    BY <1>1, <1>2
<1> QED
    BY <1>2, <1>3, <1>4 DEF WorkerStart, L

(* The share of a Worker ends where that of the next starts. *)
LEMMA SharesAdjoin ==
    ASSUME NEW b, IsWeighting(b), NEW start \in Int, NEW end \in Int,
           NEW w \in Worker
    PROVE  WorkerEnd(b, start, end, w) = WorkerStart(b, start, end, w + 1)
    BY OuterCuts DEF WorkerEnd

(* The items the slot of w is given. *)
Share(b, start, end, w) ==
    Items(WorkerStart(b, start, end, w), WorkerEnd(b, start, end, w))

(* partition_weighted loses no item and gives none out twice: whatever the  *)
(* measured weights, the shares of two Workers are disjoint and together    *)
(* they are the whole range.                                                *)
THEOREM SharesTile ==
    ASSUME NEW b, IsWeighting(b), NEW start \in Int, NEW end \in Int,
           start <= end
    PROVE  /\ \A v, w \in Worker : v # w =>
                 Share(b, start, end, v) \cap Share(b, start, end, w) = {}
           /\ UNION {Share(b, start, end, w) : w \in Worker} = Items(start, end)
<1> DEFINE Cut(v) == WorkerStart(b, start, end, v)
           Sh(w) == Share(b, start, end, w)
<1>1. \A v \in 0 .. N : Cut(v) \in Int
    BY CutType
<1>2. \A v, w \in 0 .. N : v <= w => Cut(v) <= Cut(w)
    BY CutsGrow
<1>3. Cut(0) = start /\ Cut(N) = end
    BY OuterCuts
<1>4. \A w \in Worker : Sh(w) = Cut(w) .. Cut(w + 1) - 1
    BY SharesAdjoin DEF Share, Items
<1>5. \A w \in Worker : w \in 0 .. N /\ w + 1 \in 0 .. N
    BY NAssumption DEF Worker
<1> HIDE DEF Cut, Sh
<1>6. ASSUME NEW v \in Worker, NEW w \in Worker, v < w
      PROVE  Sh(v) \cap Sh(w) = {}
    <2>1. v + 1 <= w /\ v \in 0 .. N /\ w \in 0 .. N
        BY <1>6, <1>5 DEF Worker
    <2>2. Cut(v + 1) <= Cut(w)
        BY <1>2, <1>5, <2>1
    <2>3. Cut(v) \in Int /\ Cut(v + 1) \in Int
          /\ Cut(w) \in Int /\ Cut(w + 1) \in Int
        BY <1>1, <1>5, <2>1
    <2> QED
        BY <1>4, <2>2, <2>3
<1>7. ASSUME NEW v \in Worker, NEW w \in Worker, v # w
      PROVE  Sh(v) \cap Sh(w) = {}
    <2>1. v < w \/ w < v
        BY <1>7 DEF Worker
    <2> QED
        BY <2>1, <1>6
<1>8. ASSUME NEW w \in Worker
      PROVE  Sh(w) \subseteq Items(start, end)
    <2>1. w \in 0 .. N /\ w + 1 \in 0 .. N /\ 0 \in 0 .. N /\ N \in 0 .. N
          /\ 0 <= w /\ w + 1 <= N
        BY <1>5, NAssumption DEF Worker
    <2>2. start <= Cut(w) /\ Cut(w + 1) <= end
        BY <1>2, <1>3, <2>1
    <2>3. Cut(w) \in Int /\ Cut(w + 1) \in Int
        BY <1>1, <2>1
    <2> QED
        BY <1>4, <2>2, <2>3 DEF Items
\* The Worker of an item is the one before the first cut beyond the item.
<1>9. ASSUME NEW i \in Items(start, end)
      PROVE  \E w \in Worker : i \in Sh(w)
    <2> DEFINE K == {v \in 0 .. N : i < Cut(v)}
    <2>1. i \in Int /\ start <= i /\ i < end
        BY <1>9 DEF Items
    <2>2. K \in SUBSET Nat
        BY NAssumption
    <2>3. N \in K
        BY <1>3, <2>1, NAssumption
    <2>4. PICK m \in K : \A k \in K : m <= k
        <3> HIDE DEF K
        <3> QED
            BY <2>2, <2>3, LeastNumber
    <2>5. m # 0
        BY <1>3, <2>1, <2>4
    <2>6. m - 1 \in Worker /\ m - 1 \in 0 .. N /\ m \in 0 .. N /\ (m - 1) + 1 = m
        BY <2>4, <2>5, NAssumption DEF Worker
    <2>7. m - 1 \notin K
        BY <2>4, <2>6
    <2>8. Cut(m - 1) <= i /\ i < Cut(m)
        BY <1>1, <2>1, <2>4, <2>6, <2>7
    <2>9. i \in Sh(m - 1)
        BY <1>1, <1>4, <2>1, <2>6, <2>8
    <2> QED
        BY <2>6, <2>9
<1>10. UNION {Sh(w) : w \in Worker} = Items(start, end)
    BY <1>8, <1>9
<1> QED
    BY <1>7, <1>10 DEF Sh
=============================================================================
