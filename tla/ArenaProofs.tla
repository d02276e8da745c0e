---------------------------- MODULE ArenaProofs ----------------------------
(***************************************************************************)
(* What is proved about the shared arena and the layouts in it, for every  *)
(* schema, every size of the buffer and every width of the integers: what  *)
(* is allocated is disjoint and inside the buffer, a Guest loads the       *)
(* layout that its Host wrote, and words that are no header lead nowhere   *)
(* outside the buffer.                                                     *)
(***************************************************************************)
EXTENDS MCClients, TLAPS
Numbers == INSTANCE PartitionProofs WITH N <- 1

(* Recursion and induction over numbers, as PartitionProofs has them.      *)
Iterates(f, n, z, G) == Numbers!Iterates(f, n, z, G)

LEMMA Upwards ==
    ASSUME NEW n \in Nat, NEW P, 0 \in P, \A k \in 1 .. n : k - 1 \in P => k \in P
    PROVE  \A k \in 0 .. n : k \in P
  BY Numbers!Upwards

LEMMA Recursion ==
    ASSUME NEW n \in Nat, NEW T, NEW z \in T, NEW G \in [1 .. n -> [T -> T]]
    PROVE  \E f \in [0 .. n -> T] : Iterates(f, n, z, G)
  BY Numbers!Recursion DEF Iterates

-----------------------------------------------------------------------------
(* Integers that wrap. *)
LEMMA WrapInt == ASSUME NEW n \in Int PROVE Wrap(n) \in Int32
  BY LayoutAssumption DEF Wrap, Int32
LEMMA WrapSame == ASSUME NEW n \in Int32 PROVE Wrap(n) = n
  BY LayoutAssumption DEF Wrap, Int32
LEMMA WrapLow ==
    ASSUME NEW n \in Int, MaxInt < n, n <= 2 * MaxInt + 1 PROVE Wrap(n) < 0
  BY LayoutAssumption DEF Wrap, Int32

-----------------------------------------------------------------------------
(* The header: how many words a field takes, and where they are.           *)
Slots(k) == IF IsSlice(k) THEN 2 ELSE 1

LEMMA SlotsRecursive ==
    /\ Len(Schema) \in Nat \ {0} /\ Fields = 1 .. Len(Schema)
    /\ SlotsBefore \in [1 .. Len(Schema) + 1 -> Nat] /\ SlotsBefore[1] = 0
    /\ \A k \in Fields : SlotsBefore[k + 1] = SlotsBefore[k] + Slots(k)
<1> DEFINE n == Len(Schema)
           G == [k \in 1 .. n |-> [x \in Nat |-> x + Slots(k)]]
<1>1. n \in Nat \ {0} /\ Fields = 1 .. n
  BY LayoutAssumption DEF Fields
<1>2. \A k \in 1 .. n : Slots(k) \in Nat
  BY DEF Slots
<1>3. G \in [1 .. n -> [Nat -> Nat]]
  BY <1>2
<1>4. PICK f \in [0 .. n -> Nat] : f[0] = 0 /\ \A k \in 1 .. n : f[k] = G[k][f[k - 1]]
  <2> HIDE DEF G, n
  <2>1. n \in Nat /\ 0 \in Nat
    BY <1>1
  <2>2. PICK f \in [0 .. n -> Nat] : Iterates(f, n, 0, G)
    BY <1>3, <2>1, Recursion
  <2> QED
    BY <2>2 DEF Iterates, Numbers!Iterates
<1>5. \A k \in 1 .. n : f[k] = f[k - 1] + Slots(k)
  <2>1. \A k \in 1 .. n : k - 1 \in 0 .. n /\ f[k - 1] \in Nat
    BY <1>1, <1>4
  <2>2. \A k \in 1 .. n : \A x \in Nat : G[k][x] = x + Slots(k)
    OBVIOUS
  <2> HIDE DEF G
  <2> QED
    BY <1>4, <2>1, <2>2
<1> DEFINE g == [k \in 1 .. n + 1 |-> f[k - 1]]
<1>6. /\ g \in [1 .. n + 1 -> Nat] /\ g[1] = 0
      /\ \A k \in 1 .. n : g[k + 1] = g[k] + Slots(k)
  <2>1. \A k \in 1 .. n + 1 : k - 1 \in 0 .. n /\ f[k - 1] \in Nat
    BY <1>1, <1>4
  <2>2. \A k \in 1 .. n : k + 1 \in 1 .. n + 1 /\ k \in 1 .. n + 1 /\ (k + 1) - 1 = k
    BY <1>1
  <2>3. 1 \in 1 .. n + 1
    BY <1>1
  <2> QED
    BY <1>4, <1>5, <2>1, <2>2, <2>3
<1>7. g = [k \in 1 .. n + 1 |-> IF k = 1 THEN 0
                                ELSE g[k - 1] + (IF IsSlice(k - 1) THEN 2 ELSE 1)]
  <2>1. ASSUME NEW k \in 1 .. n + 1
        PROVE  g[k] = IF k = 1 THEN 0 ELSE g[k - 1] + (IF IsSlice(k - 1) THEN 2 ELSE 1)
    <3>1. CASE k = 1
      BY <1>6, <3>1
    <3>2. CASE k # 1
      <4>1. k - 1 \in 1 .. n /\ (k - 1) + 1 = k
        BY <1>1, <3>2
      <4>2. g[(k - 1) + 1] = g[k - 1] + Slots(k - 1)
        BY <1>6, <4>1
      <4> QED
        BY <3>2, <4>1, <4>2 DEF Slots
    <3> QED
      BY <3>1, <3>2
  <2>2. g = [k \in 1 .. n + 1 |-> g[k]]
    OBVIOUS
  <2> HIDE DEF g
  <2> QED
    BY <2>1, <2>2
<1> HIDE DEF g
<1>8. SlotsBefore = [k \in 1 .. n + 1 |->
          IF k = 1 THEN 0 ELSE SlotsBefore[k - 1] + (IF IsSlice(k - 1) THEN 2 ELSE 1)]
  BY <1>7 DEF SlotsBefore
<1> HIDE DEF n
<1>9. ASSUME NEW k \in 1 .. n PROVE SlotsBefore[k + 1] = SlotsBefore[k] + Slots(k)
  <2>1. k + 1 \in 1 .. n + 1 /\ k + 1 # 1 /\ (k + 1) - 1 = k
    BY <1>1
  <2> QED
    BY <1>8, <2>1 DEF Slots
<1>10. SlotsBefore[1] = 0 /\ 1 \in 1 .. n + 1
  BY <1>1, <1>8
<1>11. \A k \in 0 .. n : SlotsBefore[k + 1] \in Nat
  <2> DEFINE P == {k \in 0 .. n : SlotsBefore[k + 1] \in Nat}
  <2>1. 0 \in P
    BY <1>1, <1>10
  <2>2. ASSUME NEW k \in 1 .. n, k - 1 \in P PROVE k \in P
    <3>1. SlotsBefore[k] \in Nat
      BY <1>1, <2>2
    <3> QED
      BY <1>1, <1>2, <1>9, <3>1 
  <2> HIDE DEF P
  <2>3. \A k \in 0 .. n : k \in P
    BY <1>1, <2>1, <2>2, Upwards
  <2> QED
    BY <2>3 DEF P
<1>12. SlotsBefore \in [1 .. n + 1 -> Nat]
  <2>1. \A k \in 1 .. n + 1 : k - 1 \in 0 .. n /\ (k - 1) + 1 = k
    BY <1>1
  <2>2. \A k \in 1 .. n + 1 : SlotsBefore[k] \in Nat
    BY <1>11, <2>1
  <2> QED
    BY <1>8, <2>2
<1> QED
  BY <1>1, <1>9, <1>10, <1>12 DEF n

(* The slots of the fields follow one another. *)
LEMMA SlotsGrow ==
    ASSUME NEW j \in 1 .. Len(Schema) + 1, NEW k \in 1 .. Len(Schema) + 1
    PROVE  /\ j <= k => SlotsBefore[j] <= SlotsBefore[k]
           /\ j < k => SlotsBefore[j] < SlotsBefore[k]
<1> DEFINE n == Len(Schema)
           P == {i \in 0 .. n : j <= i + 1 => /\ SlotsBefore[j] <= SlotsBefore[i + 1]
                                              /\ j < i + 1 => SlotsBefore[j] < SlotsBefore[i + 1]}
<1>1. n \in Nat /\ Fields = 1 .. n
  BY SlotsRecursive
<1>2. \A i \in 1 .. n + 1 : SlotsBefore[i] \in Nat
  BY SlotsRecursive
<1>3. 0 \in P
  <2>1. j <= 0 + 1 => j = 0 + 1
    OBVIOUS
  <2> QED
    BY <1>1, <1>2, <2>1
<1>4. ASSUME NEW i \in 1 .. n, i - 1 \in P PROVE i \in P
  <2>1. SlotsBefore[i + 1] > SlotsBefore[i]
    <3>1. Slots(i) \in Nat \ {0} /\ i \in Fields
      BY <1>1 DEF Slots
    <3>2. i \in 1 .. n + 1
      BY <1>1
    <3> QED
      BY <1>2, <3>1, <3>2, SlotsRecursive
  <2>2. /\ i \in 1 .. n + 1 /\ i + 1 \in 1 .. n + 1 /\ (i - 1) + 1 = i /\ i \in 0 .. n
        /\ SlotsBefore[i] \in Nat /\ SlotsBefore[i + 1] \in Nat /\ SlotsBefore[j] \in Nat
    BY <1>1, <1>2
  <2>3. j <= i => SlotsBefore[j] <= SlotsBefore[i]
    <3>1. j <= (i - 1) + 1 => SlotsBefore[j] <= SlotsBefore[(i - 1) + 1]
      BY <1>4
    <3> QED
      BY <2>2, <3>1
  <2>4. j <= i \/ j = i + 1 \/ j > i + 1
    BY <1>1
  <2> QED
    BY <2>1, <2>2, <2>3, <2>4
<1> HIDE DEF P
<1>5. \A i \in 0 .. n : i \in P
  BY <1>1, <1>3, <1>4, Upwards
<1>6. k - 1 \in 0 .. n /\ (k - 1) + 1 = k
  BY <1>1
<1>7. j <= (k - 1) + 1 => /\ SlotsBefore[j] <= SlotsBefore[(k - 1) + 1]
                          /\ j < (k - 1) + 1 => SlotsBefore[j] < SlotsBefore[(k - 1) + 1]
  <2>1. k - 1 \in P
    BY <1>5, <1>6
  <2> QED
    BY <2>1 DEF P
<1> QED
  BY <1>1, <1>2, <1>6, <1>7

(* Every slot of the header belongs to one field. *)
LEMMA SlotOfField ==
    /\ HeaderWords \in Nat \ {0}
    /\ \A s \in 0 .. HeaderWords - 1 :
          \E f \in Fields : SlotsBefore[f] <= s /\ s < SlotsBefore[f + 1]
    /\ \A k \in Fields, s \in Int : SlotsBefore[k] <= s /\ s < SlotsBefore[k + 1] =>
          (CHOOSE f \in Fields : SlotsBefore[f] <= s /\ s < SlotsBefore[f + 1]) = k
    /\ \A k \in Fields : SlotsBefore[k] \in Nat /\ SlotsBefore[k + 1] \in Nat
                         /\ SlotsBefore[k + 1] <= HeaderWords
<1> DEFINE n == Len(Schema)
<1>1. n \in Nat \ {0} /\ Fields = 1 .. n /\ SlotsBefore[1] = 0
  BY SlotsRecursive
<1>2. \A i \in 1 .. n + 1 : SlotsBefore[i] \in Nat
  BY SlotsRecursive
<1> HIDE DEF n
<1>3. HeaderWords \in Nat \ {0} /\ HeaderWords = SlotsBefore[n + 1]
  <2>1. 1 \in 1 .. n + 1 /\ n + 1 \in 1 .. n + 1 /\ 1 < n + 1
    BY <1>1
  <2>2. SlotsBefore[1] < SlotsBefore[n + 1]
    BY <2>1, SlotsGrow DEF n
  <2> QED
    BY <1>1, <1>2, <2>1, <2>2 DEF HeaderWords, n
<1>4. ASSUME NEW s \in 0 .. HeaderWords - 1
      PROVE  \E f \in Fields : SlotsBefore[f] <= s /\ s < SlotsBefore[f + 1]
  <2> DEFINE K == {k \in 1 .. n + 1 : s < SlotsBefore[k]}
  <2>1. K \in SUBSET Nat /\ n + 1 \in K
    BY <1>1, <1>2, <1>3
  <2>2. PICK m \in K : \A k \in K : m <= k
    <3> HIDE DEF K
    <3> QED
      BY <2>1, Numbers!LeastNumber
  <2>3. m \in 1 .. n + 1 /\ m # 1
    BY <1>1
  <2>4. m - 1 \in 1 .. n /\ m - 1 \in 1 .. n + 1 /\ (m - 1) + 1 = m /\ m - 1 \notin K
    BY <1>1, <2>2, <2>3
  <2>5. ~ (s < SlotsBefore[m - 1]) /\ SlotsBefore[m - 1] \in Nat
    BY <1>2, <2>4
  <2> QED
    BY <1>1, <2>4, <2>5
<1>5. ASSUME NEW k \in Fields, NEW s \in Int, SlotsBefore[k] <= s, s < SlotsBefore[k + 1]
      PROVE  (CHOOSE f \in Fields : SlotsBefore[f] <= s /\ s < SlotsBefore[f + 1]) = k
  <2>1. ASSUME NEW f \in Fields, SlotsBefore[f] <= s, s < SlotsBefore[f + 1] PROVE f = k
    <3>1. f \in 1 .. n + 1 /\ f + 1 \in 1 .. n + 1 /\ k \in 1 .. n + 1 /\ k + 1 \in 1 .. n + 1
      BY <1>1
    <3>2. /\ SlotsBefore[f] \in Nat /\ SlotsBefore[f + 1] \in Nat
          /\ SlotsBefore[k] \in Nat /\ SlotsBefore[k + 1] \in Nat
      BY <1>2, <3>1
    <3>3. f + 1 <= k => SlotsBefore[f + 1] <= SlotsBefore[k]
      BY <3>1, SlotsGrow DEF n
    <3>4. k + 1 <= f => SlotsBefore[k + 1] <= SlotsBefore[f]
      BY <3>1, SlotsGrow DEF n
    <3>5. f + 1 <= k \/ k + 1 <= f \/ f = k
      BY <1>1
    <3> QED
      BY <1>5, <2>1, <3>2, <3>3, <3>4, <3>5
  <2> QED
    BY <1>5, <2>1
<1>6. ASSUME NEW k \in Fields
      PROVE  SlotsBefore[k] \in Nat /\ SlotsBefore[k + 1] \in Nat /\ SlotsBefore[k + 1] <= HeaderWords
  <2>1. k \in 1 .. n + 1 /\ k + 1 \in 1 .. n + 1 /\ n + 1 \in 1 .. n + 1 /\ k + 1 <= n + 1
    BY <1>1
  <2>2. SlotsBefore[k + 1] <= SlotsBefore[n + 1]
    BY <2>1, SlotsGrow DEF n
  <2> QED
    BY <1>2, <1>3, <2>1, <2>2
<1> QED
  BY <1>3, <1>4, <1>5, <1>6

(* What write_header stores where: first the offset of a slice, then the   *)
(* length; for a value, the value.                                         *)
LEMMA HeaderOfField ==
    ASSUME NEW layout, NEW k \in Fields
    PROVE  /\ SlotsBefore[k] \in 0 .. HeaderWords - 1
           /\ IsSlice(k) => /\ HeaderWord(layout, SlotsBefore[k]) = layout.offset[k]
                            /\ HeaderWord(layout, SlotsBefore[k] + 1) = layout.args[k]
                            /\ SlotsBefore[k] + 1 \in 0 .. HeaderWords - 1
           /\ ~ IsSlice(k) => HeaderWord(layout, SlotsBefore[k]) = layout.args[k]
<1>1. /\ SlotsBefore[k] \in Nat /\ SlotsBefore[k + 1] \in Nat
      /\ SlotsBefore[k + 1] = SlotsBefore[k] + Slots(k)
      /\ SlotsBefore[k + 1] <= HeaderWords /\ HeaderWords \in Nat
  BY SlotsRecursive, SlotOfField
<1>2. SlotsBefore[k] <= SlotsBefore[k] /\ SlotsBefore[k] < SlotsBefore[k + 1]
  BY <1>1 DEF Slots
<1>3. (CHOOSE f \in Fields : SlotsBefore[f] <= SlotsBefore[k] /\ SlotsBefore[k] < SlotsBefore[f + 1]) = k
  BY <1>1, <1>2, SlotOfField
<1>4. ASSUME IsSlice(k)
      PROVE  /\ SlotsBefore[k] <= SlotsBefore[k] + 1 /\ SlotsBefore[k] + 1 < SlotsBefore[k + 1]
             /\ SlotsBefore[k] + 1 \in Int /\ SlotsBefore[k] + 1 # SlotsBefore[k]
  BY <1>1, <1>4 DEF Slots
<1>5. IsSlice(k) =>
        (CHOOSE f \in Fields : /\ SlotsBefore[f] <= SlotsBefore[k] + 1
                               /\ SlotsBefore[k] + 1 < SlotsBefore[f + 1]) = k
  BY <1>4, SlotOfField
<1>6. SlotsBefore[k] \in 0 .. HeaderWords - 1
      /\ (IsSlice(k) => SlotsBefore[k] + 1 \in 0 .. HeaderWords - 1)
  BY <1>1, <1>2, <1>4
<1> QED
  BY <1>3, <1>4, <1>5, <1>6 DEF HeaderWord

-----------------------------------------------------------------------------
(* The ends of the slices, as the generated code computes them. *)
Upper(base, args, k, x) == IF IsSlice(k) THEN Wrap(x + args[k]) ELSE x

LEMMA EndsRecursive ==
    ASSUME NEW base \in Int32, NEW args \in [Fields -> Int32]
    PROVE  /\ After(base, args) \in [0 .. Len(Schema) -> Int32]
           /\ After(base, args)[0] = Wrap(base + HeaderWords)
           /\ \A k \in Fields :
                 After(base, args)[k] = Upper(base, args, k, After(base, args)[k - 1])
<1> DEFINE n == Len(Schema)
           G == [k \in 1 .. n |-> [x \in Int32 |-> Upper(base, args, k, x)]]
           z == Wrap(base + HeaderWords)
<1>1. n \in Nat \ {0} /\ Fields = 1 .. n
  BY SlotsRecursive
<1>2. Int32 \subseteq Int /\ HeaderWords \in Nat /\ z \in Int32
  <2>1. Int32 \subseteq Int /\ HeaderWords \in Nat
    BY LayoutAssumption, SlotOfField DEF Int32
  <2> QED
    BY <2>1, WrapInt
<1>3. \A k \in 1 .. n, x \in Int32 : Upper(base, args, k, x) \in Int32
  <2> TAKE k \in 1 .. n, x \in Int32
  <2>1. x \in Int /\ args[k] \in Int
    <3>1. args[k] \in Int32
      BY <1>1
    <3> QED
      BY <1>2, <3>1
  <2>2. x + args[k] \in Int
    BY <2>1
  <2> QED
    BY <2>2, WrapInt DEF Upper
<1>4. G \in [1 .. n -> [Int32 -> Int32]]
  BY <1>3
<1>5. \A k \in 1 .. n : \A x \in Int32 : G[k][x] = Upper(base, args, k, x)
  OBVIOUS
<1> HIDE DEF G, n, z
<1>6. PICK f \in [0 .. n -> Int32] : Iterates(f, n, z, G)
  BY <1>1, <1>2, <1>4, Recursion
<1>7. ASSUME NEW k \in 1 .. n PROVE f[k] = Upper(base, args, k, f[k - 1])
  <2>1. k - 1 \in 0 .. n
    BY <1>1
  <2>2. f[k - 1] \in Int32
    BY <2>1
  <2>3. f[k] = G[k][f[k - 1]]
    BY <1>6 DEF Iterates, Numbers!Iterates
  <2> QED
    BY <1>5, <2>2, <2>3
<1>8. f = [k \in 0 .. n |-> IF k = 0 THEN z
                            ELSE IF IsSlice(k) THEN Wrap(f[k - 1] + args[k]) ELSE f[k - 1]]
  <2>1. ASSUME NEW k \in 0 .. n
        PROVE  f[k] = IF k = 0 THEN z
                      ELSE IF IsSlice(k) THEN Wrap(f[k - 1] + args[k]) ELSE f[k - 1]
    <3>1. CASE k = 0
      BY <1>6, <3>1 DEF Iterates, Numbers!Iterates
    <3>2. CASE k # 0
      <4>1. k \in 1 .. n
        BY <1>1, <3>2
      <4> QED
        BY <1>7, <3>2, <4>1 DEF Upper
    <3> QED
      BY <3>1, <3>2
  <2>2. f = [k \in 0 .. n |-> f[k]]
    OBVIOUS
  <2> QED
    BY <2>1, <2>2
<1>9. After(base, args) =
        [k \in 0 .. n |-> IF k = 0 THEN z
                          ELSE IF IsSlice(k) THEN Wrap(After(base, args)[k - 1] + args[k])
                          ELSE After(base, args)[k - 1]]
  BY <1>8 DEF After, n, z
<1> DEFINE e == After(base, args)
<1> HIDE DEF e
<1>10. e = [k \in 0 .. n |-> IF k = 0 THEN z
                             ELSE IF IsSlice(k) THEN Wrap(e[k - 1] + args[k]) ELSE e[k - 1]]
  BY <1>9 DEF e
<1>11. e[0] = z /\ \A k \in 1 .. n : e[k] = Upper(base, args, k, e[k - 1])
  <2>1. 0 \in 0 .. n /\ \A k \in 1 .. n : k \in 0 .. n /\ k # 0
    BY <1>1
  <2> QED
    BY <1>10, <2>1 DEF Upper
<1>12. \A k \in 0 .. n : e[k] \in Int32
  <2> DEFINE P == {k \in 0 .. n : e[k] \in Int32}
  <2>1. 0 \in P
    BY <1>1, <1>2, <1>11
  <2>2. ASSUME NEW k \in 1 .. n, k - 1 \in P PROVE k \in P
    <3>1. e[k - 1] \in Int32 /\ k \in 0 .. n
      BY <1>1, <2>2
    <3> QED
      BY <1>3, <1>11, <3>1
  <2> HIDE DEF P
  <2>3. \A k \in 0 .. n : k \in P
    BY <1>1, <2>1, <2>2, Upwards
  <2> QED
    BY <2>3 DEF P
<1>13. e \in [0 .. n -> Int32]
  BY <1>10, <1>12
<1> QED
  BY <1>1, <1>11, <1>13 DEF e, n, z

(* When nothing is refused and the header does not wrap, no sum has.       *)
LEMMA EndsGrow ==
    ASSUME NEW base \in Int32, NEW args \in [Fields -> Int32],
           ~ LayoutAborts(base, args), base + HeaderWords <= MaxInt
    PROVE  LET end == After(base, args) IN
           /\ base >= 0 /\ end[0] = base + HeaderWords
           /\ \A k \in Fields : /\ IsSlice(k) => args[k] >= 0 /\ end[k] = end[k - 1] + args[k]
                                /\ ~ IsSlice(k) => end[k] = end[k - 1]
           /\ \A j, k \in 0 .. Len(Schema) : j <= k => end[j] <= end[k]
<1> DEFINE n == Len(Schema)
           e == After(base, args)
<1>1. n \in Nat \ {0} /\ Fields = 1 .. n
  BY SlotsRecursive
<1>2. /\ base >= 0
      /\ \A k \in Fields : IsSlice(k) => args[k] >= 0 /\ ~ (e[k] < e[k - 1])
  <2>1. base \in Int /\ \A k \in Fields : args[k] \in Int
    BY LayoutAssumption DEF Int32
  <2>2. /\ ~ (base < 0)
        /\ \A k \in Fields : IsSlice(k) => ~ (args[k] < 0) /\ ~ (e[k] < e[k - 1])
    BY DEF LayoutAborts
  <2> QED
    BY <2>1, <2>2
<1>3. /\ e \in [0 .. n -> Int32] /\ e[0] = Wrap(base + HeaderWords)
      /\ \A k \in Fields : e[k] = Upper(base, args, k, e[k - 1])
  BY EndsRecursive
<1> HIDE DEF n, e
<1>4. e[0] = base + HeaderWords
  <2>1. base + HeaderWords \in Int32
    BY <1>2, LayoutAssumption, SlotOfField DEF Int32
  <2> QED
    BY <1>3, <2>1, WrapSame
<1>5. ASSUME NEW k \in Fields, e[k - 1] >= 0
      PROVE  /\ IsSlice(k) => args[k] >= 0 /\ e[k] = e[k - 1] + args[k]
             /\ ~ IsSlice(k) => e[k] = e[k - 1]
             /\ e[k - 1] <= e[k]
  <2>1. k \in 0 .. n /\ k - 1 \in 0 .. n
    BY <1>1
  <2>2. e[k] \in Int32 /\ e[k - 1] \in Int32 /\ args[k] \in Int32
    BY <1>3, <2>1
  <2>3. CASE ~ IsSlice(k)
    BY <1>3, <2>2, <2>3, LayoutAssumption DEF Upper, Int32
  <2>4. CASE IsSlice(k)
    <3>1. args[k] >= 0 /\ ~ (e[k] < e[k - 1]) /\ e[k] = Wrap(e[k - 1] + args[k])
      BY <1>2, <1>3, <2>4 DEF Upper
    <3> DEFINE x == e[k - 1]
               y == args[k]
    <3>2. /\ x \in Int /\ y \in Int /\ 0 <= x /\ 0 <= y /\ x <= MaxInt /\ y <= MaxInt
          /\ MaxInt \in Nat
      BY <1>5, <2>2, <3>1, LayoutAssumption DEF Int32
    <3>3. ~ (Wrap(x + y) < x)
      BY <3>1
    <3> HIDE DEF x, y
    <3>4. x + y <= MaxInt
      <4>1. MaxInt < x + y => Wrap(x + y) < 0
        BY <3>2, WrapLow
      <4>2. Wrap(x + y) \in Int
        BY <3>2, WrapInt, LayoutAssumption DEF Int32
      <4> QED
        BY <3>2, <3>3, <4>1, <4>2
    <3>5. Wrap(x + y) = x + y
      BY <3>2, <3>4, WrapSame DEF Int32
    <3> QED
      BY <2>4, <3>1, <3>2, <3>5 DEF x, y
  <2> QED
    BY <2>3, <2>4
<1>6. \A k \in 0 .. n : e[k] >= 0
  <2> DEFINE P == {k \in 0 .. n : e[k] >= 0}
  <2>1. 0 \in P
    BY <1>1, <1>2, <1>4, LayoutAssumption, SlotOfField DEF Int32
  <2>2. ASSUME NEW k \in 1 .. n, k - 1 \in P PROVE k \in P
    <3>1. k \in 0 .. n /\ k - 1 \in 0 .. n /\ e[k - 1] >= 0 /\ e[k] \in Int32 /\ e[k - 1] \in Int32
      BY <1>1, <1>3, <2>2
    <3>2. e[k - 1] <= e[k]
      BY <1>1, <1>5, <3>1
    <3> QED
      BY <3>1, <3>2, LayoutAssumption DEF Int32
  <2> HIDE DEF P
  <2>3. \A k \in 0 .. n : k \in P
    BY <1>1, <2>1, <2>2, Upwards
  <2> QED
    BY <2>3 DEF P
<1>7. \A k \in Fields : k - 1 \in 0 .. n /\ e[k - 1] >= 0
  BY <1>1, <1>6
<1>8. ASSUME NEW j \in 0 .. n PROVE \A k \in 0 .. n : j <= k => e[j] <= e[k]
  <2> DEFINE P == {k \in 0 .. n : j <= k => e[j] <= e[k]}
  <2>0. \A k \in 0 .. n : e[k] \in Int
    BY <1>3, LayoutAssumption DEF Int32
  <2>1. 0 \in P
    <3>1. j <= 0 => j = 0
      BY <1>1
    <3> QED
      BY <1>1, <2>0, <3>1
  <2>2. ASSUME NEW k \in 1 .. n, k - 1 \in P PROVE k \in P
    <3>1. k \in 0 .. n /\ k - 1 \in 0 .. n /\ (j <= k => j <= k - 1 \/ j = k)
      BY <1>1
    <3>2. e[k - 1] <= e[k]
      BY <1>1, <1>5, <1>7
    <3>3. j <= k - 1 => e[j] <= e[k - 1]
      BY <2>2
    <3> QED
      BY <2>0, <3>1, <3>2, <3>3
  <2> HIDE DEF P
  <2>3. \A k \in 0 .. n : k \in P
    BY <1>1, <2>1, <2>2, Upwards
  <2> QED
    BY <2>3 DEF P
<1>9. /\ base >= 0 /\ e[0] = base + HeaderWords
      /\ \A k \in Fields : /\ IsSlice(k) => args[k] >= 0 /\ e[k] = e[k - 1] + args[k]
                           /\ ~ IsSlice(k) => e[k] = e[k - 1]
      /\ \A j, k \in 0 .. n : j <= k => e[j] <= e[k]
  BY <1>2, <1>4, <1>5, <1>7, <1>8
<1> QED
  BY <1>9 DEF e, n

(* A layout that is not refused: its slices follow one another behind the  *)
(* header, up to its capacity.                                             *)
LEMMA LayoutFits ==
    ASSUME NEW base \in Int32, NEW args \in [Fields -> Int32],
           ~ LayoutAborts(base, args), base + HeaderWords <= MaxInt
    PROVE  LET layout == LayoutAt(base, args) IN
           /\ base >= 0 /\ layout.base = base /\ layout.args = args
           /\ layout.capacity = After(base, args)[Len(Schema)] - base
           /\ layout.capacity \in Int /\ HeaderWords <= layout.capacity
           /\ base + layout.capacity <= MaxInt
           /\ Wrap(base + layout.capacity) = base + layout.capacity
           /\ \A k \in Fields : layout.offset[k] \in Int32
           /\ \A k \in Fields : IsSlice(k) =>
                /\ args[k] >= 0 /\ base + HeaderWords <= layout.offset[k]
                /\ layout.offset[k] + args[k] <= base + layout.capacity
                /\ \A j \in Fields : IsSlice(j) /\ j < k =>
                      layout.offset[j] + args[j] <= layout.offset[k]
<1> DEFINE n == Len(Schema)
           e == After(base, args)
           layout == LayoutAt(base, args)
<1>1. n \in Nat \ {0} /\ Fields = 1 .. n /\ HeaderWords \in Nat
  BY SlotsRecursive, SlotOfField
<1>2. e \in [0 .. n -> Int32]
  BY EndsRecursive
<1>3. /\ base >= 0 /\ e[0] = base + HeaderWords
      /\ \A k \in Fields : /\ IsSlice(k) => args[k] >= 0 /\ e[k] = e[k - 1] + args[k]
                           /\ ~ IsSlice(k) => e[k] = e[k - 1]
      /\ \A j, k \in 0 .. n : j <= k => e[j] <= e[k]
  BY EndsGrow
<1>4. /\ layout.base = base /\ layout.args = args
      /\ \A k \in Fields : layout.offset[k] = e[k - 1]
      /\ layout.capacity = Wrap(e[n] - base)
  BY DEF LayoutAt
<1> HIDE DEF n, e, layout
<1>5. \A k \in 0 .. n : e[k] \in Int /\ e[k] <= MaxInt
  BY <1>2, LayoutAssumption DEF Int32
<1>6. 0 \in 0 .. n /\ n \in 0 .. n /\ base \in Int /\ MaxInt \in Nat
      /\ \A k \in Fields : k \in 0 .. n /\ k - 1 \in 0 .. n /\ k <= n /\ 0 <= k - 1
  BY <1>1, LayoutAssumption DEF Int32
<1>7. base + HeaderWords <= e[n] /\ e[n] <= MaxInt /\ e[n] \in Int
  BY <1>1, <1>3, <1>5, <1>6
<1>8. layout.capacity = e[n] - base
  <2>1. e[n] - base \in Int32
    BY <1>1, <1>3, <1>6, <1>7 DEF Int32
  <2> QED
    BY <1>4, <2>1, WrapSame
<1>9. base + layout.capacity = e[n] /\ Wrap(e[n]) = e[n]
  <2>1. e[n] \in Int32
    BY <1>2, <1>6
  <2> QED
    BY <1>6, <1>7, <1>8, <2>1, WrapSame
<1>10. ASSUME NEW k \in Fields, IsSlice(k)
       PROVE  /\ args[k] >= 0 /\ base + HeaderWords <= layout.offset[k]
              /\ layout.offset[k] + args[k] <= e[n]
              /\ \A j \in Fields : IsSlice(j) /\ j < k =>
                    layout.offset[j] + args[j] <= layout.offset[k]
  <2>1. args[k] >= 0 /\ e[k] = e[k - 1] + args[k]
    BY <1>3, <1>10
  <2>2. e[0] <= e[k - 1] /\ e[k] <= e[n]
    BY <1>3, <1>6
  <2>3. ASSUME NEW j \in Fields, IsSlice(j), j < k
        PROVE  layout.offset[j] + args[j] <= layout.offset[k]
    <3>1. e[j] = e[j - 1] + args[j]
      BY <1>3, <2>3
    <3>2. j <= k - 1
      BY <1>1, <2>3
    <3>3. e[j] <= e[k - 1]
      BY <1>3, <1>6, <3>2
    <3> QED
      BY <1>4, <3>1, <3>3
  <2> QED
    BY <1>3, <1>4, <2>1, <2>2, <2>3
<1>11. \A k \in Fields : layout.offset[k] \in Int32
  BY <1>2, <1>4, <1>6
<1>12. /\ base >= 0 /\ layout.base = base /\ layout.args = args
       /\ layout.capacity = e[n] - base
       /\ layout.capacity \in Int /\ HeaderWords <= layout.capacity
       /\ base + layout.capacity <= MaxInt
       /\ Wrap(base + layout.capacity) = base + layout.capacity
  BY <1>1, <1>3, <1>4, <1>6, <1>7, <1>8, <1>9
<1>13. \A k \in Fields : IsSlice(k) =>
          /\ args[k] >= 0 /\ base + HeaderWords <= layout.offset[k]
          /\ layout.offset[k] + args[k] <= base + layout.capacity
          /\ \A j \in Fields : IsSlice(j) /\ j < k =>
                layout.offset[j] + args[j] <= layout.offset[k]
  BY <1>9, <1>10
<1> QED
  BY <1>11, <1>12, <1>13 DEF n, e, layout

(* Somewhere else a shape takes as many words as it does at 0. *)
LEMMA ShapeMoves ==
    ASSUME NEW c \in 0 .. Words, NEW args \in [Fields -> Int32],
           ~ LayoutAborts(0, args), ~ LayoutAborts(c, args),
           LayoutAt(0, args).capacity <= Words - c
    PROVE  /\ c + HeaderWords <= MaxInt /\ c \in Int32
           /\ LayoutAt(c, args).capacity = LayoutAt(0, args).capacity
<1> DEFINE n == Len(Schema)
           e == After(0, args)
           d == After(c, args)
<1>1. n \in Nat \ {0} /\ Fields = 1 .. n /\ HeaderWords \in Nat
  BY SlotsRecursive, SlotOfField
<1>2. MaxInt \in Nat /\ Words \in Int /\ Words <= MaxInt /\ c \in Int /\ 0 <= c /\ c <= Words
  BY LayoutAssumption
<1>3. 0 \in Int32 /\ c \in Int32
  BY <1>2 DEF Int32
<1>4. 0 + HeaderWords <= MaxInt
  BY <1>1, HeaderAssumption
<1>5. /\ LayoutAt(0, args).capacity = e[n] - 0
      /\ LayoutAt(0, args).capacity \in Int /\ HeaderWords <= LayoutAt(0, args).capacity
  BY <1>3, <1>4, LayoutFits
<1>6. c + HeaderWords <= MaxInt
  BY <1>1, <1>2, <1>5
<1>7. LayoutAt(c, args).capacity = d[n] - c
  BY <1>3, <1>6, LayoutFits
<1>8. /\ e[0] = HeaderWords /\ d[0] = c + HeaderWords
      /\ \A k \in Fields : /\ IsSlice(k) => e[k] = e[k - 1] + args[k] /\ d[k] = d[k - 1] + args[k]
                           /\ ~ IsSlice(k) => e[k] = e[k - 1] /\ d[k] = d[k - 1]
  <2>1. /\ e[0] = 0 + HeaderWords
        /\ \A k \in Fields : /\ IsSlice(k) => e[k] = e[k - 1] + args[k]
                             /\ ~ IsSlice(k) => e[k] = e[k - 1]
    BY <1>3, <1>4, EndsGrow
  <2>2. /\ d[0] = c + HeaderWords
        /\ \A k \in Fields : /\ IsSlice(k) => d[k] = d[k - 1] + args[k]
                             /\ ~ IsSlice(k) => d[k] = d[k - 1]
    BY <1>3, <1>6, EndsGrow
  <2> HIDE DEF e, d
  <2> QED
    BY <1>1, <2>1, <2>2
<1>9. \A k \in 0 .. n : e[k] \in Int /\ d[k] \in Int
  <2>1. e \in [0 .. n -> Int32] /\ d \in [0 .. n -> Int32]
    BY <1>3, EndsRecursive
  <2> QED
    BY <2>1, LayoutAssumption DEF Int32
<1> HIDE DEF n, e, d
<1>10. \A k \in 0 .. n : d[k] = e[k] + c
  <2> DEFINE P == {k \in 0 .. n : d[k] = e[k] + c}
  <2>1. 0 \in P
    BY <1>1, <1>2, <1>8
  <2>2. ASSUME NEW k \in 1 .. n, k - 1 \in P PROVE k \in P
    <3>1. /\ k \in 0 .. n /\ k - 1 \in 0 .. n /\ d[k - 1] = e[k - 1] + c
          /\ e[k] \in Int /\ d[k] \in Int /\ e[k - 1] \in Int /\ args[k] \in Int
      BY <1>1, <1>9, <2>2, LayoutAssumption DEF Int32
    <3>2. d[k] = e[k] + c
      <4>1. k \in Fields /\ c \in Int
        BY <1>1, <1>2
      <4>2. CASE IsSlice(k)
        <5>1. e[k] = e[k - 1] + args[k] /\ d[k] = d[k - 1] + args[k]
          BY <1>8, <4>1, <4>2
        <5> QED
          BY <3>1, <4>1, <5>1
      <4>3. CASE ~ IsSlice(k)
        <5>1. e[k] = e[k - 1] /\ d[k] = d[k - 1]
          BY <1>8, <4>1, <4>3
        <5> QED
          BY <3>1, <5>1
      <4> QED
        BY <4>2, <4>3
    <3> QED
      BY <3>1, <3>2
  <2> HIDE DEF P
  <2>3. \A k \in 0 .. n : k \in P
    BY <1>1, <2>1, <2>2, Upwards
  <2> QED
    BY <2>3 DEF P
<1>11. d[n] = e[n] + c /\ e[n] \in Int /\ d[n] \in Int
  BY <1>1, <1>9, <1>10
<1> QED
  BY <1>2, <1>3, <1>5, <1>6, <1>7, <1>11

(* The words of a slice are those between its offset and its end. *)
LEMMA SliceInside ==
    ASSUME NEW base \in Int32, NEW args \in [Fields -> Int32],
           ~ LayoutAborts(base, args), base + HeaderWords <= MaxInt,
           NEW k \in Fields, IsSlice(k)
    PROVE  SliceWords(LayoutAt(base, args), k)
              \subseteq base + HeaderWords .. base + LayoutAt(base, args).capacity - 1
<1> DEFINE layout == LayoutAt(base, args)
<1>1. /\ layout.args = args /\ layout.capacity \in Int /\ base + layout.capacity <= MaxInt
      /\ layout.offset[k] \in Int32 /\ args[k] >= 0 /\ base >= 0
      /\ base + HeaderWords <= layout.offset[k]
      /\ layout.offset[k] + args[k] <= base + layout.capacity
  BY LayoutFits
<1>2. HeaderWords \in Nat /\ base \in Int /\ MaxInt \in Nat /\ args[k] \in Int /\ layout.offset[k] \in Int
  BY <1>1, SlotOfField, LayoutAssumption DEF Int32
<1> HIDE DEF layout
<1>3. ASSUME NEW i \in 0 .. layout.args[k] - 1
      PROVE  Wrap(layout.offset[k] + i) \in base + HeaderWords .. base + layout.capacity - 1
  <2> DEFINE x == layout.offset[k] + i
  <2>1. x \in base + HeaderWords .. base + layout.capacity - 1
    BY <1>1, <1>2
  <2>2. x \in Int32
    BY <1>1, <1>2, <2>1 DEF Int32
  <2> QED
    BY <2>1, <2>2, WrapSame
<1>4. SliceWords(layout, k) \subseteq base + HeaderWords .. base + layout.capacity - 1
  BY <1>3 DEF SliceWords
<1> QED
  BY <1>4 DEF layout

-----------------------------------------------------------------------------
(* Products of words and Workers. *)
LEMMA Rows ==
    ASSUME NEW v \in Nat, NEW w \in Nat, NEW e \in Nat, v < w
    PROVE  v * e + e <= w * e /\ v * e \in Nat /\ w * e \in Nat
<1>1. PICK d \in Nat : w = v + 1 + d
  <2>1. w - v - 1 \in Nat /\ w = v + 1 + (w - v - 1)
    OBVIOUS
  <2> QED
    BY <2>1
<1>2. w * e = v * e + e + d * e
  BY <1>1
<1>3. d * e \in Nat /\ v * e \in Nat
  OBVIOUS
<1> QED
  BY <1>2, <1>3

LEMMA Product ==
    ASSUME NEW m \in Nat, NEW w \in Nat, NEW e \in Nat \ {0}, w <= m \div e
    PROVE  w * e <= m
<1>1. m \div e \in Nat /\ e * (m \div e) <= m
  OBVIOUS
<1>2. w * e <= (m \div e) * e
  <2>1. CASE w = m \div e
    BY <2>1
  <2>2. CASE w < m \div e
    BY <1>1, <2>2, Rows
  <2> QED
    BY <1>1, <2>1, <2>2
<1>3. (m \div e) * e = e * (m \div e)
  BY <1>1
<1>4. w * e \in Int /\ (m \div e) * e \in Int
  BY <1>1
<1> QED
  BY <1>1, <1>2, <1>3, <1>4

-----------------------------------------------------------------------------
(* Layouts that an application places leave room for their header below    *)
(* the largest Int; so do all layouts of the arena.                        *)
PlacedLow == \A base \in Bases : base + HeaderWords <= MaxInt

FirstWord(a) == IF a.kind = "layout" THEN a.layout.base ELSE a.offset
EndWord(a)   == CASE a.kind = "region"  -> a.offset + a.length
                  [] a.kind = "scratch" -> a.offset + a.workers * a.words
                  [] a.kind = "layout"  -> a.layout.base + a.layout.capacity

IsRegion(a)  == \E o, n \in Nat : a = Region(o, n)
IsScratch(a) == \E o, v, e \in Nat : v # 0 /\ a = Scratch(o, v, e)
IsPlaced(a)  == \E base \in Int32, args \in [Fields -> Int32] :
                   /\ a = Placed(LayoutAt(base, args)) /\ base + HeaderWords <= MaxInt
                   /\ ~ LayoutAborts(base, args)

Allocated(a) == /\ IsRegion(a) \/ IsScratch(a) \/ IsPlaced(a)
                /\ EndWord(a) <= Words
Apart(a, b)  == EndWord(a) <= FirstWord(b) \/ EndWord(b) <= FirstWord(a)
Standing(a)  == a.kind = "layout" =>
                   \A s \in 0 .. HeaderWords - 1 :
                      words[a.layout.base + s] = HeaderWord(a.layout, s)

(* What is allocated ends before the cursor, unless the one layout that is *)
(* live was placed without the arena.                                      *)
BeforeCursor == \/ \A a \in live : EndWord(a) <= cursor
                \/ cursor = 0 /\ \E a \in live : live = {a} /\ a.kind = "layout"

ArenaTypes == cursor \in 0 .. Words /\ words \in [0 .. Words - 1 -> Int32]

ArenaInv == /\ ArenaTypes
            /\ \A a \in live : Allocated(a) /\ Standing(a)
            /\ \A a, b \in live : a # b => Apart(a, b)
            /\ BeforeCursor

(* The words of one Worker's scratch: no product wraps. *)
LEMMA WorkerRow ==
    ASSUME NEW a, NEW o \in Nat, NEW v \in Nat, NEW e \in Nat,
           a.offset = o, a.words = e, o + v * e <= Words, NEW w \in 0 .. v - 1
    PROVE  /\ WorkerWords(a, w) = o + w * e .. o + w * e + e - 1
           /\ o + w * e + e <= o + v * e /\ w * e \in Nat
<1>1. w \in Nat /\ w < v
  OBVIOUS
<1>2. w * e + e <= v * e /\ w * e \in Nat /\ v * e \in Nat
  BY <1>1, Rows
<1>3. Words \in Nat /\ Words <= MaxInt /\ MaxInt \in Nat
  BY LayoutAssumption
<1>4. w * e \in Int32 /\ o + w * e \in Int32
  BY <1>2, <1>3 DEF Int32
<1>5. Wrap(w * e) = w * e /\ Wrap(o + w * e) = o + w * e
  BY <1>4, WrapSame
<1>6. WorkerWords(a, w) = o + w * e .. o + w * e + e - 1
  BY <1>5 DEF WorkerWords
<1> QED
  BY <1>2, <1>6

LEMMA HeaderTyped ==
    ASSUME NEW layout, \A k \in Fields : layout.offset[k] \in Int32 /\ layout.args[k] \in Int32,
           NEW s \in 0 .. HeaderWords - 1
    PROVE  HeaderWord(layout, s) \in Int32
<1>1. PICK k \in Fields : SlotsBefore[k] <= s /\ s < SlotsBefore[k + 1]
  BY SlotOfField
<1>2. (CHOOSE f \in Fields : SlotsBefore[f] <= s /\ s < SlotsBefore[f + 1]) = k
  BY <1>1, SlotOfField
<1> QED
  BY <1>2 DEF HeaderWord

(* Where an allocation lies: what it is written through is between its     *)
(* ends, in the case of a layout behind its header.                        *)
LEMMA AllocatedInside ==
    ASSUME NEW a, Allocated(a)
    PROVE  /\ FirstWord(a) \in 0 .. Words /\ EndWord(a) \in FirstWord(a) .. Words
           /\ a.kind \in {"region", "scratch", "layout"}
           /\ Indexes(a) \subseteq FirstWord(a) .. EndWord(a) - 1
           /\ HeaderIndexes(a) \subseteq FirstWord(a) .. EndWord(a) - 1
           /\ Indexes(a) \cap HeaderIndexes(a) = {}
           /\ a.kind = "layout" =>
                 /\ a.layout.base = FirstWord(a)
                 /\ FirstWord(a) + HeaderWords <= EndWord(a)
                 /\ \A s \in 0 .. HeaderWords - 1 : HeaderWord(a.layout, s) \in Int32
<1>1. Words \in Nat /\ MaxInt \in Nat /\ Words <= MaxInt /\ HeaderWords \in Nat \ {0}
  BY LayoutAssumption, SlotOfField
<1>2. CASE IsRegion(a)
  <2>1. PICK o \in Nat, n \in Nat : a = Region(o, n)
    BY <1>2 DEF IsRegion
  <2>2. /\ a.kind = "region" /\ FirstWord(a) = o /\ EndWord(a) = o + n
        /\ Indexes(a) = o .. o + n - 1 /\ HeaderIndexes(a) = {}
    BY <2>1 DEF Region, FirstWord, EndWord, Indexes, HeaderIndexes
  <2> QED
    BY <1>1, <2>2 DEF Allocated
<1>3. CASE IsScratch(a)
  <2>1. PICK o \in Nat, v \in Nat, e \in Nat : v # 0 /\ a = Scratch(o, v, e)
    BY <1>3 DEF IsScratch
  <2>2. /\ a.kind = "scratch" /\ FirstWord(a) = o /\ EndWord(a) = o + v * e
        /\ a.offset = o /\ a.workers = v /\ a.words = e
        /\ Indexes(a) = UNION {WorkerWords(a, w) : w \in 0 .. v - 1} /\ HeaderIndexes(a) = {}
    BY <2>1 DEF Scratch, FirstWord, EndWord, Indexes, HeaderIndexes
  <2>3. v * e \in Nat /\ o + v * e <= Words
    BY <2>2 DEF Allocated
  <2>4. ASSUME NEW w \in 0 .. v - 1 PROVE WorkerWords(a, w) \subseteq o .. o + v * e - 1
    BY <1>1, <2>2, <2>3, WorkerRow
  <2> QED
    BY <1>1, <2>2, <2>3, <2>4
<1>4. CASE IsPlaced(a)
  <2>1. PICK base \in Int32, args \in [Fields -> Int32] :
           /\ a = Placed(LayoutAt(base, args)) /\ base + HeaderWords <= MaxInt
           /\ ~ LayoutAborts(base, args)
    BY <1>4 DEF IsPlaced
  <2> DEFINE layout == LayoutAt(base, args)
  <2>2. /\ base >= 0 /\ layout.base = base /\ layout.args = args
        /\ layout.capacity \in Int /\ HeaderWords <= layout.capacity
        /\ \A k \in Fields : layout.offset[k] \in Int32
    BY <2>1, LayoutFits
  <2>3. \A k \in Fields : IsSlice(k) =>
           SliceWords(layout, k) \subseteq base + HeaderWords .. base + layout.capacity - 1
    BY <2>1, SliceInside
  <2> HIDE DEF layout
  <2>4. a = Placed(layout)
    BY <2>1 DEF layout
  <2>5. /\ a.kind = "layout" /\ a.layout = layout /\ FirstWord(a) = base
        /\ EndWord(a) = base + layout.capacity
        /\ HeaderIndexes(a) = base .. base + HeaderWords - 1
        /\ Indexes(a) = UNION {SliceWords(layout, k) : k \in {f \in Fields : IsSlice(f)}}
    BY <2>2, <2>4 DEF Placed, FirstWord, EndWord, Indexes, HeaderIndexes
  <2>6. base \in Int
    BY LayoutAssumption DEF Int32
  <2>7. Indexes(a) \subseteq base + HeaderWords .. base + layout.capacity - 1
    BY <2>3, <2>5
  <2>8. \A s \in 0 .. HeaderWords - 1 : HeaderWord(layout, s) \in Int32
    BY <2>2, HeaderTyped
  <2>9. base + layout.capacity <= Words
    BY <2>5 DEF Allocated
  <2>10. FirstWord(a) \in 0 .. Words /\ EndWord(a) \in FirstWord(a) .. Words
    BY <1>1, <2>2, <2>5, <2>6, <2>9
  <2>11. /\ base + HeaderWords .. base + layout.capacity - 1 \subseteq base .. base + layout.capacity - 1
         /\ base .. base + HeaderWords - 1 \subseteq base .. base + layout.capacity - 1
         /\ (base + HeaderWords .. base + layout.capacity - 1) \cap (base .. base + HeaderWords - 1) = {}
    BY <1>1, <2>2, <2>6
  <2>12. /\ Indexes(a) \subseteq base .. base + layout.capacity - 1
         /\ HeaderIndexes(a) \subseteq base .. base + layout.capacity - 1
         /\ Indexes(a) \cap HeaderIndexes(a) = {}
    BY <2>5, <2>7, <2>11
  <2>13. /\ a.kind \in {"region", "scratch", "layout"} /\ a.layout.base = FirstWord(a)
         /\ FirstWord(a) + HeaderWords <= EndWord(a)
    BY <1>1, <2>2, <2>5, <2>6
  <2>14. \A s \in 0 .. HeaderWords - 1 : HeaderWord(a.layout, s) \in Int32
    BY <2>5, <2>8
  <2>15. /\ Indexes(a) \subseteq FirstWord(a) .. EndWord(a) - 1
         /\ HeaderIndexes(a) \subseteq FirstWord(a) .. EndWord(a) - 1
    <3>1. FirstWord(a) = base /\ EndWord(a) = base + layout.capacity
      BY <2>5
    <3>2. FirstWord(a) .. EndWord(a) - 1 = base .. base + layout.capacity - 1
      BY <2>2, <2>6, <3>1
    <3> QED
      BY <2>12, <3>2, Zenon
  <2> QED
    BY <2>10, <2>12, <2>13, <2>14, <2>15
<1> QED
  BY <1>2, <1>3, <1>4 DEF Allocated

(* What lies apart has no word in common. *)
LEMMA ApartDisjoint ==
    ASSUME NEW a, NEW b, Allocated(a), Allocated(b), Apart(a, b)
    PROVE  /\ Indexes(a) \cap Indexes(b) = {} /\ Indexes(a) \cap HeaderIndexes(b) = {}
           /\ HeaderIndexes(a) \cap HeaderIndexes(b) = {}
<1>1. /\ FirstWord(a) \in Int /\ EndWord(a) \in Int /\ FirstWord(b) \in Int /\ EndWord(b) \in Int
      /\ Indexes(a) \cup HeaderIndexes(a) \subseteq FirstWord(a) .. EndWord(a) - 1
      /\ Indexes(b) \cup HeaderIndexes(b) \subseteq FirstWord(b) .. EndWord(b) - 1
  BY AllocatedInside, LayoutAssumption
<1>2. (FirstWord(a) .. EndWord(a) - 1) \cap (FirstWord(b) .. EndWord(b) - 1) = {}
  BY <1>1 DEF Apart
<1> QED
  BY <1>1, <1>2

(* Who can allocate from the arena finds the free words at the cursor. *)
LEMMA EndsBehind == ASSUME ArenaInv, FromArena PROVE \A b \in live : EndWord(b) <= cursor
<1> SUFFICES ASSUME cursor = 0, NEW b \in live, live = {b}, b.kind = "layout" PROVE FALSE
  BY DEF ArenaInv, ArenaTypes, BeforeCursor
<1>1. FirstWord(b) \in 0 .. Words /\ b.layout.base = FirstWord(b)
  BY AllocatedInside DEF ArenaInv, ArenaTypes
<1> QED
  BY <1>1, LayoutAssumption DEF FromArena

(* A new allocation behind the others. *)
LEMMA Behind ==
    ASSUME ArenaInv, FromArena, NEW a, live' = live \cup {a}, Allocated(a),
           FirstWord(a) = cursor, EndWord(a) = cursor', Standing(a)',
           words' \in [0 .. Words - 1 -> Int32],
           \A b \in live : Standing(b)'
    PROVE  ArenaInv'
<1>1. \A b \in live : EndWord(b) <= cursor
  BY EndsBehind
<1>2. /\ FirstWord(a) \in 0 .. Words /\ EndWord(a) \in FirstWord(a) .. Words
      /\ Words \in Int /\ cursor \in Int /\ \A b \in live : EndWord(b) \in Int
  BY AllocatedInside, LayoutAssumption DEF ArenaInv, ArenaTypes
<1>3. cursor' \in 0 .. Words /\ cursor <= cursor'
  BY <1>2
<1>4. \A b \in live' : EndWord(b) <= cursor'
  BY <1>1, <1>2, <1>3
<1>5. \A b, c \in live' : b # c => Apart(b, c)
  <2>1. \A b \in live : Apart(a, b) /\ Apart(b, a)
    BY <1>1 DEF Apart
  <2> QED
    BY <2>1 DEF ArenaInv, ArenaTypes
<1>6. \A b \in live' : Allocated(b) /\ Standing(b)'
  BY DEF ArenaInv, ArenaTypes
<1>7. (\A b \in live : Allocated(b) /\ Standing(b))'
  BY <1>6
<1>8. (\A b, c \in live : b # c => Apart(b, c))'
  BY <1>5
<1>9. BeforeCursor'
  BY <1>4 DEF BeforeCursor
<1> QED
  BY <1>3, <1>7, <1>8, <1>9 DEF ArenaInv, ArenaTypes

(* A header that is written stands, and so do those apart from it.         *)
LEMMA HeaderWritten ==
    ASSUME words \in [0 .. Words - 1 -> Int32], NEW a, Allocated(a), a.kind = "layout",
           words' = WriteHeader(words, a.layout)
    PROVE  /\ words' \in [0 .. Words - 1 -> Int32] /\ Standing(a)'
           /\ \A b : Allocated(b) /\ Standing(b) /\ Apart(a, b) => Standing(b)'
<1> DEFINE base == a.layout.base
<1>1. /\ base \in 0 .. Words /\ EndWord(a) \in Int /\ EndWord(a) <= Words
      /\ base + HeaderWords <= EndWord(a)
      /\ \A s \in 0 .. HeaderWords - 1 : HeaderWord(a.layout, s) \in Int32
      /\ HeaderIndexes(a) = base .. base + HeaderWords - 1
  BY AllocatedInside, LayoutAssumption DEF HeaderIndexes
<1>2. base \in Int /\ HeaderWords \in Nat /\ Words \in Nat
  BY <1>1, LayoutAssumption, SlotOfField
<1>3. words' = [i \in 0 .. Words - 1 |-> IF i - base \in 0 .. HeaderWords - 1
                                        THEN HeaderWord(a.layout, i - base) ELSE words[i]]
  <2>1. DOMAIN words = 0 .. Words - 1
    OBVIOUS
  <2> QED
    BY <2>1 DEF WriteHeader
<1> HIDE DEF base
<1>4. words' \in [0 .. Words - 1 -> Int32]
  BY <1>1, <1>3
<1>5. \A s \in 0 .. HeaderWords - 1 : words'[base + s] = HeaderWord(a.layout, s)
  <2> TAKE s \in 0 .. HeaderWords - 1
  <2>1. base + s \in 0 .. Words - 1 /\ (base + s) - base = s
    BY <1>1, <1>2
  <2> QED
    BY <1>3, <2>1
<1>6. ASSUME NEW b, Allocated(b), Standing(b), Apart(a, b), b.kind = "layout"
      PROVE  \A s \in 0 .. HeaderWords - 1 : words'[b.layout.base + s] = HeaderWord(b.layout, s)
  <2> TAKE s \in 0 .. HeaderWords - 1
  <2>1. /\ b.layout.base \in 0 .. Words /\ EndWord(b) \in Int /\ EndWord(b) <= Words
        /\ b.layout.base + HeaderWords <= EndWord(b)
        /\ HeaderIndexes(b) = b.layout.base .. b.layout.base + HeaderWords - 1
    BY <1>6, AllocatedInside, LayoutAssumption DEF HeaderIndexes
  <2>2. b.layout.base + s \in 0 .. Words - 1 /\ b.layout.base + s \in HeaderIndexes(b)
    BY <1>2, <2>1
  <2>3. HeaderIndexes(a) \cap HeaderIndexes(b) = {}
    BY <1>6, ApartDisjoint
  <2>4. ~ ((b.layout.base + s) - base \in 0 .. HeaderWords - 1)
    <3>1. ~ (b.layout.base + s \in base .. base + HeaderWords - 1)
      BY <1>1, <2>2, <2>3
    <3>2. b.layout.base + s \in Int
      BY <2>2
    <3> QED
      BY <1>2, <3>1, <3>2
  <2>5. words'[b.layout.base + s] = words[b.layout.base + s]
    BY <1>3, <2>2, <2>4
  <2> QED
    BY <1>6, <2>5 DEF Standing
<1>7. Standing(a)'
  BY <1>5 DEF Standing, base
<1>8. \A b : Allocated(b) /\ Standing(b) /\ Apart(a, b) => Standing(b)'
  BY <1>6 DEF Standing
<1> QED
  BY <1>4, <1>7, <1>8

(* What is stored into an allocation, and what a header says, are words.   *)
LEMMA FillTyped ==
    ASSUME words \in [0 .. Words - 1 -> Int32], NEW a, NEW v \in Payloads, Fill(a, v)
    PROVE  /\ words' \in [0 .. Words - 1 -> Int32]
           /\ \A i \in 0 .. Words - 1 : i \notin Indexes(a) => words'[i] = words[i]
<1>1. words' = [i \in 0 .. Words - 1 |->
                   IF i \in Indexes(a) THEN v[1 + (i % Len(v))] ELSE words[i]]
  BY DEF Fill
<1>2. \A i \in 0 .. Words - 1 : v[1 + (i % Len(v))] \in Int32
  <2>1. v \in Seq(Int32) /\ v # <<>>
    BY ArenaAssumption
  <2>2. Len(v) \in Nat \ {0} /\ \A k \in 1 .. Len(v) : v[k] \in Int32
    BY <2>1
  <2>3. \A i \in 0 .. Words - 1 : 1 + (i % Len(v)) \in 1 .. Len(v)
    BY <2>2
  <2> QED
    BY <2>2, <2>3
<1> QED
  BY <1>1, <1>2

LEMMA OffsetsTyped ==
    ASSUME NEW base \in Int32, NEW args \in [Fields -> Int32], NEW k \in Fields
    PROVE  LayoutAt(base, args).offset[k] \in Int32
<1>1. After(base, args) \in [0 .. Len(Schema) -> Int32] /\ k - 1 \in 0 .. Len(Schema)
  BY EndsRecursive, SlotsRecursive
<1>2. LayoutAt(base, args).offset[k] = After(base, args)[k - 1]
  BY DEF LayoutAt
<1> QED
  BY <1>1, <1>2

LEMMA ArenaStarts == ASSUME ArenaInit PROVE ArenaInv
<1>1. 0 \in Int32 /\ Words \in Nat
  BY LayoutAssumption DEF Int32
<1> QED
  BY <1>1 DEF ArenaInit, ArenaInv, ArenaTypes, BeforeCursor

LEMMA ArenaStep == ASSUME PlacedLow, ArenaInv, ArenaNext PROVE ArenaInv'
<1>1. Words \in Nat /\ MaxInt \in Nat /\ Words <= MaxInt /\ cursor \in 0 .. Words /\ cursor \in Nat
  BY LayoutAssumption DEF ArenaInv, ArenaTypes
<1>2. ASSUME UNCHANGED words, NEW b \in live PROVE Standing(b)'
  BY <1>2 DEF ArenaInv, ArenaTypes, Standing
<1>3. ASSUME NEW n \in Lengths, Allocate(n) PROVE ArenaInv'
  <2>0. PICK a : a = Region(cursor, n)
    OBVIOUS
  <2>1. /\ FromArena /\ n >= 0 /\ n <= Words - cursor /\ cursor' = cursor + n
        /\ live' = live \cup {a} /\ words' = words
    BY <1>3, <2>0 DEF Allocate, Fits
  <2>2. n \in Nat
    BY <2>1, ArenaAssumption, LayoutAssumption DEF Int32
  <2>3. /\ a.kind = "region" /\ FirstWord(a) = cursor /\ EndWord(a) = cursor + n
        /\ IsRegion(a)
    BY <1>1, <2>0, <2>2 DEF Region, FirstWord, EndWord, IsRegion
  <2>4. Allocated(a)
    BY <1>1, <2>1, <2>2, <2>3 DEF Allocated
  <2>5. Standing(a)'
    BY <2>3 DEF Standing
  <2>6. words' \in [0 .. Words - 1 -> Int32] /\ \A b \in live : Standing(b)'
    BY <1>2, <2>1 DEF ArenaInv, ArenaTypes
  <2> QED
    BY <2>1, <2>3, <2>4, <2>5, <2>6, Behind
<1>4. ASSUME NEW v, NEW e, <<v, e>> \in Dimensions, AllocateScratch(v, e) PROVE ArenaInv'
  <2>0. PICK a : a = Scratch(cursor, v, e)
    OBVIOUS
  <2>1. /\ FromArena /\ v > 0 /\ e >= 0 /\ (e > 0 => v <= MaxInt \div e)
        /\ Wrap(v * e) <= Words - cursor /\ cursor' = cursor + Wrap(v * e)
        /\ live' = live \cup {a} /\ words' = words
    BY <1>4, <2>0 DEF AllocateScratch, ScratchFits, Fits
  <2>2. v \in Nat \ {0} /\ e \in Nat
    <3>1. v \in Int32 /\ e \in Int32
      BY <1>4, ArenaAssumption
    <3> QED
      BY <2>1, <3>1, LayoutAssumption DEF Int32
  <2>3. v * e \in Nat /\ v * e <= MaxInt
    <3>1. CASE e = 0
      BY <1>1, <2>2, <3>1
    <3>2. CASE e # 0
      BY <1>1, <2>1, <2>2, <3>2, Product
    <3> QED
      BY <3>1, <3>2
  <2>4. Wrap(v * e) = v * e
    <3>1. v * e \in Int32
      BY <1>1, <2>3 DEF Int32
    <3> QED
      BY <3>1, WrapSame
  <2>5. /\ a.kind = "scratch" /\ FirstWord(a) = cursor /\ EndWord(a) = cursor + v * e
        /\ IsScratch(a)
    BY <1>1, <2>0, <2>2 DEF Scratch, FirstWord, EndWord, IsScratch
  <2>6. EndWord(a) <= Words /\ EndWord(a) = cursor'
    <3> DEFINE p == v * e
    <3>1. p \in Nat /\ p <= Words - cursor
      BY <2>1, <2>3, <2>4
    <3>2. EndWord(a) = cursor + p /\ cursor' = cursor + p
      BY <2>1, <2>4, <2>5
    <3> HIDE DEF p
    <3> QED
      BY <1>1, <3>1, <3>2
  <2>7. Allocated(a)
    BY <2>5, <2>6 DEF Allocated
  <2>8. Standing(a)'
    BY <2>5 DEF Standing
  <2>9. words' \in [0 .. Words - 1 -> Int32] /\ \A b \in live : Standing(b)'
    BY <1>2, <2>1 DEF ArenaInv, ArenaTypes
  <2> QED
    BY <2>1, <2>5, <2>6, <2>7, <2>8, <2>9, Behind
<1>5. ASSUME NEW args \in Arguments, AllocateLayout(args) PROVE ArenaInv'
  <2>0. PICK layout, a : layout = LayoutAt(cursor, args) /\ a = Placed(layout)
    OBVIOUS
  <2>1. /\ FromArena /\ ~ LayoutAborts(0, args) /\ ~ LayoutAborts(cursor, args)
        /\ LayoutAt(0, args).capacity <= Words - cursor
        /\ words' = WriteHeader(words, layout)
        /\ cursor' = cursor + LayoutAt(0, args).capacity /\ live' = live \cup {a}
    BY <1>5, <2>0 DEF AllocateLayout, Fits
  <2>2. args \in [Fields -> Int32]
    BY ArenaAssumption
  <2>3. /\ cursor + HeaderWords <= MaxInt /\ cursor \in Int32
        /\ layout.capacity = LayoutAt(0, args).capacity
    BY <1>1, <2>0, <2>1, <2>2, ShapeMoves
  <2>4. layout.base = cursor /\ layout.capacity \in Int
    BY <2>0, <2>1, <2>2, <2>3, LayoutFits
  <2>5. IsPlaced(a)
    BY <2>0, <2>1, <2>2, <2>3 DEF IsPlaced
  <2>6. /\ a.kind = "layout" /\ FirstWord(a) = cursor
        /\ EndWord(a) = cursor + layout.capacity /\ a.layout = layout
    BY <2>0, <2>4 DEF Placed, FirstWord, EndWord
  <2>7. EndWord(a) <= Words /\ EndWord(a) = cursor'
    BY <1>1, <2>1, <2>3, <2>4, <2>6
  <2>8. Allocated(a)
    BY <2>5, <2>7 DEF Allocated
  <2>9. /\ words' \in [0 .. Words - 1 -> Int32] /\ Standing(a)'
        /\ \A b : Allocated(b) /\ Standing(b) /\ Apart(a, b) => Standing(b)'
    BY <2>1, <2>6, <2>8, HeaderWritten DEF ArenaInv, ArenaTypes
  <2>10. ASSUME NEW b \in live PROVE Standing(b)'
    <3>1. EndWord(b) <= cursor
      BY <2>1, EndsBehind
    <3>2. Apart(a, b)
      BY <2>6, <3>1 DEF Apart
    <3> QED
      BY <2>9, <3>2 DEF ArenaInv, ArenaTypes
  <2> QED
    BY <2>1, <2>6, <2>7, <2>8, <2>9, <2>10, Behind
<1>6. ASSUME NEW base \in Bases, NEW args \in Arguments, PlaceLayout(base, args) PROVE ArenaInv'
  <2> DEFINE layout == LayoutAt(base, args)
             a == Placed(layout)
  <2>1. /\ cursor = 0 /\ cursor' = cursor /\ ~ LayoutAborts(base, args)
        /\ ~ (Words < Wrap(base + layout.capacity))
        /\ words' = WriteHeader(words, layout) /\ live' = {a}
    <3>1. layout.base = base
      BY DEF LayoutAt
    <3> HIDE DEF layout
    <3> QED
      BY <1>6, <3>1 DEF PlaceLayout, WriteAborts, layout
  <2>2. args \in [Fields -> Int32] /\ base \in Int32 /\ base + HeaderWords <= MaxInt
    BY ArenaAssumption DEF PlacedLow
  <2>3. /\ layout.base = base /\ layout.capacity \in Int
        /\ Wrap(base + layout.capacity) = base + layout.capacity
    BY <2>1, <2>2, LayoutFits
  <2>4. IsPlaced(a)
    BY <2>1, <2>2 DEF IsPlaced
  <2> HIDE DEF layout
  <2>5. a.kind = "layout" /\ EndWord(a) = base + layout.capacity /\ a.layout = layout
    BY <2>3 DEF Placed, EndWord
  <2> HIDE DEF a
  <2>6. base \in Int
    BY <2>2, LayoutAssumption DEF Int32
  <2>7. Allocated(a)
    BY <1>1, <2>1, <2>3, <2>4, <2>5, <2>6 DEF Allocated
  <2>8. words' \in [0 .. Words - 1 -> Int32] /\ Standing(a)'
    BY <2>1, <2>5, <2>7, HeaderWritten DEF ArenaInv, ArenaTypes
  <2>9. (\A b \in live : Allocated(b) /\ Standing(b))'
    <3> SUFFICES ASSUME NEW b \in live' PROVE Allocated(b) /\ Standing(b)'
      OBVIOUS
    <3> QED
      BY <2>1, <2>7, <2>8
  <2>10. (\A b, c \in live : b # c => Apart(b, c))'
    BY <2>1
  <2>11. BeforeCursor'
    BY <2>1, <2>5 DEF BeforeCursor
  <2> QED
    BY <1>1, <2>1, <2>8, <2>9, <2>10, <2>11 DEF ArenaInv, ArenaTypes
<1>7. CASE Reset
  BY <1>1, <1>7 DEF Reset, ArenaInv, ArenaTypes, BeforeCursor
<1>8. ASSUME NEW a \in live, NEW v \in Payloads, Fill(a, v) PROVE ArenaInv'
  <2>1. cursor' = cursor /\ live' = live
    BY <1>8 DEF Fill
  <2>3. /\ words' \in [0 .. Words - 1 -> Int32]
        /\ \A i \in 0 .. Words - 1 : i \notin Indexes(a) => words'[i] = words[i]
    BY <1>8, FillTyped DEF ArenaInv, ArenaTypes
  <2>4. ASSUME NEW b \in live PROVE Standing(b)'
    <3> SUFFICES ASSUME b.kind = "layout", NEW s \in 0 .. HeaderWords - 1
                 PROVE  words'[b.layout.base + s] = HeaderWord(b.layout, s)
      BY DEF Standing
    <3>1. /\ b.layout.base \in 0 .. Words /\ EndWord(b) \in Int /\ EndWord(b) <= Words
          /\ b.layout.base + HeaderWords <= EndWord(b)
          /\ HeaderIndexes(b) = b.layout.base .. b.layout.base + HeaderWords - 1
      BY <1>1, AllocatedInside DEF HeaderIndexes, ArenaInv, ArenaTypes
    <3>2. b.layout.base + s \in 0 .. Words - 1 /\ b.layout.base + s \in HeaderIndexes(b)
      BY <1>1, <3>1, SlotOfField
    <3>3. Indexes(a) \cap HeaderIndexes(b) = {}
      <4>1. CASE a = b
        BY <4>1, AllocatedInside DEF ArenaInv, ArenaTypes
      <4>2. CASE a # b
        BY <4>2, ApartDisjoint DEF ArenaInv, ArenaTypes
      <4> QED
        BY <4>1, <4>2
    <3>4. words'[b.layout.base + s] = words[b.layout.base + s]
      BY <2>3, <3>2, <3>3
    <3> QED
      BY <3>4 DEF ArenaInv, ArenaTypes, Standing
  <2>5. (\A b \in live : Allocated(b) /\ Standing(b))'
    BY <2>1, <2>4 DEF ArenaInv, ArenaTypes
  <2>6. (\A b, c \in live : b # c => Apart(b, c))'
    BY <2>1 DEF ArenaInv, ArenaTypes
  <2>7. BeforeCursor'
    BY <2>1 DEF ArenaInv, ArenaTypes, BeforeCursor
  <2> QED
    BY <1>1, <2>1, <2>3, <2>5, <2>6, <2>7 DEF ArenaInv, ArenaTypes
<1>9. ASSUME NEW d \in Dimensions, AllocateScratch(d[1], d[2]) PROVE ArenaInv'
  <2>1. d = <<d[1], d[2]>>
    BY ArenaAssumption
  <2> QED
    BY <1>4, <1>9, <2>1
<1> QED
  BY <1>3, <1>5, <1>6, <1>7, <1>8, <1>9 DEF ArenaNext

LEMMA ArenaHolds == ASSUME PlacedLow PROVE Spec => []ArenaInv
<1>1. Init => ArenaInv
  BY ArenaStarts DEF Init
<1>2. ArenaInv /\ [Next]_vars => ArenaInv'
  <2> SUFFICES ASSUME ArenaInv, [Next]_vars PROVE ArenaInv'
    OBVIOUS
  <2>1. ArenaNext \/ UNCHANGED arenaVars
    BY DEF Next, vars, ArenaClient, JsonClient, ScopeClient
  <2>2. CASE UNCHANGED arenaVars
    BY <2>2 DEF arenaVars, ArenaInv, ArenaTypes, BeforeCursor, Standing
  <2> QED
    BY <2>1, <2>2, ArenaStep
<1> QED
  BY <1>1, <1>2, PTL DEF Spec

(* For every schema, every size of the buffer and every length asked for,  *)
(* the largest integers included: nothing that is allocated between two    *)
(* resets overlaps, and all of it lies in the buffer, when an application  *)
(* that places a layout itself leaves room for its header (reserve_region, *)
(* allocate_worker_scratch, thread_pool.mbt; the generated layout_at).     *)
THEOREM AllocationsDisjointHolds == ASSUME PlacedLow PROVE Spec => []AllocationsDisjoint
<1>1. ArenaInv => AllocationsDisjoint
  <2> SUFFICES ASSUME ArenaInv PROVE AllocationsDisjoint
    OBVIOUS
  <2>1. \A a \in live : Indexes(a) \cup HeaderIndexes(a) \subseteq 0 .. Words - 1
    <3> TAKE a \in live
    <3>1. /\ FirstWord(a) \in 0 .. Words /\ EndWord(a) \in FirstWord(a) .. Words
          /\ Indexes(a) \cup HeaderIndexes(a) \subseteq FirstWord(a) .. EndWord(a) - 1
      BY AllocatedInside DEF ArenaInv, ArenaTypes
    <3>2. FirstWord(a) .. EndWord(a) - 1 \subseteq 0 .. Words - 1
      BY <3>1, LayoutAssumption
    <3> QED
      BY <3>1, <3>2
  <2>2. \A a, b \in live :
           /\ a # b => Indexes(a) \cap Indexes(b) = {}
           /\ Indexes(a) \cap HeaderIndexes(b) = {}
           /\ a # b => HeaderIndexes(a) \cap HeaderIndexes(b) = {}
    <3> TAKE a, b \in live
    <3>1. CASE a = b
      BY <3>1, AllocatedInside DEF ArenaInv, ArenaTypes
    <3>2. CASE a # b
      BY <3>2, ApartDisjoint DEF ArenaInv, ArenaTypes
    <3> QED
      BY <3>1, <3>2
  <2>3. ASSUME NEW a \in live, a.kind = "scratch",
               NEW v \in 0 .. a.workers - 1, NEW w \in 0 .. a.workers - 1, v # w
        PROVE  WorkerWords(a, v) \cap WorkerWords(a, w) = {}
    <3>1. IsScratch(a)
      BY <2>3 DEF ArenaInv, ArenaTypes, Allocated, IsRegion, IsPlaced, Region, Placed
    <3>2. PICK o \in Nat, n \in Nat, e \in Nat : n # 0 /\ a = Scratch(o, n, e)
      BY <3>1 DEF IsScratch
    <3>3. a.offset = o /\ a.words = e /\ a.workers = n /\ o + n * e <= Words
      BY <2>3, <3>2 DEF Scratch, EndWord, ArenaInv, ArenaTypes, Allocated
    <3>4. /\ WorkerWords(a, v) = o + v * e .. o + v * e + e - 1 /\ v * e \in Nat
          /\ WorkerWords(a, w) = o + w * e .. o + w * e + e - 1 /\ w * e \in Nat
      <4>1. v \in 0 .. n - 1 /\ w \in 0 .. n - 1
        BY <2>3, <3>3
      <4> QED
        BY <3>3, <4>1, WorkerRow
    <3>5. v * e + e <= w * e \/ w * e + e <= v * e
      <4>1. v \in Nat /\ w \in Nat /\ (v < w \/ w < v)
        BY <2>3, <3>3
      <4> QED
        BY <4>1, Rows
    <3> DEFINE x == v * e
               y == w * e
    <3> HIDE DEF x, y
    <3>6. (o + x .. o + x + e - 1) \cap (o + y .. o + y + e - 1) = {}
      <4>1. x \in Nat /\ y \in Nat /\ (x + e <= y \/ y + e <= x)
        BY <3>4, <3>5 DEF x, y
      <4> QED
        BY <4>1
    <3> QED
      BY <3>4, <3>6 DEF x, y
  <2> QED
    BY <2>1, <2>2, <2>3 DEF AllocationsDisjoint
<1> QED
  BY <1>1, ArenaHolds, PTL

(* For every schema and buffer: whatever is written through allocations,   *)
(* a Guest that loads a layout at its base gets the Host's layout          *)
(* (write_header and load_<name>_layout of the generated code).            *)
THEOREM LoadAgreesHolds == ASSUME PlacedLow PROVE Spec => []LoadAgrees
<1>1. ArenaInv => LoadAgrees
  <2> SUFFICES ASSUME ArenaInv, NEW a \in live, a.kind = "layout"
               PROVE  /\ ~ LoadAborts(words, a.layout.base)
                      /\ LoadLayout(words, a.layout.base) = a.layout
    BY DEF LoadAgrees
  <2>1. IsPlaced(a) /\ EndWord(a) <= Words /\ Standing(a)
    BY DEF ArenaInv, ArenaTypes, Allocated, IsRegion, IsScratch, Region, Scratch
  <2>2. PICK base \in Int32, args \in [Fields -> Int32] :
           /\ a = Placed(LayoutAt(base, args)) /\ base + HeaderWords <= MaxInt
           /\ ~ LayoutAborts(base, args)
    BY <2>1 DEF IsPlaced
  <2> DEFINE layout == LayoutAt(base, args)
  <2>3. /\ base >= 0 /\ layout.base = base /\ layout.args = args
        /\ layout.capacity \in Int /\ HeaderWords <= layout.capacity
        /\ Wrap(base + layout.capacity) = base + layout.capacity
        /\ base + layout.capacity <= MaxInt
    BY <2>2, LayoutFits
  <2>4. a.kind = "layout" /\ a.layout = layout /\ EndWord(a) = layout.base + layout.capacity
    BY <2>2 DEF Placed, EndWord
  <2>5. layout = LayoutAt(base, args)
    OBVIOUS
  <2> HIDE DEF layout
  <2>6. /\ base \in Int /\ Words \in Int /\ MaxInt \in Nat /\ HeaderWords \in Nat \ {0}
        /\ base + layout.capacity <= Words
    BY <2>1, <2>3, <2>4, LayoutAssumption, SlotOfField DEF Int32
  <2>7. ASSUME NEW s \in 0 .. HeaderWords - 1
        PROVE  LoadWord(words, Wrap(base + s)) = HeaderWord(layout, s)
    <3>1. base + s \in 0 .. Words - 1 /\ base + s \in Int32
      BY <2>3, <2>6 DEF Int32
    <3>2. Wrap(base + s) = base + s
      BY <3>1, WrapSame
    <3>3. words[base + s] = HeaderWord(layout, s)
      BY <2>1, <2>3, <2>4 DEF Standing
    <3> QED
      BY <3>1, <3>2, <3>3 DEF LoadWord, ArenaInv, ArenaTypes
  <2>8. ASSUME NEW k \in Fields
        PROVE  LoadWord(words, Wrap(base + SlotsBefore[k] + (IF IsSlice(k) THEN 1 ELSE 0)))
                  = args[k]
    <3>1. /\ SlotsBefore[k] \in 0 .. HeaderWords - 1
          /\ IsSlice(k) => /\ HeaderWord(layout, SlotsBefore[k] + 1) = layout.args[k]
                           /\ SlotsBefore[k] + 1 \in 0 .. HeaderWords - 1
          /\ ~ IsSlice(k) => HeaderWord(layout, SlotsBefore[k]) = layout.args[k]
      BY HeaderOfField
    <3>2. CASE IsSlice(k)
      <4>1. base + SlotsBefore[k] + 1 = base + (SlotsBefore[k] + 1)
        BY <2>6, <3>1
      <4>2. LoadWord(words, Wrap(base + (SlotsBefore[k] + 1))) = args[k]
        BY <2>3, <2>7, <3>1, <3>2
      <4> QED
        BY <3>2, <4>1, <4>2
    <3>3. CASE ~ IsSlice(k)
      <4>1. base + SlotsBefore[k] + 0 = base + SlotsBefore[k]
        BY <2>6, <3>1
      <4>2. LoadWord(words, Wrap(base + SlotsBefore[k])) = args[k]
        BY <2>3, <2>7, <3>1, <3>3
      <4> QED
        BY <3>3, <4>1, <4>2
    <3> QED
      BY <3>2, <3>3
  <2>9. LoadLayout(words, base) = layout
    <3>1. [k \in Fields |-> LoadWord(words, Wrap(base + SlotsBefore[k] + (IF IsSlice(k) THEN 1 ELSE 0)))]
             = args
      BY <2>8
    <3> QED
      BY <2>5, <3>1 DEF LoadLayout
  <2>10. ~ OffsetDiffers(words, layout)
    <3> SUFFICES ASSUME NEW k \in Fields, IsSlice(k)
                 PROVE  LoadWord(words, Wrap(layout.base + SlotsBefore[k])) = layout.offset[k]
      BY DEF OffsetDiffers
    <3>1. /\ SlotsBefore[k] \in 0 .. HeaderWords - 1
          /\ HeaderWord(layout, SlotsBefore[k]) = layout.offset[k]
      BY HeaderOfField
    <3> QED
      BY <2>3, <2>7, <3>1
  <2>11. ~ (Words < Wrap(base + HeaderWords))
    <3>1. base + HeaderWords \in Int32 /\ base + HeaderWords <= Words
      BY <2>2, <2>3, <2>6 DEF Int32
    <3> QED
      BY <2>6, <3>1, WrapSame
  <2>12. ~ LoadAborts(words, base)
    BY <2>2, <2>3, <2>6, <2>9, <2>10, <2>11 DEF LoadAborts
  <2> QED
    BY <2>3, <2>4, <2>9, <2>12
<1> QED
  BY <1>1, ArenaHolds, PTL

LEMMA TypesStep == ASSUME ArenaTypes, ArenaNext PROVE ArenaTypes'
<1>1. /\ Words \in Nat /\ MaxInt \in Nat /\ Words <= MaxInt /\ cursor \in 0 .. Words
      /\ words \in [0 .. Words - 1 -> Int32] /\ DOMAIN words = 0 .. Words - 1
  BY LayoutAssumption DEF ArenaTypes
<1>2. ASSUME NEW n \in Int, Fits(n), cursor' = cursor + n PROVE cursor' \in 0 .. Words
  BY <1>1, <1>2 DEF Fits
<1>3. ASSUME NEW b \in Int32, NEW args \in [Fields -> Int32],
             words' = WriteHeader(words, LayoutAt(b, args))
      PROVE  words' \in [0 .. Words - 1 -> Int32]
  <2>1. \A k \in Fields : LayoutAt(b, args).offset[k] \in Int32
    BY OffsetsTyped
  <2>2. LayoutAt(b, args).base = b /\ LayoutAt(b, args).args = args
    BY DEF LayoutAt
  <2>3. ASSUME NEW s \in 0 .. HeaderWords - 1 PROVE HeaderWord(LayoutAt(b, args), s) \in Int32
    BY <2>1, <2>2, HeaderTyped
  <2>4. PICK layout : layout = LayoutAt(b, args)
    OBVIOUS
  <2>5. words' = [i \in 0 .. Words - 1 |-> IF i - b \in 0 .. HeaderWords - 1
                                          THEN HeaderWord(layout, i - b) ELSE words[i]]
    BY <1>1, <1>3, <2>2, <2>4 DEF WriteHeader
  <2> QED
    BY <1>1, <2>3, <2>4, <2>5
<1>4. \A args \in Arguments, b \in Int32 : args \in [Fields -> Int32] /\ LayoutAt(b, args).capacity \in Int
  <2> TAKE args \in Arguments, b \in Int32
  <2>1. args \in [Fields -> Int32]
    BY ArenaAssumption
  <2>2. /\ After(b, args)[Len(Schema)] \in Int /\ b \in Int
    <3>1. Len(Schema) \in Nat /\ After(b, args) \in [0 .. Len(Schema) -> Int32]
      BY <2>1, SlotsRecursive, EndsRecursive
    <3> QED
      BY <3>1, LayoutAssumption DEF Int32
  <2>3. After(b, args)[Len(Schema)] - b \in Int
    BY <2>2
  <2>4. Wrap(After(b, args)[Len(Schema)] - b) \in Int
    <3>1. Wrap(After(b, args)[Len(Schema)] - b) \in Int32
      BY <2>3, WrapInt
    <3> QED
      BY <3>1, LayoutAssumption DEF Int32
  <2> QED
    BY <2>1, <2>4 DEF LayoutAt
<1>5. cursor \in Int32 /\ 0 \in Int32
  BY <1>1 DEF Int32
<1>6. ASSUME NEW n \in Lengths, Allocate(n) PROVE ArenaTypes'
  <2>1. n \in Int
    BY ArenaAssumption, LayoutAssumption DEF Int32
  <2> QED
    BY <1>1, <1>2, <1>6, <2>1 DEF Allocate, ArenaTypes
<1>7. ASSUME NEW d \in Dimensions, AllocateScratch(d[1], d[2]) PROVE ArenaTypes'
  <2>1. d[1] * d[2] \in Int
    BY ArenaAssumption, LayoutAssumption DEF Int32
  <2>2. Wrap(d[1] * d[2]) \in Int
    BY <2>1, WrapInt, LayoutAssumption DEF Int32
  <2>3. Fits(Wrap(d[1] * d[2])) /\ cursor' = cursor + Wrap(d[1] * d[2]) /\ words' = words
    BY <1>7 DEF AllocateScratch, ScratchFits
  <2> QED
    BY <1>1, <1>2, <2>2, <2>3 DEF ArenaTypes
<1>8. ASSUME NEW args \in Arguments, AllocateLayout(args) PROVE ArenaTypes'
  <2>1. /\ Fits(LayoutAt(0, args).capacity) /\ cursor' = cursor + LayoutAt(0, args).capacity
        /\ words' = WriteHeader(words, LayoutAt(cursor, args))
    BY <1>8 DEF AllocateLayout
  <2> QED
    BY <1>2, <1>3, <1>4, <1>5, <2>1 DEF ArenaTypes
<1>9. ASSUME NEW b \in Bases, NEW args \in Arguments, PlaceLayout(b, args) PROVE ArenaTypes'
  <2>1. words' = WriteHeader(words, LayoutAt(b, args)) /\ cursor' = cursor /\ b \in Int32
    BY <1>9, ArenaAssumption DEF PlaceLayout
  <2> QED
    BY <1>1, <1>3, <1>4, <2>1 DEF ArenaTypes
<1>10. CASE Reset
  BY <1>1, <1>10 DEF Reset, ArenaTypes
<1>11. ASSUME NEW a \in live, NEW v \in Payloads, Fill(a, v) PROVE ArenaTypes'
  BY <1>1, <1>11, FillTyped DEF Fill, ArenaTypes
<1> QED
  BY <1>6, <1>7, <1>8, <1>9, <1>10, <1>11 DEF ArenaNext

(* A buffer that leaves room for one header below the largest Int.         *)
SmallBuffer == Words + HeaderWords <= MaxInt

(* For every schema and whatever the words at the base it is given are: a  *)
(* Guest is refused, or led to slices that lie in the buffer one after the *)
(* other (load_<name>_layout of the generated code).                       *)
THEOREM LoadedInsideHolds == ASSUME SmallBuffer PROVE Spec => []LoadedInside
<1>1. Init => ArenaTypes
  BY ArenaStarts DEF Init, ArenaInv, ArenaTypes
<1>2. ArenaTypes /\ [Next]_vars => ArenaTypes'
  <2> SUFFICES ASSUME ArenaTypes, [Next]_vars PROVE ArenaTypes'
    OBVIOUS
  <2>1. ArenaNext \/ UNCHANGED arenaVars
    BY DEF Next, vars, ArenaClient, JsonClient, ScopeClient
  <2>2. CASE UNCHANGED arenaVars
    BY <2>2 DEF arenaVars, ArenaTypes
  <2> QED
    BY <2>1, <2>2, TypesStep
<1>3. ArenaTypes => LoadedInside
  <2> SUFFICES ASSUME ArenaTypes, NEW base \in Int32, ~ LoadAborts(words, base),
                      NEW k \in Fields, IsSlice(k)
               PROVE  LET layout == LoadLayout(words, base) IN
                      /\ layout.offset[k] >= base + HeaderWords
                      /\ layout.offset[k] + layout.args[k] <= Words
                      /\ \A j \in Fields : IsSlice(j) /\ j < k =>
                            layout.offset[j] + layout.args[j] <= layout.offset[k]
    BY DEF LoadedInside
  <2>1. Words \in Nat /\ MaxInt \in Nat /\ HeaderWords \in Nat \ {0} /\ base \in Int
        /\ base <= MaxInt
    BY LayoutAssumption, SlotOfField DEF Int32
  <2> DEFINE args == [f \in Fields |->
                LoadWord(words, Wrap(base + SlotsBefore[f] + (IF IsSlice(f) THEN 1 ELSE 0)))]
             layout == LayoutAt(base, args)
  <2>2. LoadLayout(words, base) = layout
    BY DEF LoadLayout
  <2>3. layout.base = base /\ layout.args = args
    BY DEF LayoutAt
  <2>4. \A i : LoadWord(words, i) \in Int32
    BY <2>1 DEF LoadWord, ArenaTypes, Int32
  <2>5. args \in [Fields -> Int32]
    BY <2>4
  <2> HIDE DEF args, layout
  <2>6. /\ ~ (base < 0) /\ ~ (Words < Wrap(base + HeaderWords)) /\ ~ LayoutAborts(base, args)
        /\ ~ OffsetDiffers(words, layout) /\ ~ (Words < Wrap(base + layout.capacity))
    BY <2>2, <2>3 DEF LoadAborts
  <2>7. base + HeaderWords <= MaxInt
    <3> SUFFICES ASSUME MaxInt < base + HeaderWords PROVE FALSE
      BY <2>1
    <3>1. Words < base
      BY <2>1 DEF SmallBuffer
    <3>2. ASSUME NEW s \in 0 .. HeaderWords - 1 PROVE LoadWord(words, Wrap(base + s)) = 0
      <4>1. Wrap(base + s) \notin 0 .. Words - 1
        <5>1. CASE base + s <= MaxInt
          <6>1. base + s \in Int32
            BY <2>1, <3>1, <5>1 DEF Int32
          <6> QED
            BY <2>1, <3>1, <6>1, WrapSame
        <5>2. CASE MaxInt < base + s
          <6>1. Wrap(base + s) < 0
            BY <2>1, <5>2, WrapLow, HeaderAssumption
          <6> QED
            BY <2>1, <6>1
        <5> QED
          BY <2>1, <5>1, <5>2
      <4> QED
        BY <4>1 DEF LoadWord, ArenaTypes
    <3>3. ASSUME NEW f \in Fields PROVE args[f] = 0
      <4>1. /\ SlotsBefore[f] \in 0 .. HeaderWords - 1
            /\ IsSlice(f) => SlotsBefore[f] + 1 \in 0 .. HeaderWords - 1
        BY HeaderOfField
      <4>2. PICK s \in 0 .. HeaderWords - 1 :
               s = SlotsBefore[f] + (IF IsSlice(f) THEN 1 ELSE 0)
        BY <2>1, <4>1
      <4>3. base + SlotsBefore[f] + (IF IsSlice(f) THEN 1 ELSE 0) = base + s
        BY <2>1, <4>1, <4>2
      <4> QED
        BY <3>2, <4>3 DEF args
    <3> DEFINE e == After(base, args)
               z == Wrap(base + HeaderWords)
               n == Len(Schema)
    <3>4. /\ e \in [0 .. n -> Int32] /\ e[0] = z
          /\ \A f \in Fields : e[f] = Upper(base, args, f, e[f - 1])
      BY <2>5, EndsRecursive
    <3>5. z < 0
      BY <2>1, WrapLow, HeaderAssumption
    <3>6. n \in Nat /\ Fields = 1 .. n
      BY SlotsRecursive
    <3>7. layout.offset[k] = e[k - 1]
      BY DEF layout, LayoutAt
    <3> HIDE DEF e, z, n
    <3>8. ASSUME NEW f \in Fields PROVE e[f] = e[f - 1]
      <4>1. e[f - 1] \in Int32 /\ e[f - 1] + 0 = e[f - 1]
        <5>1. f - 1 \in 0 .. n
          BY <3>6
        <5>2. e[f - 1] \in Int32
          BY <3>4, <5>1
        <5> QED
          BY <5>2, LayoutAssumption DEF Int32
      <4> QED
        BY <3>3, <3>4, <4>1, WrapSame DEF Upper
    <3>9. \A f \in 0 .. n : e[f] = z
      <4> DEFINE P == {f \in 0 .. n : e[f] = z}
      <4>1. 0 \in P
        BY <3>4, <3>6
      <4>2. ASSUME NEW f \in 1 .. n, f - 1 \in P PROVE f \in P
        BY <3>6, <3>8, <4>2
      <4> HIDE DEF P
      <4>3. \A f \in 0 .. n : f \in P
        BY <3>6, <4>1, <4>2, Upwards
      <4> QED
        BY <4>3 DEF P
    <3>10. layout.offset[k] < 0
      BY <3>5, <3>6, <3>7, <3>9
    <3>11. LoadWord(words, Wrap(base + SlotsBefore[k])) = 0
      BY <3>2, HeaderOfField
    <3> QED
      BY <2>3, <2>6, <3>10, <3>11 DEF OffsetDiffers
  <2>8. /\ layout.capacity \in Int /\ Wrap(base + layout.capacity) = base + layout.capacity
        /\ args[k] >= 0 /\ base + HeaderWords <= layout.offset[k]
        /\ layout.offset[k] + args[k] <= base + layout.capacity
        /\ \A j \in Fields : IsSlice(j) /\ j < k =>
              layout.offset[j] + args[j] <= layout.offset[k]
        /\ layout.offset[k] \in Int32 /\ args[k] \in Int32
    BY <2>5, <2>6, <2>7, LayoutFits DEF layout
  <2>9. layout.offset[k] \in Int /\ args[k] \in Int
    BY <2>8, LayoutAssumption DEF Int32
  <2>10. layout.offset[k] + args[k] <= Words
    BY <2>1, <2>6, <2>8, <2>9
  <2>11. layout.offset[k] >= base + HeaderWords
    BY <2>1, <2>8, <2>9
  <2> QED
    BY <2>2, <2>3, <2>8, <2>10, <2>11
<1> QED
  BY <1>1, <1>2, <1>3, PTL DEF Spec
=============================================================================
