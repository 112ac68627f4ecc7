------------------------- MODULE ActiveRoutingExact -------------------------
(***************************************************************************)
(* An answered gather stands for exactly the updates before it: the engine *)
(* implements Reduction, for every network whose routes are as             *)
(* TreeAssumption says, and every number of flows, operand buffers and     *)
(* lines of an update.                                                     *)
(***************************************************************************)
EXTENDS ActiveRoutingTree

-----------------------------------------------------------------------------
(* Sums of families of numbers, as the size of a set with N[y] elements    *)
(* for each y.                                                             *)

Grid(S) == S \X (Nat \ {0})

Units(N) == {z \in Grid(DOMAIN N) : z[2] <= N[z[1]]}

Finite(N) == IsFiniteSet(Units(N))

Total(N) == Cardinality(Units(N))

LEMMA TotalType ==
  ASSUME NEW N, Finite(N)
  PROVE  Total(N) \in Nat
BY FS_CardinalityType DEF Finite, Total

LEMMA Column ==
  ASSUME NEW y, NEW n \in Nat
  PROVE  IsFiniteSet({y} \X (1..n)) /\ Cardinality({y} \X (1..n)) = n
<1>1. IsFiniteSet(1..n) /\ Cardinality(1..n) = n
  BY FS_Interval
<1>2. IsFiniteSet({y}) /\ Cardinality({y}) = 1
  BY FS_Singleton
<1>3. IsFiniteSet({y} \X (1..n)) /\ Cardinality({y} \X (1..n)) = 1 * n
  BY <1>1, <1>2, FS_Product, ZenonT(30)
<1> QED BY <1>3

LEMMA ApartUnion ==
  ASSUME NEW S, NEW T, IsFiniteSet(S), IsFiniteSet(T), S \cap T = {}
  PROVE  /\ IsFiniteSet(S \cup T)
         /\ Cardinality(S \cup T) = Cardinality(S) + Cardinality(T)
<1>1. /\ IsFiniteSet(S \cup T)
      /\ Cardinality(S \cup T) = Cardinality(S) + Cardinality(T) - Cardinality(S \cap T)
  BY FS_Union
<1>2. Cardinality(S \cap T) = 0 /\ Cardinality(S) \in Nat /\ Cardinality(T) \in Nat
  BY FS_EmptySet, FS_CardinalityType
<1> QED BY <1>1, <1>2

LEMMA UnitsIn ==
  ASSUME NEW S, NEW N \in [S -> Nat]
  PROVE  /\ \A j, k : <<j, k>> \in Units(N) <=> j \in S /\ k \in Nat /\ 1 <= k /\ k <= N[j]
         /\ \A z \in Units(N) : \E j \in S, k \in Nat : z = <<j, k>>
<1>1. DOMAIN N = S
  OBVIOUS
<1>2. ASSUME NEW j, NEW k
      PROVE  <<j, k>> \in S \X (Nat \ {0}) <=> j \in S /\ k \in Nat /\ 1 <= k
  OBVIOUS
<1>3. ASSUME NEW j, NEW k
      PROVE  <<j, k>> \in Units(N) <=> <<j, k>> \in S \X (Nat \ {0}) /\ k <= N[j]
  <2>1. <<j, k>>[1] = j /\ <<j, k>>[2] = k
    OBVIOUS
  <2>2. PICK z : z = <<j, k>>
    OBVIOUS
  <2>3. z[1] = j /\ z[2] = k
    BY <2>1, <2>2
  <2>4. z \in Units(N) <=> z \in Grid(DOMAIN N) /\ z[2] <= N[z[1]]
    BY DEF Units
  <2>5. Grid(DOMAIN N) = Grid(S)
    BY <1>1
  <2>6. Grid(S) = S \X (Nat \ {0})
    BY DEF Grid
  <2> QED BY <2>2, <2>3, <2>4, <2>5, <2>6
<1>4. \A z \in S \X (Nat \ {0}) : \E j \in S, k \in Nat : z = <<j, k>>
  OBVIOUS
<1>5. Units(N) \subseteq S \X (Nat \ {0})
  <2>1. Units(N) \subseteq Grid(DOMAIN N)
    BY DEF Units
  <2>2. Grid(DOMAIN N) = Grid(S)
    BY <1>1
  <2>3. Grid(S) = S \X (Nat \ {0})
    BY DEF Grid
  <2> QED BY <2>1, <2>2, <2>3
<1> QED BY <1>2, <1>3, <1>4, <1>5

(* Units of y and the others.                                              *)
LEMMA SplitUnits ==
  ASSUME NEW S, NEW N \in [S -> Nat], NEW y \in S, NEW A,
         A = {z \in Units(N) : z[1] # y}
  PROVE  /\ Units(N) = A \cup ({y} \X (1..N[y]))
         /\ A \cap ({y} \X (1..N[y])) = {}
<1>1. DOMAIN N = S /\ N[y] \in Nat
  OBVIOUS
<1>2. ASSUME NEW z \in Units(N), z \notin A PROVE z \in {y} \X (1..N[y])
  <2>1. PICK j \in S, k \in Nat : z = <<j, k>>
    BY UnitsIn
  <2>2. j = y
    BY <1>2, <2>1
  <2> QED BY <1>1, <1>2, <2>1, <2>2, UnitsIn
<1>4. ASSUME NEW z \in {y} \X (1..N[y]) PROVE z \in Units(N)
  <2>1. PICK k \in 1..N[y] : z = <<y, k>>
    OBVIOUS
  <2>2. k \in Nat /\ 1 <= k /\ k <= N[y]
    BY <1>1
  <2> QED BY <2>1, <2>2, UnitsIn
<1>3. ASSUME NEW z \in A PROVE z \notin {y} \X (1..N[y])
  BY <1>3
<1> QED BY <1>2, <1>3, <1>4

LEMMA TotalSplit ==
  ASSUME NEW S, NEW N \in [S -> Nat], NEW y \in S, NEW A,
         A = {z \in Units(N) : z[1] # y}
  PROVE  /\ Finite(N) <=> IsFiniteSet(A)
         /\ Finite(N) => Cardinality(A) \in Nat /\ Total(N) = Cardinality(A) + N[y]
<1>1. /\ Units(N) = A \cup ({y} \X (1..N[y])) /\ A \cap ({y} \X (1..N[y])) = {}
      /\ A \subseteq Units(N) /\ N[y] \in Nat
  BY SplitUnits
<1>2. IsFiniteSet({y} \X (1..N[y])) /\ Cardinality({y} \X (1..N[y])) = N[y]
  BY <1>1, Column
<1>3. Finite(N) => IsFiniteSet(A)
  BY <1>1, FS_Subset DEF Finite
<1>4. ASSUME IsFiniteSet(A)
      PROVE  Finite(N) /\ Cardinality(A) \in Nat /\ Total(N) = Cardinality(A) + N[y]
  BY <1>1, <1>2, <1>4, ApartUnion, FS_CardinalityType DEF Finite, Total
<1> QED BY <1>3, <1>4

(* A number changes.                                                       *)
LEMMA TotalChange ==
  ASSUME NEW S, NEW N \in [S -> Nat], NEW M \in [S -> Nat], NEW y \in S,
         \A x \in S : x # y => M[x] = N[x], Finite(N)
  PROVE  Finite(M) /\ Total(M) + N[y] = Total(N) + M[y]
<1>1. PICK A : A = {z \in Units(N) : z[1] # y}
  OBVIOUS
<1>2. DOMAIN N = S /\ DOMAIN M = S /\ N[y] \in Nat /\ M[y] \in Nat
  OBVIOUS
<1>3. A = {z \in Units(M) : z[1] # y}
  <2>1. \A j, k : j # y => (<<j, k>> \in Units(N) <=> <<j, k>> \in Units(M))
    BY UnitsIn
  <2>2. \A z \in Units(N) : \E j \in S, k \in Nat : z = <<j, k>>
    BY UnitsIn
  <2>3. \A z \in Units(M) : \E j \in S, k \in Nat : z = <<j, k>>
    BY UnitsIn
  <2>4. ASSUME NEW z \in Units(N), z[1] # y PROVE z \in Units(M)
    BY <2>1, <2>2, <2>4
  <2>5. ASSUME NEW z \in Units(M), z[1] # y PROVE z \in Units(N)
    BY <2>1, <2>3, <2>5
  <2> QED BY <1>1, <2>4, <2>5
<1>4. IsFiniteSet(A) /\ Cardinality(A) \in Nat /\ Total(N) = Cardinality(A) + N[y]
  BY <1>1, TotalSplit
<1>5. Finite(M) /\ Total(M) = Cardinality(A) + M[y]
  BY <1>3, <1>4, TotalSplit
<1> QED BY <1>2, <1>4, <1>5

(* Nothing to count.                                                       *)
LEMMA TotalNone ==
  ASSUME NEW S, NEW N \in [S -> Nat], \A x \in S : N[x] = 0
  PROVE  Finite(N) /\ Total(N) = 0
<1>1. Units(N) = {}
  <2>1. ASSUME NEW z \in Units(N) PROVE FALSE
    <3>1. PICK j \in S, k \in Nat : z = <<j, k>>
      BY UnitsIn
    <3>2. 1 <= k /\ k <= N[j]
      BY <3>1, UnitsIn
    <3> QED BY <3>2
  <2> QED BY <2>1
<1> QED BY <1>1, FS_EmptySet DEF Finite, Total

(* A number is added at the end of a sequence.                             *)
LEMMA TotalAppend ==
  ASSUME NEW n \in Nat, NEW N \in [1..n -> Nat], NEW M \in [1..(n+1) -> Nat],
         \A j \in 1..n : M[j] = N[j], Finite(N)
  PROVE  Finite(M) /\ Total(M) = Total(N) + M[n+1]
<1>1. n + 1 \in 1..(n+1) /\ M[n+1] \in Nat /\ 1..(n+1) = (1..n) \cup {n+1} /\ n + 1 \notin 1..n
  OBVIOUS
<1>2. PICK A : A = {z \in Units(M) : z[1] # n + 1}
  OBVIOUS
<1>3. A = Units(N)
  <2>0. /\ \A j, k : <<j, k>> \in Units(N) <=> j \in 1..n /\ k \in Nat /\ 1 <= k /\ k <= N[j]
        /\ \A j, k : <<j, k>> \in Units(M) <=> j \in 1..(n+1) /\ k \in Nat /\ 1 <= k /\ k <= M[j]
    BY UnitsIn
  <2>1. ASSUME NEW j, NEW k, j # n + 1 PROVE <<j, k>> \in Units(M) <=> <<j, k>> \in Units(N)
    <3>1. j \in 1..(n+1) <=> j \in 1..n
      BY <1>1, <2>1
    <3> QED BY <2>0, <3>1
  <2>2. ASSUME NEW z \in A PROVE z \in Units(N)
    <3>1. PICK j \in 1..(n+1), k \in Nat : z = <<j, k>>
      BY <1>2, UnitsIn
    <3>2. j # n + 1
      BY <1>2, <3>1
    <3> QED BY <1>2, <2>1, <3>1, <3>2
  <2>3. ASSUME NEW z \in Units(N) PROVE z \in A
    <3>1. PICK j \in 1..n, k \in Nat : z = <<j, k>>
      BY UnitsIn
    <3>2. j # n + 1
      BY <1>1
    <3> QED BY <1>2, <2>1, <3>1, <3>2
  <2> QED BY <2>2, <2>3
<1>4. Finite(M) /\ Total(M) = Cardinality(A) + M[n+1]
  BY <1>1, <1>2, <1>3, TotalSplit DEF Finite
<1> QED BY <1>3, <1>4 DEF Total

(* A number is taken out of a sequence.                                    *)
LEMMA TotalRemove ==
  ASSUME NEW n \in Nat, NEW i \in 1..n, NEW N \in [1..n -> Nat], NEW M \in [1..(n-1) -> Nat],
         \A j \in 1..(n-1) : M[j] = N[IF j < i THEN j ELSE j + 1], Finite(N)
  PROVE  Finite(M) /\ Total(M) + N[i] = Total(N)
<1>1. PICK A : A = {z \in Units(N) : z[1] # i}
  OBVIOUS
<1>2. IsFiniteSet(A) /\ Cardinality(A) \in Nat /\ Total(N) = Cardinality(A) + N[i]
  <2>1. PICK S : S = 1..n
    OBVIOUS
  <2>2. N \in [S -> Nat] /\ i \in S
    BY <2>1
  <2> QED BY <1>1, <2>2, TotalSplit
<1>3. PICK g : g = [z \in A |-> <<IF z[1] < i THEN z[1] ELSE z[1] - 1, z[2]>>]
  OBVIOUS
<1>4. ASSUME NEW z \in A
      PROVE  \E j \in 1..n, k \in Nat : /\ z = <<j, k>> /\ j # i /\ 1 <= k /\ k <= N[j]
                                       /\ g[z] = <<IF j < i THEN j ELSE j - 1, k>>
  <2>1. PICK j \in 1..n, k \in Nat : z = <<j, k>>
    BY <1>1, UnitsIn
  <2>2. 1 <= k /\ k <= N[j]
    BY <1>1, <2>1, UnitsIn
  <2>3. j # i
    BY <1>1, <2>1
  <2>4. g[z] = <<IF j < i THEN j ELSE j - 1, k>>
    BY <1>3, <2>1
  <2> QED BY <2>1, <2>2, <2>3, <2>4
<1>5. ASSUME NEW z \in A PROVE g[z] \in Units(M)
  <2>1. PICK j \in 1..n, k \in Nat : /\ z = <<j, k>> /\ j # i /\ 1 <= k /\ k <= N[j]
                                   /\ g[z] = <<IF j < i THEN j ELSE j - 1, k>>
    BY <1>4
  <2>2. PICK m : m = IF j < i THEN j ELSE j - 1
    OBVIOUS
  <2>3. m \in 1..(n-1) /\ M[m] = N[j] /\ g[z] = <<m, k>>
    BY <2>1, <2>2
  <2>4. k \in Nat /\ 1 <= k /\ k <= M[m]
    BY <2>1, <2>3
  <2>5. <<m, k>> \in Units(M)
    BY <2>3, <2>4, UnitsIn
  <2> QED BY <2>3, <2>5
<1>6. ASSUME NEW z \in A, NEW w \in A, g[z] = g[w] PROVE z = w
  <2>1. PICK j \in 1..n, k \in Nat : /\ z = <<j, k>> /\ j # i /\ 1 <= k /\ k <= N[j]
                                   /\ g[z] = <<IF j < i THEN j ELSE j - 1, k>>
    BY <1>4
  <2>2. PICK j2 \in 1..n, k2 \in Nat : /\ w = <<j2, k2>> /\ j2 # i /\ 1 <= k2 /\ k2 <= N[j2]
                                     /\ g[w] = <<IF j2 < i THEN j2 ELSE j2 - 1, k2>>
    BY <1>4
  <2>3. PICK m, m2 : m = (IF j < i THEN j ELSE j - 1) /\ m2 = (IF j2 < i THEN j2 ELSE j2 - 1)
    OBVIOUS
  <2>6. <<m, k>> = <<m2, k2>>
    BY <1>6, <2>1, <2>2, <2>3
  <2>4. k = k2 /\ (IF j < i THEN j ELSE j - 1) = (IF j2 < i THEN j2 ELSE j2 - 1)
    BY <2>3, <2>6
  <2>5. j = j2
    BY <2>1, <2>2, <2>4, SMTT(30)
  <2> QED BY <2>1, <2>2, <2>4, <2>5
<1>7. ASSUME NEW u \in Units(M) PROVE \E z \in A : g[z] = u
  <2>1. PICK m \in 1..(n-1), k \in Nat : u = <<m, k>>
    BY UnitsIn
  <2>2. 1 <= k /\ k <= M[m]
    BY <2>1, UnitsIn
  <2>3. PICK j : j = IF m < i THEN m ELSE m + 1
    OBVIOUS
  <2>4. j \in 1..n /\ j # i /\ N[j] = M[m]
    BY <2>3
  <2>5. <<j, k>> \in Units(N)
    BY <2>2, <2>4, UnitsIn
  <2>6. <<j, k>> \in A
    BY <1>1, <2>4, <2>5
  <2>7. g[<<j, k>>] = <<IF j < i THEN j ELSE j - 1, k>>
    BY <1>3, <2>6
  <2>8. (IF j < i THEN j ELSE j - 1) = m
    BY <2>3, <2>4
  <2> QED BY <2>1, <2>6, <2>7, <2>8
<1>8. g \in [A -> Units(M)]
  BY <1>3, <1>5
<1>9. g \in Bijection(A, Units(M))
  BY <1>6, <1>7, <1>8 DEF Bijection, Injection, Surjection, IsInjective
<1>10. ExistsBijection(A, Units(M))
  BY <1>9 DEF ExistsBijection
<1>11. IsFiniteSet(Units(M)) /\ Cardinality(Units(M)) = Cardinality(A)
  BY <1>2, <1>10, FS_Bijection
<1> QED BY <1>2, <1>11 DEF Finite, Total

-----------------------------------------------------------------------------
(* Lines of flow f still to be counted by some cube.  What a half packet   *)
(* asks for is counted where the update was split.                         *)

Todo(f, q) ==
  IF q.flow = f /\ q.cmd \in {"ADD", "MULT"}
  THEN IF q.half = 0 THEN q.lines ELSE q.lines - 1
  ELSE 0

Loads(f, s) == [j \in 1..Len(s) |-> Todo(f, s[j])]

Weight(f, s) == Total(Loads(f, s))

LEMMA TodoType ==
  ASSUME NEW f, NEW q \in Request
  PROVE  Todo(f, q) \in Nat /\ Todo(f, q) <= MaxLines
<1>1. q.lines \in 1..MaxLines /\ MaxLines \in Nat
  BY ARTAssumption DEF Request
<1>2. q.lines \in Nat /\ q.lines - 1 \in Nat /\ q.lines <= MaxLines
  BY <1>1
<1> QED BY <1>1, <1>2 DEF Todo

LEMMA LoadsType ==
  ASSUME NEW f, NEW s \in Seq(Request)
  PROVE  /\ Len(s) \in Nat /\ Loads(f, s) \in [1..Len(s) -> Nat]
         /\ \A j \in 1..Len(s) : Loads(f, s)[j] = Todo(f, s[j])
         /\ Finite(Loads(f, s)) /\ Weight(f, s) \in Nat
<1>1. Len(s) \in Nat /\ \A j \in 1..Len(s) : s[j] \in Request
  BY LenProperties, ElementOfSeq
<1>2. Loads(f, s) \in [1..Len(s) -> Nat] /\ \A j \in 1..Len(s) : Loads(f, s)[j] = Todo(f, s[j])
  BY <1>1, TodoType DEF Loads
<1>3. PICK S : S = 1..Len(s)
  OBVIOUS
<1>4. Loads(f, s) \in [S -> Nat]
  BY <1>2, <1>3
<1>5. Units(Loads(f, s)) \subseteq S \X (1..MaxLines)
  <2>1. ASSUME NEW z \in Units(Loads(f, s)) PROVE z \in S \X (1..MaxLines)
    <3>1. PICK j \in S, k \in Nat : z = <<j, k>>
      BY <1>4, UnitsIn
    <3>2. 1 <= k /\ k <= Loads(f, s)[j]
      BY <1>4, <3>1, UnitsIn
    <3>5. Loads(f, s)[j] = Todo(f, s[j]) /\ s[j] \in Request
      BY <1>1, <1>2, <1>3
    <3>3. Loads(f, s)[j] \in Nat /\ Loads(f, s)[j] <= MaxLines /\ MaxLines \in Nat
      BY <3>5, TodoType, ARTAssumption
    <3>4. k \in 1..MaxLines
      BY <3>2, <3>3
    <3> QED BY <3>1, <3>4
  <2> QED BY <2>1
<1>6. IsFiniteSet(S) /\ IsFiniteSet(1..MaxLines)
  BY <1>1, <1>3, FS_Interval, ARTAssumption
<1>7. IsFiniteSet(S \X (1..MaxLines))
  BY <1>6, FS_Product
<1>8. Finite(Loads(f, s))
  BY <1>5, <1>7, FS_Subset DEF Finite
<1> QED BY <1>1, <1>2, <1>8, TotalType DEF Weight

LEMMA WeightEmpty ==
  ASSUME NEW f
  PROVE  Weight(f, <<>>) = 0
<1>1. Loads(f, <<>>) \in [1..0 -> Nat]
  BY DEF Loads
<1>2. PICK S : S = 1..0
  OBVIOUS
<1>3. Loads(f, <<>>) \in [S -> Nat] /\ S = {}
  BY <1>1, <1>2
<1> QED BY <1>3, TotalNone DEF Weight

LEMMA WeightAppend ==
  ASSUME NEW f, NEW s \in Seq(Request), NEW e \in Request
  PROVE  Weight(f, Append(s, e)) = Weight(f, s) + Todo(f, e)
<1> DEFINE t == Append(s, e)
<1>1. t \in Seq(Request) /\ Len(t) = Len(s) + 1 /\ Len(s) \in Nat
      /\ (\A j \in 1..Len(s) : t[j] = s[j]) /\ t[Len(s) + 1] = e
  BY AppendProperties, LenProperties
<1> HIDE DEF t
<1>2. PICK n \in Nat : n = Len(s)
  BY <1>1
<1>3. /\ Loads(f, s) \in [1..n -> Nat] /\ Loads(f, t) \in [1..(n+1) -> Nat]
      /\ \A j \in 1..n : Loads(f, t)[j] = Loads(f, s)[j]
      /\ Loads(f, t)[n+1] = Todo(f, e) /\ Finite(Loads(f, s))
  BY <1>1, <1>2, LoadsType
<1>4. Total(Loads(f, t)) = Total(Loads(f, s)) + Loads(f, t)[n+1]
  BY <1>3, TotalAppend
<1> QED BY <1>3, <1>4 DEF Weight, t

LEMMA WeightRemove ==
  ASSUME NEW f, NEW s \in Seq(Request), NEW i \in 1..Len(s), NEW t,
         t \in Seq(Request), Len(t) = Len(s) - 1,
         \A j \in 1..Len(t) : t[j] = s[IF j < i THEN j ELSE j + 1]
  PROVE  Weight(f, t) + Todo(f, s[i]) = Weight(f, s)
<1>1. PICK n \in Nat : n = Len(s)
  BY LoadsType
<1>2. /\ Loads(f, s) \in [1..n -> Nat] /\ Loads(f, t) \in [1..(n-1) -> Nat]
      /\ Finite(Loads(f, s)) /\ i \in 1..n /\ Loads(f, s)[i] = Todo(f, s[i])
  BY <1>1, LoadsType
<1>3. ASSUME NEW j \in 1..(n-1) PROVE Loads(f, t)[j] = Loads(f, s)[IF j < i THEN j ELSE j + 1]
  <2>1. PICK k : k = IF j < i THEN j ELSE j + 1
    OBVIOUS
  <2>2. k \in 1..n /\ j \in 1..Len(t) /\ t[j] = s[k]
    BY <1>1, <1>2, <2>1
  <2>3. Loads(f, t)[j] = Todo(f, s[k]) /\ Loads(f, s)[k] = Todo(f, s[k])
    BY <1>1, <2>2, LoadsType
  <2> QED BY <2>1, <2>3
<1>4. Total(Loads(f, t)) + Loads(f, s)[i] = Total(Loads(f, s))
  BY <1>2, <1>3, TotalRemove
<1> QED BY <1>2, <1>4 DEF Weight

LEMMA WeightTail ==
  ASSUME NEW f, NEW s \in Seq(Request), s # <<>>
  PROVE  Weight(f, Tail(s)) + Todo(f, Head(s)) = Weight(f, s)
<1>1. /\ Tail(s) \in Seq(Request) /\ Len(Tail(s)) = Len(s) - 1 /\ Head(s) = s[1]
      /\ \A j \in 1..Len(Tail(s)) : Tail(s)[j] = s[j + 1]
      /\ Len(s) \in Nat /\ Len(s) # 0
  <2>1. Tail(s) \in Seq(Request) /\ Len(Tail(s)) = Len(s) - 1 /\ Head(s) = s[1]
    BY HeadTailProperties
  <2>2. \A j \in 1..Len(Tail(s)) : Tail(s)[j] = s[j + 1]
    BY HeadTailProperties
  <2>3. Len(s) \in Nat /\ Len(s) # 0
    BY LenProperties, EmptySeq
  <2> QED BY <2>1, <2>2, <2>3
<1>2. 1 \in 1..Len(s) /\ \A j \in 1..Len(Tail(s)) : ~(j < 1)
  BY <1>1
<1>3. \A j \in 1..Len(Tail(s)) : Tail(s)[j] = s[IF j < 1 THEN j ELSE j + 1]
  BY <1>1, <1>2
<1> QED BY <1>1, <1>2, <1>3, WeightRemove

LEMMA TotalReplace ==
  ASSUME NEW n \in Nat, NEW i \in 1..n, NEW N \in [1..n -> Nat], NEW M \in [1..n -> Nat],
         \A j \in 1..n : j # i => M[j] = N[j], Finite(N)
  PROVE  Total(M) + N[i] = Total(N) + M[i]
<1>1. PICK S : S = 1..n
  OBVIOUS
<1>2. N \in [S -> Nat] /\ M \in [S -> Nat] /\ i \in S /\ Finite(N)
  BY <1>1
<1>3. \A j \in S : j # i => M[j] = N[j]
  BY <1>1
<1> QED BY ONLY <1>2, <1>3, TotalChange, SMT

LEMMA WeightReplace ==
  ASSUME NEW f, NEW s \in Seq(Request), NEW i \in 1..Len(s), NEW e \in Request, NEW t,
         t = ReplaceAt(s, i, e)
  PROVE  Weight(f, t) + Todo(f, s[i]) = Weight(f, s) + Todo(f, e)
<1>1. /\ t \in Seq(Request) /\ Len(t) = Len(s) /\ Len(s) \in Nat
      /\ \A j \in 1..Len(s) : t[j] = IF j = i THEN e ELSE s[j]
  BY ExceptSeq, LenProperties DEF ReplaceAt
<1>2. PICK n \in Nat : n = Len(s)
  BY <1>1
<1>3. /\ Loads(f, s) \in [1..n -> Nat] /\ Loads(f, t) \in [1..n -> Nat] /\ i \in 1..n
      /\ Finite(Loads(f, s)) /\ Loads(f, s)[i] = Todo(f, s[i]) /\ Loads(f, t)[i] = Todo(f, e)
      /\ \A j \in 1..n : j # i => Loads(f, t)[j] = Loads(f, s)[j]
  BY <1>1, <1>2, LoadsType
<1>4. Total(Loads(f, t)) + Loads(f, s)[i] = Total(Loads(f, s)) + Loads(f, t)[i]
  BY <1>3, TotalReplace
<1> QED BY <1>3, <1>4 DEF Weight

(* n is what K, nothing or one packet, still brings.                       *)
Leaves(f, K, n) == (K = {} /\ n = 0) \/ \E e \in Request : K = {e} /\ n = Todo(f, e)

LEMMA WeightTurns ==
  ASSUME NEW f, NEW s \in Seq(Request), NEW i \in 1..Len(s), NEW K, NEW t, NEW n,
         Turns(s, i, K, t), Leaves(f, K, n)
  PROVE  Weight(f, t) + Todo(f, s[i]) = Weight(f, s) + n
<1>1. CASE K = {} /\ t = RemoveAt(s, i)
  <2>1. /\ Len(s) \in Nat /\ t \in Seq(Request) /\ DOMAIN t = 1..(Len(s) - 1)
        /\ \A j \in 1..(Len(s) - 1) : t[j] = IF j < i THEN s[j] ELSE s[j + 1]
    BY <1>1, RemoveAtShape, RemoveAtType, LenProperties
  <2>2. DOMAIN t = 1..Len(t) /\ Len(t) \in Nat
    BY <2>1, LenProperties
  <2>3. Len(t) = Len(s) - 1
    BY <2>1, <2>2
  <2>4. \A j \in 1..Len(t) : t[j] = s[IF j < i THEN j ELSE j + 1]
    BY <2>1, <2>3
  <2>5. Weight(f, t) + Todo(f, s[i]) = Weight(f, s)
    BY <2>1, <2>3, <2>4, WeightRemove
  <2>6. n = 0 /\ Weight(f, s) \in Nat
    BY <1>1, LoadsType DEF Leaves
  <2> QED BY <2>5, <2>6
<1>2. ASSUME NEW e, K = {e}, t = ReplaceAt(s, i, e) PROVE Weight(f, t) + Todo(f, s[i]) = Weight(f, s) + n
  <2>1. e \in Request /\ n = Todo(f, e)
    BY <1>2 DEF Leaves
  <2> QED BY <1>2, <2>1, WeightReplace
<1> QED BY <1>1, <1>2 DEF Turns

-----------------------------------------------------------------------------
(* Lines on all links, or in all input buffers.                            *)

Channels == Cubes \X Links

Fill(f, B) == [y \in Channels |-> Weight(f, B[y[1]][y[2]])]

OfRequests(B) == B \in [Cubes -> [Links -> Seq(Request)]]

LEMMA FillType ==
  ASSUME NEW f, NEW B, OfRequests(B)
  PROVE  /\ Fill(f, B) \in [Channels -> Nat]
         /\ \A c \in Cubes, l \in Links : /\ <<c, l>> \in Channels
                                          /\ Fill(f, B)[<<c, l>>] = Weight(f, B[c][l])
                                          /\ Weight(f, B[c][l]) \in Nat
<1>1. ASSUME NEW y \in Channels PROVE Weight(f, B[y[1]][y[2]]) \in Nat
  <2>1. y[1] \in Cubes /\ y[2] \in Links
    BY DEF Channels
  <2>2. B[y[1]][y[2]] \in Seq(Request)
    BY <2>1 DEF OfRequests
  <2> QED BY <2>2, LoadsType
<1>2. Fill(f, B) \in [Channels -> Nat]
  BY <1>1 DEF Fill
<1>3. ASSUME NEW c \in Cubes, NEW l \in Links
      PROVE  <<c, l>> \in Channels /\ Fill(f, B)[<<c, l>>] = Weight(f, B[c][l])
  <2>1. <<c, l>> \in Channels /\ <<c, l>>[1] = c /\ <<c, l>>[2] = l
    BY DEF Channels
  <2> QED BY <2>1 DEF Fill
<1>4. ASSUME NEW c \in Cubes, NEW l \in Links PROVE Weight(f, B[c][l]) \in Nat
  <2>1. B[c][l] \in Seq(Request)
    BY DEF OfRequests
  <2> QED BY <2>1, LoadsType
<1> QED BY <1>2, <1>3, <1>4

LEMMA FillChange ==
  ASSUME NEW f, NEW B, OfRequests(B), NEW C, OfRequests(C), NEW c \in Cubes, NEW l \in Links,
         \A x \in Cubes, m \in Links : ~(x = c /\ m = l) => C[x][m] = B[x][m],
         Finite(Fill(f, B))
  PROVE  /\ Finite(Fill(f, C))
         /\ Total(Fill(f, C)) + Weight(f, B[c][l]) = Total(Fill(f, B)) + Weight(f, C[c][l])
<1>1. PICK N, M, y : N = Fill(f, B) /\ M = Fill(f, C) /\ y = <<c, l>>
  OBVIOUS
<1>2. N \in [Channels -> Nat] /\ M \in [Channels -> Nat] /\ y \in Channels
  BY <1>1, FillType
<1>3. ASSUME NEW z \in Channels, z # y PROVE M[z] = N[z]
  <2>1. PICK x \in Cubes, m \in Links : z = <<x, m>>
    BY DEF Channels
  <2>2. ~(x = c /\ m = l)
    BY <1>1, <1>3, <2>1
  <2>3. C[x][m] = B[x][m]
    BY <2>2
  <2>4. M[z] = Weight(f, C[x][m]) /\ N[z] = Weight(f, B[x][m])
    BY <1>1, <2>1, FillType
  <2> QED BY <2>3, <2>4
<1>4. Finite(M) /\ Total(M) + N[y] = Total(N) + M[y]
  <2>1. Finite(N)
    BY <1>1
  <2> QED BY <1>2, <1>3, <2>1, TotalChange
<1>5. N[y] = Weight(f, B[c][l]) /\ M[y] = Weight(f, C[c][l])
  BY <1>1, FillType
<1> QED BY <1>1, <1>4, <1>5

LEMMA ChannelsType ==
  ASSUME TypeOK, TypeOK'
  PROVE  /\ OfRequests(link) /\ OfRequests(link')
         /\ OfRequests(downBuffers) /\ OfRequests(downBuffers')
BY DEF TypeOK, OfRequests

LEMMA Shifted ==
  ASSUME NEW a \in Nat, NEW b \in Nat, NEW w \in Nat, NEW v \in Nat, NEW t \in Nat, NEW n \in Nat,
         v + t = w + n, a + w = b + v
  PROVE  a + t = b + n
OBVIOUS

Appended(B, C, d, q, e) == C = [B EXCEPT ![d][q] = Append(@, e)]

LEMMA FillGains ==
  ASSUME NEW f, NEW B, OfRequests(B), NEW C, OfRequests(C), NEW d \in Cubes, NEW q \in Links,
         NEW e \in Request, Appended(B, C, d, q, e), Finite(Fill(f, B))
  PROVE  Finite(Fill(f, C)) /\ Total(Fill(f, C)) = Total(Fill(f, B)) + Todo(f, e)
<1>1. B[d][q] \in Seq(Request) /\ C[d][q] = Append(B[d][q], e)
  BY DEF OfRequests, Appended
<1>2. \A x \in Cubes, m \in Links : ~(x = d /\ m = q) => C[x][m] = B[x][m]
  BY DEF OfRequests, Appended
<1>3. Weight(f, C[d][q]) = Weight(f, B[d][q]) + Todo(f, e)
  BY <1>1, WeightAppend
<1>4. /\ Finite(Fill(f, C))
      /\ Total(Fill(f, C)) + Weight(f, B[d][q]) = Total(Fill(f, B)) + Weight(f, C[d][q])
  BY <1>2, FillChange
<1>5. /\ Weight(f, B[d][q]) \in Nat /\ Todo(f, e) \in Nat
      /\ Total(Fill(f, C)) \in Nat /\ Total(Fill(f, B)) \in Nat
  BY <1>1, <1>4, LoadsType, TodoType, TotalType
<1> QED BY <1>3, <1>4, <1>5

LEMMA LinkGains ==
  ASSUME TypeOK, TypeOK', NEW f, NEW d \in Cubes, NEW q \in Links, NEW e \in Request,
         link' = [link EXCEPT ![d][q] = Append(@, e)], Finite(Fill(f, link))
  PROVE  Finite(Fill(f, link')) /\ Total(Fill(f, link')) = Total(Fill(f, link)) + Todo(f, e)
<1>1. Appended(link, link', d, q, e)
  BY DEF Appended
<1> QED BY <1>1, ChannelsType, FillGains

LEMMA BufferGains ==
  ASSUME TypeOK, TypeOK', NEW f, NEW d \in Cubes, NEW q \in Links, NEW e \in Request,
         downBuffers' = [downBuffers EXCEPT ![d][q] = Append(@, e)], Finite(Fill(f, downBuffers))
  PROVE  /\ Finite(Fill(f, downBuffers'))
         /\ Total(Fill(f, downBuffers')) = Total(Fill(f, downBuffers)) + Todo(f, e)
<1>1. Appended(downBuffers, downBuffers', d, q, e)
  BY DEF Appended
<1> QED BY <1>1, ChannelsType, FillGains

LEMMA BufferTurns ==
  ASSUME TypeOK, TypeOK', NEW f, NEW c \in Cubes, NEW l \in Links,
         NEW i \in DOMAIN downBuffers[c][l], NEW p, p = downBuffers[c][l][i], NEW K,
         Becomes(c, l, i, K), NEW n, Leaves(f, K, n), Finite(Fill(f, downBuffers))
  PROVE  /\ Finite(Fill(f, downBuffers')) /\ p \in Request
         /\ Total(Fill(f, downBuffers')) + Todo(f, p) = Total(Fill(f, downBuffers)) + n
<1> DEFINE s == downBuffers[c][l]
           t == downBuffers'[c][l]
<1>1. /\ downBuffers \in [Cubes -> [Links -> Seq(Request)]] /\ i \in 1..Len(s)
      /\ s \in Seq(Request) /\ p \in Request
  BY BufferedRequest DEF TypeOK
<1>2. /\ \A x \in Cubes, m \in Links : ~(x = c /\ m = l) => downBuffers'[x][m] = downBuffers[x][m]
      /\ Turns(s, i, K, t)
  <2>1. CASE K = {} /\ Take(c, l, i)
    BY <1>1, <2>1 DEF Take, Turns
  <2>2. ASSUME NEW e \in Request, K = {e}, Keep(c, l, i, e)
        PROVE  /\ \A x \in Cubes, m \in Links :
                    ~(x = c /\ m = l) => downBuffers'[x][m] = downBuffers[x][m]
               /\ Turns(s, i, K, t)
    BY <1>1, <2>2 DEF Keep, Turns
  <2> QED BY <2>1, <2>2 DEF Becomes
<1>3. Weight(f, t) + Todo(f, p) = Weight(f, s) + n
  <2>1. s[i] = p
    OBVIOUS
  <2> HIDE DEF s, t
  <2> QED BY <1>1, <1>2, <2>1, WeightTurns
<1>4. /\ Finite(Fill(f, downBuffers'))
      /\ Total(Fill(f, downBuffers')) + Weight(f, s) = Total(Fill(f, downBuffers)) + Weight(f, t)
  BY <1>2, ChannelsType, FillChange
<1>5. t \in Seq(Request)
  BY DEF TypeOK
<1>6. n \in Nat
  BY TodoType DEF Leaves
<1>7. /\ Weight(f, s) \in Nat /\ Weight(f, t) \in Nat /\ Todo(f, p) \in Nat
      /\ Total(Fill(f, downBuffers')) \in Nat /\ Total(Fill(f, downBuffers)) \in Nat
  BY <1>1, <1>4, <1>5, LoadsType, TodoType, TotalType
<1>8. PICK w, v, a, b, m : w = Weight(f, s) /\ v = Weight(f, t) /\ m = Todo(f, p)
                          /\ a = Total(Fill(f, downBuffers')) /\ b = Total(Fill(f, downBuffers))
  OBVIOUS
<1>9. w \in Nat /\ v \in Nat /\ m \in Nat /\ a \in Nat /\ b \in Nat /\ v + m = w + n /\ a + w = b + v
  BY <1>3, <1>4, <1>7, <1>8
<1>10. a + m = b + n
  BY <1>6, <1>9, Shifted
<1> HIDE DEF s, t
<1> QED BY <1>1, <1>4, <1>8, <1>10

LEMMA LinkDelivers ==
  ASSUME TypeOK, TypeOK', NEW f, NEW c \in Cubes, NEW l \in Links, Deliver(c, l),
         Finite(Fill(f, link)), Finite(Fill(f, downBuffers))
  PROVE  /\ Finite(Fill(f, link')) /\ Finite(Fill(f, downBuffers'))
         /\ Total(Fill(f, link')) + Total(Fill(f, downBuffers'))
              = Total(Fill(f, link)) + Total(Fill(f, downBuffers))
<1>1. /\ link[c][l] \in Seq(Request) /\ link[c][l] # <<>> /\ link'[c][l] = Tail(link[c][l])
      /\ \A x \in Cubes, m \in Links : ~(x = c /\ m = l) => link'[x][m] = link[x][m]
  BY DEF TypeOK, Deliver
<1>2. PICK e \in Request : e = Head(link[c][l])
  BY <1>1, HeadTailProperties
<1>3. downBuffers' = [downBuffers EXCEPT ![c][l] = Append(@, e)]
  BY <1>2 DEF Deliver
<1>4. /\ Finite(Fill(f, downBuffers'))
      /\ Total(Fill(f, downBuffers')) = Total(Fill(f, downBuffers)) + Todo(f, e)
  BY <1>3, BufferGains
<1>5. Weight(f, link'[c][l]) + Todo(f, e) = Weight(f, link[c][l])
  BY <1>1, <1>2, WeightTail
<1>6. /\ Finite(Fill(f, link'))
      /\ Total(Fill(f, link')) + Weight(f, link[c][l]) = Total(Fill(f, link)) + Weight(f, link'[c][l])
  BY <1>1, ChannelsType, FillChange
<1>7. link'[c][l] \in Seq(Request)
  BY DEF TypeOK
<1>8. /\ Weight(f, link[c][l]) \in Nat /\ Weight(f, link'[c][l]) \in Nat /\ Todo(f, e) \in Nat
      /\ Total(Fill(f, link')) \in Nat /\ Total(Fill(f, link)) \in Nat
      /\ Total(Fill(f, downBuffers')) \in Nat /\ Total(Fill(f, downBuffers)) \in Nat
  BY <1>1, <1>4, <1>6, <1>7, LoadsType, TodoType, TotalType
<1> QED BY <1>4, <1>5, <1>6, <1>8

-----------------------------------------------------------------------------
(* Lines the cubes have counted: added to an entry, or held by a buffer.   *)

Cell(f, c) == flowTable[c][f].result + Cardinality(Reserved(c, f))

Cells(f) == [c \in Cubes |-> Cell(f, c)]

LEMMA CellType ==
  ASSUME TypeOK, NEW f \in Flows
  PROVE  /\ Cells(f) \in [Cubes -> Nat]
         /\ \A c \in Cubes : Cells(f)[c] = Cell(f, c) /\ Cell(f, c) \in Nat
<1>1. ASSUME NEW c \in Cubes PROVE Cell(f, c) \in Nat
  <2>1. flowTable[c][f].result \in Nat
    <3>1. flowTable[c][f] \in FlowEntry
      BY DEF TypeOK
    <3> QED BY <3>1 DEF FlowEntry
  <2>2. Cardinality(Reserved(c, f)) \in Nat
    BY BufferSets
  <2> QED BY <2>1, <2>2 DEF Cell
<1> QED BY <1>1 DEF Cells

LEMMA PrimedCells ==
  ASSUME TypeOK', NEW f \in Flows
  PROVE  /\ Cells(f)' = [c \in Cubes |-> Cell(f, c)']
         /\ \A c \in Cubes : /\ Cell(f, c)' = flowTable'[c][f].result + Cardinality(Reserved(c, f)')
                             /\ Cell(f, c)' \in Nat
<1>1. ASSUME NEW c \in Cubes
      PROVE  /\ Cell(f, c)' = flowTable'[c][f].result + Cardinality(Reserved(c, f)')
             /\ Cell(f, c)' \in Nat
  <2>1. flowTable'[c][f].result \in Nat
    <3>1. flowTable'[c][f] \in FlowEntry
      BY DEF TypeOK
    <3> QED BY <3>1 DEF FlowEntry
  <2>2. Reserved(c, f)' \subseteq Bufs
    BY DEF Reserved
  <2>3. Cardinality(Reserved(c, f)') \in Nat
    BY <2>2, FiniteBufs, FS_Subset, FS_CardinalityType
  <2> QED BY <2>1, <2>3 DEF Cell
<1> QED BY <1>1 DEF Cells

Counts(f, m) == Finite(Cells(f))' /\ Total(Cells(f))' = Total(Cells(f)) + m

LEMMA CellsSame ==
  ASSUME TypeOK, NEW f \in Flows, Finite(Cells(f)),
         \A c \in Cubes : Cell(f, c)' = Cell(f, c)
  PROVE  Counts(f, 0)
<1>1. Cells(f)' = Cells(f)
  BY DEF Cells
<1>2. Total(Cells(f)) \in Nat
  BY TotalType
<1>3. Finite(Cells(f))' /\ Total(Cells(f))' = Total(Cells(f))
  BY <1>1 DEF Finite, Total, Units
<1> QED BY <1>2, <1>3 DEF Counts

LEMMA CellChange ==
  ASSUME TypeOK, TypeOK', NEW f \in Flows, Finite(Cells(f)), NEW c \in Cubes,
         \A x \in Cubes : x # c => Cell(f, x)' = Cell(f, x)
  PROVE  /\ Finite(Cells(f)')
         /\ Total(Cells(f)') + Cell(f, c) = Total(Cells(f)) + Cell(f, c)'
<1>1. PICK N, M : N = Cells(f) /\ M = Cells(f)'
  OBVIOUS
<1>2. /\ N \in [Cubes -> Nat]
      /\ \A x \in Cubes : N[x] = Cell(f, x)
  BY <1>1, CellType
<1>4. /\ M \in [Cubes -> Nat]
      /\ \A x \in Cubes : M[x] = Cell(f, x)'
  BY <1>1, PrimedCells
<1>5. \A x \in Cubes : x # c => M[x] = N[x]
  BY <1>2, <1>4
<1>6. Finite(N)
  BY <1>1
<1>7. Finite(M) /\ Total(M) + N[c] = Total(N) + M[c]
  BY <1>2, <1>4, <1>5, <1>6, TotalChange
<1> QED BY <1>1, <1>2, <1>4, <1>7

(* A cell is the sum of what its cube holds.                               *)
LEMMA CellOf ==
  ASSUME NEW f, NEW c
  PROVE  /\ flowTable'[c][f].result = flowTable[c][f].result /\ Reserved(c, f)' = Reserved(c, f)
              => Cell(f, c)' = Cell(f, c)
         /\ flowTable'[c] = flowTable[c] /\ operandBuffers'[c] = operandBuffers[c]
              => Cell(f, c)' = Cell(f, c)
         /\ operandBuffers'[c] = operandBuffers[c] => Reserved(c, f)' = Reserved(c, f)
BY DEF Cell, Reserved

LEMMA EntryCells ==
  ASSUME TypeOK, NEW f \in Flows, Finite(Cells(f)), NEW c \in Cubes, NEW g \in Flows, NEW e,
         flowTable' = [flowTable EXCEPT ![c][g] = e], e.result = flowTable[c][g].result,
         operandBuffers' = operandBuffers
  PROVE  Counts(f, 0)
<1>1. \A x \in Cubes : flowTable'[x][f].result = flowTable[x][f].result
  BY DEF TypeOK
<1>2. \A x \in Cubes : Cell(f, x)' = Cell(f, x)
  BY <1>1, CellOf
<1> QED BY <1>2, CellsSame

LEMMA OperandCells ==
  ASSUME TypeOK, NEW f \in Flows, Finite(Cells(f)), NEW c \in Cubes, NEW b \in Bufs, NEW o,
         operandBuffers' = [operandBuffers EXCEPT ![c][b] = o],
         o.flowID = operandBuffers[c][b].flowID, flowTable' = flowTable
  PROVE  Counts(f, 0)
<1>1. \A x \in Cubes, y \in Bufs : operandBuffers'[x][y].flowID = operandBuffers[x][y].flowID
  BY DEF TypeOK
<1>2. \A x \in Cubes : Reserved(x, f)' = Reserved(x, f)
  BY <1>1 DEF Reserved
<1>3. \A x \in Cubes : Cell(f, x)' = Cell(f, x)
  BY <1>2, CellOf
<1> QED BY <1>3, CellsSame

LEMMA SameCells ==
  ASSUME TypeOK, NEW f \in Flows, Finite(Cells(f)), UNCHANGED <<flowTable, operandBuffers>>
  PROVE  Counts(f, 0)
<1>1. \A x \in Cubes : Cell(f, x)' = Cell(f, x)
  BY CellOf
<1> QED BY <1>1, CellsSame

LEMMA CountedResult ==
  ASSUME IInv, NEW c \in Cubes, NEW p \in Request, p.flow \in Flows
  PROVE  Counted(c, p).result = flowTable[c][p.flow].result
<1>1. flowTable[c][p.flow] \in FlowEntry /\ EntriesOf(c)
  BY EntryType DEF IInv, CubeSound
<1>2. CASE flowTable[c][p.flow].valid
  BY <1>1, <1>2 DEF Counted, FlowEntry
<1>3. CASE ~flowTable[c][p.flow].valid
  BY <1>1, <1>3 DEF Counted, EntriesOf, NoEntry
<1> QED BY <1>2, <1>3

LEMMA ChildCells ==
  ASSUME IInv, NEW f \in Flows, Finite(Cells(f)), NEW c \in Cubes, NEW p \in Request,
         p.flow \in Flows, NEW n, CountChild(c, p, n), operandBuffers' = operandBuffers
  PROVE  Counts(f, 0)
<1>1. PICK e : e = [Counted(c, p) EXCEPT !.children_count[n] = @ + 1]
  OBVIOUS
<1>2. e.result = flowTable[c][p.flow].result
  <2>1. Counted(c, p).result = flowTable[c][p.flow].result
    BY CountedResult
  <2>2. e.result = Counted(c, p).result
    BY <1>1, SMTT(60) DEF Counted, NoEntry
  <2> QED BY <2>1, <2>2
<1>3. flowTable' = [flowTable EXCEPT ![c][p.flow] = e] /\ TypeOK
  BY <1>1 DEF CountChild, IInv
<1> QED BY <1>2, <1>3, EntryCells

LEMMA ReserveCells ==
  ASSUME IInv, TypeOK', NEW f \in Flows, Finite(Cells(f)), NEW c \in Cubes, NEW p \in Request,
         p.flow \in Flows, NEW b \in Bufs, Reserve(c, b, p.flow), CountHere(c, p)
  PROVE  Counts(f, IF p.flow = f THEN 1 ELSE 0)
<1>1. TypeOK /\ CubeSound(c) /\ b \in freeOperandBufIDs[c]
  BY DEF IInv, Reserve
<1>2. operandBuffers[c][b] = FreeOperand /\ p.flow # NoFlow
  BY <1>1, FreeBuffer, NullValues
<1>3. PICK o : o = [operandBuffers[c][b] EXCEPT !.flowID = p.flow]
  OBVIOUS
<1>4. o.flowID = p.flow /\ operandBuffers' = [operandBuffers EXCEPT ![c][b] = o]
  BY <1>2, <1>3 DEF Reserve, FreeOperand
<1>5. /\ \A y \in Bufs : operandBuffers'[c][y] = IF y = b THEN o ELSE operandBuffers[c][y]
      /\ \A x \in Cubes : x # c => operandBuffers'[x] = operandBuffers[x]
  BY <1>1, <1>4 DEF TypeOK
<1>6. Reserved(c, f)' = IF p.flow = f THEN Reserved(c, f) \cup {b} ELSE Reserved(c, f) \ {b}
  BY <1>4, <1>5, SetReserved
<1>7. b \notin Reserved(c, f)
  BY <1>2, NullValues DEF Reserved, FreeOperand
<1>8. \A x \in Cubes : flowTable'[x][f].result = flowTable[x][f].result
  <2>1. Counted(c, p).result = flowTable[c][p.flow].result
    BY CountedResult
  <2> QED BY <1>1, <2>1 DEF CountHere, TypeOK
<1>9. \A x \in Cubes : x # c => Cell(f, x)' = Cell(f, x)
  BY <1>5, <1>8, CellOf
<1>10. CASE p.flow # f
  <2>1. Reserved(c, f)' = Reserved(c, f)
    BY <1>6, <1>7, <1>10
  <2>2. \A x \in Cubes : Cell(f, x)' = Cell(f, x)
    BY <1>8, <1>9, <2>1, CellOf
  <2> QED BY <1>1, <1>10, <2>2, CellsSame
<1>11. CASE p.flow = f
  <2>1. Cardinality(Reserved(c, f)') = Cardinality(Reserved(c, f)) + 1
    BY <1>6, <1>7, <1>11, BufferSets, FS_AddElement
  <2>2. Cell(f, c)' = Cell(f, c) + 1
    <3>1. Cell(f, c)' = flowTable'[c][f].result + Cardinality(Reserved(c, f)')
      BY PrimedCells
    <3>2. flowTable[c][f].result \in Nat
      BY <1>1, EntryType DEF FlowEntry
    <3>3. Cardinality(Reserved(c, f)) \in Nat
      BY BufferSets
    <3> QED BY <1>8, <2>1, <3>1, <3>2, <3>3 DEF Cell
  <2>3. /\ Finite(Cells(f)')
        /\ Total(Cells(f)') + Cell(f, c) = Total(Cells(f)) + Cell(f, c)'
    BY <1>1, <1>9, CellChange
  <2>4. Total(Cells(f)') \in Nat /\ Total(Cells(f)) \in Nat /\ Cell(f, c) \in Nat
    BY <1>1, <2>3, TotalType, CellType
  <2>5. Total(Cells(f)') = Total(Cells(f)) + 1
    BY <2>2, <2>3, <2>4
  <2> QED BY <1>11, <2>3, <2>5 DEF Counts, Finite, Total, Units
<1> QED BY <1>10, <1>11

LEMMA ReduceCells ==
  ASSUME IInv, TypeOK', NEW f \in Flows, Finite(Cells(f)), NEW c \in Cubes, NEW b \in Bufs,
         operandBuffers[c][b].ready, Reduce(c, b)
  PROVE  Counts(f, 0)
<1>1. TypeOK /\ CubeSound(c)
  BY DEF IInv
<1>2. PICK g \in Flows : g = operandBuffers[c][b].flowID
  BY <1>1, HeldBuffer
<1>3. g # NoFlow /\ b \in Reserved(c, g)
  BY <1>1, <1>2, HeldBuffer, NullValues
<1>4. /\ flowTable' = [flowTable EXCEPT ![c][g] = AddResult(flowTable[c][g])]
      /\ operandBuffers' = [operandBuffers EXCEPT ![c][b] = FreeOperand]
  BY <1>2 DEF Reduce
<1>5. /\ \A y \in Bufs : operandBuffers'[c][y] = IF y = b THEN FreeOperand ELSE operandBuffers[c][y]
      /\ \A x \in Cubes : x # c => operandBuffers'[x] = operandBuffers[x] /\ flowTable'[x] = flowTable[x]
      /\ flowTable'[c][f] = IF f = g THEN AddResult(flowTable[c][g]) ELSE flowTable[c][f]
  BY <1>1, <1>4 DEF TypeOK
<1>6. FreeOperand.flowID = NoFlow /\ NoFlow # f
  BY NullValues DEF FreeOperand
<1>7. Reserved(c, f)' = Reserved(c, f) \ {b}
  BY <1>5, <1>6, SetReserved
<1>8. CASE f # g
  <2>1. b \notin Reserved(c, f)
    BY <1>2, <1>8 DEF Reserved
  <2>2. Reserved(c, f)' = Reserved(c, f)
    BY <1>7, <2>1
  <2>3. \A x \in Cubes : Cell(f, x)' = Cell(f, x)
    BY <1>5, <1>8, <2>2, CellOf
  <2> QED BY <1>1, <2>3, CellsSame
<1>9. CASE f = g
  <2>1. Cardinality(Reserved(c, f)') = Cardinality(Reserved(c, f)) - 1
    BY <1>3, <1>7, <1>9, BufferSets, FS_RemoveElement, ZenonT(30)
  <2>2. flowTable[c][f] \in FlowEntry
    BY <1>1, EntryType
  <2>3. flowTable'[c][f].result = flowTable[c][f].result + 1 /\ flowTable[c][f].result \in Nat
    BY <1>5, <1>9, <2>2 DEF AddResult, FlowEntry
  <2>4. Cell(f, c)' = Cell(f, c)
    <3>1. Cell(f, c)' = flowTable'[c][f].result + Cardinality(Reserved(c, f)')
      BY PrimedCells
    <3>2. Cardinality(Reserved(c, f)) \in Nat
      BY BufferSets
    <3> QED BY <2>1, <2>3, <3>1, <3>2 DEF Cell
  <2>5. \A x \in Cubes : Cell(f, x)' = Cell(f, x)
    BY <1>5, <2>4, CellOf
  <2> QED BY <1>1, <2>5, CellsSame
<1> QED BY <1>8, <1>9

(* An entry is given up: what it has reduced goes to the target.           *)
LEMMA CommitCells ==
  ASSUME IInv, TypeOK', NEW f \in Flows, Finite(Cells(f)), NEW c \in Cubes, NEW g \in Flows,
         GatherReply(c, g)
  PROVE  /\ g # f => Counts(f, 0)
         /\ g = f => /\ Finite(Cells(f)) ' /\ flowTable[c][f].result \in Nat
                     /\ Total(Cells(f))' + flowTable[c][f].result = Total(Cells(f))
<1>1. /\ TypeOK /\ CubeSound(c) /\ flowTable' = [flowTable EXCEPT ![c][g] = NoEntry(c)]
      /\ operandBuffers' = operandBuffers
      /\ flowTable[c][g].req_count = flowTable[c][g].rep_count
  BY DEF IInv, GatherReply, Commit
<1>2. /\ \A x \in Cubes : x # c => flowTable'[x] = flowTable[x]
      /\ flowTable'[c][f] = IF f = g THEN NoEntry(c) ELSE flowTable[c][f]
  BY <1>1 DEF TypeOK
<1>3. CASE g # f
  <2>1. \A x \in Cubes : Cell(f, x)' = Cell(f, x)
    BY <1>1, <1>2, <1>3, CellOf
  <2> QED BY <1>1, <1>3, <2>1, CellsSame
<1>4. CASE g = f
  <2>1. Reserved(c, f) = {} /\ Reserved(c, f)' = {}
    <3>1. Reserved(c, f) = {}
      BY <1>1, <1>4, AllReduced
    <3> QED BY <1>1, <3>1, CellOf
  <2>2. flowTable[c][f].result \in Nat
    BY <1>1, EntryType DEF FlowEntry
  <2>3. Cell(f, c) = flowTable[c][f].result
    BY <2>1, <2>2, FS_EmptySet DEF Cell
  <2>4. Cell(f, c)' = 0
    <3>1. Cell(f, c)' = flowTable'[c][f].result + Cardinality(Reserved(c, f)')
      BY PrimedCells
    <3>2. flowTable'[c][f].result = 0
      BY <1>2, <1>4 DEF NoEntry
    <3> QED BY <2>1, <3>1, <3>2, FS_EmptySet
  <2>5. \A x \in Cubes : x # c => Cell(f, x)' = Cell(f, x)
    BY <1>1, <1>2, CellOf
  <2>6. /\ Finite(Cells(f)')
        /\ Total(Cells(f)') + Cell(f, c) = Total(Cells(f)) + Cell(f, c)'
    BY <1>1, <2>5, CellChange
  <2>7. Total(Cells(f)') \in Nat /\ Total(Cells(f)) \in Nat
    BY <2>6, TotalType
  <2>8. Total(Cells(f)') + flowTable[c][f].result = Total(Cells(f))
    BY <2>2, <2>3, <2>4, <2>6, <2>7
  <2> QED BY <1>4, <2>2, <2>6, <2>8 DEF Finite, Total, Units
<1> QED BY <1>3, <1>4

-----------------------------------------------------------------------------
(* Every line a host has sent is in the target, in the cells or under way. *)

Bounded(f) == Finite(Cells(f)) /\ Finite(Fill(f, link)) /\ Finite(Fill(f, downBuffers))

AllLines(f) == Total(Cells(f)) + Total(Fill(f, link)) + Total(Fill(f, downBuffers))

Accounted(f) == Bounded(f) /\ host[f].issued = memory[f] + AllLines(f)

LEMMA SumTypes ==
  ASSUME NEW f, Bounded(f)
  PROVE  /\ Total(Cells(f)) \in Nat /\ Total(Fill(f, link)) \in Nat
         /\ Total(Fill(f, downBuffers)) \in Nat
BY TotalType DEF Bounded

LEMMA PrimedBounded ==
  ASSUME NEW f
  PROVE  /\ Bounded(f)' <=> /\ Finite(Cells(f))' /\ Finite(Fill(f, link'))
                            /\ Finite(Fill(f, downBuffers'))
         /\ AllLines(f)' = Total(Cells(f))' + Total(Fill(f, link')) + Total(Fill(f, downBuffers'))
BY DEF Bounded, AllLines, Finite, Total, Units, Fill, Weight, Loads, Todo, Cells

LEMMA Balance ==
  ASSUME NEW f, Bounded(f), NEW m \in Nat, NEW k \in Nat, NEW n \in Nat, NEW t \in Nat,
         Counts(f, m), Finite(Fill(f, link')), Finite(Fill(f, downBuffers')),
         Total(Fill(f, link')) = Total(Fill(f, link)) + k,
         Total(Fill(f, downBuffers')) + t = Total(Fill(f, downBuffers)) + n,
         t = m + k + n
  PROVE  Bounded(f)' /\ AllLines(f)' = AllLines(f)
<1>1. /\ Total(Cells(f)) \in Nat /\ Total(Fill(f, link)) \in Nat
      /\ Total(Fill(f, downBuffers)) \in Nat
  BY SumTypes
<1>2. Total(Fill(f, link')) \in Nat /\ Total(Fill(f, downBuffers')) \in Nat
  BY TotalType
<1>3. Bounded(f)'
  BY PrimedBounded DEF Counts
<1>4. AllLines(f)' = Total(Cells(f))' + Total(Fill(f, link')) + Total(Fill(f, downBuffers'))
  BY PrimedBounded
<1>5. PICK x, y, z, y2, z2 : /\ x = Total(Cells(f)) /\ y = Total(Fill(f, link))
                             /\ z = Total(Fill(f, downBuffers))
                             /\ y2 = Total(Fill(f, link')) /\ z2 = Total(Fill(f, downBuffers'))
  OBVIOUS
<1>6. /\ x \in Nat /\ y \in Nat /\ z \in Nat /\ y2 \in Nat /\ z2 \in Nat
      /\ y2 = y + k /\ z2 + t = z + n
  BY <1>1, <1>2, <1>5
<1>7. AllLines(f)' = (x + m) + y2 + z2 /\ AllLines(f) = x + y + z
  BY <1>4, <1>5 DEF Counts, AllLines
<1>8. (x + m) + y2 + z2 = x + y + z
  BY <1>6
<1> QED BY <1>3, <1>7, <1>8

LEMMA Ledger ==
  ASSUME NEW f \in Flows, Accounted(f), Bounded(f)', AllLines(f)' = AllLines(f),
         host'[f].issued = host[f].issued, memory'[f] = memory[f]
  PROVE  Accounted(f)'
BY DEF Accounted

(* A packet in an input buffer becomes K, and sends a read or a packet.    *)
LEMMA TurnAccounted ==
  ASSUME TypeOK, TypeOK', NEW f \in Flows, Accounted(f), NEW c \in Cubes, NEW l \in Links,
         NEW i \in DOMAIN downBuffers[c][l], NEW p, p = downBuffers[c][l][i], NEW K,
         Becomes(c, l, i, K), link' = link, NEW n, Leaves(f, K, n), NEW m \in Nat, Counts(f, m),
         Todo(f, p) = m + n, UNCHANGED <<host, memory>>
  PROVE  Accounted(f)'
<1>1. Bounded(f)
  BY DEF Accounted
<1>2. Finite(Fill(f, downBuffers)) /\ Finite(Fill(f, link))
  BY <1>1 DEF Bounded
<1>3. /\ Finite(Fill(f, downBuffers')) /\ p \in Request
      /\ Total(Fill(f, downBuffers')) + Todo(f, p) = Total(Fill(f, downBuffers)) + n
  BY <1>1, <1>2, BufferTurns
<1>4. n \in Nat
  BY TodoType DEF Leaves
<1>5. Fill(f, link') = Fill(f, link)
  BY <1>1
<1>6. Total(Fill(f, link)) \in Nat
  BY <1>1, SumTypes
<1>7. Finite(Fill(f, link')) /\ Total(Fill(f, link')) = Total(Fill(f, link)) + 0
  BY <1>2, <1>5, <1>6
<1>8. PICK t \in Nat : t = Todo(f, p)
  BY <1>3, TodoType
<1>9. t = m + 0 + n
  BY <1>4, <1>8
<1>10. Total(Fill(f, downBuffers')) + t = Total(Fill(f, downBuffers)) + n
  BY <1>3, <1>8
<1>11. Bounded(f)' /\ AllLines(f)' = AllLines(f)
  BY <1>1, <1>3, <1>4, <1>7, <1>9, <1>10, Balance
<1> QED BY <1>11, Ledger

LEMMA VaultAccounted ==
  ASSUME TypeOK, TypeOK', NEW f \in Flows, Accounted(f), NEW c \in Cubes, NEW l \in Links,
         NEW i \in DOMAIN downBuffers[c][l], NEW p, p = downBuffers[c][l][i], NEW K, NEW r,
         ToVault(c, l, i, K, r), NEW n, Leaves(f, K, n), NEW m \in Nat, Counts(f, m),
         Todo(f, p) = m + n, UNCHANGED <<host, memory>>
  PROVE  Accounted(f)'
BY TurnAccounted DEF ToVault

LEMMA LinkAccounted ==
  ASSUME TypeOK, TypeOK', NEW f \in Flows, Accounted(f), NEW c \in Cubes, NEW l \in Links,
         NEW i \in DOMAIN downBuffers[c][l], NEW p, p = downBuffers[c][l][i], NEW K,
         NEW q \in Links, NEW e \in Request, ToLink(c, l, i, K, q, e),
         NEW n, Leaves(f, K, n), NEW m \in Nat, Counts(f, m),
         Todo(f, p) = m + Todo(f, e) + n, UNCHANGED <<host, memory>>
  PROVE  Accounted(f)'
<1>1. /\ Becomes(c, l, i, K) /\ Bounded(f)
      /\ link' = [link EXCEPT ![neighborCubeID[c][q]][PeerLink[c][q]] = Append(@, e)]
  BY DEF ToLink, SendDown, Accounted
<1>2. Finite(Fill(f, downBuffers)) /\ Finite(Fill(f, link))
  BY <1>1 DEF Bounded
<1>3. /\ Finite(Fill(f, downBuffers')) /\ p \in Request
      /\ Total(Fill(f, downBuffers')) + Todo(f, p) = Total(Fill(f, downBuffers)) + n
  BY <1>1, <1>2, BufferTurns
<1>4. n \in Nat
  BY TodoType DEF Leaves
<1>5. neighborCubeID[c][q] \in Cubes /\ PeerLink[c][q] \in Links
  BY WireType
<1>6. Finite(Fill(f, link')) /\ Total(Fill(f, link')) = Total(Fill(f, link)) + Todo(f, e)
  BY <1>1, <1>2, <1>5, LinkGains
<1>7. PICK t \in Nat, k \in Nat : t = Todo(f, p) /\ k = Todo(f, e)
  BY <1>3, TodoType
<1>8. /\ t = m + k + n /\ Total(Fill(f, link')) = Total(Fill(f, link)) + k
      /\ Total(Fill(f, downBuffers')) + t = Total(Fill(f, downBuffers)) + n
  BY <1>3, <1>6, <1>7
<1>9. Bounded(f)' /\ AllLines(f)' = AllLines(f)
  BY <1>1, <1>3, <1>4, <1>6, <1>8, Balance
<1> QED BY <1>9, Ledger

(* Nothing that counts moves.                                              *)
LEMMA StillAccounted ==
  ASSUME NEW f \in Flows, Accounted(f), Counts(f, 0), UNCHANGED <<link, downBuffers>>,
         host'[f].issued = host[f].issued, memory'[f] = memory[f]
  PROVE  Accounted(f)'
<1>1. /\ Bounded(f) /\ Finite(Fill(f, link)) /\ Finite(Fill(f, downBuffers))
      /\ Total(Fill(f, link)) \in Nat /\ Total(Fill(f, downBuffers)) \in Nat
  BY SumTypes DEF Accounted, Bounded
<1>2. Fill(f, link') = Fill(f, link) /\ Fill(f, downBuffers') = Fill(f, downBuffers)
  OBVIOUS
<1>3. /\ Finite(Fill(f, link')) /\ Finite(Fill(f, downBuffers'))
      /\ Total(Fill(f, link')) = Total(Fill(f, link)) + 0
      /\ Total(Fill(f, downBuffers')) + 0 = Total(Fill(f, downBuffers)) + 0
  BY <1>1, <1>2
<1>4. PICK z \in Nat : z = 0
  OBVIOUS
<1>5. /\ Counts(f, z) /\ Total(Fill(f, link')) = Total(Fill(f, link)) + z
      /\ Total(Fill(f, downBuffers')) + z = Total(Fill(f, downBuffers)) + z /\ z = z + z + z
  BY <1>3, <1>4
<1>6. Bounded(f)' /\ AllLines(f)' = AllLines(f)
  BY <1>1, <1>3, <1>5, Balance
<1> QED BY <1>6, Ledger

(* The packet of a request step.                                           *)
LEMMA RequestHere ==
  ASSUME FInv, FInv', NEW c \in Cubes, NEW l \in Links, NEW i \in DOMAIN downBuffers[c][l], NEW p,
         p = downBuffers[c][l][i]
  PROVE  /\ IInv /\ TypeOK /\ TypeOK' /\ p \in Request /\ p \in GoodRequest
         /\ p.cmd \in {"ADD", "MULT"} => p.flow \in Flows
         /\ p.cmd = "ADD" => p.half = 0
         /\ p.half # 0 => p.cmd = "MULT" /\ p.buf \in Bufs
<1>1. IInv /\ TypeOK /\ TypeOK' /\ PacketsGood
  BY DEF FInv, IInv
<1>2. p \in Request /\ p \in GoodRequest
  BY <1>1, BufferedRequest DEF PacketsGood, RequestsGood, TypeOK
<1>3. p.cmd \in {"ADD", "MULT"} => p.flow \in Flows
  BY <1>1, <1>2, CountedType
<1> QED BY <1>1, <1>2, <1>3 DEF GoodRequest

LEMMA LinesOf ==
  ASSUME NEW p \in Request
  PROVE  p.lines \in Nat /\ p.lines >= 1 /\ p.lines - 1 \in Nat
<1>1. p.lines \in 1..MaxLines /\ MaxLines \in Nat
  BY ARTAssumption DEF Request
<1> QED BY <1>1

LEMMA TodoNone ==
  ASSUME NEW f, NEW p, p.flow # f \/ p.cmd \notin {"ADD", "MULT"}
  PROVE  Todo(f, p) = 0
BY DEF Todo

LEMMA TodoWhole ==
  ASSUME NEW f, NEW p, p.flow = f, p.cmd \in {"ADD", "MULT"}, p.half = 0
  PROVE  Todo(f, p) = p.lines
BY DEF Todo

LEMMA TodoHalf ==
  ASSUME NEW f, NEW p, p.flow = f, p.cmd \in {"ADD", "MULT"}, p.half # 0
  PROVE  Todo(f, p) = p.lines - 1
BY DEF Todo

LEMMA LeavesOne ==
  ASSUME NEW f, NEW p \in Request
  PROVE  Leaves(f, {p}, Todo(f, p))
BY DEF Leaves

LEMMA LeavesNone ==
  ASSUME NEW f
  PROVE  Leaves(f, {}, 0)
BY DEF Leaves

(* What remains of an update when one line is counted.                     *)
Less(f, p) == IF p.flow = f THEN p.lines - 1 ELSE 0

LEMMA RestLeaves ==
  ASSUME NEW f, NEW p \in Request, p.cmd \in {"ADD", "MULT"}
  PROVE  Leaves(f, Rest(p), Less(f, p))
<1>1. CASE p.lines = 1
  BY <1>1 DEF Rest, Less, Leaves
<1>2. CASE p.lines # 1
  <2>1. PICK q \in Request : q = NextOf(p)
    BY <1>2, NextFields
  <2>2. /\ q.half = 0 /\ q.flow = p.flow /\ q.cmd = p.cmd
    BY <1>2, <2>1, NextFields
  <2>3. q.lines = p.lines - 1
    BY <2>1 DEF NextOf, Request
  <2>4. Todo(f, q) = Less(f, p)
    BY <2>2, <2>3, TodoWhole, TodoNone DEF Less
  <2>5. Rest(p) = {q}
    BY <1>2, <2>1 DEF Rest
  <2> QED BY <2>4, <2>5, LeavesOne
<1> QED BY <1>1, <1>2

LEMMA OtherLeaves ==
  ASSUME NEW f, NEW c \in Cubes, NEW p \in Request, p.cmd \in {"ADD", "MULT"},
         NEW k \in 1..2, NEW b \in Bufs
  PROVE  Leaves(f, {OtherHalf(c, p, k, b)}, Less(f, p))
<1>1. PICK q : q = OtherHalf(c, p, k, b)
  OBVIOUS
<1>2. q \in Request /\ q.half = k /\ q.flow = p.flow /\ q.cmd = p.cmd /\ q.lines = p.lines
  BY <1>1, OtherFields
<1>3. Todo(f, q) = Less(f, p)
  <2>1. q.half # 0 /\ q.lines - 1 = p.lines - 1
    BY <1>2
  <2> QED BY <1>2, <2>1, TodoHalf, TodoNone DEF Less
<1> QED BY <1>1, <1>2, <1>3, LeavesOne

LEMMA SentTodo ==
  ASSUME NEW f, NEW c \in Cubes, NEW p \in Request
  PROVE  /\ \A k \in 1..2, b \in Bufs : HalfOf(c, p, k, b) \in Request /\ Todo(f, HalfOf(c, p, k, b)) = 0
         /\ p.half # 0 => LineOf(c, p) \in Request /\ Todo(f, LineOf(c, p)) = 0
<1>1. ASSUME NEW k \in 1..2, NEW b \in Bufs
      PROVE  HalfOf(c, p, k, b) \in Request /\ Todo(f, HalfOf(c, p, k, b)) = 0
  <2>1. PICK q : q = HalfOf(c, p, k, b)
    OBVIOUS
  <2>2. q \in Request /\ q.half = k /\ q.lines = 1
    BY <2>1, HalfFields
  <2>3. Todo(f, q) = 0
    <3>1. q.half # 0 /\ q.lines - 1 = 0
      BY <2>2
    <3> QED BY <3>1 DEF Todo
  <2> QED BY <2>1, <2>2, <2>3
<1>2. ASSUME p.half # 0 PROVE LineOf(c, p) \in Request /\ Todo(f, LineOf(c, p)) = 0
  <2>1. PICK q : q = LineOf(c, p)
    OBVIOUS
  <2>2. q \in Request /\ q.half = p.half /\ q.lines = 1
    BY <2>1, LineFields
  <2>3. Todo(f, q) = 0
    <3>1. q.half # 0 /\ q.lines - 1 = 0
      BY <1>2, <2>2
    <3> QED BY <3>1 DEF Todo
  <2> QED BY <2>1, <2>2, <2>3
<1> QED BY <1>1, <1>2

(* A line of p that is counted where a buffer is reserved.                 *)
LEMMA TodoSplits ==
  ASSUME NEW f, NEW p \in Request, p.cmd \in {"ADD", "MULT"}
  PROVE  /\ p.half = 0 => Todo(f, p) = (IF p.flow = f THEN 1 ELSE 0) + Less(f, p)
         /\ p.half # 0 => Todo(f, p) = Less(f, p)
         /\ Less(f, p) \in Nat
BY LinesOf DEF Less, Todo

(* Requests.                                                               *)
LEMMA AddLocalAccounted ==
  ASSUME FInv, FInv', NEW f \in Flows, Accounted(f), NEW c \in Cubes, NEW l \in Links,
         NEW i \in DOMAIN downBuffers[c][l], NEW p, p = downBuffers[c][l][i], AddLocal(c, l, i, p)
  PROVE  Accounted(f)'
<1>1. /\ IInv /\ TypeOK /\ TypeOK' /\ p \in Request /\ p.flow \in Flows
      /\ p.cmd \in {"ADD", "MULT"} /\ p.half = 0
      /\ CountHere(c, p) /\ UNCHANGED <<host, memory>> /\ Finite(Cells(f))
  BY RequestHere DEF AddLocal, Accounted, Bounded
<1>2. PICK b \in Bufs : Reserve(c, b, p.flow) /\ ToVault(c, l, i, Rest(p), OperandRead(c, p, 1, b, c))
  BY <1>1, AddLocalShape
<1>3. PICK m \in Nat : m = IF p.flow = f THEN 1 ELSE 0
  OBVIOUS
<1>4. Counts(f, m)
  BY <1>1, <1>2, <1>3, ReserveCells
<1>5. Leaves(f, Rest(p), Less(f, p)) /\ Todo(f, p) = m + Less(f, p)
  BY <1>1, <1>3, RestLeaves, TodoSplits
<1> QED BY <1>1, <1>2, <1>4, <1>5, VaultAccounted

LEMMA MultLocalAccounted ==
  ASSUME FInv, FInv', NEW f \in Flows, Accounted(f), NEW c \in Cubes, NEW l \in Links,
         NEW i \in DOMAIN downBuffers[c][l], NEW p, p = downBuffers[c][l][i], MultLocal(c, l, i, p)
  PROVE  Accounted(f)'
<1>1. /\ IInv /\ TypeOK /\ TypeOK' /\ p \in Request /\ p.flow \in Flows
      /\ p.cmd \in {"ADD", "MULT"} /\ p.half = 0
      /\ CountHere(c, p) /\ UNCHANGED <<host, memory>> /\ Finite(Cells(f))
  BY RequestHere DEF MultLocal, Accounted, Bounded
<1>2. PICK b \in Bufs, k \in 1..2 :
        /\ Reserve(c, b, p.flow)
        /\ ToVault(c, l, i, {OtherHalf(c, p, 3 - k, b)}, OperandRead(c, p, k, b, c))
  BY <1>1, MultLocalShape, ZenonT(30)
<1>3. PICK m \in Nat : m = IF p.flow = f THEN 1 ELSE 0
  OBVIOUS
<1>4. Counts(f, m)
  BY <1>1, <1>2, <1>3, ReserveCells
<1>5. 3 - k \in 1..2
  OBVIOUS
<1>6. Leaves(f, {OtherHalf(c, p, 3 - k, b)}, Less(f, p)) /\ Todo(f, p) = m + Less(f, p)
  BY <1>1, <1>3, <1>5, OtherLeaves, TodoSplits
<1> QED BY <1>1, <1>2, <1>4, <1>6, VaultAccounted

LEMMA MultHalfLocalAccounted ==
  ASSUME FInv, FInv', NEW f \in Flows, Accounted(f), NEW c \in Cubes, NEW l \in Links,
         NEW i \in DOMAIN downBuffers[c][l], NEW p, p = downBuffers[c][l][i],
         MultHalfLocal(c, l, i, p)
  PROVE  Accounted(f)'
<1>1. /\ IInv /\ TypeOK /\ TypeOK' /\ p \in Request /\ p.flow \in Flows
      /\ p.cmd \in {"ADD", "MULT"} /\ p.half # 0
      /\ UNCHANGED <<flowTable, operandBuffers>> /\ UNCHANGED <<host, memory>> /\ Finite(Cells(f))
  BY RequestHere DEF MultHalfLocal, Accounted, Bounded
<1>2. ToVault(c, l, i, Rest(p), OperandRead(c, p, p.half, p.buf, Owner(c, p)))
  BY <1>1, MultHalfLocalShape
<1>3. PICK m \in Nat : m = 0
  OBVIOUS
<1>4. Counts(f, m)
  BY <1>1, <1>3, SameCells
<1>5. Leaves(f, Rest(p), Less(f, p)) /\ Todo(f, p) = m + Less(f, p)
  BY <1>1, <1>3, RestLeaves, TodoSplits
<1> QED BY <1>1, <1>2, <1>4, <1>5, VaultAccounted

LEMMA ReadLocalAccounted ==
  ASSUME FInv, FInv', NEW f \in Flows, Accounted(f), NEW c \in Cubes, NEW l \in Links,
         NEW i \in DOMAIN downBuffers[c][l], NEW p, p = downBuffers[c][l][i], ReadLocal(c, l, i, p)
  PROVE  Accounted(f)'
<1>1. /\ IInv /\ TypeOK /\ TypeOK' /\ p \in Request /\ p.cmd = "RD"
      /\ UNCHANGED <<flowTable, operandBuffers>> /\ UNCHANGED <<host, memory>> /\ Finite(Cells(f))
  BY RequestHere DEF ReadLocal, Accounted, Bounded
<1>2. ToVault(c, l, i, {}, OperandRead(c, p, 0, NoBuf, p.src))
  BY ReadLocalShape
<1>3. PICK m \in Nat : m = 0
  OBVIOUS
<1>4. Counts(f, m)
  BY <1>1, <1>3, SameCells
<1>5. Leaves(f, {}, m) /\ Todo(f, p) = m + m
  BY <1>1, <1>3, LeavesNone, TodoNone
<1> QED BY <1>1, <1>2, <1>4, <1>5, VaultAccounted

LEMMA MultSplitAccounted ==
  ASSUME FInv, FInv', NEW f \in Flows, Accounted(f), NEW c \in Cubes, NEW l \in Links,
         NEW i \in DOMAIN downBuffers[c][l], NEW p, p = downBuffers[c][l][i], MultSplit(c, l, i, p)
  PROVE  Accounted(f)'
<1>1. /\ IInv /\ TypeOK /\ TypeOK' /\ p \in Request /\ p.flow \in Flows
      /\ p.cmd \in {"ADD", "MULT"} /\ p.half = 0
      /\ CountHere(c, p) /\ UNCHANGED <<host, memory>> /\ Finite(Cells(f))
  BY RequestHere DEF MultSplit, Accounted, Bounded
<1>2. PICK b \in Bufs, k \in 1..2, n \in Links :
        /\ Reserve(c, b, p.flow)
        /\ ToLink(c, l, i, {OtherHalf(c, p, 3 - k, b)}, n, HalfOf(c, p, k, b))
  BY <1>1, MultSplitShape, ZenonT(60)
<1>3. PICK m \in Nat : m = IF p.flow = f THEN 1 ELSE 0
  OBVIOUS
<1>4. Counts(f, m)
  BY <1>1, <1>2, <1>3, ReserveCells
<1>5. 3 - k \in 1..2
  OBVIOUS
<1>6. PICK e \in Request : e = HalfOf(c, p, k, b) /\ Todo(f, e) = 0
  BY <1>1, SentTodo, ZenonT(30)
<1>7. Leaves(f, {OtherHalf(c, p, 3 - k, b)}, Less(f, p)) /\ Todo(f, p) = m + Less(f, p)
  BY <1>1, <1>3, <1>5, OtherLeaves, TodoSplits
<1>8. Less(f, p) \in Nat
  BY <1>1, TodoSplits
<1>9. Todo(f, p) = m + Todo(f, e) + Less(f, p)
  BY <1>6, <1>7, <1>8
<1> QED BY <1>1, <1>2, <1>4, <1>6, <1>7, <1>9, LinkAccounted

LEMMA MultHalfForwardAccounted ==
  ASSUME FInv, FInv', NEW f \in Flows, Accounted(f), NEW c \in Cubes, NEW l \in Links,
         NEW i \in DOMAIN downBuffers[c][l], NEW p, p = downBuffers[c][l][i],
         MultHalfForward(c, l, i, p)
  PROVE  Accounted(f)'
<1>1. /\ IInv /\ TypeOK /\ TypeOK' /\ p \in Request /\ p.flow \in Flows
      /\ p.cmd \in {"ADD", "MULT"} /\ p.half # 0
      /\ UNCHANGED <<flowTable, operandBuffers>> /\ UNCHANGED <<host, memory>> /\ Finite(Cells(f))
  BY RequestHere DEF MultHalfForward, Accounted, Bounded
<1>2. PICK n \in Links : ToLink(c, l, i, Rest(p), n, LineOf(c, p))
  BY <1>1, MultHalfForwardShape
<1>3. PICK m \in Nat : m = 0
  OBVIOUS
<1>4. Counts(f, m)
  BY <1>1, <1>3, SameCells
<1>6. PICK e \in Request : e = LineOf(c, p) /\ Todo(f, e) = 0
  BY <1>1, SentTodo
<1>7. Leaves(f, Rest(p), Less(f, p)) /\ Todo(f, p) = Less(f, p)
  BY <1>1, RestLeaves, TodoSplits
<1>8. Less(f, p) \in Nat
  BY <1>1, TodoSplits
<1>9. Todo(f, p) = m + Todo(f, e) + Less(f, p)
  BY <1>3, <1>6, <1>7, <1>8
<1> QED BY <1>1, <1>2, <1>4, <1>6, <1>7, <1>9, LinkAccounted

LEMMA ForwardAccounted ==
  ASSUME FInv, FInv', NEW f \in Flows, Accounted(f), NEW c \in Cubes, NEW l \in Links,
         NEW i \in DOMAIN downBuffers[c][l], NEW p, p = downBuffers[c][l][i],
         AddForward(c, l, i, p) \/ MultForward(c, l, i, p) \/ Forward(c, l, i, p)
  PROVE  Accounted(f)'
<1>1. /\ IInv /\ TypeOK /\ TypeOK' /\ p \in Request
      /\ UNCHANGED <<host, memory>> /\ Finite(Cells(f))
  BY RequestHere DEF AddForward, MultForward, Forward, Accounted, Bounded
<1>2. PICK n \in Links : ToLink(c, l, i, {}, n, p)
  BY <1>1, ForwardShape
<1>3. PICK m \in Nat : m = 0
  OBVIOUS
<1>4. Counts(f, m)
  <2>1. CASE Forward(c, l, i, p)
    <3>1. UNCHANGED <<flowTable, operandBuffers>>
      BY <2>1 DEF Forward
    <3> QED BY <1>1, <1>3, <3>1, SameCells
  <2>2. CASE AddForward(c, l, i, p) \/ MultForward(c, l, i, p)
    <3>1. /\ p.cmd \in {"ADD", "MULT"} /\ operandBuffers' = operandBuffers
          /\ \E q : CountChild(c, p, q)
      BY <2>2 DEF AddForward, MultForward
    <3>2. p.flow \in Flows
      BY <3>1, RequestHere
    <3> QED BY <1>1, <1>3, <3>1, <3>2, ChildCells
  <2> QED BY <2>1, <2>2
<1>5. Leaves(f, {}, m)
  BY <1>3, LeavesNone
<1>6. Todo(f, p) \in Nat
  BY <1>1, TodoType
<1>7. Todo(f, p) = m + Todo(f, p) + m
  BY <1>3, <1>6
<1> QED BY <1>1, <1>2, <1>4, <1>5, <1>7, LinkAccounted

LEMMA GetMarkAccounted ==
  ASSUME FInv, FInv', NEW f \in Flows, Accounted(f), NEW c \in Cubes, NEW l \in Links,
         NEW i \in DOMAIN downBuffers[c][l], NEW p, p = downBuffers[c][l][i], GetMark(c, l, i, p)
  PROVE  Accounted(f)'
<1>1. /\ IInv /\ TypeOK /\ TypeOK' /\ p \in Request /\ p.cmd = "GET"
      /\ operandBuffers' = operandBuffers /\ UNCHANGED <<host, memory>> /\ Finite(Cells(f))
      /\ flowTable' = [flowTable EXCEPT ![c][p.flow].g_flag = TRUE]
  BY RequestHere DEF GetMark, Accounted, Bounded
<1>2. Becomes(c, l, i, {}) /\ link' = link
  BY GetMarkShape
<1>3. PICK m \in Nat : m = 0
  OBVIOUS
<1>4. Counts(f, m)
  <2>1. p.flow \in Flows
    BY <1>1 DEF Request, Tags
  <2>2. flowTable[c][p.flow] \in FlowEntry
    BY <1>1, <2>1, EntryType
  <2>3. PICK e : e = [flowTable[c][p.flow] EXCEPT !.g_flag = TRUE]
    OBVIOUS
  <2>4. e.result = flowTable[c][p.flow].result
    BY <2>2, <2>3 DEF FlowEntry
  <2>5. flowTable' = [flowTable EXCEPT ![c][p.flow] = e]
    BY <1>1, <2>3
  <2>6. TypeOK /\ Finite(Cells(f)) /\ operandBuffers' = operandBuffers
    BY <1>1
  <2>7. Counts(f, 0)
    BY <2>1, <2>4, <2>5, <2>6, EntryCells
  <2> QED BY <1>3, <2>7
<1>5. Leaves(f, {}, m) /\ Todo(f, p) = m + m
  BY <1>1, <1>3, LeavesNone, TodoNone, SMTT(60)
<1> QED BY <1>1, <1>2, <1>4, <1>5, TurnAccounted

LEMMA GetReplicateAccounted ==
  ASSUME FInv, FInv', NEW f \in Flows, Accounted(f), NEW c \in Cubes, NEW l \in Links,
         NEW i \in DOMAIN downBuffers[c][l], NEW p, p = downBuffers[c][l][i],
         GetReplicate(c, l, i, p)
  PROVE  Accounted(f)'
<1>0. p \in Request /\ IInv /\ TypeOK /\ TypeOK'
  BY RequestHere
<1>1. /\ p.cmd = "GET" /\ operandBuffers' = operandBuffers /\ UNCHANGED <<host, memory>>
      /\ \E n \in Links : flowTable' = [flowTable EXCEPT ![c][p.flow].children_gflag[n] = TRUE]
  BY DEF GetReplicate, PendingChildren
<1>10. /\ Bounded(f) /\ Finite(Cells(f)) /\ Finite(Fill(f, link)) /\ Finite(Fill(f, downBuffers))
  BY DEF Accounted, Bounded
<1>2. PICK e \in Request :
        /\ downBuffers' = [downBuffers EXCEPT ![c][l] = Append(@, e)]
        /\ e.cmd = "GET" /\ link' = link
  BY <1>0, GetReplicateShape
<1>3. PICK z \in Nat : z = 0
  OBVIOUS
<1>4. Counts(f, z)
  <2>1. p.flow \in Flows
    BY <1>0, <1>1 DEF Request, Tags
  <2>2. flowTable[c][p.flow] \in FlowEntry
    BY <1>0, <2>1, EntryType
  <2>3. PICK n \in Links : flowTable' = [flowTable EXCEPT ![c][p.flow].children_gflag[n] = TRUE]
    BY <1>1
  <2>4. PICK e2 : e2 = [flowTable[c][p.flow] EXCEPT !.children_gflag[n] = TRUE]
    OBVIOUS
  <2>5. e2.result = flowTable[c][p.flow].result
    BY <2>2, <2>4 DEF FlowEntry
  <2>6. flowTable' = [flowTable EXCEPT ![c][p.flow] = e2]
    BY <2>3, <2>4
  <2>7. operandBuffers' = operandBuffers
    BY <1>1
  <2>8. Counts(f, 0)
    BY <1>0, <1>10, <2>1, <2>5, <2>6, <2>7, EntryCells
  <2> QED BY <1>3, <2>8
<1>5. /\ Finite(Fill(f, downBuffers'))
      /\ Total(Fill(f, downBuffers')) = Total(Fill(f, downBuffers)) + Todo(f, e)
  BY <1>0, <1>10, <1>2, BufferGains
<1>6. Todo(f, e) = z
  BY <1>2, <1>3, TodoNone
<1>7. Total(Fill(f, downBuffers)) \in Nat /\ Total(Fill(f, link)) \in Nat
  BY <1>10, SumTypes
<1>8. /\ Finite(Fill(f, link')) /\ Total(Fill(f, link')) = Total(Fill(f, link)) + z
      /\ Total(Fill(f, downBuffers')) + z = Total(Fill(f, downBuffers)) + z
      /\ z = z + z + z
  <2>1. Fill(f, link') = Fill(f, link)
    BY <1>2
  <2> QED BY <1>10, <1>3, <1>5, <1>6, <1>7, <2>1
<1>9. Bounded(f)' /\ AllLines(f)' = AllLines(f)
  BY <1>3, <1>10, <1>4, <1>5, <1>8, Balance
<1> QED BY <1>1, <1>9, Ledger

LEMMA RequestAccounted ==
  ASSUME FInv, FInv', NEW f \in Flows, Accounted(f), NEW c \in Cubes, NEW l \in Links,
         NEW i \in DOMAIN downBuffers[c][l], NEW p, p = downBuffers[c][l][i],
         RequestStep(c, l, i, p)
  PROVE  Accounted(f)'
BY AddLocalAccounted, MultLocalAccounted, MultHalfLocalAccounted, ReadLocalAccounted,
   MultSplitAccounted, MultHalfForwardAccounted, ForwardAccounted, GetMarkAccounted,
   GetReplicateAccounted DEF RequestStep

-----------------------------------------------------------------------------
(* The other steps.                                                        *)

LEMMA DeliverAccounted ==
  ASSUME FInv, FInv', NEW f \in Flows, Accounted(f), NEW c \in Cubes, NEW l \in Links,
         Deliver(c, l)
  PROVE  Accounted(f)'
<1>1. /\ TypeOK /\ TypeOK' /\ UNCHANGED <<flowTable, operandBuffers>>
      /\ UNCHANGED <<host, memory>> /\ Bounded(f)
      /\ Finite(Cells(f)) /\ Finite(Fill(f, link)) /\ Finite(Fill(f, downBuffers))
  BY DEF FInv, IInv, Deliver, Accounted, Bounded
<1>2. PICK z \in Nat : z = 0
  OBVIOUS
<1>3. Counts(f, z)
  BY <1>1, <1>2, SameCells
<1>4. /\ Finite(Fill(f, link')) /\ Finite(Fill(f, downBuffers'))
      /\ Total(Fill(f, link')) + Total(Fill(f, downBuffers'))
           = Total(Fill(f, link)) + Total(Fill(f, downBuffers))
  BY <1>1, LinkDelivers
<1>5. Bounded(f)'
  BY <1>3, <1>4, PrimedBounded DEF Counts
<1>6. AllLines(f)' = Total(Cells(f))' + Total(Fill(f, link')) + Total(Fill(f, downBuffers'))
  BY PrimedBounded
<1>7. /\ Total(Cells(f)) \in Nat /\ Total(Fill(f, link)) \in Nat
      /\ Total(Fill(f, downBuffers)) \in Nat
  BY <1>1, SumTypes
<1>8. Total(Fill(f, link')) \in Nat /\ Total(Fill(f, downBuffers')) \in Nat
  BY <1>4, TotalType
<1>9. Total(Cells(f))' = Total(Cells(f))
  BY <1>2, <1>3, <1>7 DEF Counts
<1>10. AllLines(f)' = AllLines(f)
  BY <1>4, <1>6, <1>7, <1>8, <1>9 DEF AllLines
<1> QED BY <1>1, <1>5, <1>10, Ledger

LEMMA ResponseAccounted ==
  ASSUME FInv, FInv', NEW f \in Flows, Accounted(f), NEW c \in Cubes, NEW p \in Ports,
         NEW r \in upBuffers[c][p], ResponseStep(c, p, r)
  PROVE  Accounted(f)'
<1>1. /\ IInv /\ TypeOK /\ TypeOK' /\ Finite(Cells(f)) /\ r \in Response
      /\ UNCHANGED <<link, downBuffers, host, memory>>
  BY DEF FInv, IInv, Accounted, Bounded, TypeOK, ResponseStep, OperandReturn, ChildReply,
         ForwardResponse
<1>2. Counts(f, 0)
  <2>1. CASE OperandReturn(c, p, r)
    <3>1. PICK b \in Bufs : b = r.buf
      BY <2>1 DEF OperandReturn, Expected
    <3>2. PICK o1, o2, g : /\ o1 = (operandBuffers[c][b].op1_ready \/ r.op = 1)
                           /\ o2 = (operandBuffers[c][b].op2_ready \/ r.op = 2)
                           /\ g = ((r.cmd = "ADD") \/ (o1 /\ o2))
      OBVIOUS
    <3>3. PICK o : o = [operandBuffers[c][b] EXCEPT !.op1_ready = o1, !.op2_ready = o2, !.ready = g]
      OBVIOUS
    <3>4. operandBuffers[c][b] \in OperandEntry
      BY <1>1 DEF TypeOK
    <3>5. o.flowID = operandBuffers[c][b].flowID
      BY <3>3, <3>4 DEF OperandEntry
    <3>6. operandBuffers' = [operandBuffers EXCEPT ![c][b] = o] /\ flowTable' = flowTable
      BY <2>1, <3>1, <3>2, <3>3 DEF OperandReturn
    <3> QED BY <1>1, <3>5, <3>6, OperandCells
  <2>2. CASE ChildReply(c, p, r)
    <3>1. r.flow \in Flows
      BY <1>1, <2>2 DEF ChildReply, IsChildReply, Response, Tags
    <3>2. PICK n, e : n = NextLink[c][r.src] /\ e = ChildDone(flowTable[c][r.flow], n)
      OBVIOUS
    <3>3. flowTable[c][r.flow] \in FlowEntry
      BY <1>1, <3>1, EntryType
    <3>4. e.result = flowTable[c][r.flow].result
      BY <3>2, <3>3 DEF ChildDone, FlowEntry
    <3>5. flowTable' = [flowTable EXCEPT ![c][r.flow] = e] /\ operandBuffers' = operandBuffers
      BY <2>2, <3>2 DEF ChildReply
    <3> QED BY <1>1, <3>1, <3>4, <3>5, EntryCells
  <2>3. CASE ForwardResponse(c, p, r)
    BY <1>1, <2>3, SameCells DEF ForwardResponse
  <2> QED BY <2>1, <2>2, <2>3 DEF ResponseStep
<1> QED BY <1>1, <1>2, StillAccounted

LEMMA ComputeAccounted ==
  ASSUME FInv, FInv', NEW f \in Flows, Accounted(f), NEW c \in Cubes, NEW b \in Bufs,
         ComputeStep(c, b)
  PROVE  Accounted(f)'
<1>1. /\ IInv /\ TypeOK /\ TypeOK' /\ Finite(Cells(f))
      /\ UNCHANGED <<link, downBuffers, host, memory>>
      /\ operandBuffers[c][b].ready
  BY DEF FInv, IInv, Accounted, Bounded, ComputeStep, AddFinish, MultStart, MultStep
<1>2. ASSUME operandBuffers' = [operandBuffers EXCEPT ![c][b].multStageCounter = @ - 1],
             flowTable' = flowTable
      PROVE  Counts(f, 0)
  <2>1. PICK o : o = [operandBuffers[c][b] EXCEPT !.multStageCounter = @ - 1]
    OBVIOUS
  <2>2. operandBuffers[c][b] \in OperandEntry
    BY <1>1 DEF TypeOK
  <2>3. o.flowID = operandBuffers[c][b].flowID
    BY <2>1, <2>2 DEF OperandEntry
  <2>4. operandBuffers' = [operandBuffers EXCEPT ![c][b] = o]
    BY <1>2, <2>1
  <2> QED BY <1>1, <1>2, <2>3, <2>4, OperandCells
<1>3. Reduce(c, b) => Counts(f, 0)
  BY <1>1, ReduceCells
<1>4. Counts(f, 0)
  BY <1>2, <1>3 DEF ComputeStep, AddFinish, MultStart, MultStep
<1> QED BY <1>1, <1>4, StillAccounted

LEMMA GatherReplyAccounted ==
  ASSUME FInv, FInv', NEW f \in Flows, Accounted(f), NEW c \in Cubes, NEW g \in Flows,
         GatherReply(c, g)
  PROVE  Accounted(f)'
<1>1. /\ IInv /\ TypeOK /\ TypeOK' /\ Bounded(f) /\ Finite(Cells(f))
      /\ UNCHANGED <<link, downBuffers, host>>
      /\ memory' = [memory EXCEPT ![g] = @ + flowTable[c][g].result]
  BY DEF FInv, IInv, Accounted, Bounded, GatherReply, Commit
<1>2. CASE g # f
  <2>1. memory'[f] = memory[f]
    BY <1>1, <1>2 DEF TypeOK
  <2>2. Counts(f, 0)
    BY <1>1, <1>2, CommitCells
  <2> QED BY <1>1, <2>1, <2>2, StillAccounted
<1>3. CASE g = f
  <2>1. /\ Finite(Cells(f))' /\ flowTable[c][f].result \in Nat
        /\ Total(Cells(f))' + flowTable[c][f].result = Total(Cells(f))
    BY <1>1, <1>3, CommitCells
  <2>2. memory'[f] = memory[f] + flowTable[c][f].result /\ memory[f] \in Nat
    BY <1>1, <1>3 DEF TypeOK
  <2>3. Fill(f, link') = Fill(f, link) /\ Fill(f, downBuffers') = Fill(f, downBuffers)
    BY <1>1
  <2>4. Bounded(f)'
    BY <1>1, <2>1, <2>3, PrimedBounded DEF Bounded
  <2>5. AllLines(f)' = Total(Cells(f))' + Total(Fill(f, link)) + Total(Fill(f, downBuffers))
    BY <2>3, PrimedBounded
  <2>6. /\ Total(Cells(f)) \in Nat /\ Total(Fill(f, link)) \in Nat
        /\ Total(Fill(f, downBuffers)) \in Nat
    BY <1>1, SumTypes
  <2>7. Total(Cells(f)') \in Nat
    BY <2>1, TotalType DEF Finite, Units
  <2>8. PICK x, y, z, x2, v : /\ x = Total(Cells(f)) /\ y = Total(Fill(f, link))
                              /\ z = Total(Fill(f, downBuffers)) /\ x2 = Total(Cells(f))'
                              /\ v = flowTable[c][f].result
    OBVIOUS
  <2>9. /\ x \in Nat /\ y \in Nat /\ z \in Nat /\ x2 \in Nat /\ v \in Nat /\ x2 + v = x
        /\ AllLines(f)' = x2 + y + z /\ AllLines(f) = x + y + z
        /\ memory'[f] = memory[f] + v /\ memory[f] \in Nat
    BY <2>1, <2>2, <2>5, <2>6, <2>7, <2>8 DEF AllLines, Total, Units
  <2>10. memory'[f] + AllLines(f)' = memory[f] + AllLines(f)
    BY <2>9
  <2> QED BY <1>1, <2>4, <2>10 DEF Accounted
<1> QED BY <1>2, <1>3

(* A host sends a packet that brings n lines of f.                         *)
LEMMA HostSendsLines ==
  ASSUME TypeOK, TypeOK', NEW f \in Flows, Accounted(f), NEW x \in Tags, NEW p \in Request,
         HostSend(x, p), NEW n \in Nat, n = Todo(f, p),
         UNCHANGED <<downBuffers, flowTable, operandBuffers, memory>>
  PROVE  Bounded(f)' /\ AllLines(f)' = AllLines(f) + n
<1>1. PICK c \in Cubes, l \in Links : link' = [link EXCEPT ![c][l] = Append(@, p)]
  BY HostType, RouteType DEF HostSend
<1>2. /\ Bounded(f) /\ Finite(Cells(f)) /\ Finite(Fill(f, link)) /\ Finite(Fill(f, downBuffers))
  BY DEF Accounted, Bounded
<1>3. Finite(Fill(f, link')) /\ Total(Fill(f, link')) = Total(Fill(f, link)) + n
  BY <1>1, <1>2, LinkGains
<1>4. Counts(f, 0)
  BY <1>2, SameCells
<1>5. Fill(f, downBuffers') = Fill(f, downBuffers)
  OBVIOUS
<1>6. Bounded(f)'
  BY <1>2, <1>3, <1>4, <1>5, PrimedBounded DEF Counts
<1>7. AllLines(f)' = Total(Cells(f))' + Total(Fill(f, link')) + Total(Fill(f, downBuffers))
  BY <1>5, PrimedBounded
<1>8. /\ Total(Cells(f)) \in Nat /\ Total(Fill(f, link)) \in Nat
      /\ Total(Fill(f, downBuffers)) \in Nat
  BY <1>2, SumTypes
<1>9. PICK a, b, d, b2 : /\ a = Total(Cells(f)) /\ b = Total(Fill(f, link))
                         /\ d = Total(Fill(f, downBuffers)) /\ b2 = Total(Fill(f, link'))
  OBVIOUS
<1>10. /\ a \in Nat /\ b \in Nat /\ d \in Nat /\ b2 = b + n
       /\ AllLines(f)' = (a + 0) + b2 + d /\ AllLines(f) = a + b + d
  BY <1>3, <1>4, <1>7, <1>8, <1>9 DEF Counts, AllLines
<1>11. AllLines(f)' = AllLines(f) + n
  BY <1>10
<1> QED BY <1>6, <1>11

LEMMA HostAccounted ==
  ASSUME FInv, FInv', NEW f \in Flows, Accounted(f), Host
  PROVE  Accounted(f)'
<1>1. TypeOK /\ TypeOK' /\ Bounded(f) /\ AllLines(f) \in Nat
  <2>1. Bounded(f)
    BY DEF Accounted
  <2> QED BY <2>1, SumTypes DEF FInv, IInv, AllLines
<1>2. ASSUME NEW g \in Flows, HostUpdate(g) PROVE Accounted(f)'
  <2>0. PICK n \in 1..MaxLines, d1 \in OperandCubes, d2 \in OperandCubes :
          /\ HostSend(g, HostPacket(IF FlowOp[g] = "ADD" THEN "ADD" ELSE "MULT", g, d1, d2, n))
          /\ host' = [host EXCEPT ![g].issued = @ + n]
    BY <1>2 DEF HostUpdate
  <2>1. PICK p :
          /\ p = HostPacket(IF FlowOp[g] = "ADD" THEN "ADD" ELSE "MULT", g, d1, d2, n)
          /\ HostSend(g, p)
          /\ host' = [host EXCEPT ![g].issued = @ + n]
    BY <2>0
  <2>2. UNCHANGED <<downBuffers, flowTable, operandBuffers, memory>>
    BY <1>2 DEF HostUpdate
  <2>3. /\ p \in Request /\ p.flow = g /\ p.cmd \in {"ADD", "MULT"} /\ p.half = 0 /\ p.lines = n
        /\ g \in Tags
    <3>1. g \in Tags /\ g \notin Reads /\ d1 \in Cubes /\ d2 \in Cubes
      BY <2>1, ARTAssumption DEF Tags
    <3>2. PICK cmd \in {"ADD", "MULT"} : cmd = IF FlowOp[g] = "ADD" THEN "ADD" ELSE "MULT"
      OBVIOUS
    <3>3. HostPacket(cmd, g, d1, d2, n) \in Request
      BY <3>1, <3>2, HostPacketType
    <3>4. p = HostPacket(cmd, g, d1, d2, n)
      BY <2>1, <3>2
    <3>5. p.flow = g /\ p.cmd = cmd /\ p.half = 0 /\ p.lines = n
      BY <3>4 DEF HostPacket
    <3> QED BY <3>1, <3>2, <3>3, <3>4, <3>5
  <2>4. n \in Nat
    BY ARTAssumption
  <2>5. CASE g = f
    <3>1. n = Todo(f, p)
      BY <2>3, <2>5, TodoWhole
    <3>2. Bounded(f)' /\ AllLines(f)' = AllLines(f) + n
      BY <1>1, <2>1, <2>2, <2>3, <2>4, <3>1, HostSendsLines
    <3>3. host'[f].issued = host[f].issued + n /\ host[f].issued \in Nat
      BY <1>1, <2>1, <2>5 DEF TypeOK
    <3>4. memory'[f] = memory[f] /\ memory[f] \in Nat
      BY <1>1, <2>2 DEF TypeOK
    <3>5. memory[f] + (AllLines(f) + n) = (memory[f] + AllLines(f)) + n
      BY <1>1, <2>4, <3>4
    <3>6. host[f].issued = memory[f] + AllLines(f)
      BY DEF Accounted
    <3> QED BY <3>2, <3>3, <3>4, <3>5, <3>6 DEF Accounted
  <2>6. CASE g # f
    <3>1. PICK z \in Nat : z = 0
      OBVIOUS
    <3>2. z = Todo(f, p)
      BY <2>3, <2>6, <3>1, TodoNone
    <3>3. Bounded(f)' /\ AllLines(f)' = AllLines(f) + z
      BY <1>1, <2>1, <2>2, <2>3, <3>2, HostSendsLines
    <3>4. host'[f].issued = host[f].issued
      BY <1>1, <2>1, <2>6 DEF TypeOK
    <3>5. memory'[f] = memory[f] /\ AllLines(f)' = AllLines(f)
      BY <1>1, <2>2, <3>1, <3>3
    <3> QED BY <3>3, <3>4, <3>5, Ledger
  <2> QED BY <2>5, <2>6
<1>3. ASSUME NEW x \in Tags, NEW p \in Request, HostSend(x, p), p.cmd \in {"GET", "RD"},
             UNCHANGED <<downBuffers, flowTable, operandBuffers, memory>>,
             host'[f].issued = host[f].issued
      PROVE  Accounted(f)'
  <2>1. PICK z \in Nat : z = 0
    OBVIOUS
  <2>2. z = Todo(f, p)
    BY <1>3, <2>1, TodoNone
  <2>3. UNCHANGED <<downBuffers, flowTable, operandBuffers, memory>>
    BY <1>3
  <2>4. Bounded(f)' /\ AllLines(f)' = AllLines(f) + z
    BY <1>1, <1>3, <2>2, <2>3, HostSendsLines
  <2>5. memory'[f] = memory[f] /\ AllLines(f)' = AllLines(f)
    BY <1>1, <2>1, <2>3, <2>4
  <2> QED BY <1>3, <2>4, <2>5, Ledger
<1>4. ASSUME NEW g \in Flows, HostGather(g) PROVE Accounted(f)'
  <2>1. PICK p : p = HostPacket("GET", g, Root[g], Root[g], 1)
    OBVIOUS
  <2>2. p \in Request /\ p.cmd = "GET" /\ g \in Tags
    BY <2>1, ARTAssumption, HostType DEF HostPacket, Request, Tags
  <2>3. HostSend(g, p) /\ UNCHANGED <<downBuffers, flowTable, operandBuffers, memory>>
    BY <1>4, <2>1 DEF HostGather
  <2>4. host'[f].issued = host[f].issued
    BY <1>1, <1>4 DEF HostGather, TypeOK
  <2> QED BY <1>3, <2>2, <2>3, <2>4
<1>5. ASSUME NEW t \in Reads, HostRead(t) PROVE Accounted(f)'
  <2>0. PICK d \in OperandCubes : HostSend(t, HostPacket("RD", t, d, d, 1))
    BY <1>5 DEF HostRead
  <2>1. PICK p : p = HostPacket("RD", t, d, d, 1) /\ HostSend(t, p)
    BY <2>0
  <2>2. p \in Request /\ p.cmd = "RD" /\ t \in Tags
    BY <2>1, ARTAssumption, HostType DEF HostPacket, Request, Tags
  <2>3. UNCHANGED <<downBuffers, flowTable, operandBuffers, memory>> /\ host' = host
    BY <1>5 DEF HostRead
  <2> QED BY <1>3, <2>1, <2>2, <2>3
<1> QED BY <1>2, <1>4, <1>5 DEF Host

LEMMA InitAccounted ==
  ASSUME Init, NEW f \in Flows
  PROVE  Accounted(f)
<1>1. ASSUME NEW c \in Cubes PROVE Cell(f, c) = 0
  <2>1. flowTable[c][f].result = 0
    BY DEF Init, NoEntry
  <2>2. Reserved(c, f) = {}
    BY NullValues DEF Init, Reserved, FreeOperand
  <2> QED BY <2>1, <2>2, FS_EmptySet DEF Cell
<1>2. Cells(f) \in [Cubes -> Nat] /\ \A c \in Cubes : Cells(f)[c] = 0
  BY <1>1 DEF Cells
<1>3. Finite(Cells(f)) /\ Total(Cells(f)) = 0
  BY <1>2, TotalNone
<1>4. ASSUME NEW B, \A c \in Cubes, l \in Links : B[c][l] = <<>>
      PROVE  Finite(Fill(f, B)) /\ Total(Fill(f, B)) = 0
  <2>1. ASSUME NEW y \in Channels PROVE Weight(f, B[y[1]][y[2]]) = 0
    <3>1. y[1] \in Cubes /\ y[2] \in Links
      BY DEF Channels
    <3>2. B[y[1]][y[2]] = <<>>
      BY <1>4, <3>1
    <3> QED BY <3>2, WeightEmpty
  <2>2. Fill(f, B) \in [Channels -> Nat] /\ \A y \in Channels : Fill(f, B)[y] = 0
    BY <2>1 DEF Fill
  <2> QED BY <2>2, TotalNone
<1>5. /\ Finite(Fill(f, link)) /\ Total(Fill(f, link)) = 0
      /\ Finite(Fill(f, downBuffers)) /\ Total(Fill(f, downBuffers)) = 0
  BY <1>4 DEF Init
<1>6. host[f].issued = 0 /\ memory[f] = 0
  BY DEF Init
<1> QED BY <1>3, <1>5, <1>6 DEF Accounted, Bounded, AllLines

-----------------------------------------------------------------------------
(* Entries are made by updates, which never leave the way to an operand.   *)

Reach(f) ==
  \A c \in Cubes : flowTable[c][f].valid => \E d \in OperandCubes : OnWay(f, c, d)

LEMMA WriteReaches ==
  ASSUME TypeOK, NEW f \in Flows, Reach(f), NEW c \in Cubes, NEW g \in Flows, NEW e,
         flowTable' = [flowTable EXCEPT ![c][g] = e],
         g = f /\ e.valid => flowTable[c][f].valid \/ \E d \in OperandCubes : OnWay(f, c, d)
  PROVE  Reach(f)'
<1>1. ASSUME NEW x \in Cubes, flowTable'[x][f].valid
      PROVE  \E d \in OperandCubes : OnWay(f, x, d)
  BY <1>1 DEF TypeOK, Reach
<1>2. Reach(f)' <=> \A x \in Cubes : flowTable'[x][f].valid => \E d \in OperandCubes : OnWay(f, x, d)
  BY DEF Reach, OnWay, Closed
<1> QED BY <1>1, <1>2

LEMMA SameReaches ==
  ASSUME NEW f \in Flows, Reach(f), flowTable' = flowTable
  PROVE  Reach(f)'
BY DEF Reach, OnWay, Closed

LEMMA RequestReaches ==
  ASSUME TInv, NEW f \in Flows, Reach(f), NEW c \in Cubes, NEW l \in Links,
         NEW i \in DOMAIN downBuffers[c][l], NEW p, p = downBuffers[c][l][i],
         RequestStep(c, l, i, p)
  PROVE  Reach(f)'
<1>1. FInv /\ FlowTree(f) /\ TypeOK /\ IInv
  BY DEF TInv, FInv, IInv
<1>2. /\ p \in Request /\ (p.cmd = "ADD" => p.half = 0) /\ p.dest \in Cubes
      /\ p \in InDown(f, c, l)
  BY <1>1, RequestAt DEF Request
<1>3. ASSUME p.cmd \in {"ADD", "MULT"}, p.half = 0, p.flow = f
      PROVE  \E d \in OperandCubes : OnWay(f, c, d)
  <2>1. p \in Updates(f)
    BY <1>2, <1>3 DEF Updates
  <2>2. Headed(f, c, p)
    BY <1>2, <2>1 DEF InDown
  <2> QED BY <2>2 DEF Headed
<1>4. CASE AddLocal(c, l, i, p) \/ MultLocal(c, l, i, p) \/ MultSplit(c, l, i, p)
  <2>1. /\ p.cmd \in {"ADD", "MULT"} /\ p.half = 0
        /\ flowTable' = [flowTable EXCEPT ![c][p.flow] = Counted(c, p)]
    BY <1>2, <1>4 DEF AddLocal, MultLocal, MultSplit, CountHere
  <2>2. p.flow \in Flows
    BY <1>2, <2>1 DEF Request, Tags
  <2> QED BY <1>1, <1>3, <2>1, <2>2, WriteReaches
<1>5. CASE AddForward(c, l, i, p) \/ MultForward(c, l, i, p)
  <2>1. PICK n : n = NextLink[c][p.dest]
    OBVIOUS
  <2>2. p.cmd \in {"ADD", "MULT"} /\ p.half = 0 /\ CountChild(c, p, n)
    BY <1>2, <1>5, <2>1 DEF AddForward, MultForward
  <2>3. PICK e : flowTable' = [flowTable EXCEPT ![c][p.flow] = e]
    BY <2>2 DEF CountChild
  <2>4. p.flow \in Flows
    BY <1>2, <2>2 DEF Request, Tags
  <2> QED BY <1>1, <1>3, <2>2, <2>3, <2>4, WriteReaches
<1>6. CASE GetReplicate(c, l, i, p) \/ GetMark(c, l, i, p)
  <2>1. p.flow \in Flows /\ flowTable[c][p.flow].valid
    BY <1>2, <1>6 DEF GetReplicate, GetMark, Request, Tags
  <2>2. PICK e : flowTable' = [flowTable EXCEPT ![c][p.flow] = e]
    BY <1>6 DEF GetReplicate, GetMark
  <2> QED BY <1>1, <2>1, <2>2, WriteReaches
<1>7. CASE \/ MultHalfLocal(c, l, i, p) \/ MultHalfForward(c, l, i, p)
           \/ Forward(c, l, i, p) \/ ReadLocal(c, l, i, p)
  BY <1>7, SameReaches DEF MultHalfLocal, MultHalfForward, Forward, ReadLocal
<1> QED BY <1>4, <1>5, <1>6, <1>7 DEF RequestStep

LEMMA ReachStep ==
  ASSUME TInv, NEW f \in Flows, Reach(f), [Next]_vars
  PROVE  Reach(f)'
<1>1. TypeOK /\ IInv
  BY DEF TInv, FInv, IInv
<1>2. CASE \E d \in Cubes, l \in Links : \E i \in DOMAIN downBuffers[d][l] :
             RequestStep(d, l, i, downBuffers[d][l][i])
  BY <1>2, RequestReaches
<1>3. CASE \E d \in Cubes, p \in Ports : \E r \in upBuffers[d][p] : ResponseStep(d, p, r)
  <2>1. PICK d \in Cubes, p \in Ports : \E r \in upBuffers[d][p] : ResponseStep(d, p, r)
    BY <1>3
  <2>2. PICK r \in upBuffers[d][p] : ResponseStep(d, p, r)
    BY <2>1
  <2>3. CASE OperandReturn(d, p, r) \/ ForwardResponse(d, p, r)
    BY <2>3, SameReaches DEF OperandReturn, ForwardResponse
  <2>4. CASE ChildReply(d, p, r)
    <3>1. r \in Response
      BY <1>1 DEF TypeOK
    <3>2. r.flow \in Flows /\ flowTable[d][r.flow].valid
      BY <2>4, <3>1 DEF ChildReply, IsChildReply, Response, Tags
    <3>3. PICK e : flowTable' = [flowTable EXCEPT ![d][r.flow] = e]
      BY <2>4 DEF ChildReply
    <3> QED BY <1>1, <3>2, <3>3, WriteReaches
  <2> QED BY <2>2, <2>3, <2>4 DEF ResponseStep
<1>4. CASE \E d \in Cubes, b \in Bufs : ComputeStep(d, b)
  <2>1. PICK d \in Cubes, b \in Bufs : ComputeStep(d, b)
    BY <1>4
  <2>2. CASE flowTable' = flowTable
    BY <2>2, SameReaches
  <2>3. CASE operandBuffers[d][b].ready /\ Reduce(d, b)
    <3>1. PICK g \in Flows : g = operandBuffers[d][b].flowID
      BY <1>1, <2>3, HeldBuffer DEF IInv
    <3>2. PICK t \in FlowEntry : t = flowTable[d][g]
      BY <1>1, EntryType
    <3>3. PICK e : e = AddResult(t)
      OBVIOUS
    <3>4. flowTable' = [flowTable EXCEPT ![d][g] = e]
      BY <2>3, <3>1, <3>2, <3>3 DEF Reduce
    <3>5. e.valid = t.valid
      BY <3>3 DEF AddResult, FlowEntry
    <3> QED BY <1>1, <3>2, <3>4, <3>5, WriteReaches
  <2> QED BY <2>1, <2>2, <2>3 DEF ComputeStep, AddFinish, MultStart, MultStep
<1>5. CASE \E d \in Cubes, g \in Flows : GatherReply(d, g)
  <2>1. PICK d \in Cubes, g \in Flows : GatherReply(d, g)
    BY <1>5
  <2>2. PICK e : e = NoEntry(d)
    OBVIOUS
  <2>3. flowTable' = [flowTable EXCEPT ![d][g] = e] /\ ~e.valid
    BY <2>1, <2>2, NoEntryFields DEF GatherReply, Commit
  <2> QED BY <1>1, <2>3, WriteReaches
<1>6. CASE \/ \E d \in Cubes, l \in Links : Deliver(d, l)
           \/ \E d \in Cubes : VaultReturn(d)
           \/ HostReceive \/ Host \/ UNCHANGED vars
  BY <1>6, SameReaches DEF Deliver, VaultReturn, HostReceive, Host, HostUpdate, HostGather, HostRead, vars
<1> QED BY <1>2, <1>3, <1>4, <1>5, <1>6 DEF Next, Network

-----------------------------------------------------------------------------
(* When a gather is answered nothing of its flow is left.                  *)

LEMMA IdleDown ==
  ASSUME TInv, NEW f \in Flows, NEW c \in Cubes, Idle(f, c), NEW n \in Links, TreeLink(f, c, n)
  PROVE  Idle(f, neighborCubeID[c][n])
<1>1. PICK e \in Cubes : e = neighborCubeID[c][n]
  BY WireType
<1>2. e # Root[f] /\ Above(f, e) = c /\ Branch(f, e) = n
  BY <1>1, Child
<1>3. IInv /\ ~flowTable[c][f].valid
  BY DEF TInv, FInv, Idle, Live
<1>4. flowTable[c][f].children_count[n] = 0
  BY <1>3, NotValid
<1>5. ~Sent(f, e)
  BY <1>2, <1>4 DEF Sent
<1>6. Edge(f, e)
  BY <1>2 DEF TInv, FlowTree
<1> QED BY <1>1, <1>5, <1>6 DEF Edge

LEMMA IdleWay ==
  ASSUME TInv, NEW f \in Flows, Answered(f), NEW d \in OperandCubes, NEW c \in Cubes, OnWay(f, c, d)
  PROVE  Idle(f, c)
<1>1. PICK V \in SUBSET Cubes : V = {x \in Cubes : OnWay(f, x, d) /\ Idle(f, x)}
  OBVIOUS
<1>2. Root[f] \in V
  <2>1. Idle(f, Root[f])
    BY DEF TInv, FlowTree, HostEdge
  <2> QED BY <1>1, <2>1, WayStart, HostType DEF Tags
<1>3. ASSUME NEW x \in V, x # d PROVE neighborCubeID[x][NextLink[x][d]] \in V
  <2>1. x \in Cubes /\ d \in Cubes /\ OnWay(f, x, d) /\ Idle(f, x)
    BY <1>1, ARTAssumption
  <2>2. PICK n \in Links : n = NextLink[x][d]
    BY <2>1, RouteType
  <2>3. TreeLink(f, x, n) /\ OnWay(f, neighborCubeID[x][n], d)
    BY <1>3, <2>1, <2>2, WayOn
  <2>4. Idle(f, neighborCubeID[x][n]) /\ neighborCubeID[x][n] \in Cubes
    BY <2>1, <2>3, IdleDown, WireType
  <2> QED BY <1>1, <2>2, <2>3, <2>4
<1>4. Closed(f, d, V)
  BY <1>2, <1>3 DEF Closed
<1>5. c \in V
  BY <1>4 DEF OnWay
<1> QED BY <1>1, <1>5

(* No cube has an entry, or anything that would become one.                *)
LEMMA AllIdle ==
  ASSUME TInv, NEW f \in Flows, Reach(f), Answered(f)
  PROVE  \A c \in Cubes : /\ ~flowTable[c][f].valid /\ Reserved(c, f) = {}
                          /\ Idle(f, c) /\ ~Sent(f, c)
<1>1. TypeOK /\ IInv
  BY DEF TInv, FInv, IInv
<1>2. ASSUME NEW c \in Cubes PROVE ~flowTable[c][f].valid
  <2> SUFFICES ASSUME flowTable[c][f].valid PROVE FALSE
    OBVIOUS
  <2>1. PICK d \in OperandCubes : OnWay(f, c, d)
    BY DEF Reach
  <2>2. Idle(f, c)
    BY <2>1, IdleWay
  <2> QED BY <2>2 DEF Idle, Live
<1>3. ASSUME NEW c \in Cubes PROVE Reserved(c, f) = {}
  BY <1>1, <1>2, NothingOwed DEF IInv
<1>4. ASSUME NEW c \in Cubes PROVE ~Sent(f, c)
  <2>1. PICK a \in Cubes, n \in Links : a = Above(f, c) /\ n = Branch(f, c)
    BY LaneType
  <2>2. flowTable[a][f].children_count[n] = 0
    BY <1>1, <1>2, NotValid
  <2> QED BY <2>1, <2>2 DEF Sent
<1>5. ASSUME NEW c \in Cubes PROVE Idle(f, c)
  <2>1. CASE c = Root[f]
    BY <2>1 DEF TInv, FlowTree, HostEdge
  <2>2. CASE c # Root[f]
    BY <1>4, <2>2 DEF TInv, FlowTree, Edge
  <2> QED BY <2>1, <2>2
<1> QED BY <1>2, <1>3, <1>4, <1>5

LEMMA HeldThere ==
  ASSUME NEW Q, NEW R, NEW y \in Places, NEW a \in Held(Q, R)[y]
  PROVE  There(Q, R)
BY DEF There, Somewhere

(* An operand under way has its buffer.                                    *)
LEMMA AskedHeld ==
  ASSUME TInv, NEW f \in Flows, NEW x \in Cubes, NEW n \in Links, NEW s,
         s = link[x][n] \/ s = downBuffers[x][n], NEW i \in DOMAIN s,
         s[i].flow = f, s[i].half # 0
  PROVE  \E c \in Cubes : Reserved(c, f) # {}
<1>1. TypeOK /\ PacketsGood /\ OperandsOnce
  BY DEF TInv, FInv, IInv
<1>2. s \in Seq(Request) /\ s \in Seq(GoodRequest)
  BY <1>1 DEF TypeOK, PacketsGood, RequestsGood
<1>3. PICK q \in Request : q = s[i]
  BY <1>2
<1>4. q \in GoodRequest
  BY <1>2, <1>3
<1>5. q.half \in 1..2 /\ q.buf \in Bufs /\ q.src \in Cubes
  BY <1>3, <1>4 DEF GoodRequest, Request
<1>6. PICK c \in Cubes : c = IF q.lines = 1 THEN q.src ELSE x
  BY <1>5
<1>7. PICK b \in Bufs, k \in 1..2 : b = q.buf /\ k = q.half
  BY <1>5
<1>8. PICK Q, R : Q = Asks(c, b, k, f) /\ R = Brings(c, b, k, f)
  OBVIOUS
<1>9. q \in Q[x]
  BY <1>3, <1>6, <1>7, <1>8, OperandPackets
<1>10. i \in Pos(s, Q[x])
  BY <1>3, <1>9 DEF Pos
<1>11. There(Q, R)
  <2>1. CASE s = link[x][n]
    <3>1. PICK y \in Places : Held(Q, R)[y] = Pos(link[x][n], Q[x])
      BY LinkPlace
    <3> QED BY <1>10, <2>1, <3>1, HeldThere
  <2>2. CASE s = downBuffers[x][n]
    <3>1. PICK y \in Places : Held(Q, R)[y] = Pos(downBuffers[x][n], Q[x])
      BY DownPlace
    <3> QED BY <1>10, <2>2, <3>1, HeldThere
  <2> QED BY <2>1, <2>2
<1>12. Wants(operandBuffers[c][b], k, f)
  BY <1>1, <1>8, <1>11 DEF OperandsOnce, OperandOnce
<1>13. b \in Reserved(c, f)
  BY <1>12 DEF Wants, Reserved
<1> QED BY <1>13

LEMMA BroughtHeld ==
  ASSUME TInv, NEW f \in Flows, NEW x \in Cubes, NEW n \in Ports, NEW r,
         r \in vault[x] \/ r \in upBuffers[x][n], r.flow = f, r.cmd # "GET"
  PROVE  \E c \in Cubes : Reserved(c, f) # {}
<1>1. TypeOK /\ PacketsGood /\ OperandsOnce
  BY DEF TInv, FInv, IInv
<1>2. r \in Response /\ (r.cmd \in {"ADD", "MULT"} <=> r.op # 0) /\ (r.op # 0 => r.buf \in Bufs)
  BY <1>1 DEF TypeOK, PacketsGood, ResponsesGood, GoodResponse
<1>3. r.cmd \in {"ADD", "MULT"}
  BY <1>2, ARTAssumption DEF Response
<1>4. r.op \in 1..2 /\ r.buf \in Bufs /\ r.dest \in Cubes
  BY <1>2, <1>3 DEF Response
<1>5. PICK c \in Cubes, b \in Bufs, k \in 1..2 : c = r.dest /\ b = r.buf /\ k = r.op
  BY <1>4
<1>6. PICK Q, R : Q = Asks(c, b, k, f) /\ R = Brings(c, b, k, f)
  OBVIOUS
<1>7. r \in R
  BY <1>2, <1>3, <1>5, <1>6, OperandPackets
<1>8. There(Q, R)
  <2>1. CASE r \in vault[x]
    <3>1. r \in Part(vault[x], R)
      BY <1>7, <2>1 DEF Part
    <3>2. PICK y \in Places : Held(Q, R)[y] = Part(vault[x], R)
      BY VaultPlace
    <3> QED BY <3>1, <3>2, HeldThere
  <2>2. CASE r \in upBuffers[x][n]
    <3>1. r \in Part(upBuffers[x][n], R)
      BY <1>7, <2>2 DEF Part
    <3>2. PICK y : y = <<"up", x, n>>
      OBVIOUS
    <3>3. y \in Places /\ Held(Q, R)[y] = Part(upBuffers[x][n], R)
      BY <3>2, UpPlace
    <3> QED BY <3>1, <3>3, HeldThere
  <2> QED BY <2>1, <2>2
<1>9. Wants(operandBuffers[c][b], k, f)
  BY <1>1, <1>6, <1>8 DEF OperandsOnce, OperandOnce
<1>10. b \in Reserved(c, f)
  BY <1>9 DEF Wants, Reserved
<1> QED BY <1>10

(* No request of the flow is left, ...                                     *)
LEMMA NoRequest ==
  ASSUME TInv, NEW f \in Flows, Reach(f), Answered(f), NEW c \in Cubes, NEW l \in Links,
         NEW s, s = link[c][l] \/ s = downBuffers[c][l], NEW i \in DOMAIN s
  PROVE  s[i].flow # f
<1> SUFFICES ASSUME s[i].flow = f PROVE FALSE
  OBVIOUS
<1>1. TypeOK /\ Packets(f) /\ \A x \in Cubes \ {Root[f]} : Edge(f, x)
  BY DEF TInv, FInv, IInv, FlowTree
<1>2. \A x \in Cubes : Idle(f, x) /\ ~Sent(f, x) /\ Reserved(x, f) = {}
  BY AllIdle
<1>3. PICK q : q = s[i]
  OBVIOUS
<1>4. s \in Seq(OnLink(f, c, l)) \/ s \in Seq(InDown(f, c, l))
  BY <1>1 DEF Packets
<1>5. q \in Request /\ q \in InDown(f, c, l)
  <2>1. q \in OnLink(f, c, l) \/ q \in InDown(f, c, l)
    BY <1>3, <1>4
  <2> QED BY <2>1 DEF OnLink, InDown
<1>6. q.half = 0
  BY <1>2, <1>3, AskedHeld
<1>7. ASSUME NEW A, q \in A, l = Lane(f, c) PROVE Coming(f, c, A)
  BY <1>3, <1>7 DEF Coming, Has, InLane, OnLane
<1>8. q.cmd \in {"ADD", "MULT", "GET"}
  BY <1>3, <1>5, ARTAssumption DEF Request
<1>9. CASE q.cmd \in {"ADD", "MULT"}
  <2>1. q \in Wholes(f) /\ q \in Updates(f)
    BY <1>3, <1>5, <1>6, <1>9 DEF Wholes, Updates
  <2>2. l = Lane(f, c)
    BY <1>5, <2>1 DEF InDown
  <2>3. Coming(f, c, Wholes(f))
    BY <1>7, <2>1, <2>2
  <2> QED BY <1>2, <2>3 DEF Idle, Live
<1>10. CASE q.cmd = "GET"
  <2>1. l = Lane(f, c)
    BY <1>3, <1>5, <1>10 DEF InDown
  <2>2. CASE q.dest = c
    <3>1. q \in Calls(f, c)
      BY <1>3, <1>5, <1>10, <2>2 DEF Calls
    <3>2. Coming(f, c, Calls(f, c))
      BY <1>7, <2>1, <3>1
    <3> QED BY <1>2, <3>2 DEF Idle
  <2>3. CASE q.dest # c
    <3>1. PICK n \in Links : TreeLink(f, c, n) /\ q.dest = neighborCubeID[c][n]
      BY <1>3, <1>5, <1>10, <2>3 DEF InDown
    <3>2. PICK e \in Cubes : e = neighborCubeID[c][n]
      BY WireType
    <3>3. e # Root[f] /\ Above(f, e) = c
      BY <3>1, <3>2, Child
    <3>4. s = downBuffers[c][l]
      <4> SUFFICES ASSUME s = link[c][l] PROVE FALSE
        OBVIOUS
      <4>1. s \in Seq(OnLink(f, c, l))
        BY <1>1 DEF Packets
      <4>2. q \in OnLink(f, c, l)
        BY <1>3, <4>1
      <4> QED BY <1>3, <1>10, <2>3, <4>2 DEF OnLink
    <3>5. q \in Calls(f, e)
      BY <1>3, <1>5, <1>10, <3>1, <3>2 DEF Calls
    <3>6. Asked(f, e)
      BY <1>3, <2>1, <3>3, <3>4, <3>5 DEF Asked, Has, InLane
    <3> QED BY <1>1, <1>2, <3>3, <3>6 DEF Edge
  <2> QED BY <2>2, <2>3
<1> QED BY <1>8, <1>9, <1>10

(* ... and no response but the answer at the host.                         *)
LEMMA NoResponse ==
  ASSUME TInv, NEW f \in Flows, Reach(f), Answered(f), NEW c \in Cubes, NEW n \in Ports,
         NEW r, r \in vault[c] \/ r \in upBuffers[c][n]
  PROVE  r.flow # f
<1> SUFFICES ASSUME r.flow = f PROVE FALSE
  OBVIOUS
<1>1. FInv /\ FlowTree(f) /\ Packets(f) /\ \A x \in Cubes \ {Root[f]} : Edge(f, x)
  BY DEF TInv, FlowTree
<1>2. \A x \in Cubes : ~Sent(f, x) /\ Reserved(x, f) = {}
  BY AllIdle
<1>3. r.cmd = "GET"
  BY <1>2, BroughtHeld
<1>4. IsAnswer(f, r)
  BY <1>3 DEF IsAnswer
<1>5. r \in upBuffers[c][n]
  BY <1>1, <1>4 DEF Packets
<1>6. n \in Links /\ TreeLink(f, c, n) /\ r = Answer(f, neighborCubeID[c][n])
  BY <1>1, <1>4, <1>5, AnswerAt
<1>7. PICK e \in Cubes : e = neighborCubeID[c][n]
  BY <1>6, WireType
<1>8. e # Root[f] /\ Above(f, e) = c /\ Branch(f, e) = n
  BY <1>6, <1>7, Child
<1>9. Replied(f, e)
  BY <1>5, <1>6, <1>7, <1>8 DEF Replied
<1> QED BY <1>1, <1>2, <1>8, <1>9 DEF Edge

-----------------------------------------------------------------------------
(* So the lines the host issued are all in the target.                     *)

LEMMA WeightNone ==
  ASSUME NEW f, NEW s \in Seq(Request), \A j \in DOMAIN s : s[j].flow # f
  PROVE  Weight(f, s) = 0
<1>1. PICK S : S = 1..Len(s)
  OBVIOUS
<1>2. Loads(f, s) \in [S -> Nat] /\ \A j \in S : Loads(f, s)[j] = Todo(f, s[j])
  BY <1>1, LoadsType
<1>3. S = DOMAIN s
  BY <1>1, LenProperties
<1>4. \A j \in S : Loads(f, s)[j] = 0
  BY <1>2, <1>3, TodoNone
<1> QED BY <1>2, <1>4, TotalNone DEF Weight

LEMMA FillNone ==
  ASSUME NEW f, NEW B, OfRequests(B),
         \A c \in Cubes, l \in Links : \A j \in DOMAIN B[c][l] : B[c][l][j].flow # f
  PROVE  Finite(Fill(f, B)) /\ Total(Fill(f, B)) = 0
<1>1. ASSUME NEW y \in Channels PROVE Weight(f, B[y[1]][y[2]]) = 0
  <2>1. PICK c \in Cubes, l \in Links : c = y[1] /\ l = y[2]
    BY DEF Channels
  <2>2. B[c][l] \in Seq(Request) /\ \A j \in DOMAIN B[c][l] : B[c][l][j].flow # f
    BY DEF OfRequests
  <2>3. Weight(f, B[c][l]) = 0
    BY <2>2, WeightNone
  <2> QED BY <2>1, <2>3
<1>2. Fill(f, B) \in [Channels -> Nat] /\ \A y \in Channels : Fill(f, B)[y] = 0
  BY <1>1 DEF Fill
<1> QED BY <1>2, TotalNone

LEMMA AnswerExact ==
  ASSUME TInv, NEW f \in Flows, Reach(f), Accounted(f), Answered(f)
  PROVE  AllLines(f) = 0 /\ memory[f] = host[f].issued
<1>1. TypeOK /\ IInv /\ OfRequests(link) /\ OfRequests(downBuffers)
  BY DEF TInv, FInv, IInv, TypeOK, OfRequests
<1>2. ASSUME NEW c \in Cubes PROVE Cell(f, c) = 0
  <2>1. ~flowTable[c][f].valid /\ Reserved(c, f) = {}
    BY AllIdle
  <2>2. flowTable[c][f] = NoEntry(c)
    BY <1>1, <2>1, NotValid
  <2>3. flowTable[c][f].result = 0
    BY <2>2 DEF NoEntry
  <2> QED BY <2>1, <2>3, FS_EmptySet DEF Cell
<1>3. Total(Cells(f)) = 0
  <2>1. Cells(f) \in [Cubes -> Nat] /\ \A c \in Cubes : Cells(f)[c] = 0
    BY <1>1, <1>2, CellType
  <2> QED BY <2>1, TotalNone
<1>4. Total(Fill(f, link)) = 0
  <2>1. \A c \in Cubes, l \in Links : \A j \in DOMAIN link[c][l] : link[c][l][j].flow # f
    BY NoRequest
  <2> QED BY <1>1, <2>1, FillNone
<1>5. Total(Fill(f, downBuffers)) = 0
  <2>1. \A c \in Cubes, l \in Links :
          \A j \in DOMAIN downBuffers[c][l] : downBuffers[c][l][j].flow # f
    BY NoRequest
  <2> QED BY <1>1, <2>1, FillNone
<1>6. AllLines(f) = 0
  BY <1>3, <1>4, <1>5 DEF AllLines
<1>7. memory[f] \in Nat
  BY <1>1 DEF TypeOK
<1> QED BY <1>6, <1>7 DEF Accounted

LEMMA VaultReturnAccounted ==
  ASSUME FInv, NEW f \in Flows, Accounted(f), NEW c \in Cubes, VaultReturn(c)
  PROVE  Accounted(f)'
<1>1. TypeOK /\ Finite(Cells(f))
  BY DEF FInv, IInv, Accounted, Bounded
<1>2. UNCHANGED <<link, downBuffers, flowTable, operandBuffers, host, memory>>
  BY DEF VaultReturn
<1>3. Counts(f, 0)
  BY <1>1, <1>2, SameCells
<1> QED BY <1>2, <1>3, StillAccounted

LEMMA SameAccounted ==
  ASSUME FInv, NEW f \in Flows, Accounted(f), UNCHANGED vars
  PROVE  Accounted(f)'
<1>1. TypeOK /\ Finite(Cells(f))
  BY DEF FInv, IInv, Accounted, Bounded
<1>2. UNCHANGED <<link, downBuffers, flowTable, operandBuffers, host, memory>>
  BY DEF vars
<1>3. Counts(f, 0)
  BY <1>1, <1>2, SameCells
<1> QED BY <1>2, <1>3, StillAccounted

(* The host starts from zero when nothing is left to count.                *)
LEMMA ReceiveAccounted ==
  ASSUME TInv, NEW f \in Flows, Reach(f), Accounted(f), HostReceive
  PROVE  Accounted(f)'
<1>1. TypeOK /\ Bounded(f) /\ Finite(Cells(f)) /\ Finite(Fill(f, link)) /\ Finite(Fill(f, downBuffers))
  BY DEF TInv, FInv, IInv, Accounted, Bounded
<1>2. UNCHANGED <<link, downBuffers, flowTable, operandBuffers>>
  BY DEF HostReceive
<1>3. Counts(f, 0)
  BY <1>1, <1>2, SameCells
<1>4. PICK r \in responseQ :
        IF r.cmd = "GET"
        THEN /\ host' = [host EXCEPT ![r.flow] = [phase |-> "update", issued |-> 0]]
             /\ memory' = [memory EXCEPT ![r.flow] = 0]
        ELSE UNCHANGED <<host, memory>>
  BY DEF HostReceive
<1>5. CASE r.cmd = "GET" /\ r.flow = f
  <2>1. Answered(f)
    BY <1>5 DEF Answered
  <2>2. AllLines(f) = 0
    BY <2>1, AnswerExact
  <2>3. host'[f].issued = 0 /\ memory'[f] = 0
    BY <1>1, <1>4, <1>5 DEF TypeOK
  <2>4. Fill(f, link') = Fill(f, link) /\ Fill(f, downBuffers') = Fill(f, downBuffers)
    BY <1>2
  <2>5. Bounded(f)'
    BY <1>1, <1>3, <2>4, PrimedBounded DEF Counts
  <2>6. AllLines(f)' = Total(Cells(f))' + Total(Fill(f, link)) + Total(Fill(f, downBuffers))
    BY <2>4, PrimedBounded
  <2>7. Total(Cells(f)) \in Nat
    BY <1>1, SumTypes
  <2>8. Total(Cells(f))' = Total(Cells(f))
    BY <1>3, <2>7 DEF Counts
  <2>9. AllLines(f)' = 0
    BY <2>2, <2>6, <2>8 DEF AllLines
  <2> QED BY <2>3, <2>5, <2>9 DEF Accounted
<1>6. CASE ~(r.cmd = "GET" /\ r.flow = f)
  <2>1. host'[f].issued = host[f].issued /\ memory'[f] = memory[f]
    BY <1>1, <1>4, <1>6 DEF TypeOK
  <2> QED BY <1>2, <1>3, <2>1, StillAccounted
<1> QED BY <1>5, <1>6

LEMMA AccountedStep ==
  ASSUME TInv, TInv', NEW f \in Flows, Reach(f), Accounted(f), [Next]_vars
  PROVE  Accounted(f)'
<1>0. FInv /\ FInv'
  BY DEF TInv
<1>1. CASE \E c \in Cubes, l \in Links : Deliver(c, l)
  BY <1>0, <1>1, DeliverAccounted
<1>2. CASE \E c \in Cubes, l \in Links : \E i \in DOMAIN downBuffers[c][l] :
             RequestStep(c, l, i, downBuffers[c][l][i])
  BY <1>0, <1>2, RequestAccounted
<1>3. CASE \E c \in Cubes : VaultReturn(c)
  BY <1>0, <1>3, VaultReturnAccounted
<1>4. CASE \E c \in Cubes, p \in Ports : \E r \in upBuffers[c][p] : ResponseStep(c, p, r)
  BY <1>0, <1>4, ResponseAccounted
<1>5. CASE \E c \in Cubes, b \in Bufs : ComputeStep(c, b)
  BY <1>0, <1>5, ComputeAccounted
<1>6. CASE \E c \in Cubes, g \in Flows : GatherReply(c, g)
  BY <1>0, <1>6, GatherReplyAccounted
<1>7. CASE HostReceive
  BY <1>7, ReceiveAccounted
<1>8. CASE Host
  BY <1>0, <1>8, HostAccounted
<1>9. CASE UNCHANGED vars
  BY <1>0, <1>9, SameAccounted
<1> QED BY <1>1, <1>2, <1>3, <1>4, <1>5, <1>6, <1>7, <1>8, <1>9 DEF Next, Network

-----------------------------------------------------------------------------
EInv == TInv /\ \A f \in Flows : Reach(f) /\ Accounted(f)

(* In every behaviour the lines a host has issued for a flow are those in  *)
(* its target, in the results and operand buffers of the cubes and in the  *)
(* updates under way: none is lost or counted twice.                       *)
THEOREM ExactInvariance == Spec => []EInv
<1>1. Init => \A f \in Flows : Reach(f) /\ Accounted(f)
  <2> SUFFICES ASSUME Init, NEW f \in Flows PROVE Reach(f) /\ Accounted(f)
    OBVIOUS
  <2>1. Reach(f)
    BY NoEntryFields DEF Init, Reach
  <2> QED BY <2>1, InitAccounted
<1>2. EInv /\ TInv' /\ [Next]_vars => EInv'
  <2> SUFFICES ASSUME EInv, TInv', [Next]_vars PROVE EInv'
    OBVIOUS
  <2>1. ASSUME NEW f \in Flows PROVE Reach(f)' /\ Accounted(f)'
    BY ReachStep, AccountedStep DEF EInv
  <2> QED BY <2>1 DEF EInv
<1>3. Init /\ TInv => EInv
  BY <1>1 DEF EInv
<1> QED BY <1>2, <1>3, TreeInvariance, PTL DEF Spec

(* When the host has the answer of its gather, the target holds every      *)
(* update it sent, and no cube, link or vault holds anything of the flow   *)
(* (the response of CrossbarSwitch.cpp:1023-1049 reaches the host last).   *)
THEOREM ExactCorrect == Spec => []GatherExact
<1>1. EInv => GatherExact
  <2> SUFFICES ASSUME EInv, NEW a \in responseQ, a.cmd = "GET"
               PROVE  /\ memory[a.flow] = host[a.flow].issued
                      /\ \A c \in Cubes :
                           /\ ~flowTable[c][a.flow].valid /\ Reserved(c, a.flow) = {}
                           /\ \A l \in Links : \A s \in {link[c][l], downBuffers[c][l]} :
                                \A i \in DOMAIN s : s[i].flow # a.flow
                           /\ \A r \in vault[c] \cup UNION {upBuffers[c][p] : p \in Ports} :
                                r.flow # a.flow
    BY DEF GatherExact
  <2>1. TInv /\ a \in Response
    BY DEF EInv, TInv, FInv, IInv, TypeOK
  <2>2. PICK f \in Flows : f = a.flow
    BY <2>1 DEF Response, Tags
  <2>3. Answered(f) /\ Reach(f) /\ Accounted(f)
    BY <2>2 DEF Answered, EInv
  <2>4. memory[f] = host[f].issued
    BY <2>1, <2>3, AnswerExact
  <2>5. ASSUME NEW c \in Cubes PROVE ~flowTable[c][f].valid /\ Reserved(c, f) = {}
    BY <2>1, <2>3, AllIdle
  <2>6. ASSUME NEW c \in Cubes, NEW l \in Links, NEW s \in {link[c][l], downBuffers[c][l]},
               NEW i \in DOMAIN s
        PROVE  s[i].flow # f
    BY <2>1, <2>3, NoRequest
  <2>7. ASSUME NEW c \in Cubes, NEW r \in vault[c] \cup UNION {upBuffers[c][p] : p \in Ports}
        PROVE  r.flow # f
    <3>1. PICK n \in Ports : r \in vault[c] \/ r \in upBuffers[c][n]
      BY DEF Ports
    <3> QED BY <2>1, <2>3, <3>1, NoResponse
  <2> QED BY <2>2, <2>4, <2>5, <2>6, <2>7
<1> QED BY <1>1, ExactInvariance, PTL

-----------------------------------------------------------------------------
(* The network as a Reduction.                                             *)

Phase(f)  == IF Answered(f) THEN "answered" ELSE host[f].phase
Landed(f) == IF Answered(f) THEN memory[f] ELSE 0

Phases == [f \in Flows |-> Phase(f)]
Issued == [f \in Flows |-> host[f].issued]
Landeds == [f \in Flows |-> Landed(f)]

SameView(f) ==
  /\ Answered(f)' <=> Answered(f)
  /\ host'[f] = host[f]
  /\ Answered(f) => memory'[f] = memory[f]

LEMMA ViewOf ==
  ASSUME NEW f \in Flows
  PROVE  /\ SameView(f) => Phase(f)' = Phase(f) /\ Landed(f)' = Landed(f) /\ host'[f].issued = host[f].issued
         /\ Answered(f) => Phase(f) = "answered" /\ Landed(f) = memory[f]
         /\ ~Answered(f) => Phase(f) = host[f].phase /\ Landed(f) = 0
         /\ Answered(f)' => Phase(f)' = "answered" /\ Landed(f)' = memory'[f]
         /\ ~Answered(f)' => Phase(f)' = host'[f].phase /\ Landed(f)' = 0
         /\ Phases[f] = Phase(f) /\ Issued[f] = host[f].issued /\ Landeds[f] = Landed(f)
BY DEF SameView, Phase, Landed, Phases, Issued, Landeds

LEMMA ViewChange ==
  ASSUME NEW f \in Flows, \A g \in Flows : g # f => SameView(g), NEW p, NEW n, NEW t,
         Phase(f)' = p, host'[f].issued = n, Landed(f)' = t
  PROVE  /\ Phases' = [Phases EXCEPT ![f] = p]
         /\ Issued' = [Issued EXCEPT ![f] = n]
         /\ Landeds' = [Landeds EXCEPT ![f] = t]
<1>1. \A g \in Flows : g # f => /\ Phase(g)' = Phase(g) /\ Landed(g)' = Landed(g)
                                /\ host'[g].issued = host[g].issued
  BY ViewOf
<1> QED BY <1>1 DEF Phases, Issued, Landeds

LEMMA ViewSame ==
  ASSUME \A g \in Flows : SameView(g)
  PROVE  UNCHANGED Red!vars
<1>1. \A g \in Flows : /\ Phase(g)' = Phase(g) /\ Landed(g)' = Landed(g)
                       /\ host'[g].issued = host[g].issued
  BY ViewOf
<1>2. Phases' = Phases /\ Issued' = Issued /\ Landeds' = Landeds
  BY <1>1 DEF Phases, Issued, Landeds
<1> QED BY <1>2 DEF Red!vars, Phases, Issued, Landeds, Phase, Landed

(* A step of the network that no host sees.                                *)
LEMMA QuietView ==
  ASSUME UNCHANGED <<responseQ, host, memory>>
  PROVE  UNCHANGED Red!vars
BY ViewSame DEF SameView, Answered

LEMMA ResponseView ==
  ASSUME TInv, NEW c \in Cubes, NEW p \in Ports, NEW r \in upBuffers[c][p], ResponseStep(c, p, r)
  PROVE  UNCHANGED Red!vars
<1>1. CASE OperandReturn(c, p, r) \/ ChildReply(c, p, r)
  BY <1>1, QuietView DEF OperandReturn, ChildReply
<1>2. CASE ForwardResponse(c, p, r)
  <2>1. r \in Response
    BY DEF TInv, FInv, IInv, TypeOK
  <2>2. r.cmd # "GET"
    <3> SUFFICES ASSUME r.cmd = "GET" PROVE FALSE
      OBVIOUS
    <3>1. PICK f \in Flows : f = r.flow
      BY <2>1 DEF Response, Tags
    <3>2. IsAnswer(f, r) /\ FInv /\ FlowTree(f)
      BY <3>1 DEF IsAnswer, TInv
    <3>3. IsChildReply(c, r)
      BY <3>2, AnswerAt
    <3> QED BY <1>2, <3>3 DEF ForwardResponse
  <2>3. responseQ' = responseQ \/ responseQ' = responseQ \cup {r}
    BY <1>2 DEF ForwardResponse, SendUp
  <2>4. UNCHANGED <<host, memory>>
    BY <1>2 DEF ForwardResponse
  <2>5. \A f \in Flows : Answered(f)' <=> Answered(f)
    BY <2>2, <2>3 DEF Answered
  <2> QED BY <2>4, <2>5, ViewSame DEF SameView
<1> QED BY <1>1, <1>2 DEF ResponseStep

LEMMA GatherView ==
  ASSUME EInv, EInv', GatherExact', NEW c \in Cubes, NEW f \in Flows, GatherReply(c, f)
  PROVE  [Red!Next]_(Red!vars)
<1>1. /\ TypeOK /\ flowTable[c][f].valid /\ host' = host
      /\ memory' = [memory EXCEPT ![f] = @ + flowTable[c][f].result]
  BY DEF EInv, TInv, FInv, IInv, GatherReply, Commit
<1>2. ~Answered(f)
  BY <1>1, AllIdle DEF EInv
<1>3. PICK r : /\ r.cmd = "GET" /\ r.flow = f
               /\ responseQ' = responseQ \/ responseQ' = responseQ \cup {r}
  <2>1. PICK a : a = [cmd |-> "GET", flow |-> f, src |-> c, dest |-> flowTable[c][f].parent,
                      home |-> c, op |-> 0, buf |-> NoBuf]
    OBVIOUS
  <2>2. a.cmd = "GET" /\ a.flow = f
    BY <2>1
  <2>3. SendUp(c, NextLink[c][flowTable[c][f].parent], a, upBuffers)
    BY <2>1 DEF GatherReply, Commit
  <2> QED BY <2>2, <2>3 DEF SendUp
<1>4. ASSUME NEW g \in Flows, g # f PROVE SameView(g)
  <2>1. Answered(g)' <=> Answered(g)
    BY <1>3, <1>4 DEF Answered
  <2>2. memory'[g] = memory[g]
    BY <1>1, <1>4 DEF TypeOK
  <2> QED BY <1>1, <2>1, <2>2 DEF SameView
<1>5. CASE ~Answered(f)'
  <2>1. SameView(f)
    BY <1>1, <1>2, <1>5 DEF SameView
  <2> QED BY <1>4, <2>1, ViewSame
<1>6. CASE Answered(f)'
  <2>1. memory'[f] = host'[f].issued
    <3>1. PICK a \in responseQ' : a.cmd = "GET" /\ a.flow = f
      BY <1>6 DEF Answered
    <3> QED BY <3>1 DEF GatherExact
  <2>2. host[f].phase = "gather"
    <3>1. HostEdge(f)'
      BY DEF EInv, TInv, FlowTree
    <3> QED BY <1>1, <1>6, <3>1 DEF HostEdge
  <2>3. PICK n : n = host[f].issued
    OBVIOUS
  <2>4. Phase(f)' = "answered" /\ host'[f].issued = n /\ Landed(f)' = n
    BY <1>1, <1>6, <2>1, <2>3, ViewOf
  <2>5. /\ Phases' = [Phases EXCEPT ![f] = "answered"]
        /\ Issued' = [Issued EXCEPT ![f] = n]
        /\ Landeds' = [Landeds EXCEPT ![f] = n]
    BY <1>4, <2>4, ViewChange
  <2>6. Phases[f] = "gather" /\ Issued[f] = n
    BY <1>2, <2>2, <2>3, ViewOf
  <2>7. Issued' = Issued /\ Landeds' = [Landeds EXCEPT ![f] = Issued[f]]
    BY <2>5, <2>6 DEF Issued
  <2>8. Red!Answer(f)
    BY <2>5, <2>6, <2>7 DEF Red!Answer, Phases, Issued, Landeds, Phase, Landed
  <2> QED BY <2>8 DEF Red!Next
<1> QED BY <1>5, <1>6

LEMMA ReceiveView ==
  ASSUME TInv, HostReceive
  PROVE  [Red!Next]_(Red!vars)
<1>1. TypeOK
  BY DEF TInv, FInv, IInv
<1>2. PICK r \in responseQ :
        /\ responseQ' = responseQ \ {r}
        /\ IF r.cmd = "GET"
           THEN /\ host' = [host EXCEPT ![r.flow] = [phase |-> "update", issued |-> 0]]
                /\ memory' = [memory EXCEPT ![r.flow] = 0]
           ELSE UNCHANGED <<host, memory>>
  BY DEF HostReceive
<1>3. CASE r.cmd # "GET"
  <2>1. UNCHANGED <<host, memory>> /\ \A f \in Flows : Answered(f)' <=> Answered(f)
    BY <1>2, <1>3 DEF Answered
  <2> QED BY <2>1, ViewSame DEF SameView
<1>4. CASE r.cmd = "GET"
  <2>1. r \in Response
    BY <1>1 DEF TypeOK
  <2>2. PICK f \in Flows : f = r.flow
    BY <1>4, <2>1 DEF Response, Tags
  <2>3. Answered(f) /\ IsAnswer(f, r)
    BY <1>4, <2>2 DEF Answered, IsAnswer
  <2>4. ~Answered(f)'
    <3>1. \A a \in responseQ : IsAnswer(f, a) => a = Answer(f, Root[f])
      BY DEF TInv, FlowTree, Packets
    <3>2. \A a \in responseQ : IsAnswer(f, a) => a = r
      BY <2>3, <3>1
    <3> QED BY <1>2, <3>2 DEF Answered, IsAnswer
  <2>5. host'[f].phase = "update" /\ host'[f].issued = 0
    BY <1>1, <1>2, <1>4, <2>2 DEF TypeOK
  <2>6. ASSUME NEW g \in Flows, g # f PROVE SameView(g)
    <3>1. host'[g] = host[g] /\ memory'[g] = memory[g]
      BY <1>1, <1>2, <1>4, <2>2, <2>6 DEF TypeOK
    <3>2. Answered(g)' <=> Answered(g)
      BY <1>2, <2>2, <2>6 DEF Answered
    <3> QED BY <3>1, <3>2 DEF SameView
  <2>7. PICK z : z = 0
    OBVIOUS
  <2>8. Phase(f)' = "update" /\ host'[f].issued = z /\ Landed(f)' = z
    BY <2>4, <2>5, <2>7, ViewOf
  <2>9. /\ Phases' = [Phases EXCEPT ![f] = "update"]
        /\ Issued' = [Issued EXCEPT ![f] = z]
        /\ Landeds' = [Landeds EXCEPT ![f] = z]
    BY <2>6, <2>8, ViewChange
  <2>10. Phases[f] = "answered"
    BY <2>3, ViewOf
  <2>11. Red!Finish(f)
    BY <2>7, <2>9, <2>10 DEF Red!Finish, Phases, Issued, Landeds, Phase, Landed
  <2> QED BY <2>11 DEF Red!Next
<1> QED BY <1>3, <1>4

LEMMA HostView ==
  ASSUME TInv, Host
  PROVE  [Red!Next]_(Red!vars)
<1>1. TypeOK
  BY DEF TInv, FInv, IInv
<1>2. ASSUME NEW f \in Flows, host[f].phase = "update", UNCHANGED <<responseQ, memory>>
      PROVE  ~Answered(f) /\ ~Answered(f)'
  <2>1. HostEdge(f)
    BY DEF TInv, FlowTree
  <2> QED BY <1>2, <2>1 DEF HostEdge, Answered
<1>3. ASSUME NEW f \in Flows, HostUpdate(f) PROVE Red!Next
  <2>1. PICK n \in 1..MaxLines : host' = [host EXCEPT ![f].issued = @ + n]
    BY <1>3 DEF HostUpdate
  <2>2. host[f].phase = "update" /\ UNCHANGED <<responseQ, memory>>
    BY <1>3 DEF HostUpdate
  <2>3. ~Answered(f) /\ ~Answered(f)'
    BY <1>2, <2>2
  <2>4. \A g \in Flows : g # f => SameView(g)
    BY <1>1, <2>1, <2>2 DEF SameView, TypeOK, Answered
  <2>5. PICK m, k : m = host[f].issued /\ k = m + n
    OBVIOUS
  <2>6. host'[f].phase = "update" /\ host'[f].issued = k
    BY <1>1, <2>1, <2>2, <2>5 DEF TypeOK
  <2>7. PICK z : z = 0
    OBVIOUS
  <2>8. Phase(f)' = "update" /\ Landed(f)' = z
    BY <2>3, <2>6, <2>7, ViewOf
  <2>9. /\ Phases' = [Phases EXCEPT ![f] = "update"]
        /\ Issued' = [Issued EXCEPT ![f] = k]
        /\ Landeds' = [Landeds EXCEPT ![f] = z]
    BY <2>4, <2>6, <2>8, ViewChange
  <2>10. Phases[f] = "update" /\ Issued[f] = m /\ Landeds[f] = z
    BY <2>2, <2>3, <2>5, <2>7, ViewOf
  <2>11. Phases' = Phases /\ Landeds' = Landeds /\ Issued' = [Issued EXCEPT ![f] = @ + n]
    BY <2>5, <2>9, <2>10 DEF Phases, Landeds
  <2>12. Red!Update(f)
    BY <2>10, <2>11 DEF Red!Update, Phases, Issued, Landeds, Phase, Landed
  <2> QED BY <2>12 DEF Red!Next
<1>4. ASSUME NEW f \in Flows, HostGather(f) PROVE Red!Next
  <2>1. host' = [host EXCEPT ![f].phase = "gather"]
    BY <1>4 DEF HostGather
  <2>2. host[f].phase = "update" /\ host[f].issued > 0 /\ UNCHANGED <<responseQ, memory>>
    BY <1>4 DEF HostGather
  <2>3. ~Answered(f) /\ ~Answered(f)'
    BY <1>2, <2>2
  <2>4. \A g \in Flows : g # f => SameView(g)
    BY <1>1, <2>1, <2>2 DEF SameView, TypeOK, Answered
  <2>5. PICK m : m = host[f].issued
    OBVIOUS
  <2>6. host'[f].phase = "gather" /\ host'[f].issued = m
    BY <1>1, <2>1, <2>5 DEF TypeOK
  <2>7. PICK z : z = 0
    OBVIOUS
  <2>8. Phase(f)' = "gather" /\ Landed(f)' = z
    BY <2>3, <2>6, <2>7, ViewOf
  <2>9. /\ Phases' = [Phases EXCEPT ![f] = "gather"]
        /\ Issued' = [Issued EXCEPT ![f] = m]
        /\ Landeds' = [Landeds EXCEPT ![f] = z]
    BY <2>4, <2>6, <2>8, ViewChange
  <2>10. Phases[f] = "update" /\ Issued[f] = m /\ Landeds[f] = z
    BY <2>2, <2>3, <2>5, <2>7, ViewOf
  <2>11. Issued' = Issued /\ Landeds' = Landeds /\ Issued[f] > 0
    BY <2>2, <2>5, <2>9, <2>10 DEF Issued, Landeds
  <2>12. Red!Gather(f)
    BY <2>9, <2>10, <2>11 DEF Red!Gather, Phases, Issued, Landeds, Phase, Landed
  <2> QED BY <2>12 DEF Red!Next
<1>5. ASSUME NEW t \in Reads, HostRead(t) PROVE UNCHANGED Red!vars
  BY <1>5, QuietView DEF HostRead
<1> QED BY <1>3, <1>4, <1>5 DEF Host

LEMMA ReductionStep ==
  ASSUME EInv, EInv', GatherExact', [Next]_vars
  PROVE  [Red!Next]_(Red!vars)
<1>1. TInv /\ TypeOK
  BY DEF EInv, TInv, FInv, IInv
<1>2. CASE \E c \in Cubes, l \in Links : Deliver(c, l)
  BY <1>2, QuietView DEF Deliver
<1>3. CASE \E c \in Cubes, l \in Links : \E i \in DOMAIN downBuffers[c][l] :
             RequestStep(c, l, i, downBuffers[c][l][i])
  <2>0. PICK c \in Cubes, l \in Links :
          \E i \in DOMAIN downBuffers[c][l] : RequestStep(c, l, i, downBuffers[c][l][i])
    BY <1>3
  <2>1. PICK i \in DOMAIN downBuffers[c][l] : RequestStep(c, l, i, downBuffers[c][l][i])
    BY <2>0
  <2>2. PICK p : p = downBuffers[c][l][i]
    OBVIOUS
  <2>3. /\ AddLocal(c, l, i, p) \/ AddForward(c, l, i, p) \/ MultLocal(c, l, i, p) =>
             UNCHANGED <<responseQ, host, memory>>
        /\ MultHalfLocal(c, l, i, p) \/ MultSplit(c, l, i, p) \/ MultForward(c, l, i, p) =>
             UNCHANGED <<responseQ, host, memory>>
        /\ MultHalfForward(c, l, i, p) \/ GetReplicate(c, l, i, p) \/ GetMark(c, l, i, p) =>
             UNCHANGED <<responseQ, host, memory>>
        /\ Forward(c, l, i, p) \/ ReadLocal(c, l, i, p) =>
             UNCHANGED <<responseQ, host, memory>>
    BY DEF AddLocal, AddForward, MultLocal, MultHalfLocal, MultSplit, MultForward,
           MultHalfForward, GetReplicate, GetMark, Forward, ReadLocal
  <2>4. UNCHANGED <<responseQ, host, memory>>
    BY <2>1, <2>2, <2>3 DEF RequestStep
  <2> QED BY <2>4, QuietView
<1>4. CASE \E c \in Cubes : VaultReturn(c)
  BY <1>4, QuietView DEF VaultReturn
<1>5. CASE \E c \in Cubes, p \in Ports : \E r \in upBuffers[c][p] : ResponseStep(c, p, r)
  BY <1>1, <1>5, ResponseView
<1>6. CASE \E c \in Cubes, b \in Bufs : ComputeStep(c, b)
  BY <1>6, QuietView DEF ComputeStep, AddFinish, MultStart, MultStep
<1>7. CASE \E c \in Cubes, f \in Flows : GatherReply(c, f)
  BY <1>7, GatherView
<1>8. CASE HostReceive
  BY <1>1, <1>8, ReceiveView
<1>9. CASE Host
  BY <1>1, <1>9, HostView
<1>10. CASE UNCHANGED vars
  BY <1>10, QuietView DEF vars
<1> QED BY <1>2, <1>3, <1>4, <1>5, <1>6, <1>7, <1>8, <1>9, <1>10 DEF Next, Network

(* The network implements Reduction for every flow: whatever cubes share   *)
(* the work and in whatever order they finish, the answer of a gather      *)
(* stands for the sum of the updates before it.                            *)
THEOREM NetworkImplementsReduction == Spec => IsReduction
<1>1. Init => Red!Init
  <2> SUFFICES ASSUME Init PROVE Red!Init
    OBVIOUS
  <2>1. \A f \in Flows : ~Answered(f) /\ host[f].phase = "update" /\ host[f].issued = 0
    BY DEF Init, Answered
  <2>2. \A f \in Flows : Phase(f) = "update" /\ Landed(f) = 0 /\ host[f].issued = 0
    BY <2>1, ViewOf
  <2>3. /\ Phases = [f \in Flows |-> "update"] /\ Issued = [f \in Flows |-> 0]
        /\ Landeds = [f \in Flows |-> 0]
    BY <2>2 DEF Phases, Issued, Landeds
  <2> QED BY <2>3 DEF Red!Init, Phases, Issued, Landeds, Phase, Landed
<1>2. EInv /\ EInv' /\ GatherExact' /\ [Next]_vars => [Red!Next]_(Red!vars)
  BY ReductionStep
<1> QED BY <1>1, <1>2, ExactInvariance, ExactCorrect, PTL DEF Spec, IsReduction, Red!Spec

=============================================================================
