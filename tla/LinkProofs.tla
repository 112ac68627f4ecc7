----------------------------- MODULE LinkProofs -----------------------------
(***************************************************************************)
(* The links for every number of packets, sizes of buffers and packets and *)
(* length of the sequence numbers.                                         *)
(***************************************************************************)
EXTENDS LinkFlowControl, WellFoundedInduction, TLAPS

-----------------------------------------------------------------------------
(* Induction over numbers, for sets of numbers.                            *)

LEMMA LeastNumber ==
  ASSUME NEW T, T \subseteq Nat, T # {}
  PROVE  \E x \in T : \A y \in T : x <= y
<1>1. \E x \in T : \A y \in T : ~(<<y, x>> \in OpToRel(<, Nat))
  BY WFMin, NatLessThanWellFounded
<1>2. ASSUME NEW x \in T, NEW y \in T, ~(<<y, x>> \in OpToRel(<, Nat))
      PROVE  x <= y
  BY <1>2 DEF OpToRel
<1> QED BY <1>1, <1>2

LEMMA NumberInduction ==
  ASSUME NEW S, 0 \in S, \A n \in Nat : n \in S => n + 1 \in S
  PROVE  Nat \subseteq S
<1> DEFINE T == {n \in Nat : n \notin S}
<1>1. SUFFICES ASSUME T # {} PROVE FALSE
  OBVIOUS
<1>2. PICK x \in T : \A y \in T : x <= y
  BY <1>1, LeastNumber
<1>3. x # 0 /\ x - 1 \in Nat
  BY <1>2
<1>4. x - 1 \in S
  BY <1>2, <1>3
<1> QED BY <1>2, <1>3, <1>4

-----------------------------------------------------------------------------
(* Totals: FoldLeft satisfies its recursion.                               *)

Folds(s, D, g) ==
  /\ g \in [SUBSET D -> Int]
  /\ \A u \in SUBSET D : g[u] = IF u = {} THEN 0 ELSE g[u \ {Max(u)}] + s[Max(u)]

LEMMA MaxIs ==
  ASSUME NEW n \in Nat, NEW u \in SUBSET (1..n), n \in u
  PROVE  Max(u) = n
<1>1. \A y \in u : n >= y
  OBVIOUS
<1>2. Max(u) \in u /\ \A y \in u : Max(u) >= y
  BY <1>1, Zenon DEF Max
<1>3. PICK x : x = Max(u)
  OBVIOUS
<1>4. x \in 1..n /\ x >= n
  BY <1>2, <1>3
<1> QED BY <1>3, <1>4

LEMMA FoldExists ==
  ASSUME NEW s, \A i \in DOMAIN s : s[i] \in Int, NEW m \in Nat, DOMAIN s = 1..m
  PROVE  \E g : Folds(s, 1..m, g)
<1> DEFINE P == {n \in Nat : n <= m => \E g : Folds(s, 1..n, g)}
<1>1. 0 \in P
  <2>1. Folds(s, 1..0, [u \in SUBSET (1..0) |-> 0])
    BY DEF Folds
  <2> QED BY <2>1
<1>2. ASSUME NEW n \in Nat, n \in P PROVE n + 1 \in P
  <2>1. SUFFICES ASSUME n + 1 <= m PROVE \E g : Folds(s, 1..(n + 1), g)
    OBVIOUS
  <2>2. PICK g : Folds(s, 1..n, g)
    BY <1>2, <2>1
  <2>3. s[n + 1] \in Int
    BY <2>1
  <2> DEFINE h == [u \in SUBSET (1..(n + 1)) |->
                     IF n + 1 \in u THEN g[u \ {n + 1}] + s[n + 1] ELSE g[u]]
  <2>4. ASSUME NEW u \in SUBSET (1..(n + 1))
        PROVE  /\ h[u] \in Int
               /\ h[u] = IF u = {} THEN 0 ELSE h[u \ {Max(u)}] + s[Max(u)]
    <3>1. CASE n + 1 \in u
      <4>1. Max(u) = n + 1
        BY <3>1, MaxIs
      <4>2. u \ {n + 1} \in SUBSET (1..n) /\ u \ {n + 1} \in SUBSET (1..(n + 1)) /\ u # {}
        BY <3>1
      <4>3. g[u \ {n + 1}] \in Int
        BY <2>2, <4>2 DEF Folds
      <4> QED BY <2>3, <3>1, <4>1, <4>2, <4>3
    <3>2. CASE n + 1 \notin u
      <4>1. u \in SUBSET (1..n)
        BY <3>2
      <4>2. CASE u = {}
        BY <2>2, <3>2, <4>1, <4>2 DEF Folds
      <4>3. CASE u # {}
        <5>1. u \ {Max(u)} \in SUBSET (1..n) /\ n + 1 \notin u \ {Max(u)}
          BY <3>2, <4>1
        <5>2. h[u \ {Max(u)}] = g[u \ {Max(u)}] /\ h[u] = g[u]
          BY <3>2, <5>1
        <5>3. g[u] \in Int /\ g[u] = g[u \ {Max(u)}] + s[Max(u)]
          BY <2>2, <4>1, <4>3 DEF Folds
        <5> QED BY <4>3, <5>2, <5>3
      <4> QED BY <4>2, <4>3
    <3> QED BY <3>1, <3>2
  <2>5. Folds(s, 1..(n + 1), h)
    BY <2>4 DEF Folds
  <2> QED BY <2>5
<1>3. Nat \subseteq P
  BY <1>1, <1>2, NumberInduction
<1> QED BY <1>3

(* Total, its partial sums listed.                                         *)
Sums(s, g) ==
  /\ g \in [0..Len(s) -> Int] /\ g[0] = 0
  /\ \A i \in 1..Len(s) : g[i] = g[i - 1] + s[i]

LEMMA TotalSums ==
  ASSUME NEW s \in Seq(Int)
  PROVE  \E g : Sums(s, g) /\ Total(s) = g[Len(s)]
<1> DEFINE D == DOMAIN s
           G(g) == g = [u \in SUBSET D |-> IF u = {} THEN 0 ELSE g[u \ {Max(u)}] + s[Max(u)]]
<1>1. Total(s) = (CHOOSE g : G(g))[D]
  BY DEF Total, FoldLeft, MapThenFoldSet
<1>2. PICK m \in Nat : D = 1..m /\ m = Len(s) /\ \A i \in D : s[i] \in Int
  OBVIOUS
<1>3. PICK f : Folds(s, 1..m, f)
  BY <1>2, FoldExists
<1>4. G(f)
  BY <1>2, <1>3 DEF Folds
<1>5. PICK g : g = CHOOSE h : G(h)
  OBVIOUS
<1>6. G(g)
  BY <1>4, <1>5, Zenon
<1>7. Total(s) = g[1..m]
  BY <1>1, <1>2, <1>5
<1> DEFINE k == [i \in 0..m |-> g[1..i]]
           P == {i \in Nat : i <= m => g[1..i] \in Int}
<1>8. ASSUME NEW i \in Nat, i <= m, i # 0
      PROVE  g[1..i] = g[1..(i - 1)] + s[i]
  <2>1. 1..i \in SUBSET D /\ 1..i # {} /\ i \in 1..i
    <3>1. 1..i \subseteq 1..m /\ i \in 1..i
      BY <1>8
    <3> QED BY <1>2, <3>1
  <2>2. Max(1..i) = i
    BY <2>1, MaxIs
  <2>3. (1..i) \ {i} = 1..(i - 1)
    BY <1>8
  <2> QED BY <1>6, <2>1, <2>2, <2>3
<1>9. g[1..0] = 0
  <2>1. 1..0 = {} /\ 1..0 \in SUBSET D
    OBVIOUS
  <2> QED BY <1>6, <2>1
<1>10. Nat \subseteq P
  <2>1. 0 \in P
    BY <1>9
  <2>2. ASSUME NEW i \in Nat, i \in P PROVE i + 1 \in P
    <3>1. SUFFICES ASSUME i + 1 <= m PROVE g[1..(i + 1)] \in Int
      OBVIOUS
    <3>2. g[1..(i + 1)] = g[1..i] + s[i + 1]
      BY <1>8, <3>1
    <3> QED BY <1>2, <2>2, <3>1, <3>2
  <2> QED BY <2>1, <2>2, NumberInduction
<1>11. Sums(s, k)
  <2>1. k \in [0..m -> Int]
    BY <1>10
  <2>2. k[0] = 0
    BY <1>2, <1>9
  <2>3. \A i \in 1..m : k[i] = k[i - 1] + s[i]
    BY <1>2, <1>8
  <2> QED BY <1>2, <2>1, <2>2, <2>3 DEF Sums
<1>12. Total(s) = k[Len(s)]
  BY <1>2, <1>7
<1> QED BY <1>11, <1>12

LEMMA SumsInt ==
  ASSUME NEW s \in Seq(Int), NEW g, Sums(s, g), NEW n \in Nat, n <= Len(s)
  PROVE  g[n] \in Int
<1>1. n \in 0..Len(s) /\ g \in [0..Len(s) -> Int]
  BY DEF Sums
<1> QED BY <1>1

LEMMA SumsAgree ==
  ASSUME NEW s \in Seq(Int), NEW t \in Seq(Int), NEW g, NEW h, Sums(s, g), Sums(t, h),
         NEW n \in Nat, n <= Len(s), n <= Len(t), \A i \in 1..n : s[i] = t[i]
  PROVE  g[n] = h[n]
<1> DEFINE P == {i \in Nat : i <= n => g[i] = h[i]}
<1>1. 0 \in P
  BY DEF Sums
<1>2. ASSUME NEW i \in Nat, i \in P PROVE i + 1 \in P
  <2>1. SUFFICES ASSUME i + 1 <= n PROVE g[i + 1] = h[i + 1]
    OBVIOUS
  <2>2. i + 1 \in 1..Len(s) /\ i + 1 \in 1..Len(t) /\ (i + 1) - 1 = i /\ s[i + 1] = t[i + 1]
    BY <2>1
  <2>3. g[i + 1] = g[i] + s[i + 1] /\ h[i + 1] = h[i] + t[i + 1]
    BY <2>2 DEF Sums
  <2> QED BY <1>2, <2>1, <2>2, <2>3
<1>3. Nat \subseteq P
  BY <1>1, <1>2, NumberInduction
<1> QED BY <1>3

LEMMA TotalEmpty == Total(<<>>) = 0
<1>1. <<>> \in Seq(Int) /\ Len(<<>>) = 0
  OBVIOUS
<1>2. PICK g : Sums(<<>>, g) /\ Total(<<>>) = g[Len(<<>>)]
  BY <1>1, TotalSums
<1> QED BY <1>1, <1>2 DEF Sums

LEMMA TotalInt ==
  ASSUME NEW s \in Seq(Int)
  PROVE  Total(s) \in Int
<1>1. PICK g : Sums(s, g) /\ Total(s) = g[Len(s)]
  BY TotalSums
<1> QED BY <1>1 DEF Sums

LEMMA TotalNat ==
  ASSUME NEW s \in Seq(Nat)
  PROVE  Total(s) \in Nat
<1>0. s \in Seq(Int)
  OBVIOUS
<1>1. PICK g : Sums(s, g) /\ Total(s) = g[Len(s)]
  BY <1>0, TotalSums
<1> DEFINE P == {i \in Nat : i <= Len(s) => g[i] \in Nat}
<1>2. 0 \in P
  BY <1>1 DEF Sums
<1>3. ASSUME NEW i \in Nat, i \in P PROVE i + 1 \in P
  <2>1. SUFFICES ASSUME i + 1 <= Len(s) PROVE g[i + 1] \in Nat
    OBVIOUS
  <2>2. i + 1 \in 1..Len(s) /\ (i + 1) - 1 = i /\ s[i + 1] \in Nat
    BY <2>1
  <2>3. g[i + 1] = g[i] + s[i + 1]
    BY <1>1, <2>2 DEF Sums
  <2> QED BY <1>3, <2>1, <2>2, <2>3
<1>4. Nat \subseteq P
  BY <1>2, <1>3, NumberInduction
<1> QED BY <1>1, <1>4

LEMMA TotalConcat ==
  ASSUME NEW s \in Seq(Int), NEW t \in Seq(Int)
  PROVE  Total(s \o t) = Total(s) + Total(t)
<1>0. /\ s \o t \in Seq(Int) /\ Len(s \o t) = Len(s) + Len(t)
      /\ \A i \in 1..Len(s) : (s \o t)[i] = s[i]
      /\ \A i \in 1..Len(t) : (s \o t)[Len(s) + i] = t[i]
  OBVIOUS
<1>1. PICK r : /\ r = s \o t /\ r \in Seq(Int) /\ Len(r) = Len(s) + Len(t)
               /\ \A i \in 1..Len(s) : r[i] = s[i]
               /\ \A i \in 1..Len(t) : r[Len(s) + i] = t[i]
  BY <1>0
<1>2. PICK f : Sums(s, f) /\ Total(s) = f[Len(s)]
  BY TotalSums
<1>3. PICK g : Sums(t, g) /\ Total(t) = g[Len(t)]
  BY TotalSums
<1>4. PICK h : Sums(r, h) /\ Total(r) = h[Len(r)]
  BY <1>1, TotalSums
<1>l. PICK n \in Nat : n = Len(s) /\ n <= Len(s) /\ n <= Len(r)
  BY <1>1, SMTT(60)
<1>f. f[Len(s)] \in Int
  BY <1>2, <1>l, SumsInt
<1>5. h[n] = f[n]
  <2>1. \A i \in 1..n : r[i] = s[i]
    BY <1>1, <1>l
  <2>2. r \in Seq(Int) /\ Sums(r, h) /\ Sums(s, f) /\ n <= Len(s) /\ n <= Len(r)
    BY <1>1, <1>2, <1>4, <1>l
  <2> QED BY <2>1, <2>2, SumsAgree
<1> DEFINE P == {i \in Nat : i <= Len(t) => h[Len(s) + i] = f[Len(s)] + g[i]}
<1>6. 0 \in P
  <2>1. g[0] = 0 /\ Len(s) + 0 = Len(s)
    BY <1>3 DEF Sums
  <2> QED BY <1>5, <1>f, <1>l, <2>1
<1>7. ASSUME NEW i \in Nat, i \in P PROVE i + 1 \in P
  <2>1. SUFFICES ASSUME i + 1 <= Len(t) PROVE h[Len(s) + (i + 1)] = f[Len(s)] + g[i + 1]
    OBVIOUS
  <2>2. /\ i + 1 \in 1..Len(t) /\ (i + 1) - 1 = i
        /\ Len(s) + (i + 1) \in 1..Len(r) /\ (Len(s) + (i + 1)) - 1 = Len(s) + i
        /\ r[Len(s) + (i + 1)] = t[i + 1]
    BY <1>1, <2>1
  <2>3. g[i + 1] = g[i] + t[i + 1] /\ h[Len(s) + (i + 1)] = h[Len(s) + i] + r[Len(s) + (i + 1)]
    BY <1>3, <1>4, <2>2 DEF Sums
  <2>4. g[i] \in Int
    BY <1>3, <2>1, SumsInt
  <2>5. t[i + 1] \in Int
    BY <2>2
  <2> QED BY <1>7, <1>f, <2>1, <2>2, <2>3, <2>4, <2>5, SMTT(60)
<1>8. Nat \subseteq P
  BY <1>6, <1>7, NumberInduction
<1> QED BY <1>1, <1>2, <1>3, <1>4, <1>8

LEMMA TotalOne ==
  ASSUME NEW n \in Int
  PROVE  Total(<<n>>) = n
<1>1. <<n>> \in Seq(Int) /\ Len(<<n>>) = 1 /\ <<n>>[1] = n
  OBVIOUS
<1>2. PICK g : Sums(<<n>>, g) /\ Total(<<n>>) = g[Len(<<n>>)]
  BY <1>1, TotalSums
<1>3. g[1] = g[1 - 1] + <<n>>[1]
  BY <1>1, <1>2 DEF Sums
<1> QED BY <1>1, <1>2, <1>3 DEF Sums
-----------------------------------------------------------------------------
(* Sequences.                                                              *)

LEMMA SeqEqual ==
  ASSUME NEW S, NEW s \in Seq(S), NEW t \in Seq(S), Len(s) = Len(t),
         \A i \in 1..Len(s) : s[i] = t[i]
  PROVE  s = t
OBVIOUS

LEMMA ConcatFacts ==
  ASSUME NEW S, NEW s \in Seq(S), NEW t \in Seq(S)
  PROVE  /\ s \o t \in Seq(S) /\ Len(s \o t) = Len(s) + Len(t)
         /\ \A i \in 1..(Len(s) + Len(t)) :
              (s \o t)[i] = IF i <= Len(s) THEN s[i] ELSE t[i - Len(s)]
OBVIOUS

LEMMA AppendFacts ==
  ASSUME NEW S, NEW s \in Seq(S), NEW x \in S
  PROVE  /\ Append(s, x) \in Seq(S) /\ Len(Append(s, x)) = Len(s) + 1
         /\ \A i \in 1..(Len(s) + 1) : Append(s, x)[i] = IF i <= Len(s) THEN s[i] ELSE x
OBVIOUS

LEMMA TailFacts ==
  ASSUME NEW S, NEW s \in Seq(S), s # <<>>
  PROVE  /\ s[1] \in S /\ Len(s) \in Nat \ {0}
         /\ Tail(s) \in Seq(S) /\ Len(Tail(s)) = Len(s) - 1
         /\ \A i \in 1..(Len(s) - 1) : Tail(s)[i] = s[i + 1]
OBVIOUS

LEMMA EmptyFacts ==
  ASSUME NEW S, NEW s \in Seq(S)
  PROVE  <<>> \in Seq(S) /\ s \o <<>> = s /\ <<>> \o s = s /\ Len(<<>>) = 0
OBVIOUS

LEMMA HeadTail ==
  ASSUME NEW S, NEW s \in Seq(S), s # <<>>
  PROVE  <<s[1]>> \in Seq(S) /\ s = <<s[1]>> \o Tail(s)
<1>1. s[1] \in S /\ Tail(s) \in Seq(S) /\ <<s[1]>> \in Seq(S)
  BY TailFacts
<1>2. /\ <<s[1]>> \o Tail(s) \in Seq(S) /\ Len(<<s[1]>> \o Tail(s)) = Len(s)
      /\ \A i \in 1..Len(s) : (<<s[1]>> \o Tail(s))[i] = s[i]
  BY <1>1
<1> QED BY <1>1, <1>2, SeqEqual

LEMMA ConcatAppend ==
  ASSUME NEW S, NEW s \in Seq(S), NEW t \in Seq(S), NEW x \in S
  PROVE  s \o Append(t, x) = Append(s \o t, x)
OBVIOUS

LEMMA ConcatAssoc ==
  ASSUME NEW S, NEW s \in Seq(S), NEW t \in Seq(S), NEW u \in Seq(S)
  PROVE  (s \o t) \o u = s \o (t \o u)
OBVIOUS

LEMMA ConcatTail ==
  ASSUME NEW S, NEW s \in Seq(S), NEW t \in Seq(S), s # <<>>
  PROVE  /\ s \o t # <<>> /\ (s \o t)[1] = s[1]
         /\ Tail(s \o t) = Tail(s) \o t
OBVIOUS

-----------------------------------------------------------------------------
(* Weights of packets: what a buffer holds, in flits or tokens.            *)

Wt(w, s) == Total([i \in DOMAIN s |-> w[s[i]]])

LEMMA WtSeq ==
  ASSUME NEW w \in [Packets -> Nat], NEW s \in Seq(Packets)
  PROVE  /\ [i \in DOMAIN s |-> w[s[i]]] \in Seq(Nat)
         /\ [i \in DOMAIN s |-> w[s[i]]] \in Seq(Int)
OBVIOUS

LEMMA WtNat ==
  ASSUME NEW w \in [Packets -> Nat], NEW s \in Seq(Packets)
  PROVE  Wt(w, s) \in Nat
BY WtSeq, TotalNat DEF Wt

LEMMA WtEmpty ==
  ASSUME NEW w
  PROVE  Wt(w, <<>>) = 0
<1>1. [i \in DOMAIN <<>> |-> w[<<>>[i]]] = <<>>
  OBVIOUS
<1> QED BY <1>1, TotalEmpty DEF Wt

LEMMA WtConcat ==
  ASSUME NEW w \in [Packets -> Nat], NEW s \in Seq(Packets), NEW t \in Seq(Packets)
  PROVE  Wt(w, s \o t) = Wt(w, s) + Wt(w, t)
<1>1. PICK a, b : a = [i \in DOMAIN s |-> w[s[i]]] /\ b = [i \in DOMAIN t |-> w[t[i]]]
  OBVIOUS
<1>2. a \in Seq(Int) /\ b \in Seq(Int)
  BY <1>1, WtSeq
<1>3. [i \in DOMAIN (s \o t) |-> w[(s \o t)[i]]] = a \o b
  <2>r. PICK r : r = s \o t
    OBVIOUS
  <2>c. PICK c : c = [i \in DOMAIN r |-> w[r[i]]]
    OBVIOUS
  <2>d. PICK d : d = a \o b
    OBVIOUS
  <2>1. /\ r \in Seq(Packets) /\ Len(r) = Len(s) + Len(t)
        /\ \A i \in 1..(Len(s) + Len(t)) : r[i] = IF i <= Len(s) THEN s[i] ELSE t[i - Len(s)]
    BY <2>r, ConcatFacts, Zenon
  <2>2. c \in Seq(Int) /\ Len(c) = Len(r) /\ \A i \in 1..Len(r) : c[i] = w[r[i]]
    <3>1. c \in Seq(Int)
      BY <2>c, <2>1, WtSeq, Zenon
    <3> QED BY <2>c, <2>1, <3>1
  <2>3. /\ d \in Seq(Int) /\ Len(d) = Len(a) + Len(b)
        /\ \A i \in 1..(Len(a) + Len(b)) : d[i] = IF i <= Len(a) THEN a[i] ELSE b[i - Len(a)]
    BY <1>2, <2>d, ConcatFacts, Zenon
  <2>4. /\ Len(a) = Len(s) /\ \A i \in 1..Len(s) : a[i] = w[s[i]]
        /\ Len(b) = Len(t) /\ \A i \in 1..Len(t) : b[i] = w[t[i]]
    BY <1>1, <1>2
  <2>n. Len(s) \in Nat /\ Len(t) \in Nat
    OBVIOUS
  <2>5. ASSUME NEW i \in 1..Len(c) PROVE c[i] = d[i]
    <3>1. CASE i <= Len(s)
      <4>1. i \in 1..Len(s)
        BY <2>1, <2>2, <3>1
      <4>2. i \in 1..(Len(s) + Len(t)) /\ i \in 1..(Len(a) + Len(b)) /\ i <= Len(a)
        BY <2>n, <2>4, <3>1, <4>1
      <4>3. c[i] = w[r[i]] /\ r[i] = s[i] /\ d[i] = a[i] /\ a[i] = w[s[i]]
        BY <2>1, <2>2, <2>3, <2>4, <3>1, <4>1, <4>2
      <4> QED BY <4>3
    <3>2. CASE ~(i <= Len(s))
      <4>1. i - Len(s) \in 1..Len(t)
        BY <2>1, <2>2, <3>2
      <4>2. i \in 1..(Len(s) + Len(t)) /\ i \in 1..(Len(a) + Len(b)) /\ ~(i <= Len(a))
        BY <2>n, <2>1, <2>2, <2>4, <3>2
      <4>3. c[i] = w[r[i]] /\ r[i] = t[i - Len(s)] /\ d[i] = b[i - Len(a)]
        BY <2>1, <2>2, <2>3, <3>2, <4>2
      <4>4. b[i - Len(s)] = w[t[i - Len(s)]]
        BY <2>4, <4>1
      <4> QED BY <2>4, <4>3, <4>4
    <3> QED BY <3>1, <3>2
  <2>6. Len(c) = Len(d)
    BY <2>1, <2>2, <2>3, <2>4
  <2>7. c = d
    BY <2>2, <2>3, <2>5, <2>6, SeqEqual
  <2> QED BY <2>r, <2>c, <2>d, <2>7
<1> QED BY <1>1, <1>2, <1>3, TotalConcat DEF Wt

LEMMA WtOne ==
  ASSUME NEW w \in [Packets -> Nat], NEW p \in Packets
  PROVE  Wt(w, <<p>>) = w[p]
<1>1. [i \in DOMAIN <<p>> |-> w[<<p>>[i]]] = <<w[p]>>
  OBVIOUS
<1> QED BY <1>1, TotalOne DEF Wt

LEMMA WtAppend ==
  ASSUME NEW w \in [Packets -> Nat], NEW s \in Seq(Packets), NEW p \in Packets
  PROVE  Wt(w, Append(s, p)) = Wt(w, s) + w[p]
<1>1. Append(s, p) = s \o <<p>> /\ <<p>> \in Seq(Packets)
  OBVIOUS
<1> QED BY <1>1, WtConcat, WtOne

LEMMA WtTail ==
  ASSUME NEW w \in [Packets -> Nat], NEW s \in Seq(Packets), s # <<>>
  PROVE  Wt(w, s) = w[s[1]] + Wt(w, Tail(s))
<1>1. s[1] \in Packets /\ Tail(s) \in Seq(Packets)
  BY TailFacts
<1>2. <<s[1]>> \in Seq(Packets) /\ s = <<s[1]>> \o Tail(s)
  BY HeadTail
<1>3. Wt(w, s) = Wt(w, <<s[1]>>) + Wt(w, Tail(s))
  BY <1>1, <1>2, WtConcat
<1> QED BY <1>1, <1>3, WtOne

LEMMA WtSame ==
  ASSUME NEW w, NEW s \in Seq(Packets), NEW t \in Seq(Packets), Len(s) = Len(t),
         \A i \in 1..Len(s) : w[s[i]] = w[t[i]]
  PROVE  Wt(w, s) = Wt(w, t)
<1>1. [i \in DOMAIN s |-> w[s[i]]] = [i \in DOMAIN t |-> w[t[i]]]
  OBVIOUS
<1> QED BY <1>1 DEF Wt
-----------------------------------------------------------------------------
(* The state of links on which no retry has started.                       *)

ReqP  == {p \in Packets : p.packetType = "REQUEST" /\ p.CMD \in Requests}
RspP  == {p \in Packets : p.packetType = "RESPONSE" /\ p.CMD \in Responses}
TretP == {p \in Packets : p.packetType = "FLOW" /\ p.CMD = "TRET"}
PretP == {p \in Packets : p.packetType = "FLOW" /\ p.CMD = "PRET" /\ p.DRTC = 0 /\ p.URTC = 0}
SentP == {p \in ReqP \cup RspP \cup TretP \cup PretP : CRC_CHECK => p.CRC}

Masters ==
  [upBuffers : Seq(RspP \cup TretP), downBuffers : Seq(ReqP), backupBuffers : {<<>>},
   linkRxTx : Seq(SentP), upTokenCount : Int, downTokenCount : Int,
   masterSEQ : 0..MaxSEQ, currentState : {"NORMAL"}, lastestRRP : Nat,
   retryBuffers : [0..MAX_RETRY_BUF-1 -> Packets \cup {NULL}],
   retBufReadP : Nat, retBufWriteP : Nat,
   retryStartPacket : {FALSE}, readyStartRetry : {FALSE}, startRetryTimer : {FALSE},
   retryAttempts : Nat]

Slaves ==
  [linkRxTx : Seq(SentP), upBuffers : Seq(RspP), downBuffers : Seq(ReqP),
   slaveSEQ : 0..MaxSEQ, currentState : {"NORMAL"}]

Quiet ==
  /\ master \in [Ends -> Masters] /\ slave \in [Ends -> Slaves]
  /\ inFlightPacket \in [Ends -> SentP \cup {NULL}]
  /\ pending \in [Ends -> [Kinds -> Seq(Data)]]

LEMMA Sizes ==
  /\ MAX_LINK_BUF \in Nat \ {0} /\ MAX_RETRY_BUF \in Nat \ {0} /\ MaxSEQ \in Nat \ {0}
  /\ CRC_CHECK \in BOOLEAN
BY LinkAssumption

LEMMA Commands ==
  /\ Requests \subseteq Data /\ Responses \subseteq Data /\ Requests \cap Responses = {}
  /\ Data \cap FlowCMD = {} /\ NULL \notin Packets
BY LinkAssumption DEF Data

LEMMA EndFacts == \A e \in Ends : Peer(e) \in Ends /\ Peer(Peer(e)) = e /\ Peer(e) # e
BY DEF Ends, Peer

LEMMA PacketKinds ==
  /\ ReqP \subseteq Packets /\ RspP \subseteq Packets /\ TretP \subseteq Packets
  /\ PretP \subseteq Packets /\ SentP \subseteq Packets
  /\ \A p \in SentP : /\ p.CMD # "IRTRY"
                      /\ p.CMD = "PRET" <=> p \in PretP
                      /\ p.CMD = "TRET" <=> p \in TretP
                      /\ p.packetType = "REQUEST" <=> p \in ReqP
                      /\ p.packetType = "RESPONSE" <=> p \in RspP
                      /\ p.CMD \in Requests <=> p \in ReqP
                      /\ p.CMD \in Responses <=> p \in RspP
                      /\ p.CMD \in Data <=> p \in ReqP \cup RspP
<1>1. Data = Requests \cup Responses /\ FlowCMD = {"TRET", "PRET", "IRTRY"}
  BY DEF Data, FlowCMD
<1> QED BY <1>1, Commands DEF ReqP, RspP, TretP, PretP, SentP

LEMMA SeqSub ==
  ASSUME NEW S, NEW T, S \subseteq T, NEW s \in Seq(S)
  PROVE  s \in Seq(T)
OBVIOUS

LEMMA MadePackets ==
  /\ \A d \in Requests : ReadyPacket(d) \in ReqP
  /\ \A d \in Responses : ReadyPacket(d) \in RspP
  /\ \A d \in Data : /\ ReadyPacket(d).CMD = d /\ ReadyPacket(d).DRTC = 0 /\ ReadyPacket(d).URTC = 0
                     /\ ReadyPacket(d).LNG = LNG[d]
                     /\ KindOf(ReadyPacket(d)) = IF d \in Requests THEN "down" ELSE "up"
  /\ \A n \in Nat : LET p == [Packet("FLOW", "PRET", 1) EXCEPT !.RRP = n]
                    IN  p \in PretP /\ p \in SentP
  /\ \A d \in Nat, u \in Nat :
       LET p == [Packet("FLOW", "TRET", 1) EXCEPT !.DRTC = d, !.URTC = u]
       IN  p \in TretP /\ p.DRTC = d /\ p.URTC = u
<1>1. \A d \in Data : LNG[d] \in 1..MAX_LINK_BUF
  BY LinkAssumption
<1>2. 1 \in 1..MAX_LINK_BUF
  BY Sizes
<1>3. ASSUME NEW d \in Data, NEW t \in {"REQUEST", "RESPONSE"}
      PROVE  Packet(t, d, LNG[d]) \in Packets
  BY <1>1 DEF Packet, Packets
<1>4. ASSUME NEW c \in {"PRET", "TRET"}, NEW n \in Nat, NEW d \in Nat, NEW u \in Nat
      PROVE  /\ [Packet("FLOW", c, 1) EXCEPT !.RRP = n] \in Packets
             /\ [Packet("FLOW", c, 1) EXCEPT !.DRTC = d, !.URTC = u] \in Packets
  BY <1>2 DEF Packet, Packets, FlowCMD
<1>5. \A d \in Requests : ReadyPacket(d) \in ReqP
  BY <1>3, Commands DEF ReadyPacket, ReqP, Packet
<1>6. \A d \in Responses : ReadyPacket(d) \in RspP
  <2> SUFFICES ASSUME NEW d \in Responses PROVE ReadyPacket(d) \in RspP
    OBVIOUS
  <2>1. d \notin Requests /\ d \in Data
    BY Commands
  <2> QED BY <1>3, <2>1 DEF ReadyPacket, RspP, Packet
<1>7. \A d \in Data : /\ ReadyPacket(d).CMD = d /\ ReadyPacket(d).DRTC = 0 /\ ReadyPacket(d).URTC = 0
                      /\ ReadyPacket(d).LNG = LNG[d]
                      /\ KindOf(ReadyPacket(d)) = IF d \in Requests THEN "down" ELSE "up"
  BY DEF ReadyPacket, Packet, KindOf
<1>8. ASSUME NEW n \in Nat
      PROVE  /\ [Packet("FLOW", "PRET", 1) EXCEPT !.RRP = n] \in PretP
             /\ [Packet("FLOW", "PRET", 1) EXCEPT !.RRP = n].CRC
  BY <1>4 DEF PretP, Packet
<1>9. ASSUME NEW d \in Nat, NEW u \in Nat
      PROVE  LET p == [Packet("FLOW", "TRET", 1) EXCEPT !.DRTC = d, !.URTC = u]
             IN  p \in TretP /\ p.DRTC = d /\ p.URTC = u
  BY <1>4 DEF TretP, Packet
<1> QED BY <1>5, <1>6, <1>7, <1>8, <1>9 DEF SentP

-----------------------------------------------------------------------------
(* What the methods of a master do.                                        *)

LEMMA RetryPointerStays ==
  ASSUME NEW M \in Masters, NEW p \in Packets
  PROVE  LET N == UpdateRetryPointer(M, p) IN
         /\ N \in Masters
         /\ N.upBuffers = M.upBuffers /\ N.downBuffers = M.downBuffers /\ N.linkRxTx = M.linkRxTx
         /\ N.upTokenCount = M.upTokenCount /\ N.downTokenCount = M.downTokenCount
         /\ N.masterSEQ = M.masterSEQ
<1>1. PICK R : R = Cleared(M, Slots(M.retBufReadP, p.RRP))
  OBVIOUS
<1>2. R \in [0..MAX_RETRY_BUF-1 -> Packets \cup {NULL}]
  BY <1>1 DEF Cleared, Masters
<1>3. p.RRP \in Nat
  BY DEF Packets
<1>4. CASE CRC_CHECK
  <2>1. UpdateRetryPointer(M, p) = [M EXCEPT !.retryBuffers = R, !.retBufReadP = p.RRP]
    BY <1>1, <1>4 DEF UpdateRetryPointer
  <2> QED BY <1>2, <1>3, <2>1 DEF Masters
<1>5. CASE ~CRC_CHECK
  BY <1>5 DEF UpdateRetryPointer
<1> QED BY <1>4, <1>5

LEMMA ReceiveEffect ==
  ASSUME NEW M \in Masters, NEW p \in SentP
  PROVE  LET N == UpdateToken(ReturnRetryPointer(UpdateRetryPointer(M, p), p), p) IN
         /\ N \in Masters
         /\ N.upBuffers = M.upBuffers /\ N.downBuffers = M.downBuffers
         /\ N.upTokenCount = M.upTokenCount + p.URTC
         /\ N.downTokenCount = M.downTokenCount + p.DRTC
         /\ N.masterSEQ = M.masterSEQ
         /\ \/ N.linkRxTx = M.linkRxTx
            \/ \E r \in PretP : r \in SentP /\ N.linkRxTx = Append(M.linkRxTx, r)
<1>0. p \in Packets /\ p.FRP \in Nat /\ p.URTC \in Nat /\ p.DRTC \in Nat
  BY PacketKinds DEF Packets
<1>1. PICK L : L = UpdateRetryPointer(M, p)
  OBVIOUS
<1>2. /\ L \in Masters
      /\ L.upBuffers = M.upBuffers /\ L.downBuffers = M.downBuffers /\ L.linkRxTx = M.linkRxTx
      /\ L.upTokenCount = M.upTokenCount /\ L.downTokenCount = M.downTokenCount
      /\ L.masterSEQ = M.masterSEQ
  BY <1>0, <1>1, RetryPointerStays
<1>3. PICK r : r = [Packet("FLOW", "PRET", 1) EXCEPT !.RRP = p.FRP]
  OBVIOUS
<1>4. r \in PretP /\ r \in SentP
  BY <1>0, <1>3, MadePackets
<1>5. PICK X : X = IF L.upBuffers = <<>> /\ L.downBuffers = <<>> THEN Append(L.linkRxTx, r)
                                                                 ELSE L.linkRxTx
  OBVIOUS
<1>6. X \in Seq(SentP)
  <2>1. L.linkRxTx \in Seq(SentP)
    BY <1>2 DEF Masters
  <2> QED BY <1>4, <1>5, <2>1, AppendFacts
<1>7. PICK K : K = ReturnRetryPointer(L, p)
  OBVIOUS
<1>8. K = [L EXCEPT !.lastestRRP = p.FRP, !.linkRxTx = X]
  BY <1>3, <1>5, <1>7 DEF ReturnRetryPointer
<1>m. K \in Masters
  BY <1>0, <1>2, <1>6, <1>8 DEF Masters
<1>9. /\ K.linkRxTx = X
      /\ K.upBuffers = M.upBuffers /\ K.downBuffers = M.downBuffers
      /\ K.upTokenCount = M.upTokenCount /\ K.downTokenCount = M.downTokenCount
      /\ K.masterSEQ = M.masterSEQ
  BY <1>0, <1>2, <1>6, <1>8 DEF Masters
<1>10. PICK N : N = UpdateToken(K, p)
  OBVIOUS
<1>t. PICK d, u : d = K.downTokenCount + p.DRTC /\ u = K.upTokenCount + p.URTC
  OBVIOUS
<1>i. d \in Int /\ u \in Int
  <2>1. K.downTokenCount \in Int /\ K.upTokenCount \in Int
    BY <1>m DEF Masters
  <2> QED BY <1>0, <1>t, <2>1
<1>11. N = [K EXCEPT !.downTokenCount = d, !.upTokenCount = u]
  BY <1>10, <1>t DEF UpdateToken
<1>n. N \in Masters
  BY <1>i, <1>m, <1>11 DEF Masters
<1>12. /\ N.linkRxTx = X
       /\ N.upBuffers = M.upBuffers /\ N.downBuffers = M.downBuffers
       /\ N.upTokenCount = M.upTokenCount + p.URTC
       /\ N.downTokenCount = M.downTokenCount + p.DRTC
       /\ N.masterSEQ = M.masterSEQ
  BY <1>m, <1>t, <1>9, <1>11 DEF Masters
<1>13. X = M.linkRxTx \/ X = Append(M.linkRxTx, r)
  BY <1>2, <1>5
<1> QED BY <1>1, <1>4, <1>7, <1>10, <1>n, <1>12, <1>13

(* The fields of a packet that stay on its way.                            *)
Resembles(q, p) ==
  /\ q.packetType = p.packetType /\ q.CMD = p.CMD /\ q.LNG = p.LNG
  /\ q.URTC = p.URTC /\ q.DRTC = p.DRTC

Num(n) == IF n < MaxSEQ THEN n ELSE 0

LEMMA SendEffect ==
  ASSUME NEW M \in Masters, NEW p \in ReqP \cup RspP \cup TretP,
         IF p \in ReqP THEN M.downBuffers # <<>> ELSE M.upBuffers # <<>>
  PROVE  LET N == UpdateField(M, p) IN
         \E q \in SentP :
           /\ Resembles(q, p) /\ q.SEQ = Num(M.masterSEQ)
           /\ N \in Masters
           /\ N.linkRxTx = Append(M.linkRxTx, q) /\ N.masterSEQ = Next_SEQ(M.masterSEQ)
           /\ N.downTokenCount = IF p \in ReqP THEN M.downTokenCount - p.LNG ELSE M.downTokenCount
           /\ N.upTokenCount = IF p \in RspP THEN M.upTokenCount - p.LNG ELSE M.upTokenCount
           /\ N.downBuffers = IF p \in ReqP THEN Tail(M.downBuffers) ELSE M.downBuffers
           /\ N.upBuffers = IF p \in ReqP THEN M.upBuffers ELSE Tail(M.upBuffers)
<1>0. /\ p \in Packets /\ p.LNG \in Nat
      /\ p.packetType = "REQUEST" <=> p \in ReqP
      /\ p.packetType = "RESPONSE" <=> p \in RspP
  BY DEF Packets, ReqP, RspP, TretP
<1>1. /\ M.upBuffers \in Seq(RspP \cup TretP) /\ M.downBuffers \in Seq(ReqP)
      /\ M.linkRxTx \in Seq(SentP) /\ M.masterSEQ \in 0..MaxSEQ /\ M.retBufWriteP \in Nat
      /\ M.retryBuffers \in [0..MAX_RETRY_BUF-1 -> Packets \cup {NULL}]
      /\ M.downTokenCount \in Int /\ M.upTokenCount \in Int /\ M.lastestRRP \in Nat
  BY DEF Masters
<1>2. PICK frp : frp = IF CRC_CHECK THEN (M.retBufWriteP + p.LNG) % MAX_RETRY_BUF ELSE 0
  OBVIOUS
<1>3. frp \in Nat
  BY <1>0, <1>1, <1>2, Sizes, SMTT(60)
<1>4. PICK q : q = [p EXCEPT !.SEQ = IF M.masterSEQ < MaxSEQ THEN M.masterSEQ ELSE 0,
                             !.RRP = M.lastestRRP, !.FRP = frp, !.CRC = TRUE]
  OBVIOUS
<1>5. /\ q \in Packets /\ Resembles(q, p) /\ q.CRC /\ q.SEQ = Num(M.masterSEQ)
  <2>1. PICK n \in Nat : n = IF M.masterSEQ < MaxSEQ THEN M.masterSEQ ELSE 0
    BY <1>1, Sizes
  <2>2. q = [p EXCEPT !.SEQ = n, !.RRP = M.lastestRRP, !.FRP = frp, !.CRC = TRUE]
    BY <1>4, <2>1
  <2> QED BY <1>0, <1>1, <1>3, <2>1, <2>2 DEF Packets, Resembles, Num
<1>6. q \in SentP
  BY <1>5 DEF SentP, Resembles, ReqP, RspP, TretP, PretP
<1>7. PICK X : X = Append(M.linkRxTx, q)
  OBVIOUS
<1>8. PICK D : D = IF p.packetType = "REQUEST" THEN Tail(M.downBuffers) ELSE M.downBuffers
  OBVIOUS
<1>9. PICK U : U = IF p.packetType = "REQUEST" THEN M.upBuffers ELSE Tail(M.upBuffers)
  OBVIOUS
<1>10. X \in Seq(SentP) /\ D \in Seq(ReqP) /\ U \in Seq(RspP \cup TretP)
  <2>1. X \in Seq(SentP)
    BY <1>1, <1>6, <1>7, AppendFacts
  <2>2. D \in Seq(ReqP)
    BY <1>0, <1>1, <1>8, TailFacts
  <2>3. U \in Seq(RspP \cup TretP)
    BY <1>0, <1>1, <1>9, TailFacts
  <2> QED BY <2>1, <2>2, <2>3
<1>11. PICK R : R = IF CRC_CHECK THEN [M.retryBuffers EXCEPT ![M.retBufWriteP] = q] ELSE M.retryBuffers
  OBVIOUS
<1>12. R \in [0..MAX_RETRY_BUF-1 -> Packets \cup {NULL}]
  BY <1>1, <1>5, <1>11
<1>13. PICK m, d, u : /\ m = IF M.masterSEQ < MaxSEQ THEN M.masterSEQ + 1 ELSE M.masterSEQ
                      /\ d = IF p.packetType = "REQUEST" THEN M.downTokenCount - p.LNG
                                                         ELSE M.downTokenCount
                      /\ u = IF p.packetType = "RESPONSE" THEN M.upTokenCount - p.LNG
                                                          ELSE M.upTokenCount
  OBVIOUS
<1>14. m \in 0..MaxSEQ /\ d \in Int /\ u \in Int
  <2>1. PICK k \in 0..MaxSEQ : k = M.masterSEQ
    BY <1>1
  <2>2. PICK a \in Int, b \in Int, l \in Nat : a = M.downTokenCount /\ b = M.upTokenCount /\ l = p.LNG
    BY <1>0, <1>1
  <2>3. m \in 0..MaxSEQ
    BY <1>13, <2>1, Sizes
  <2>4. d \in Int
    BY <1>13, <2>2
  <2>5. u \in Int
    BY <1>13, <2>2
  <2> QED BY <2>3, <2>4, <2>5
<1>15. PICK N : N = UpdateField(M, p)
  OBVIOUS
<1>16. N = [M EXCEPT !.masterSEQ = m, !.downTokenCount = d, !.upTokenCount = u,
                     !.retryBuffers = R, !.retBufWriteP = frp, !.linkRxTx = X,
                     !.downBuffers = D, !.upBuffers = U]
  BY <1>2, <1>4, <1>7, <1>8, <1>9, <1>11, <1>13, <1>15 DEF UpdateField
<1>17. N \in Masters
  BY <1>3, <1>10, <1>12, <1>14, <1>16 DEF Masters
<1>18. /\ N.linkRxTx = X /\ N.masterSEQ = m /\ N.downTokenCount = d /\ N.upTokenCount = u
       /\ N.downBuffers = D /\ N.upBuffers = U
  BY <1>16 DEF Masters
<1>19. m = Next_SEQ(M.masterSEQ)
  BY <1>13 DEF Next_SEQ
<1> QED BY <1>0, <1>5, <1>6, <1>7, <1>8, <1>9, <1>13, <1>15, <1>17, <1>18, <1>19

(* The tokens for a packet that is taken: in the first packet that waits,  *)
(* or in a packet of their own.                                            *)
FirstGets(s, t, d, u) ==
  /\ s # <<>>
  /\ \E x : /\ x.packetType = s[1].packetType /\ x.CMD = s[1].CMD /\ x.LNG = s[1].LNG
            /\ x.DRTC = s[1].DRTC + d /\ x.URTC = s[1].URTC + u
            /\ x \in Packets /\ t = <<x>> \o Tail(s)

LEMMA EmbedFirst ==
  ASSUME NEW S \in SUBSET Packets, NEW s \in Seq(S), s # <<>>, NEW d \in Nat, NEW u \in Nat,
         \A p \in S : \A x \in Packets : x.packetType = p.packetType /\ x.CMD = p.CMD => x \in S
  PROVE  /\ Embedded(s, d, u) \in Seq(S)
         /\ FirstGets(s, Embedded(s, d, u), d, u)
<1>1. s[1] \in S /\ s[1] \in Packets /\ Len(s) \in Nat \ {0} /\ s \in [1..Len(s) -> S]
  BY TailFacts
<1>2. PICK x : x = [s[1] EXCEPT !.DRTC = @ + d, !.URTC = @ + u]
  OBVIOUS
<1>3. /\ x \in Packets
      /\ x.packetType = s[1].packetType /\ x.CMD = s[1].CMD /\ x.LNG = s[1].LNG
      /\ x.DRTC = s[1].DRTC + d /\ x.URTC = s[1].URTC + u
  <2>1. s[1].DRTC \in Nat /\ s[1].URTC \in Nat
    BY <1>1 DEF Packets
  <2>2. PICK a \in Nat, b \in Nat : a = s[1].DRTC + d /\ b = s[1].URTC + u
    BY <2>1
  <2>3. x = [s[1] EXCEPT !.DRTC = a, !.URTC = b]
    BY <1>2, <2>2
  <2>4. x \in Packets
    BY <1>1, <2>3 DEF Packets
  <2> QED BY <1>1, <2>2, <2>3, <2>4 DEF Packets
<1>4. x \in S
  BY <1>1, <1>3
<1>5. PICK t : t = Embedded(s, d, u)
  OBVIOUS
<1>6. t = [s EXCEPT ![1] = x]
  BY <1>1, <1>2, <1>5 DEF Embedded
<1>7. t \in Seq(S) /\ Len(t) = Len(s) /\ t[1] = x /\ \A i \in 2..Len(s) : t[i] = s[i]
  BY <1>1, <1>4, <1>6
<1>8. t = <<x>> \o Tail(s)
  <2>1. Tail(s) \in Seq(S) /\ Len(Tail(s)) = Len(s) - 1 /\ <<x>> \in Seq(S) /\ Len(<<x>>) = 1
    BY <1>4, TailFacts
  <2>2. /\ <<x>> \o Tail(s) \in Seq(S) /\ Len(<<x>> \o Tail(s)) = Len(s)
    BY <1>1, <2>1, ConcatFacts
  <2>3. \A i \in 1..Len(s) : (<<x>> \o Tail(s))[i] = t[i]
    BY <1>1, <1>7, <2>1
  <2> QED BY <1>7, <2>2, <2>3, SeqEqual
<1> QED BY <1>3, <1>5, <1>7, <1>8 DEF FirstGets

TokensFor(p, d, u) == /\ d = IF p \in ReqP THEN p.LNG ELSE 0
                      /\ u = IF p \in ReqP THEN 0 ELSE p.LNG

LEMMA ReturnEffect ==
  ASSUME NEW M \in Masters, NEW p \in ReqP \cup RspP, NEW d, NEW u, TokensFor(p, d, u)
  PROVE  LET N == ReturnToken(M, p) IN
         /\ N \in Masters
         /\ N.linkRxTx = M.linkRxTx /\ N.masterSEQ = M.masterSEQ
         /\ N.upTokenCount = M.upTokenCount /\ N.downTokenCount = M.downTokenCount
         /\ \/ FirstGets(M.upBuffers, N.upBuffers, d, u) /\ N.downBuffers = M.downBuffers
            \/ FirstGets(M.downBuffers, N.downBuffers, d, u) /\ N.upBuffers = M.upBuffers
            \/ \E x \in TretP : /\ x.DRTC = d /\ x.URTC = u
                                /\ N.upBuffers = <<x>> \o M.upBuffers /\ N.downBuffers = M.downBuffers
<1>1. /\ p \in Packets /\ p.LNG \in Nat /\ (p.packetType = "REQUEST" <=> p \in ReqP)
  BY DEF Packets, ReqP, RspP
<1>2. /\ d \in Nat /\ u \in Nat
      /\ d = IF p.packetType = "REQUEST" THEN p.LNG ELSE 0
      /\ u = p.LNG - d
  <2>1. /\ d = IF p \in ReqP THEN p.LNG ELSE 0
        /\ u = IF p \in ReqP THEN 0 ELSE p.LNG
    BY DEF TokensFor
  <2> QED BY <1>1, <2>1
<1>3. /\ M.upBuffers \in Seq(RspP \cup TretP) /\ M.downBuffers \in Seq(ReqP)
      /\ M.currentState # "LINK_RETRY"
  BY DEF Masters
<1>4. /\ RspP \cup TretP \in SUBSET Packets /\ ReqP \in SUBSET Packets
      /\ \A q \in RspP \cup TretP : \A x \in Packets :
           x.packetType = q.packetType /\ x.CMD = q.CMD => x \in RspP \cup TretP
      /\ \A q \in ReqP : \A x \in Packets : x.packetType = q.packetType /\ x.CMD = q.CMD => x \in ReqP
  BY DEF ReqP, RspP, TretP
<1>5. PICK N : N = ReturnToken(M, p)
  OBVIOUS
<1>6. PICK T : T = [Packet("FLOW", "TRET", 1) EXCEPT !.DRTC = d, !.URTC = u]
  OBVIOUS
<1>7. T \in TretP /\ T.DRTC = d /\ T.URTC = u
  <2>1. \A a \in Nat, b \in Nat :
          LET q == [Packet("FLOW", "TRET", 1) EXCEPT !.DRTC = a, !.URTC = b]
          IN  q \in TretP /\ q.DRTC = a /\ q.URTC = b
    BY MadePackets
  <2>2. LET q == [Packet("FLOW", "TRET", 1) EXCEPT !.DRTC = d, !.URTC = u]
        IN  q \in TretP /\ q.DRTC = d /\ q.URTC = u
    <3>1. d \in Nat /\ u \in Nat
      BY <1>2
    <3> QED BY <2>1, <3>1, Zenon
  <2> QED BY <1>6, <2>2, Zenon
<1> DEFINE up == M.upBuffers # <<>> /\ M.upBuffers[1].LNG <= M.upTokenCount
           dn == M.downBuffers # <<>> /\ M.downBuffers[1].LNG <= M.downTokenCount
<1>8. CASE up
  <2>1. PICK V : V = Embedded(M.upBuffers, d, u)
    OBVIOUS
  <2>2. V \in Seq(RspP \cup TretP) /\ FirstGets(M.upBuffers, V, d, u)
    BY <1>2, <1>3, <1>4, <1>8, <2>1, EmbedFirst
  <2>3. N = [M EXCEPT !.upBuffers = Embedded(@, d, u)]
    BY <1>2, <1>5, <1>8 DEF ReturnToken
  <2>4. N = [M EXCEPT !.upBuffers = V]
    BY <2>1, <2>3 DEF Masters
  <2>5. N \in Masters
    BY <2>2, <2>4 DEF Masters
  <2>6. /\ N.upBuffers = V /\ N.downBuffers = M.downBuffers
        /\ N.linkRxTx = M.linkRxTx /\ N.masterSEQ = M.masterSEQ
        /\ N.upTokenCount = M.upTokenCount /\ N.downTokenCount = M.downTokenCount
    BY <2>4 DEF Masters
  <2> QED BY <1>5, <2>2, <2>5, <2>6
<1>9. CASE ~up /\ dn
  <2>1. PICK V : V = Embedded(M.downBuffers, d, u)
    OBVIOUS
  <2>2. V \in Seq(ReqP) /\ FirstGets(M.downBuffers, V, d, u)
    BY <1>2, <1>3, <1>4, <1>9, <2>1, EmbedFirst
  <2>3. N = [M EXCEPT !.downBuffers = Embedded(@, d, u)]
    BY <1>2, <1>5, <1>9 DEF ReturnToken
  <2>4. N = [M EXCEPT !.downBuffers = V]
    BY <2>1, <2>3 DEF Masters
  <2>5. N \in Masters
    BY <2>2, <2>4 DEF Masters
  <2>6. /\ N.downBuffers = V /\ N.upBuffers = M.upBuffers
        /\ N.linkRxTx = M.linkRxTx /\ N.masterSEQ = M.masterSEQ
        /\ N.upTokenCount = M.upTokenCount /\ N.downTokenCount = M.downTokenCount
    BY <2>4 DEF Masters
  <2> QED BY <1>5, <2>2, <2>5, <2>6
<1>10. CASE ~up /\ ~dn
  <2>1. PICK V : V = <<T>> \o M.upBuffers
    OBVIOUS
  <2>2. V \in Seq(RspP \cup TretP)
    <3>1. <<T>> \in Seq(RspP \cup TretP)
      BY <1>7
    <3> QED BY <1>3, <2>1, <3>1, ConcatFacts
  <2>3. N = [M EXCEPT !.upBuffers = V]
    BY <1>2, <1>3, <1>5, <1>6, <1>10, <2>1 DEF ReturnToken
  <2>4. N \in Masters
    BY <2>2, <2>3 DEF Masters
  <2>5. /\ N.upBuffers = V /\ N.downBuffers = M.downBuffers
        /\ N.linkRxTx = M.linkRxTx /\ N.masterSEQ = M.masterSEQ
        /\ N.upTokenCount = M.upTokenCount /\ N.downTokenCount = M.downTokenCount
    BY <2>3 DEF Masters
  <2> QED BY <1>5, <1>7, <2>1, <2>4, <2>5
<1> QED BY <1>8, <1>9, <1>10
LEMMA RemoveHead ==
  ASSUME NEW S, NEW s \in Seq(S), s # <<>>
  PROVE  RemoveFirst(s, s[1]) = Tail(s)
<1>1. Len(s) \in Nat \ {0} /\ 1 \in 1..Len(s)
  BY TailFacts
<1>2. PICK I : I = {i \in 1..Len(s) : s[i] = s[1]}
  OBVIOUS
<1>3. Min(I) = 1
  <2>1. 1 \in I /\ \A i \in I : 1 =< i /\ i \in Nat
    BY <1>1, <1>2
  <2>2. \A x \in I : (\A y \in I : x =< y) => x = 1
    BY <2>1
  <2> QED BY <2>1, <2>2 DEF Min
<1>4. SelectInSeq(s, LAMBDA v : v = s[1]) = 1
  BY <1>1, <1>2, <1>3 DEF SelectInSeq
<1>5. RemoveFirst(s, s[1]) = RemoveAt(s, 1)
  BY <1>1, <1>4 DEF RemoveFirst
<1>6. RemoveAt(s, 1) = SubSeq(s, 1, 0) \o SubSeq(s, 2, Len(s))
  BY DEF RemoveAt
<1>7. SubSeq(s, 1, 0) = <<>> /\ SubSeq(s, 2, Len(s)) = Tail(s)
  BY <1>1
<1>8. <<>> \o Tail(s) = Tail(s)
  BY TailFacts, EmptyFacts
<1> QED BY <1>5, <1>6, <1>7, <1>8

LEMMA RemoveOther ==
  ASSUME NEW S, NEW s \in Seq(S), NEW x, x \notin S
  PROVE  RemoveFirst(s, x) = s
<1>1. \A i \in 1..Len(s) : s[i] # x
  OBVIOUS
<1> QED BY <1>1 DEF RemoveFirst
-----------------------------------------------------------------------------
(* A sequence of packets read one after another: from a to b in steps T.   *)
Run(V, T, a, s, b) ==
  \E c \in [0..Len(s) -> V] :
    /\ c[0] = a /\ c[Len(s)] = b
    /\ \A i \in 1..Len(s) : <<c[i-1], s[i], c[i]>> \in T

LEMMA RunEnds ==
  ASSUME NEW V, NEW T, NEW a, NEW b, NEW s \in Seq(Packets), Run(V, T, a, s, b)
  PROVE  a \in V /\ b \in V
<1>1. Len(s) \in Nat
  OBVIOUS
<1> QED BY <1>1 DEF Run

LEMMA RunNone ==
  ASSUME NEW V, NEW T, NEW a \in V
  PROVE  Run(V, T, a, <<>>, a)
<1>1. PICK c : c = [i \in 0..0 |-> a]
  OBVIOUS
<1>2. c \in [0..Len(<<>>) -> V] /\ c[0] = a /\ c[Len(<<>>)] = a
  BY <1>1
<1>3. \A i \in 1..Len(<<>>) : <<c[i-1], <<>>[i], c[i]>> \in T
  OBVIOUS
<1> QED BY <1>2, <1>3 DEF Run

LEMMA RunStop ==
  ASSUME NEW V, NEW T, NEW a, NEW b, Run(V, T, a, <<>>, b)
  PROVE  a = b
BY DEF Run

LEMMA RunOne ==
  ASSUME NEW V, NEW T, NEW a \in V, NEW b \in V, NEW p \in Packets, <<a, p, b>> \in T
  PROVE  Run(V, T, a, <<p>>, b)
<1>1. PICK c : c = [i \in 0..1 |-> IF i = 0 THEN a ELSE b]
  OBVIOUS
<1>2. Len(<<p>>) = 1 /\ <<p>>[1] = p
  OBVIOUS
<1>3. c \in [0..Len(<<p>>) -> V] /\ c[0] = a /\ c[Len(<<p>>)] = b
  BY <1>1, <1>2
<1>4. \A i \in 1..Len(<<p>>) : <<c[i-1], <<p>>[i], c[i]>> \in T
  <2> SUFFICES ASSUME NEW i \in 1..Len(<<p>>) PROVE <<c[i-1], <<p>>[i], c[i]>> \in T
    OBVIOUS
  <2>1. i = 1 /\ c[i-1] = a /\ c[i] = b
    BY <1>1, <1>2
  <2> QED BY <1>2, <2>1
<1> QED BY <1>3, <1>4 DEF Run

LEMMA RunConcat ==
  ASSUME NEW V, NEW T, NEW a, NEW b, NEW d, NEW s \in Seq(Packets), NEW t \in Seq(Packets),
         Run(V, T, a, s, b), Run(V, T, b, t, d)
  PROVE  Run(V, T, a, s \o t, d)
<1>1. PICK c \in [0..Len(s) -> V] : /\ c[0] = a /\ c[Len(s)] = b
                                    /\ \A i \in 1..Len(s) : <<c[i-1], s[i], c[i]>> \in T
  BY DEF Run
<1>2. PICK f \in [0..Len(t) -> V] : /\ f[0] = b /\ f[Len(t)] = d
                                    /\ \A i \in 1..Len(t) : <<f[i-1], t[i], f[i]>> \in T
  BY DEF Run
<1>3. PICK m \in Nat, n \in Nat : m = Len(s) /\ n = Len(t)
  OBVIOUS
<1>4. PICK r : r = s \o t
  OBVIOUS
<1>5. /\ Len(r) = m + n
      /\ \A i \in 1..(m + n) : r[i] = IF i <= m THEN s[i] ELSE t[i - m]
  BY <1>3, <1>4, ConcatFacts
<1>6. PICK g : g = [i \in 0..(m + n) |-> IF i <= m THEN c[i] ELSE f[i - m]]
  OBVIOUS
<1>7. g \in [0..Len(r) -> V]
  <2> SUFFICES ASSUME NEW i \in 0..(m + n) PROVE (IF i <= m THEN c[i] ELSE f[i - m]) \in V
    BY <1>5, <1>6
  <2>1. CASE i <= m
    <3>1. i \in 0..m /\ c \in [0..m -> V]
      BY <1>3, <2>1
    <3> QED BY <2>1, <3>1, Zenon
  <2>2. CASE ~(i <= m)
    <3>1. i - m \in 0..n
      BY <2>2
    <3> QED BY <1>2, <1>3, <2>2, <3>1
  <2> QED BY <2>1, <2>2
<1>8. g[0] = a
  BY <1>1, <1>6
<1>9. \A i \in 0..n : g[m + i] = f[i]
  <2> SUFFICES ASSUME NEW i \in 0..n PROVE g[m + i] = f[i]
    OBVIOUS
  <2>1. CASE i = 0
    BY <1>1, <1>2, <1>3, <1>6, <2>1
  <2>2. CASE i # 0
    <3>1. m + i \in 0..(m + n) /\ ~(m + i <= m) /\ (m + i) - m = i
      BY <2>2
    <3> QED BY <1>6, <3>1
  <2> QED BY <2>1, <2>2
<1>10. g[Len(r)] = d
  BY <1>2, <1>3, <1>5, <1>9
<1>11. \A i \in 1..Len(r) : <<g[i-1], r[i], g[i]>> \in T
  <2> SUFFICES ASSUME NEW i \in 1..(m + n) PROVE <<g[i-1], r[i], g[i]>> \in T
    BY <1>5
  <2>1. CASE i <= m
    <3>1. i \in 1..m /\ g[i-1] = c[i-1] /\ g[i] = c[i] /\ r[i] = s[i]
      BY <1>5, <1>6, <2>1
    <3> QED BY <1>1, <1>3, <3>1
  <2>2. CASE ~(i <= m)
    <3>1. PICK j \in 1..n : i = m + j
      <4>1. i - m \in 1..n /\ i = m + (i - m)
        BY <2>2
      <4> QED BY <4>1
    <3>2. i - 1 = m + (j - 1) /\ j - 1 \in 0..n /\ j \in 0..n /\ i - m = j
      BY <3>1
    <3>3. g[i-1] = f[j-1] /\ g[i] = f[j] /\ r[i] = t[j]
      BY <1>5, <1>9, <2>2, <3>1, <3>2
    <3> QED BY <1>2, <1>3, <3>3
  <2> QED BY <2>1, <2>2
<1> QED BY <1>4, <1>7, <1>8, <1>10, <1>11 DEF Run

LEMMA RunAppend ==
  ASSUME NEW V, NEW T, NEW a, NEW b, NEW d \in V, NEW s \in Seq(Packets), NEW p \in Packets,
         Run(V, T, a, s, b), <<b, p, d>> \in T
  PROVE  Run(V, T, a, Append(s, p), d)
<1>1. b \in V
  BY RunEnds
<1>2. Run(V, T, b, <<p>>, d)
  BY <1>1, RunOne
<1>3. Append(s, p) = s \o <<p>> /\ <<p>> \in Seq(Packets)
  OBVIOUS
<1> QED BY <1>2, <1>3, RunConcat

LEMMA RunCons ==
  ASSUME NEW V, NEW T, NEW a \in V, NEW b, NEW d, NEW s \in Seq(Packets), NEW p \in Packets,
         <<a, p, b>> \in T, Run(V, T, b, s, d)
  PROVE  Run(V, T, a, <<p>> \o s, d)
<1>1. b \in V
  BY RunEnds
<1>2. Run(V, T, a, <<p>>, b)
  BY <1>1, RunOne
<1>3. <<p>> \in Seq(Packets)
  OBVIOUS
<1> QED BY <1>2, <1>3, RunConcat

LEMMA RunTail ==
  ASSUME NEW V, NEW T, NEW a, NEW b, NEW s \in Seq(Packets), s # <<>>, Run(V, T, a, s, b)
  PROVE  \E d \in V : <<a, s[1], d>> \in T /\ Run(V, T, d, Tail(s), b)
<1>1. PICK c \in [0..Len(s) -> V] : /\ c[0] = a /\ c[Len(s)] = b
                                    /\ \A i \in 1..Len(s) : <<c[i-1], s[i], c[i]>> \in T
  BY DEF Run
<1>2. PICK t : t = Tail(s)
  OBVIOUS
<1>3. PICK n \in Nat : n = Len(s) - 1
  BY TailFacts
<1>4. Len(s) = n + 1 /\ Len(t) = n /\ \A i \in 1..n : t[i] = s[i + 1]
  BY <1>2, <1>3, TailFacts
<1>5. PICK g : g = [i \in 0..n |-> c[i + 1]]
  OBVIOUS
<1>6. g \in [0..Len(t) -> V] /\ g[0] = c[1] /\ g[Len(t)] = b
  BY <1>1, <1>4, <1>5
<1>7. \A i \in 1..Len(t) : <<g[i-1], t[i], g[i]>> \in T
  <2> SUFFICES ASSUME NEW i \in 1..n PROVE <<g[i-1], t[i], g[i]>> \in T
    BY <1>4
  <2>1. g[i-1] = c[i] /\ g[i] = c[i+1] /\ t[i] = s[i+1] /\ i + 1 \in 1..Len(s) /\ (i + 1) - 1 = i
    BY <1>4, <1>5
  <2> QED BY <1>1, <2>1
<1>8. Run(V, T, c[1], t, b)
  BY <1>6, <1>7 DEF Run
<1>9. c[1] \in V /\ <<a, s[1], c[1]>> \in T
  BY <1>1, <1>4
<1> QED BY <1>2, <1>8, <1>9

LEMMA RunSame ==
  ASSUME NEW V, NEW T, NEW a, NEW b, NEW s \in Seq(Packets), NEW t \in Seq(Packets),
         Len(s) = Len(t), Run(V, T, a, s, b),
         \A i \in 1..Len(s) : \A x \in V, y \in V : <<x, s[i], y>> \in T => <<x, t[i], y>> \in T
  PROVE  Run(V, T, a, t, b)
<1>1. PICK c \in [0..Len(s) -> V] : /\ c[0] = a /\ c[Len(s)] = b
                                    /\ \A i \in 1..Len(s) : <<c[i-1], s[i], c[i]>> \in T
  BY DEF Run
<1>2. \A i \in 1..Len(t) : <<c[i-1], t[i], c[i]>> \in T
  <2> SUFFICES ASSUME NEW i \in 1..Len(s) PROVE <<c[i-1], t[i], c[i]>> \in T
    OBVIOUS
  <2>1. i - 1 \in 0..Len(s) /\ i \in 0..Len(s)
    OBVIOUS
  <2>2. c[i-1] \in V /\ c[i] \in V
    BY <2>1
  <2> QED BY <1>1, <2>2
<1> QED BY <1>1, <1>2 DEF Run
-----------------------------------------------------------------------------
(* The packets of a direction are numbered from the count of the slave up  *)
(* to that of the master, and its data packets of a kind, on the way and   *)
(* then in the buffer of the master, are those that are pending.           *)

TypeOf(k) == IF k = "down" THEN "REQUEST" ELSE "RESPONSE"

CntT ==
  {t \in (0..MaxSEQ) \X Packets \X (0..MaxSEQ) :
     IF t[2].CMD = "PRET" THEN t[3] = t[1] ELSE t[2].SEQ = Num(t[1]) /\ t[3] = Next_SEQ(t[1])}

TakT(k) ==
  {t \in Seq(Data) \X Packets \X Seq(Data) :
     IF t[2].packetType = TypeOf(k)
       THEN t[1] # <<>> /\ t[1][1] = t[2].CMD /\ t[3] = Tail(t[1]) ELSE t[3] = t[1]}

Counts(a, W, z) == Run(0..MaxSEQ, CntT, a, W, z)

Matches(k, P, W, B) ==
  \E m \in Seq(Data) : /\ Run(Seq(Data), TakT(k), P, W, m)
                       /\ Run(Seq(Data), TakT(k), m, B, <<>>)

LEMMA CntStep ==
  ASSUME NEW a, NEW p \in Packets, NEW z
  PROVE  <<a, p, z>> \in CntT <=>
           /\ a \in 0..MaxSEQ /\ z \in 0..MaxSEQ
           /\ IF p.CMD = "PRET" THEN z = a ELSE p.SEQ = Num(a) /\ z = Next_SEQ(a)
BY DEF CntT

LEMMA TakStep ==
  ASSUME NEW k, NEW a, NEW p \in Packets, NEW z
  PROVE  <<a, p, z>> \in TakT(k) <=>
           /\ a \in Seq(Data) /\ z \in Seq(Data)
           /\ IF p.packetType = TypeOf(k) THEN a # <<>> /\ a[1] = p.CMD /\ z = Tail(a) ELSE z = a
BY DEF TakT

LEMMA NextCount ==
  ASSUME NEW a \in 0..MaxSEQ
  PROVE  Next_SEQ(a) \in 0..MaxSEQ
BY Sizes DEF Next_SEQ

LEMMA CountsAppend ==
  ASSUME NEW a, NEW z, NEW W \in Seq(Packets), NEW q \in Packets, Counts(a, W, z)
  PROVE  /\ q.CMD = "PRET" => Counts(a, Append(W, q), z)
         /\ q.CMD # "PRET" /\ q.SEQ = Num(z) => Counts(a, Append(W, q), Next_SEQ(z))
<1>1. z \in 0..MaxSEQ
  BY RunEnds DEF Counts
<1>2. Next_SEQ(z) \in 0..MaxSEQ
  BY <1>1, NextCount
<1>3. q.CMD = "PRET" => <<z, q, z>> \in CntT
  BY <1>1, CntStep
<1>4. q.CMD # "PRET" /\ q.SEQ = Num(z) => <<z, q, Next_SEQ(z)>> \in CntT
  BY <1>1, <1>2, CntStep
<1>5. \A d \in 0..MaxSEQ : <<z, q, d>> \in CntT => Run(0..MaxSEQ, CntT, a, Append(W, q), d)
  BY RunAppend DEF Counts
<1> QED BY <1>1, <1>2, <1>3, <1>4, <1>5 DEF Counts

LEMMA CountsTail ==
  ASSUME NEW a, NEW z, NEW W \in Seq(Packets), W # <<>>, Counts(a, W, z)
  PROVE  IF W[1].CMD = "PRET" THEN Counts(a, Tail(W), z)
                              ELSE W[1].SEQ = Num(a) /\ Counts(Next_SEQ(a), Tail(W), z)
<1>1. PICK d \in 0..MaxSEQ : <<a, W[1], d>> \in CntT /\ Run(0..MaxSEQ, CntT, d, Tail(W), z)
  BY RunTail DEF Counts
<1>2. W[1] \in Packets
  BY TailFacts
<1>3. IF W[1].CMD = "PRET" THEN d = a ELSE W[1].SEQ = Num(a) /\ d = Next_SEQ(a)
  BY <1>1, <1>2, CntStep
<1> QED BY <1>1, <1>3 DEF Counts

(* A packet that a link carries one place further.                         *)
Alike(q, p) == Resembles(q, p) /\ q.SEQ = p.SEQ

LEMMA OrderMoves ==
  ASSUME NEW W \in Seq(Packets), NEW X \in Seq(Packets), Len(W) = Len(X),
         \A i \in 1..Len(W) : Alike(X[i], W[i]), NEW k, NEW a, NEW z, NEW P, NEW B
  PROVE  /\ Counts(a, W, z) => Counts(a, X, z)
         /\ Matches(k, P, W, B) => Matches(k, P, X, B)
<1>1. ASSUME NEW i \in 1..Len(W), NEW x, NEW y
      PROVE  /\ <<x, W[i], y>> \in CntT => <<x, X[i], y>> \in CntT
             /\ <<x, W[i], y>> \in TakT(k) => <<x, X[i], y>> \in TakT(k)
  <2>1. PICK p \in Packets, q \in Packets : p = W[i] /\ q = X[i]
    OBVIOUS
  <2>2. q.CMD = p.CMD /\ q.packetType = p.packetType /\ q.SEQ = p.SEQ
    BY <2>1 DEF Alike, Resembles
  <2>3. ASSUME <<x, p, y>> \in CntT PROVE <<x, q, y>> \in CntT
    <3>1. /\ x \in 0..MaxSEQ /\ y \in 0..MaxSEQ
          /\ IF p.CMD = "PRET" THEN y = x ELSE p.SEQ = Num(x) /\ y = Next_SEQ(x)
      BY <2>3, CntStep, Zenon
    <3>2. IF q.CMD = "PRET" THEN y = x ELSE q.SEQ = Num(x) /\ y = Next_SEQ(x)
      BY <2>2, <3>1
    <3> QED BY <3>1, <3>2, CntStep, Zenon
  <2>4. ASSUME <<x, p, y>> \in TakT(k) PROVE <<x, q, y>> \in TakT(k)
    <3>1. /\ x \in Seq(Data) /\ y \in Seq(Data)
          /\ IF p.packetType = TypeOf(k) THEN x # <<>> /\ x[1] = p.CMD /\ y = Tail(x) ELSE y = x
      BY <2>4, TakStep, Zenon
    <3>2. IF q.packetType = TypeOf(k) THEN x # <<>> /\ x[1] = q.CMD /\ y = Tail(x) ELSE y = x
      BY <2>2, <3>1
    <3> QED BY <3>1, <3>2, TakStep, SMTT(60)
  <2> QED BY <2>1, <2>3, <2>4
<1>2. Counts(a, W, z) => Counts(a, X, z)
  BY <1>1, RunSame DEF Counts
<1>3. ASSUME NEW m, Run(Seq(Data), TakT(k), P, W, m)
      PROVE  Run(Seq(Data), TakT(k), P, X, m)
  BY <1>1, <1>3, RunSame
<1> QED BY <1>2, <1>3 DEF Matches

LEMMA MatchesPass ==
  ASSUME NEW k, NEW P, NEW W \in Seq(Packets), NEW B, NEW q \in Packets,
         q.packetType # TypeOf(k), Matches(k, P, W, B)
  PROVE  Matches(k, P, Append(W, q), B)
<1>1. PICK m \in Seq(Data) : Run(Seq(Data), TakT(k), P, W, m) /\ Run(Seq(Data), TakT(k), m, B, <<>>)
  BY DEF Matches
<1>2. <<m, q, m>> \in TakT(k)
  BY TakStep
<1>3. Run(Seq(Data), TakT(k), P, Append(W, q), m)
  BY <1>1, <1>2, RunAppend
<1> QED BY <1>1, <1>3 DEF Matches

LEMMA MatchesSend ==
  ASSUME NEW k, NEW P, NEW W \in Seq(Packets), NEW B \in Seq(Packets), B # <<>>,
         NEW q \in Packets, q.packetType = B[1].packetType, q.CMD = B[1].CMD, Matches(k, P, W, B)
  PROVE  Matches(k, P, Append(W, q), Tail(B))
<1>1. PICK m \in Seq(Data) : Run(Seq(Data), TakT(k), P, W, m) /\ Run(Seq(Data), TakT(k), m, B, <<>>)
  BY DEF Matches
<1>2. PICK n \in Seq(Data) : <<m, B[1], n>> \in TakT(k) /\ Run(Seq(Data), TakT(k), n, Tail(B), <<>>)
  BY <1>1, RunTail
<1>3. <<m, q, n>> \in TakT(k)
  BY <1>2, TakStep, TailFacts, SMTT(60)
<1>4. Run(Seq(Data), TakT(k), P, Append(W, q), n)
  BY <1>1, <1>3, RunAppend
<1> QED BY <1>2, <1>4 DEF Matches

LEMMA MatchesTail ==
  ASSUME NEW k, NEW P, NEW W \in Seq(Packets), W # <<>>, NEW B, Matches(k, P, W, B)
  PROVE  IF W[1].packetType = TypeOf(k)
           THEN P # <<>> /\ P[1] = W[1].CMD /\ Matches(k, Tail(P), Tail(W), B)
           ELSE Matches(k, P, Tail(W), B)
<1>1. PICK m \in Seq(Data) : Run(Seq(Data), TakT(k), P, W, m) /\ Run(Seq(Data), TakT(k), m, B, <<>>)
  BY DEF Matches
<1>2. PICK n \in Seq(Data) : <<P, W[1], n>> \in TakT(k) /\ Run(Seq(Data), TakT(k), n, Tail(W), m)
  BY <1>1, RunTail
<1>3. IF W[1].packetType = TypeOf(k) THEN P # <<>> /\ P[1] = W[1].CMD /\ n = Tail(P) ELSE n = P
  BY <1>2, TakStep, TailFacts
<1>4. Matches(k, n, Tail(W), B)
  BY <1>1, <1>2 DEF Matches
<1> QED BY <1>3, <1>4

LEMMA MatchesFirst ==
  ASSUME NEW k, NEW P, NEW W \in Seq(Packets), NEW B \in Seq(Packets), B # <<>>,
         NEW q \in Packets, q.packetType = B[1].packetType, q.CMD = B[1].CMD, Matches(k, P, W, B)
  PROVE  Matches(k, P, W, <<q>> \o Tail(B))
<1>1. PICK m \in Seq(Data) : Run(Seq(Data), TakT(k), P, W, m) /\ Run(Seq(Data), TakT(k), m, B, <<>>)
  BY DEF Matches
<1>2. PICK n \in Seq(Data) : <<m, B[1], n>> \in TakT(k) /\ Run(Seq(Data), TakT(k), n, Tail(B), <<>>)
  BY <1>1, RunTail
<1>3. <<m, q, n>> \in TakT(k)
  BY <1>2, TakStep, TailFacts, SMTT(60)
<1>4. Tail(B) \in Seq(Packets)
  BY TailFacts
<1>5. Run(Seq(Data), TakT(k), m, <<q>> \o Tail(B), <<>>)
  BY <1>2, <1>3, <1>4, RunCons
<1> QED BY <1>1, <1>5 DEF Matches

LEMMA MatchesFlow ==
  ASSUME NEW k, NEW P, NEW W \in Seq(Packets), NEW B \in Seq(Packets),
         NEW q \in Packets, q.packetType # TypeOf(k), Matches(k, P, W, B)
  PROVE  Matches(k, P, W, <<q>> \o B)
<1>1. PICK m \in Seq(Data) : Run(Seq(Data), TakT(k), P, W, m) /\ Run(Seq(Data), TakT(k), m, B, <<>>)
  BY DEF Matches
<1>2. <<m, q, m>> \in TakT(k)
  BY TakStep
<1>3. Run(Seq(Data), TakT(k), m, <<q>> \o B, <<>>)
  BY <1>1, <1>2, RunCons
<1> QED BY <1>1, <1>3 DEF Matches

LEMMA TakLift ==
  ASSUME NEW k, NEW a \in Seq(Data), NEW z \in Seq(Data), NEW p \in Packets, NEW d \in Data,
         <<a, p, z>> \in TakT(k)
  PROVE  <<Append(a, d), p, Append(z, d)>> \in TakT(k)
<1>1. Append(a, d) \in Seq(Data) /\ Append(z, d) \in Seq(Data)
  BY AppendFacts
<1>2. CASE p.packetType = TypeOf(k)
  <2>1. a # <<>> /\ a[1] = p.CMD /\ z = Tail(a)
    BY <1>2, TakStep
  <2>2. /\ a \o <<d>> # <<>> /\ (a \o <<d>>)[1] = a[1] /\ Tail(a \o <<d>>) = Tail(a) \o <<d>>
    <3>1. <<d>> \in Seq(Data)
      OBVIOUS
    <3> QED BY <2>1, <3>1, ConcatTail
  <2>3. PICK b, y : b = Append(a, d) /\ y = Append(z, d)
    OBVIOUS
  <2>4. b = a \o <<d>> /\ y = z \o <<d>>
    <3>1. \A s \in Seq(Data) : Append(s, d) = s \o <<d>>
      OBVIOUS
    <3> QED BY <2>3, <3>1
  <2>5. b \in Seq(Data) /\ y \in Seq(Data) /\ b # <<>> /\ b[1] = p.CMD /\ y = Tail(b)
    BY <1>1, <2>1, <2>2, <2>3, <2>4
  <2>6. <<b, p, y>> \in TakT(k)
    BY <1>2, <2>5, TakStep
  <2> QED BY <2>3, <2>6
<1>3. CASE p.packetType # TypeOf(k)
  <2>1. z = a
    BY <1>3, TakStep
  <2> QED BY <1>1, <1>3, <2>1, TakStep
<1> QED BY <1>2, <1>3

LEMMA RunLift ==
  ASSUME NEW k, NEW a, NEW z, NEW s \in Seq(Packets), NEW d \in Data,
         Run(Seq(Data), TakT(k), a, s, z)
  PROVE  Run(Seq(Data), TakT(k), Append(a, d), s, Append(z, d))
<1>1. PICK c \in [0..Len(s) -> Seq(Data)] :
        /\ c[0] = a /\ c[Len(s)] = z
        /\ \A i \in 1..Len(s) : <<c[i-1], s[i], c[i]>> \in TakT(k)
  BY DEF Run
<1>2. PICK g : g = [i \in 0..Len(s) |-> Append(c[i], d)]
  OBVIOUS
<1>3. \A i \in 0..Len(s) : c[i] \in Seq(Data) /\ g[i] = Append(c[i], d) /\ g[i] \in Seq(Data)
  BY <1>1, <1>2, AppendFacts
<1>4. g \in [0..Len(s) -> Seq(Data)] /\ g[0] = Append(a, d) /\ g[Len(s)] = Append(z, d)
  <2>1. Len(s) \in Nat
    OBVIOUS
  <2>2. 0 \in 0..Len(s) /\ Len(s) \in 0..Len(s)
    BY <2>1
  <2> QED BY <1>1, <1>2, <1>3, <2>2
<1>5. \A i \in 1..Len(s) : <<g[i-1], s[i], g[i]>> \in TakT(k)
  <2> SUFFICES ASSUME NEW i \in 1..Len(s) PROVE <<g[i-1], s[i], g[i]>> \in TakT(k)
    OBVIOUS
  <2>1. i - 1 \in 0..Len(s) /\ i \in 0..Len(s) /\ s[i] \in Packets
    OBVIOUS
  <2>2. <<Append(c[i-1], d), s[i], Append(c[i], d)>> \in TakT(k)
    BY <1>1, <1>3, <2>1, TakLift
  <2> QED BY <1>3, <2>1, <2>2
<1> QED BY <1>4, <1>5 DEF Run

LEMMA MatchesAccept ==
  ASSUME NEW k, NEW P, NEW W \in Seq(Packets), NEW B \in Seq(Packets), Matches(k, P, W, B),
         NEW q \in Packets, q.packetType = TypeOf(k), NEW d \in Data, q.CMD = d
  PROVE  Matches(k, Append(P, d), W, Append(B, q))
<1>1. PICK m \in Seq(Data) : Run(Seq(Data), TakT(k), P, W, m) /\ Run(Seq(Data), TakT(k), m, B, <<>>)
  BY DEF Matches
<1>2. /\ Run(Seq(Data), TakT(k), Append(P, d), W, Append(m, d))
      /\ Run(Seq(Data), TakT(k), Append(m, d), B, Append(<<>>, d))
  BY <1>1, RunLift
<1>3. /\ Append(<<>>, d) \in Seq(Data) /\ Append(<<>>, d) # <<>> /\ Append(<<>>, d)[1] = d
      /\ Tail(Append(<<>>, d)) = <<>> /\ <<>> \in Seq(Data)
  OBVIOUS
<1>4. <<Append(<<>>, d), q, <<>>>> \in TakT(k)
  BY <1>3, TakStep, ZenonT(60)
<1>5. Run(Seq(Data), TakT(k), Append(m, d), Append(B, q), <<>>)
  BY <1>2, <1>3, <1>4, RunAppend
<1>6. Append(m, d) \in Seq(Data)
  BY <1>1, AppendFacts
<1> QED BY <1>2, <1>5, <1>6 DEF Matches
-----------------------------------------------------------------------------
(* A lane: master M of an end, packet x on its link, slave S at the other  *)
(* end, and the packets P that are pending from one to the other.          *)

OnLink(x) == IF x = NULL THEN <<>> ELSE <<x>>
Way(M, x, S) == S.linkRxTx \o OnLink(x) \o M.linkRxTx
MBuf(M, k) == IF k = "down" THEN M.downBuffers ELSE M.upBuffers
SBuf(S, k) == IF k = "down" THEN S.downBuffers ELSE S.upBuffers
Tok(M, k) == IF k = "down" THEN M.downTokenCount ELSE M.upTokenCount

Lng(k) == [p \in Packets |-> IF p.packetType = TypeOf(k) THEN p.LNG ELSE 0]
Ret(k) == [p \in Packets |-> IF k = "down" THEN p.DRTC ELSE p.URTC]

(* What the sender can send, has sent, and the receiver still holds; and   *)
(* what the lane carries back for the opposite lane.                       *)
Out(k, M, x, S) == Tok(M, k) + Wt(Lng(k), Way(M, x, S)) + Wt(Lng(k), SBuf(S, k))
Back(k, M, x, S) ==
  Wt(Ret(k), MBuf(M, "down")) + Wt(Ret(k), MBuf(M, "up")) + Wt(Ret(k), Way(M, x, S))

Parts(M, x, S, P) ==
  /\ M \in Masters /\ x \in SentP \cup {NULL} /\ S \in Slaves /\ P \in [Kinds -> Seq(Data)]

Ordered(M, x, S, P) ==
  /\ Counts(S.slaveSEQ, Way(M, x, S), M.masterSEQ)
  /\ \A k \in Kinds : Matches(k, P[k], Way(M, x, S), MBuf(M, k))

Lane(M, x, S, P) ==
  /\ Parts(M, x, S, P) /\ Ordered(M, x, S, P)
  /\ \A k \in Kinds : Tok(M, k) >= 0

LEMMA Weights ==
  \A k : Lng(k) \in [Packets -> Nat] /\ Ret(k) \in [Packets -> Nat]
<1>1. \A p \in Packets : p.LNG \in Nat /\ p.DRTC \in Nat /\ p.URTC \in Nat
  BY DEF Packets
<1> QED BY <1>1 DEF Lng, Ret

LEMMA LaneSeqs ==
  ASSUME NEW M, NEW x, NEW S, NEW P, Parts(M, x, S, P)
  PROVE  /\ M.linkRxTx \in Seq(Packets) /\ S.linkRxTx \in Seq(Packets) /\ OnLink(x) \in Seq(Packets)
         /\ Way(M, x, S) \in Seq(Packets)
         /\ \A k \in Kinds : /\ MBuf(M, k) \in Seq(Packets) /\ SBuf(S, k) \in Seq(Packets)
                             /\ Tok(M, k) \in Int
<1>1. M.linkRxTx \in Seq(Packets) /\ S.linkRxTx \in Seq(Packets)
  <2>1. M.linkRxTx \in Seq(SentP) /\ S.linkRxTx \in Seq(SentP)
    BY DEF Parts, Masters, Slaves
  <2> QED BY <2>1, SeqSub, PacketKinds
<1>2. OnLink(x) \in Seq(Packets)
  <2>1. x = NULL \/ x \in Packets
    BY PacketKinds DEF Parts
  <2> QED BY <2>1 DEF OnLink
<1>3. Way(M, x, S) \in Seq(Packets)
  BY <1>1, <1>2, ConcatFacts DEF Way
<1>4. ASSUME NEW k \in Kinds
      PROVE  MBuf(M, k) \in Seq(Packets) /\ SBuf(S, k) \in Seq(Packets) /\ Tok(M, k) \in Int
  <2>1. M.downBuffers \in Seq(ReqP) /\ M.upBuffers \in Seq(RspP \cup TretP)
    BY DEF Parts, Masters
  <2>2. S.downBuffers \in Seq(ReqP) /\ S.upBuffers \in Seq(RspP)
    BY DEF Parts, Slaves
  <2>3. RspP \cup TretP \subseteq Packets /\ ReqP \subseteq Packets /\ RspP \subseteq Packets
    BY PacketKinds
  <2>4. M.downBuffers \in Seq(Packets) /\ M.upBuffers \in Seq(Packets)
    BY <2>1, <2>3, SeqSub
  <2>5. S.downBuffers \in Seq(Packets) /\ S.upBuffers \in Seq(Packets)
    BY <2>2, <2>3, SeqSub
  <2>6. Tok(M, k) \in Int
    BY DEF Parts, Masters, Tok
  <2> QED BY <2>4, <2>5, <2>6 DEF MBuf, SBuf
<1> QED BY <1>1, <1>2, <1>3, <1>4

Longer(t, s, q) == t = Append(s, q)
Shorter(t, s, q) == s # <<>> /\ s[1] = q /\ t = Tail(s)

LEMMA WayAppend ==
  ASSUME NEW M, NEW x, NEW S, NEW P, Parts(M, x, S, P), NEW N, NEW q \in Packets,
         Longer(N.linkRxTx, M.linkRxTx, q)
  PROVE  Longer(Way(N, x, S), Way(M, x, S), q)
<1>1. PICK a \in Seq(Packets), b \in Seq(Packets), c \in Seq(Packets) :
        a = S.linkRxTx /\ b = OnLink(x) /\ c = M.linkRxTx
  BY LaneSeqs
<1>2. a \o b \in Seq(Packets)
  BY ConcatFacts
<1>3. (a \o b) \o Append(c, q) = Append((a \o b) \o c, q)
  BY <1>2, ConcatAppend
<1> QED BY <1>1, <1>3 DEF Way, Longer

LEMMA WayTail ==
  ASSUME NEW M, NEW x, NEW S, NEW P, Parts(M, x, S, P), NEW R, NEW p,
         Shorter(R.linkRxTx, S.linkRxTx, p)
  PROVE  Shorter(Way(M, x, R), Way(M, x, S), p)
<1>1. PICK a \in Seq(Packets), b \in Seq(Packets), c \in Seq(Packets) :
        a = S.linkRxTx /\ b = OnLink(x) /\ c = M.linkRxTx
  BY LaneSeqs
<1>2. a \o b \in Seq(Packets)
  BY ConcatFacts
<1>3. a \o b # <<>> /\ (a \o b)[1] = a[1] /\ Tail(a \o b) = Tail(a) \o b
  BY <1>1, ConcatTail DEF Shorter
<1>4. /\ (a \o b) \o c # <<>> /\ ((a \o b) \o c)[1] = (a \o b)[1]
      /\ Tail((a \o b) \o c) = Tail(a \o b) \o c
  BY <1>2, <1>3, ConcatTail
<1>5. Way(M, x, S) = (a \o b) \o c /\ Way(M, x, R) = (Tail(a) \o b) \o c
  BY <1>1 DEF Way, Shorter
<1> QED BY <1>1, <1>3, <1>4, <1>5 DEF Shorter

LEMMA WayTransmit ==
  ASSUME NEW M, NEW x, NEW S, NEW P, Parts(M, x, S, P), NEW N, x = NULL,
         M.linkRxTx # <<>>, N.linkRxTx = Tail(M.linkRxTx)
  PROVE  Way(N, M.linkRxTx[1], S) = Way(M, x, S)
<1>1. PICK a \in Seq(Packets), c \in Seq(Packets) : a = S.linkRxTx /\ c = M.linkRxTx
  BY LaneSeqs
<1>2. c[1] \in Packets /\ Tail(c) \in Seq(Packets)
  BY <1>1, TailFacts
<1>3. <<c[1]>> \in Seq(Packets) /\ c = <<c[1]>> \o Tail(c)
  BY <1>1, HeadTail
<1>4. (a \o <<c[1]>>) \o Tail(c) = a \o (<<c[1]>> \o Tail(c))
  BY <1>2, <1>3, ConcatAssoc
<1>5. OnLink(c[1]) = <<c[1]>> /\ OnLink(x) = <<>>
  BY <1>2, Commands DEF OnLink
<1>6. a \o <<>> = a
  BY EmptyFacts
<1>7. Way(N, c[1], S) = (a \o <<c[1]>>) \o Tail(c) /\ Way(M, x, S) = (a \o <<>>) \o c
  BY <1>1, <1>5 DEF Way
<1> QED BY <1>1, <1>3, <1>4, <1>6, <1>7

LEMMA WayArrive ==
  ASSUME NEW M, NEW x, NEW S, NEW P, Parts(M, x, S, P), NEW R, NEW q \in Packets, x # NULL,
         Alike(q, x), R.linkRxTx = Append(S.linkRxTx, q)
  PROVE  /\ Way(M, NULL, R) \in Seq(Packets)
         /\ Len(Way(M, x, S)) = Len(Way(M, NULL, R))
         /\ \A i \in 1..Len(Way(M, x, S)) : Alike(Way(M, NULL, R)[i], Way(M, x, S)[i])
<1>1. PICK a \in Seq(Packets), c \in Seq(Packets) : a = S.linkRxTx /\ c = M.linkRxTx
  BY LaneSeqs
<1>2. x \in Packets
  BY PacketKinds DEF Parts
<1>3. Append(a, x) \in Seq(Packets) /\ Append(a, q) \in Seq(Packets)
  BY <1>2, AppendFacts
<1>4. PICK b, r : b = Append(a, x) /\ r = Append(a, q)
  OBVIOUS
<1>5. /\ Len(b) = Len(a) + 1 /\ Len(r) = Len(a) + 1
      /\ \A i \in 1..(Len(a) + 1) : b[i] = IF i <= Len(a) THEN a[i] ELSE x
      /\ \A i \in 1..(Len(a) + 1) : r[i] = IF i <= Len(a) THEN a[i] ELSE q
  BY <1>2, <1>4, AppendFacts
<1>6. Way(M, x, S) = b \o c
  <2>1. a \o <<x>> = b
    BY <1>2, <1>4
  <2> QED BY <1>1, <2>1 DEF Way, OnLink
<1>7. Way(M, NULL, R) = r \o c
  <2>1. r \o <<>> = r
    BY <1>3, <1>4, EmptyFacts
  <2> QED BY <1>1, <1>4, <2>1 DEF Way, OnLink
<1>8. PICK W, X : W = b \o c /\ X = r \o c
  OBVIOUS
<1>9. /\ W \in Seq(Packets) /\ Len(W) = Len(b) + Len(c)
      /\ \A i \in 1..(Len(b) + Len(c)) : W[i] = IF i <= Len(b) THEN b[i] ELSE c[i - Len(b)]
  BY <1>3, <1>4, <1>8, ConcatFacts, Zenon
<1>10. /\ X \in Seq(Packets) /\ Len(X) = Len(r) + Len(c)
       /\ \A i \in 1..(Len(r) + Len(c)) : X[i] = IF i <= Len(r) THEN r[i] ELSE c[i - Len(r)]
  BY <1>3, <1>4, <1>8, ConcatFacts, Zenon
<1>11. \A p : Alike(p, p)
  BY DEF Alike, Resembles
<1>12. ASSUME NEW i \in 1..Len(W) PROVE Alike(X[i], W[i])
  <2>0. Len(a) \in Nat /\ Len(c) \in Nat
    OBVIOUS
  <2>1. CASE i <= Len(a)
    <3>1. W[i] = a[i] /\ X[i] = a[i]
      BY <2>0, <2>1, <1>5, <1>9, <1>10
    <3> QED BY <3>1, <1>11
  <2>2. CASE i = Len(a) + 1
    <3>1. W[i] = x /\ X[i] = q
      BY <2>0, <2>2, <1>5, <1>9, <1>10
    <3> QED BY <3>1
  <2>3. CASE i > Len(a) + 1
    <3>1. W[i] = c[i - (Len(a) + 1)] /\ X[i] = c[i - (Len(a) + 1)]
      BY <2>0, <2>3, <1>5, <1>9, <1>10
    <3> QED BY <3>1, <1>11
  <2>4. i \in Nat
    BY <1>9
  <2> QED BY <2>0, <2>1, <2>2, <2>3, <2>4
<1>13. Len(W) = Len(X)
  BY <1>5, <1>9, <1>10
<1> QED BY <1>6, <1>7, <1>8, <1>10, <1>12, <1>13
-----------------------------------------------------------------------------
(* What the steps do to a lane.                                            *)

LEMMA LaneWeights ==
  ASSUME NEW M, NEW x, NEW S, NEW P, Parts(M, x, S, P), NEW k \in Kinds, NEW w \in [Packets -> Nat]
  PROVE  /\ Tok(M, k) \in Int /\ Wt(w, Way(M, x, S)) \in Nat /\ Wt(w, SBuf(S, k)) \in Nat
         /\ Wt(w, MBuf(M, "down")) \in Nat /\ Wt(w, MBuf(M, "up")) \in Nat
<1>1. "down" \in Kinds /\ "up" \in Kinds
  BY DEF Kinds
<1> QED BY <1>1, LaneSeqs, WtNat

LEMMA LaneNumbers ==
  ASSUME NEW M, NEW x, NEW S, NEW P, Lane(M, x, S, P), NEW k \in Kinds
  PROVE  Out(k, M, x, S) \in Nat /\ Back(k, M, x, S) \in Nat
<1>1. Parts(M, x, S, P) /\ Tok(M, k) >= 0
  BY DEF Lane
<1>2. /\ Tok(M, k) \in Nat /\ Wt(Lng(k), Way(M, x, S)) \in Nat /\ Wt(Lng(k), SBuf(S, k)) \in Nat
  BY <1>1, Weights, LaneWeights
<1>3. /\ Wt(Ret(k), MBuf(M, "down")) \in Nat /\ Wt(Ret(k), MBuf(M, "up")) \in Nat
      /\ Wt(Ret(k), Way(M, x, S)) \in Nat
  BY <1>1, Weights, LaneWeights
<1> QED BY <1>2, <1>3 DEF Out, Back

LEMMA LaneMoves ==
  ASSUME NEW M, NEW x, NEW S, NEW P, Lane(M, x, S, P), NEW N, NEW y, NEW R, Parts(N, y, R, P),
         N.masterSEQ = M.masterSEQ, R.slaveSEQ = S.slaveSEQ,
         \A k \in Kinds : MBuf(N, k) = MBuf(M, k) /\ Tok(N, k) = Tok(M, k) /\ SBuf(R, k) = SBuf(S, k),
         Len(Way(M, x, S)) = Len(Way(N, y, R)),
         \A i \in 1..Len(Way(M, x, S)) : Alike(Way(N, y, R)[i], Way(M, x, S)[i])
  PROVE  /\ Lane(N, y, R, P)
         /\ \A k \in Kinds : Out(k, N, y, R) = Out(k, M, x, S) /\ Back(k, N, y, R) = Back(k, M, x, S)
<1>1. PICK W \in Seq(Packets), X \in Seq(Packets) : W = Way(M, x, S) /\ X = Way(N, y, R)
  BY LaneSeqs DEF Lane
<1>2. Len(W) = Len(X) /\ \A i \in 1..Len(W) : Alike(X[i], W[i])
  BY <1>1
<1>3. Ordered(N, y, R, P)
  <2>1. Counts(S.slaveSEQ, W, M.masterSEQ) /\ \A k \in Kinds : Matches(k, P[k], W, MBuf(M, k))
    BY <1>1 DEF Lane, Ordered
  <2>2. Counts(S.slaveSEQ, X, M.masterSEQ)
    BY <1>2, <2>1, OrderMoves
  <2>3. \A k \in Kinds : Matches(k, P[k], X, MBuf(M, k))
    BY <1>2, <2>1, OrderMoves
  <2> QED BY <1>1, <2>2, <2>3 DEF Ordered
<1>4. ASSUME NEW k \in Kinds PROVE Wt(Lng(k), W) = Wt(Lng(k), X) /\ Wt(Ret(k), W) = Wt(Ret(k), X)
  <2>1. ASSUME NEW i \in 1..Len(W) PROVE Lng(k)[W[i]] = Lng(k)[X[i]] /\ Ret(k)[W[i]] = Ret(k)[X[i]]
    <3>1. PICK p \in Packets, q \in Packets : p = W[i] /\ q = X[i]
      BY <1>2
    <3>2. Resembles(q, p)
      BY <1>2, <3>1 DEF Alike
    <3> QED BY <3>1, <3>2 DEF Resembles, Lng, Ret
  <2> QED BY <1>2, <2>1, WtSame
<1>5. "down" \in Kinds /\ "up" \in Kinds
  BY DEF Kinds
<1> QED BY <1>1, <1>3, <1>4, <1>5 DEF Lane, Out, Back

LEMMA LaneAccept ==
  ASSUME NEW M, NEW x, NEW S, NEW P, Lane(M, x, S, P), NEW N, NEW Q, Parts(N, x, S, Q),
         NEW k \in Kinds, NEW d \in Data, NEW q \in Packets,
         q.packetType = TypeOf(k), q.CMD = d, q.DRTC = 0, q.URTC = 0,
         N.masterSEQ = M.masterSEQ, N.linkRxTx = M.linkRxTx,
         \A j \in Kinds : /\ Tok(N, j) = Tok(M, j)
                          /\ MBuf(N, j) = IF j = k THEN Append(MBuf(M, j), q) ELSE MBuf(M, j)
                          /\ Q[j] = IF j = k THEN Append(P[j], d) ELSE P[j]
  PROVE  /\ Lane(N, x, S, Q)
         /\ \A j \in Kinds : Out(j, N, x, S) = Out(j, M, x, S) /\ Back(j, N, x, S) = Back(j, M, x, S)
<1>1. PICK W \in Seq(Packets) : W = Way(M, x, S) /\ W = Way(N, x, S)
  <2>1. Way(M, x, S) \in Seq(Packets) /\ Way(N, x, S) = Way(M, x, S)
    BY LaneSeqs DEF Lane, Way
  <2> QED BY <2>1
<1>2. \A j \in Kinds : MBuf(M, j) \in Seq(Packets)
  BY LaneSeqs DEF Lane
<1>3. Ordered(N, x, S, Q)
  <2>1. Counts(S.slaveSEQ, W, M.masterSEQ) /\ \A j \in Kinds : Matches(j, P[j], W, MBuf(M, j))
    BY <1>1 DEF Lane, Ordered
  <2>2. Matches(k, Append(P[k], d), W, Append(MBuf(M, k), q))
    BY <1>2, <2>1, MatchesAccept
  <2>3. \A j \in Kinds : Matches(j, Q[j], W, MBuf(N, j))
    BY <2>1, <2>2
  <2> QED BY <1>1, <2>1, <2>3 DEF Ordered
<1>4. ASSUME NEW j \in Kinds, NEW i \in Kinds PROVE Wt(Ret(j), MBuf(N, i)) = Wt(Ret(j), MBuf(M, i))
  <2>1. CASE i # k
    BY <2>1
  <2>2. CASE i = k
    <3>1. Ret(j)[q] = 0 /\ Ret(j) \in [Packets -> Nat]
      BY Weights DEF Ret
    <3>2. Wt(Ret(j), Append(MBuf(M, k), q)) = Wt(Ret(j), MBuf(M, k)) + Ret(j)[q]
      BY <1>2, <3>1, WtAppend
    <3>3. Wt(Ret(j), MBuf(M, k)) \in Nat
      BY <1>2, <3>1, WtNat
    <3>4. MBuf(N, i) = Append(MBuf(M, k), q) /\ MBuf(M, i) = MBuf(M, k)
      BY <2>2
    <3>5. Wt(Ret(j), MBuf(N, i)) = Wt(Ret(j), MBuf(M, k)) + Ret(j)[q]
      BY <3>2, <3>4
    <3> QED BY <3>1, <3>3, <3>4, <3>5
  <2> QED BY <2>1, <2>2
<1>5. "down" \in Kinds /\ "up" \in Kinds
  BY DEF Kinds
<1> QED BY <1>1, <1>3, <1>4, <1>5 DEF Lane, Out, Back

LEMMA LaneSend ==
  ASSUME NEW M, NEW x, NEW S, NEW P, Lane(M, x, S, P), NEW N, Parts(N, x, S, P),
         NEW k \in Kinds, MBuf(M, k) # <<>>, NEW q \in Packets, Resembles(q, MBuf(M, k)[1]),
         q.CMD # "PRET", q.SEQ = Num(M.masterSEQ),
         q.packetType \in {TypeOf(k), "FLOW"},
         q.packetType = TypeOf(k) => Tok(M, k) >= q.LNG,
         N.masterSEQ = Next_SEQ(M.masterSEQ), N.linkRxTx = Append(M.linkRxTx, q),
         \A j \in Kinds : /\ Tok(N, j) = Tok(M, j) - Lng(j)[q]
                          /\ MBuf(N, j) = IF j = k THEN Tail(MBuf(M, j)) ELSE MBuf(M, j)
  PROVE  /\ Lane(N, x, S, P)
         /\ \A j \in Kinds : Out(j, N, x, S) = Out(j, M, x, S) /\ Back(j, N, x, S) = Back(j, M, x, S)
<1>1. PICK W \in Seq(Packets) : W = Way(M, x, S)
  BY LaneSeqs DEF Lane
<1>p. Parts(M, x, S, P)
  BY DEF Lane
<1>w. Longer(N.linkRxTx, M.linkRxTx, q)
  BY DEF Longer
<1>l. Longer(Way(N, x, S), Way(M, x, S), q)
  BY <1>p, <1>w, WayAppend, Zenon
<1>2. Way(N, x, S) = Append(W, q)
  BY <1>1, <1>l DEF Longer
<1>3. \A j \in Kinds : MBuf(M, j) \in Seq(Packets)
  BY LaneSeqs DEF Lane
<1>4. PICK p \in Packets : p = MBuf(M, k)[1]
  BY <1>3, TailFacts
<1>5. Resembles(q, p)
  BY <1>4
<1>6. \A j \in Kinds : j # k => TypeOf(j) # TypeOf(k) /\ TypeOf(j) # "FLOW"
  BY DEF Kinds, TypeOf
<1>7. Ordered(N, x, S, P)
  <2>1. Counts(S.slaveSEQ, W, M.masterSEQ) /\ \A j \in Kinds : Matches(j, P[j], W, MBuf(M, j))
    BY <1>1 DEF Lane, Ordered
  <2>2. Counts(S.slaveSEQ, Append(W, q), Next_SEQ(M.masterSEQ))
    BY <2>1, CountsAppend
  <2>3. Matches(k, P[k], Append(W, q), Tail(MBuf(M, k)))
    <3>1. q.packetType = MBuf(M, k)[1].packetType /\ q.CMD = MBuf(M, k)[1].CMD
      BY DEF Resembles
    <3> QED BY <1>3, <2>1, <3>1, MatchesSend
  <2>4. ASSUME NEW j \in Kinds, j # k PROVE Matches(j, P[j], Append(W, q), MBuf(M, j))
    <3>1. q.packetType # TypeOf(j)
      BY <1>6, <2>4
    <3> QED BY <2>1, <3>1, MatchesPass
  <2> QED BY <1>2, <2>2, <2>3, <2>4 DEF Ordered
<1>8. ASSUME NEW j \in Kinds PROVE Tok(N, j) >= 0
  <2>1. Tok(M, j) \in Int /\ Tok(M, j) >= 0 /\ q.LNG \in Nat
    BY LaneSeqs DEF Lane, Packets
  <2>2. Lng(j)[q] = IF q.packetType = TypeOf(j) THEN q.LNG ELSE 0
    BY DEF Lng
  <2>3. q.packetType = TypeOf(j) => j = k
    BY <1>6
  <2> QED BY <2>1, <2>2, <2>3
<1>9. ASSUME NEW j \in Kinds PROVE Out(j, N, x, S) = Out(j, M, x, S)
  <2>1. Lng(j) \in [Packets -> Nat]
    BY Weights
  <2>2. Wt(Lng(j), Append(W, q)) = Wt(Lng(j), W) + Lng(j)[q]
    BY <2>1, WtAppend
  <2>3. PICK t \in Int, a \in Nat, b \in Nat, l \in Nat :
          t = Tok(M, j) /\ a = Wt(Lng(j), W) /\ b = Wt(Lng(j), SBuf(S, j)) /\ l = Lng(j)[q]
    BY <1>1, <2>1, LaneWeights DEF Lane
  <2>4. Tok(N, j) = t - l /\ Wt(Lng(j), Append(W, q)) = a + l
    BY <2>2, <2>3
  <2>5. (t - l) + (a + l) + b = t + a + b
    OBVIOUS
  <2> QED BY <1>1, <1>2, <2>3, <2>4, <2>5 DEF Out
<1>10. ASSUME NEW j \in Kinds PROVE Back(j, N, x, S) = Back(j, M, x, S)
  <2>1. Ret(j) \in [Packets -> Nat] /\ Ret(j)[q] = Ret(j)[p]
    BY <1>5, Weights DEF Ret, Resembles
  <2>2. Wt(Ret(j), Append(W, q)) = Wt(Ret(j), W) + Ret(j)[q]
    BY <2>1, WtAppend
  <2>3. Wt(Ret(j), MBuf(M, k)) = Ret(j)[p] + Wt(Ret(j), Tail(MBuf(M, k)))
    BY <1>3, <1>4, <2>1, WtTail
  <2>4. PICK w \in Nat, r \in Nat, b \in Nat :
          w = Wt(Ret(j), W) /\ r = Ret(j)[p] /\ b = Wt(Ret(j), Tail(MBuf(M, k)))
    <3>1. Tail(MBuf(M, k)) \in Seq(Packets)
      BY <1>3, TailFacts
    <3> QED BY <2>1, <3>1, WtNat
  <2>5. PICK i \in Kinds : i # k /\ {i, k} = {"down", "up"}
    BY DEF Kinds
  <2>6. PICK c \in Nat : c = Wt(Ret(j), MBuf(M, i))
    BY <1>3, <2>1, WtNat
  <2>7. /\ Back(j, M, x, S) = (r + b) + c + w
        /\ Back(j, N, x, S) = b + c + (w + r)
    <3>1. MBuf(N, k) = Tail(MBuf(M, k)) /\ MBuf(N, i) = MBuf(M, i)
      BY <2>5
    <3>2. \A D : Back(j, D, x, S) = Wt(Ret(j), MBuf(D, "down")) + Wt(Ret(j), MBuf(D, "up"))
                                     + Wt(Ret(j), Way(D, x, S))
      BY DEF Back
    <3>3. /\ Wt(Ret(j), MBuf(M, k)) = r + b /\ Wt(Ret(j), MBuf(M, i)) = c
          /\ Wt(Ret(j), MBuf(N, k)) = b /\ Wt(Ret(j), MBuf(N, i)) = c
          /\ Wt(Ret(j), Way(M, x, S)) = w /\ Wt(Ret(j), Way(N, x, S)) = w + r
      BY <1>1, <1>2, <2>1, <2>2, <2>3, <2>4, <2>6, <3>1
    <3>4. (k = "down" /\ i = "up") \/ (k = "up" /\ i = "down")
      BY <2>5
    <3> QED BY <3>2, <3>3, <3>4
  <2> QED BY <2>7
<1> QED BY <1>7, <1>8, <1>9, <1>10 DEF Lane

LEMMA LaneCredit ==
  ASSUME NEW M, NEW x, NEW S, NEW P, Lane(M, x, S, P), NEW N, Parts(N, x, S, P),
         NEW p \in Packets, N.masterSEQ = M.masterSEQ,
         \/ N.linkRxTx = M.linkRxTx
         \/ \E r \in PretP : N.linkRxTx = Append(M.linkRxTx, r),
         \A j \in Kinds : Tok(N, j) = Tok(M, j) + Ret(j)[p] /\ MBuf(N, j) = MBuf(M, j)
  PROVE  /\ Lane(N, x, S, P)
         /\ \A j \in Kinds : /\ Out(j, N, x, S) = Out(j, M, x, S) + Ret(j)[p]
                             /\ Back(j, N, x, S) = Back(j, M, x, S)
<1>1. PICK W \in Seq(Packets) : W = Way(M, x, S)
  BY LaneSeqs DEF Lane
<1>p. Parts(M, x, S, P)
  BY DEF Lane
<1>k. "down" \in Kinds /\ "up" \in Kinds
  BY DEF Kinds
<1>2. PICK X : X = Way(N, x, S)
  OBVIOUS
<1>3. Counts(S.slaveSEQ, W, M.masterSEQ) /\ \A j \in Kinds : Matches(j, P[j], W, MBuf(M, j))
  BY <1>1 DEF Lane, Ordered
<1>4. /\ Counts(S.slaveSEQ, X, M.masterSEQ) /\ \A j \in Kinds : Matches(j, P[j], X, MBuf(M, j))
      /\ \A j \in Kinds : Wt(Lng(j), X) = Wt(Lng(j), W) /\ Wt(Ret(j), X) = Wt(Ret(j), W)
  <2>1. CASE N.linkRxTx = M.linkRxTx
    <3>1. X = W
      BY <1>1, <1>2, <2>1 DEF Way
    <3> QED BY <1>3, <3>1
  <2>2. CASE \E r \in PretP : N.linkRxTx = Append(M.linkRxTx, r)
    <3>1. PICK r \in PretP : N.linkRxTx = Append(M.linkRxTx, r)
      BY <2>2
    <3>2. /\ r \in Packets /\ r.CMD = "PRET" /\ r.packetType = "FLOW"
          /\ r.DRTC = 0 /\ r.URTC = 0
      BY DEF PretP
    <3>w. Longer(N.linkRxTx, M.linkRxTx, r)
      BY <3>1 DEF Longer
    <3>3. Longer(Way(N, x, S), Way(M, x, S), r)
      BY <1>p, <3>w, <3>2, WayAppend, Zenon
    <3>4. X = Append(W, r)
      BY <1>1, <1>2, <3>3 DEF Longer
    <3>5. Counts(S.slaveSEQ, X, M.masterSEQ)
      BY <1>3, <3>2, <3>4, CountsAppend
    <3>6. ASSUME NEW j \in Kinds PROVE Matches(j, P[j], X, MBuf(M, j))
      <4>1. r.packetType # TypeOf(j)
        BY <3>2 DEF TypeOf
      <4> QED BY <1>3, <3>2, <3>4, <4>1, MatchesPass
    <3>7. ASSUME NEW j \in Kinds PROVE Wt(Lng(j), X) = Wt(Lng(j), W) /\ Wt(Ret(j), X) = Wt(Ret(j), W)
      <4>1. Lng(j)[r] = 0 /\ Ret(j)[r] = 0
        BY <3>2 DEF Lng, Ret, TypeOf
      <4>2. /\ Wt(Lng(j), X) = Wt(Lng(j), W) + Lng(j)[r] /\ Wt(Ret(j), X) = Wt(Ret(j), W) + Ret(j)[r]
        BY <3>2, <3>4, Weights, WtAppend
      <4>3. Wt(Lng(j), W) \in Nat /\ Wt(Ret(j), W) \in Nat
        BY Weights, WtNat
      <4> QED BY <4>1, <4>2, <4>3
    <3> QED BY <3>5, <3>6, <3>7
  <2> QED BY <2>1, <2>2
<1>5. Ordered(N, x, S, P)
  BY <1>2, <1>4 DEF Ordered
<1>6. ASSUME NEW j \in Kinds
      PROVE  Tok(N, j) >= 0 /\ Out(j, N, x, S) = Out(j, M, x, S) + Ret(j)[p]
  <2>1. PICK t \in Int, a \in Nat, b \in Nat, c \in Nat :
          t = Tok(M, j) /\ a = Wt(Lng(j), W) /\ b = Wt(Lng(j), SBuf(S, j)) /\ c = Ret(j)[p]
    BY <1>1, <1>p, Weights, LaneWeights
  <2>2. Tok(N, j) = t + c /\ t >= 0
    BY <2>1 DEF Lane
  <2>3. Out(j, M, x, S) = t + a + b /\ Out(j, N, x, S) = (t + c) + a + b
    BY <1>1, <1>2, <1>4, <2>1, <2>2 DEF Out
  <2>4. t + c >= 0 /\ (t + c) + a + b = (t + a + b) + c
    BY <2>2
  <2> QED BY <2>1, <2>2, <2>3, <2>4
<1>7. \A j \in Kinds : Back(j, N, x, S) = Back(j, M, x, S)
  BY <1>1, <1>2, <1>4, <1>k DEF Back
<1> QED BY <1>5, <1>6, <1>7 DEF Lane

LEMMA LanePret ==
  ASSUME NEW M, NEW x, NEW S, NEW P, Lane(M, x, S, P), NEW R, Parts(M, x, R, P),
         S.linkRxTx # <<>>, S.linkRxTx[1] \in PretP, R.linkRxTx = Tail(S.linkRxTx),
         R.slaveSEQ = S.slaveSEQ, \A j \in Kinds : SBuf(R, j) = SBuf(S, j)
  PROVE  /\ Lane(M, x, R, P)
         /\ \A j \in Kinds : Out(j, M, x, R) = Out(j, M, x, S) /\ Back(j, M, x, R) = Back(j, M, x, S)
<1>1. PICK W \in Seq(Packets) : W = Way(M, x, S)
  BY LaneSeqs DEF Lane
<1>p. Parts(M, x, S, P)
  BY DEF Lane
<1>s. Shorter(R.linkRxTx, S.linkRxTx, S.linkRxTx[1])
  BY DEF Shorter
<1>w. Shorter(Way(M, x, R), Way(M, x, S), S.linkRxTx[1])
  BY <1>p, <1>s, WayTail, Zenon
<1>2. W # <<>> /\ W[1] \in PretP /\ Way(M, x, R) = Tail(W)
  BY <1>1, <1>w DEF Shorter
<1>3. /\ W[1] \in Packets /\ W[1].CMD = "PRET" /\ W[1].packetType = "FLOW"
      /\ W[1].DRTC = 0 /\ W[1].URTC = 0
  BY <1>2 DEF PretP
<1>4. Counts(S.slaveSEQ, W, M.masterSEQ) /\ \A j \in Kinds : Matches(j, P[j], W, MBuf(M, j))
  BY <1>1 DEF Lane, Ordered
<1>5. Counts(S.slaveSEQ, Tail(W), M.masterSEQ)
  BY <1>2, <1>3, <1>4, CountsTail
<1>6. ASSUME NEW j \in Kinds PROVE Matches(j, P[j], Tail(W), MBuf(M, j))
  <2>1. W[1].packetType # TypeOf(j)
    BY <1>3 DEF TypeOf
  <2> QED BY <1>2, <1>4, <2>1, MatchesTail
<1>7. ASSUME NEW j \in Kinds
      PROVE  Wt(Lng(j), Tail(W)) = Wt(Lng(j), W) /\ Wt(Ret(j), Tail(W)) = Wt(Ret(j), W)
  <2>1. Lng(j)[W[1]] = 0 /\ Ret(j)[W[1]] = 0
    BY <1>3 DEF Lng, Ret, TypeOf
  <2>2. /\ Wt(Lng(j), W) = Lng(j)[W[1]] + Wt(Lng(j), Tail(W))
        /\ Wt(Ret(j), W) = Ret(j)[W[1]] + Wt(Ret(j), Tail(W))
    BY <1>2, Weights, WtTail
  <2>3. Wt(Lng(j), Tail(W)) \in Nat /\ Wt(Ret(j), Tail(W)) \in Nat
    <3>1. Tail(W) \in Seq(Packets)
      BY <1>2, TailFacts
    <3> QED BY <3>1, Weights, WtNat
  <2> QED BY <2>1, <2>2, <2>3
<1>8. Ordered(M, x, R, P)
  BY <1>2, <1>5, <1>6 DEF Ordered
<1> QED BY <1>1, <1>2, <1>7, <1>8 DEF Lane, Out, Back

LEMMA LaneReceive ==
  ASSUME NEW M, NEW x, NEW S, NEW P, Lane(M, x, S, P), NEW R, NEW Q, Parts(M, x, R, Q),
         NEW p \in Packets, S.linkRxTx # <<>>, S.linkRxTx[1] = p, p.CMD # "PRET",
         R.linkRxTx = Tail(S.linkRxTx), R.slaveSEQ = Next_SEQ(S.slaveSEQ),
         \A j \in Kinds :
           /\ SBuf(R, j) = IF p.packetType = TypeOf(j) THEN Append(SBuf(S, j), p) ELSE SBuf(S, j)
           /\ Q[j] = IF p.packetType = TypeOf(j) THEN Tail(P[j]) ELSE P[j]
  PROVE  /\ Lane(M, x, R, Q)
         /\ \A j \in Kinds : /\ Out(j, M, x, R) = Out(j, M, x, S)
                             /\ Back(j, M, x, S) = Back(j, M, x, R) + Ret(j)[p]
<1>1. PICK W \in Seq(Packets) : W = Way(M, x, S)
  BY LaneSeqs DEF Lane
<1>p. Parts(M, x, S, P)
  BY DEF Lane
<1>s. Shorter(R.linkRxTx, S.linkRxTx, p)
  BY DEF Shorter
<1>w. Shorter(Way(M, x, R), Way(M, x, S), p)
  BY <1>p, <1>s, WayTail, Zenon
<1>2. W # <<>> /\ W[1] = p /\ Way(M, x, R) = Tail(W) /\ Tail(W) \in Seq(Packets)
  BY <1>1, <1>w, TailFacts DEF Shorter
<1>4. Counts(S.slaveSEQ, W, M.masterSEQ) /\ \A j \in Kinds : Matches(j, P[j], W, MBuf(M, j))
  BY <1>1 DEF Lane, Ordered
<1>5. Counts(Next_SEQ(S.slaveSEQ), Tail(W), M.masterSEQ)
  BY <1>2, <1>4, CountsTail
<1>6. ASSUME NEW j \in Kinds PROVE Matches(j, Q[j], Tail(W), MBuf(M, j))
  BY <1>2, <1>4, MatchesTail, ZenonT(60)
<1>7. ASSUME NEW j \in Kinds PROVE Out(j, M, x, R) = Out(j, M, x, S)
  <2>1. Lng(j) \in [Packets -> Nat] /\ SBuf(S, j) \in Seq(Packets)
    BY <1>p, Weights, LaneSeqs
  <2>2. Wt(Lng(j), W) = Lng(j)[p] + Wt(Lng(j), Tail(W))
    BY <1>2, <2>1, WtTail
  <2>3. Wt(Lng(j), SBuf(R, j)) = Wt(Lng(j), SBuf(S, j)) + Lng(j)[p]
    <3>1. CASE p.packetType = TypeOf(j)
      BY <2>1, <3>1, WtAppend
    <3>2. CASE p.packetType # TypeOf(j)
      <4>1. Lng(j)[p] = 0 /\ Wt(Lng(j), SBuf(S, j)) \in Nat
        BY <2>1, <3>2, WtNat DEF Lng
      <4> QED BY <3>2, <4>1
    <3> QED BY <3>1, <3>2
  <2>4. PICK t \in Int, a \in Nat, b \in Nat, l \in Nat :
          t = Tok(M, j) /\ a = Wt(Lng(j), Tail(W)) /\ b = Wt(Lng(j), SBuf(S, j)) /\ l = Lng(j)[p]
    BY <1>2, <2>1, <1>p, WtNat, LaneSeqs
  <2>5. Out(j, M, x, S) = t + (l + a) + b /\ Out(j, M, x, R) = t + a + (b + l)
    BY <1>1, <1>2, <2>2, <2>3, <2>4 DEF Out
  <2> QED BY <2>5
<1>8. ASSUME NEW j \in Kinds PROVE Back(j, M, x, S) = Back(j, M, x, R) + Ret(j)[p]
  <2>1. Ret(j) \in [Packets -> Nat]
    BY Weights
  <2>2. Wt(Ret(j), W) = Ret(j)[p] + Wt(Ret(j), Tail(W))
    BY <1>2, <2>1, WtTail
  <2>3. PICK a \in Nat, b \in Nat, c \in Nat, d \in Nat :
          /\ a = Wt(Ret(j), Tail(W)) /\ b = Wt(Ret(j), MBuf(M, "down"))
          /\ c = Wt(Ret(j), MBuf(M, "up")) /\ d = Ret(j)[p]
    BY <1>2, <1>p, <2>1, WtNat, LaneWeights
  <2>4. Back(j, M, x, S) = b + c + (d + a) /\ Back(j, M, x, R) = b + c + a
    BY <1>1, <1>2, <2>2, <2>3 DEF Back
  <2> QED BY <2>3, <2>4
<1>9. Ordered(M, x, R, Q)
  BY <1>2, <1>5, <1>6 DEF Ordered
<1> QED BY <1>7, <1>8, <1>9 DEF Lane

LEMMA LaneTake ==
  ASSUME NEW M, NEW x, NEW S, NEW P, Lane(M, x, S, P), NEW R, Parts(M, x, R, P),
         NEW k \in Kinds, NEW p \in Packets, SBuf(S, k) # <<>>, SBuf(S, k)[1] = p,
         p.packetType = TypeOf(k), R.linkRxTx = S.linkRxTx, R.slaveSEQ = S.slaveSEQ,
         \A j \in Kinds : SBuf(R, j) = IF j = k THEN Tail(SBuf(S, j)) ELSE SBuf(S, j)
  PROVE  /\ Lane(M, x, R, P)
         /\ \A j \in Kinds : /\ Out(j, M, x, S) = Out(j, M, x, R) + Lng(j)[p]
                             /\ Back(j, M, x, R) = Back(j, M, x, S)
<1>p. Parts(M, x, S, P)
  BY DEF Lane
<1>1. Way(M, x, R) = Way(M, x, S)
  BY DEF Way
<1>2. Ordered(M, x, R, P)
  BY <1>1 DEF Lane, Ordered
<1>3. ASSUME NEW j \in Kinds PROVE Wt(Lng(j), SBuf(S, j)) = Wt(Lng(j), SBuf(R, j)) + Lng(j)[p]
  <2>1. Lng(j) \in [Packets -> Nat] /\ SBuf(S, j) \in Seq(Packets) /\ SBuf(R, j) \in Seq(Packets)
    BY <1>p, Weights, LaneSeqs
  <2>2. Wt(Lng(j), SBuf(R, j)) \in Nat /\ Lng(j)[p] \in Nat
    BY <2>1, WtNat
  <2>3. CASE j = k
    <3>1. Wt(Lng(j), SBuf(S, j)) = Lng(j)[SBuf(S, j)[1]] + Wt(Lng(j), Tail(SBuf(S, j)))
      BY <2>1, <2>3, WtTail
    <3>2. SBuf(S, j)[1] = p /\ SBuf(R, j) = Tail(SBuf(S, j))
      BY <2>3
    <3>3. Wt(Lng(j), SBuf(S, j)) = Lng(j)[p] + Wt(Lng(j), SBuf(R, j))
      BY <3>1, <3>2
    <3> QED BY <2>2, <3>3
  <2>4. CASE j # k
    <3>1. Lng(j)[p] = 0
      BY <2>4 DEF Lng, TypeOf, Kinds
    <3>2. SBuf(R, j) = SBuf(S, j)
      BY <2>4
    <3> QED BY <2>2, <3>1, <3>2
  <2> QED BY <2>3, <2>4
<1>4. ASSUME NEW j \in Kinds PROVE Out(j, M, x, S) = Out(j, M, x, R) + Lng(j)[p]
  <2>1. PICK t \in Int, a \in Nat, b \in Nat, c \in Nat :
          t = Tok(M, j) /\ a = Wt(Lng(j), Way(M, x, S)) /\ b = Wt(Lng(j), SBuf(R, j)) /\ c = Lng(j)[p]
    BY <1>p, Weights, LaneWeights
  <2>2. Out(j, M, x, S) = t + a + (b + c) /\ Out(j, M, x, R) = t + a + b
    BY <1>1, <1>3, <2>1 DEF Out
  <2> QED BY <2>1, <2>2
<1> QED BY <1>1, <1>2, <1>4 DEF Lane, Back

(* Buffer C is buffer B with tokens added, in its first packet or in one   *)
(* of their own.                                                           *)
Gets(B, C, d, u) ==
  \/ FirstGets(B, C, d, u)
  \/ \E x \in TretP : x.DRTC = d /\ x.URTC = u /\ C = <<x>> \o B

LEMMA GetsEffect ==
  ASSUME NEW B \in Seq(Packets), NEW C, NEW d \in Nat, NEW u \in Nat, Gets(B, C, d, u),
         NEW k \in Kinds, NEW P, NEW W \in Seq(Packets), Matches(k, P, W, B)
  PROVE  /\ Matches(k, P, W, C)
         /\ \A j \in Kinds : Wt(Ret(j), C) = Wt(Ret(j), B) + (IF j = "down" THEN d ELSE u)
<1>1. CASE FirstGets(B, C, d, u)
  <2>1. B # <<>>
    BY <1>1 DEF FirstGets
  <2>2. PICK x \in Packets : /\ x.packetType = B[1].packetType /\ x.CMD = B[1].CMD
                             /\ x.DRTC = B[1].DRTC + d /\ x.URTC = B[1].URTC + u
                             /\ C = <<x>> \o Tail(B)
    BY <1>1 DEF FirstGets
  <2>3. Matches(k, P, W, C)
    <3>1. Matches(k, P, W, <<x>> \o Tail(B))
      BY <2>1, <2>2, MatchesFirst
    <3> QED BY <2>2, <3>1
  <2>4. ASSUME NEW j \in Kinds PROVE Wt(Ret(j), C) = Wt(Ret(j), B) + (IF j = "down" THEN d ELSE u)
    <3>1. Ret(j) \in [Packets -> Nat]
      BY Weights
    <3>2. B[1] \in Packets /\ Tail(B) \in Seq(Packets) /\ <<x>> \in Seq(Packets)
      BY <2>1, TailFacts
    <3>3. Wt(Ret(j), B) = Ret(j)[B[1]] + Wt(Ret(j), Tail(B))
      BY <2>1, <3>1, WtTail
    <3>4. Wt(Ret(j), <<x>> \o Tail(B)) = Wt(Ret(j), <<x>>) + Wt(Ret(j), Tail(B))
      BY <3>1, <3>2, WtConcat
    <3>5. Wt(Ret(j), <<x>>) = Ret(j)[x]
      BY <3>1, WtOne
    <3>6. PICK a \in Nat, b \in Nat, c \in Nat :
            /\ a = Ret(j)[B[1]] /\ b = Wt(Ret(j), Tail(B)) /\ c = IF j = "down" THEN d ELSE u
      BY <3>1, <3>2, WtNat
    <3>7. Ret(j)[x] = a + c
      BY <2>2, <3>2, <3>6 DEF Ret
    <3>8. Wt(Ret(j), B) = a + b /\ Wt(Ret(j), C) = (a + c) + b
      BY <2>2, <3>3, <3>4, <3>5, <3>6, <3>7
    <3> QED BY <3>6, <3>8
  <2> QED BY <2>3, <2>4
<1>2. CASE \E x \in TretP : x.DRTC = d /\ x.URTC = u /\ C = <<x>> \o B
  <2>1. PICK x \in TretP : x.DRTC = d /\ x.URTC = u /\ C = <<x>> \o B
    BY <1>2
  <2>2. x \in Packets /\ x.packetType = "FLOW" /\ <<x>> \in Seq(Packets)
    BY DEF TretP
  <2>3. Matches(k, P, W, C)
    <3>1. x.packetType # TypeOf(k)
      BY <2>2 DEF TypeOf
    <3>2. Matches(k, P, W, <<x>> \o B)
      BY <2>2, <3>1, MatchesFlow
    <3> QED BY <2>1, <3>2
  <2>4. ASSUME NEW j \in Kinds PROVE Wt(Ret(j), C) = Wt(Ret(j), B) + (IF j = "down" THEN d ELSE u)
    <3>1. Ret(j) \in [Packets -> Nat]
      BY Weights
    <3>2. Wt(Ret(j), <<x>> \o B) = Wt(Ret(j), <<x>>) + Wt(Ret(j), B)
      BY <2>2, <3>1, WtConcat
    <3>3. Wt(Ret(j), <<x>>) = Ret(j)[x]
      BY <2>2, <3>1, WtOne
    <3>4. PICK b \in Nat, c \in Nat : b = Wt(Ret(j), B) /\ c = IF j = "down" THEN d ELSE u
      BY <3>1, WtNat
    <3>5. Ret(j)[x] = c
      BY <2>1, <2>2, <3>4 DEF Ret
    <3>6. Wt(Ret(j), C) = c + b
      BY <2>1, <3>2, <3>3, <3>4, <3>5
    <3> QED BY <3>4, <3>6
  <2> QED BY <2>3, <2>4
<1> QED BY <1>1, <1>2 DEF Gets

LEMMA LaneReturn ==
  ASSUME NEW M, NEW x, NEW S, NEW P, Lane(M, x, S, P), NEW N, Parts(N, x, S, P),
         NEW k \in Kinds, NEW d \in Nat, NEW u \in Nat, Gets(MBuf(M, k), MBuf(N, k), d, u),
         N.linkRxTx = M.linkRxTx, N.masterSEQ = M.masterSEQ,
         \A j \in Kinds : Tok(N, j) = Tok(M, j) /\ (j # k => MBuf(N, j) = MBuf(M, j))
  PROVE  /\ Lane(N, x, S, P)
         /\ \A j \in Kinds : /\ Out(j, N, x, S) = Out(j, M, x, S)
                             /\ Back(j, N, x, S) = Back(j, M, x, S) + (IF j = "down" THEN d ELSE u)
<1>p. Parts(M, x, S, P)
  BY DEF Lane
<1>1. PICK W \in Seq(Packets) : W = Way(M, x, S) /\ W = Way(N, x, S)
  <2>1. Way(M, x, S) \in Seq(Packets) /\ Way(N, x, S) = Way(M, x, S)
    BY <1>p, LaneSeqs DEF Way
  <2> QED BY <2>1
<1>2. Counts(S.slaveSEQ, W, M.masterSEQ) /\ \A j \in Kinds : Matches(j, P[j], W, MBuf(M, j))
  BY <1>1 DEF Lane, Ordered
<1>3. MBuf(M, k) \in Seq(Packets)
  BY <1>p, LaneSeqs
<1>4. /\ Matches(k, P[k], W, MBuf(N, k))
      /\ \A j \in Kinds : Wt(Ret(j), MBuf(N, k)) = Wt(Ret(j), MBuf(M, k)) + (IF j = "down" THEN d ELSE u)
  BY <1>2, <1>3, GetsEffect
<1>5. Ordered(N, x, S, P)
  <2>1. \A j \in Kinds : Matches(j, P[j], W, MBuf(N, j))
    BY <1>2, <1>4
  <2> QED BY <1>1, <1>2, <2>1 DEF Ordered
<1>6. \A j \in Kinds : Out(j, N, x, S) = Out(j, M, x, S)
  BY <1>1 DEF Out
<1>7. ASSUME NEW j \in Kinds PROVE Back(j, N, x, S) = Back(j, M, x, S) + (IF j = "down" THEN d ELSE u)
  <2>1. PICK a \in Nat, b \in Nat, w \in Nat, c \in Nat :
          /\ a = Wt(Ret(j), MBuf(M, "down")) /\ b = Wt(Ret(j), MBuf(M, "up"))
          /\ w = Wt(Ret(j), W) /\ c = IF j = "down" THEN d ELSE u
    BY <1>1, <1>p, Weights, LaneWeights
  <2>2. Back(j, M, x, S) = a + b + w
    BY <1>1, <2>1 DEF Back
  <2>3. CASE k = "down"
    <3>1. Wt(Ret(j), MBuf(N, "down")) = a + c
      BY <1>4, <2>1, <2>3
    <3>2. MBuf(N, "up") = MBuf(M, "up")
      BY <2>3 DEF Kinds
    <3>3. Back(j, N, x, S) = (a + c) + b + w
      BY <1>1, <2>1, <3>1, <3>2 DEF Back
    <3>4. (a + c) + b + w = (a + b + w) + c
      OBVIOUS
    <3>5. Back(j, N, x, S) = Back(j, M, x, S) + c
      BY <2>2, <3>3, <3>4
    <3> QED BY <2>1, <3>5
  <2>4. CASE k = "up"
    <3>1. Wt(Ret(j), MBuf(N, "up")) = b + c
      BY <1>4, <2>1, <2>4
    <3>2. MBuf(N, "down") = MBuf(M, "down")
      BY <2>4 DEF Kinds
    <3>3. Back(j, N, x, S) = a + (b + c) + w
      BY <1>1, <2>1, <3>1, <3>2 DEF Back
    <3>4. a + (b + c) + w = (a + b + w) + c
      OBVIOUS
    <3>5. Back(j, N, x, S) = Back(j, M, x, S) + c
      BY <2>2, <3>3, <3>4
    <3> QED BY <2>1, <3>5
  <2> QED BY <2>3, <2>4 DEF Kinds
<1> QED BY <1>5, <1>6, <1>7 DEF Lane
-----------------------------------------------------------------------------
(* The inductive invariant of links on which nothing has been corrupted.   *)

Linked(e) == Lane(master[e], inFlightPacket[e], slave[Peer(e)], pending[e])
OutOf(e, k) == Out(k, master[e], inFlightPacket[e], slave[Peer(e)])
BackBy(e, k) == Back(k, master[e], inFlightPacket[e], slave[Peer(e)])

Balanced(e) == \A k \in Kinds : OutOf(e, k) + BackBy(Peer(e), k) = MAX_LINK_BUF
Offered(e) == \A k \in Kinds : pending[e][k] \in Seq(Sends[e])

LInv == Quiet /\ \A e \in Ends : Linked(e) /\ Balanced(e) /\ Offered(e)

(* Without CRC_CHECK nobody looks at what the link corrupts.               *)
Clean == CRC_CHECK => noise = 0

LEMMA LanePart ==
  ASSUME Quiet, NEW e \in Ends
  PROVE  /\ master[e] \in Masters /\ slave[e] \in Slaves
         /\ inFlightPacket[e] \in SentP \cup {NULL} /\ pending[e] \in [Kinds -> Seq(Data)]
         /\ Parts(master[e], inFlightPacket[e], slave[Peer(e)], pending[e])
BY EndFacts DEF Quiet, Parts

LEMMA TwoLanes ==
  ASSUME LInv, NEW e \in Ends, Quiet', Linked(e)', Linked(Peer(e))', Offered(e)', Offered(Peer(e))',
         \A k \in Kinds : /\ OutOf(e, k)' + BackBy(Peer(e), k)' = OutOf(e, k) + BackBy(Peer(e), k)
                          /\ OutOf(Peer(e), k)' + BackBy(e, k)' = OutOf(Peer(e), k) + BackBy(e, k)
  PROVE  LInv'
<1>1. Peer(e) \in Ends /\ Peer(Peer(e)) = e /\ \A c \in Ends : c = e \/ c = Peer(e)
  BY DEF Ends, Peer
<1>2. Balanced(e) /\ Balanced(Peer(e))
  BY <1>1 DEF LInv
<1>3. Balanced(e)'
  BY <1>2 DEF Balanced
<1>4. Balanced(Peer(e))'
  <2>1. \A k \in Kinds : OutOf(Peer(e), k) + BackBy(e, k) = MAX_LINK_BUF
    BY <1>1, <1>2 DEF Balanced
  <2>2. \A k \in Kinds : OutOf(Peer(e), k)' + BackBy(e, k)' = MAX_LINK_BUF
    BY <2>1
  <2> QED BY <1>1, <2>2 DEF Balanced
<1>5. ASSUME NEW c \in Ends PROVE (Linked(c) /\ Balanced(c) /\ Offered(c))'
  <2>1. CASE c = e
    BY <1>3, <2>1
  <2>2. CASE c = Peer(e)
    BY <1>4, <2>2
  <2> QED BY <1>1, <2>1, <2>2
<1> QED BY <1>5 DEF LInv

(* A step that leaves the far end's lane alone.                            *)
LEMMA OneLane ==
  ASSUME LInv, NEW e \in Ends, Quiet', Linked(e)', Offered(e)',
         \A k \in Kinds : OutOf(e, k)' = OutOf(e, k) /\ BackBy(e, k)' = BackBy(e, k),
         master'[Peer(e)] = master[Peer(e)], inFlightPacket'[Peer(e)] = inFlightPacket[Peer(e)],
         slave'[e] = slave[e], pending'[Peer(e)] = pending[Peer(e)]
  PROVE  LInv'
<1>1. Peer(e) \in Ends /\ Peer(Peer(e)) = e
  BY EndFacts
<1>2. Linked(Peer(e))' /\ Offered(Peer(e))'
  <2>1. Linked(Peer(e)) /\ Offered(Peer(e))
    BY <1>1 DEF LInv
  <2> QED BY <1>1, <2>1 DEF Linked, Offered
<1>3. \A k \in Kinds : OutOf(Peer(e), k)' = OutOf(Peer(e), k) /\ BackBy(Peer(e), k)' = BackBy(Peer(e), k)
  BY <1>1 DEF OutOf, BackBy
<1> QED BY <1>2, <1>3, TwoLanes

LEMMA InitLInv == Init => LInv
<1> SUFFICES ASSUME Init PROVE LInv
  OBVIOUS
<1>1. NewMaster \in Masters /\ NewSlave \in Slaves
  <2>1. /\ <<>> \in Seq(RspP \cup TretP) /\ <<>> \in Seq(ReqP) /\ <<>> \in Seq(SentP) /\ <<>> \in Seq(RspP)
        /\ 0 \in 0..MaxSEQ /\ MAX_LINK_BUF \in Int /\ 1 \in Nat
        /\ [i \in 0..MAX_RETRY_BUF-1 |-> NULL] \in [0..MAX_RETRY_BUF-1 -> Packets \cup {NULL}]
    BY Sizes
  <2> QED BY <2>1 DEF NewMaster, NewSlave, Masters, Slaves
<1>2. PICK P : P = [k \in Kinds |-> <<>>]
  OBVIOUS
<1>3. P \in [Kinds -> Seq(Data)] /\ \A k \in Kinds : P[k] = <<>>
  BY <1>2
<1>4. /\ master \in [Ends -> {NewMaster}] /\ slave \in [Ends -> {NewSlave}]
      /\ inFlightPacket \in [Ends -> {NULL}] /\ pending \in [Ends -> {P}]
  BY <1>2 DEF Init
<1>5. Quiet
  BY <1>1, <1>3, <1>4 DEF Quiet
<1>6. Parts(NewMaster, NULL, NewSlave, P)
  BY <1>1, <1>3 DEF Parts
<1>7. Way(NewMaster, NULL, NewSlave) = <<>>
  <2>1. <<>> \o <<>> = <<>>
    BY EmptyFacts
  <2> QED BY <2>1 DEF Way, OnLink, NewMaster, NewSlave
<1>8. \A k \in Kinds : /\ MBuf(NewMaster, k) = <<>> /\ SBuf(NewSlave, k) = <<>>
                       /\ Tok(NewMaster, k) = MAX_LINK_BUF
  BY DEF NewMaster, NewSlave, MBuf, SBuf, Tok
<1>9. Ordered(NewMaster, NULL, NewSlave, P)
  <2>1. NewSlave.slaveSEQ = 0 /\ NewMaster.masterSEQ = 0 /\ 0 \in 0..MaxSEQ
    BY Sizes DEF NewSlave, NewMaster
  <2>2. Counts(NewSlave.slaveSEQ, <<>>, NewMaster.masterSEQ)
    BY <2>1, RunNone DEF Counts
  <2>3. ASSUME NEW k \in Kinds PROVE Matches(k, <<>>, <<>>, <<>>)
    <3>1. <<>> \in Seq(Data)
      OBVIOUS
    <3> QED BY <3>1, RunNone DEF Matches
  <2> QED BY <1>3, <1>7, <1>8, <2>2, <2>3 DEF Ordered
<1>10. Lane(NewMaster, NULL, NewSlave, P)
  <2>1. MAX_LINK_BUF >= 0
    BY Sizes
  <2> QED BY <1>6, <1>8, <1>9, <2>1 DEF Lane
<1>11. \A k \in Kinds : /\ Out(k, NewMaster, NULL, NewSlave) = MAX_LINK_BUF
                        /\ Back(k, NewMaster, NULL, NewSlave) = 0
  <2>1. \A w : Wt(w, <<>>) = 0
    BY WtEmpty
  <2>2. "down" \in Kinds /\ "up" \in Kinds
    BY DEF Kinds
  <2> QED BY <1>7, <1>8, <2>1, <2>2, Sizes DEF Out, Back
<1>12. ASSUME NEW e \in Ends PROVE Linked(e) /\ Balanced(e) /\ Offered(e)
  <2>1. /\ master[e] = NewMaster /\ inFlightPacket[e] = NULL /\ pending[e] = P
        /\ slave[Peer(e)] = NewSlave
    BY <1>4, EndFacts
  <2>2. /\ master[Peer(e)] = NewMaster /\ inFlightPacket[Peer(e)] = NULL
        /\ slave[Peer(Peer(e))] = NewSlave
    BY <1>4, EndFacts
  <2>3. Balanced(e)
    BY <1>11, <2>1, <2>2, Sizes DEF Balanced, OutOf, BackBy
  <2>4. Offered(e)
    BY <1>3, <2>1 DEF Offered
  <2> QED BY <1>10, <2>1, <2>3, <2>4 DEF Linked
<1> QED BY <1>5, <1>12 DEF LInv
-----------------------------------------------------------------------------
(* The steps.                                                              *)

LEMMA AcceptStep ==
  ASSUME LInv, NEW e \in Ends, NEW d \in Sends[e], Accept(e, d)
  PROVE  LInv'
<1> DEFINE M == master[e]
           x == inFlightPacket[e]
           S == slave[Peer(e)]
           P == pending[e]
<1>1. Quiet /\ Linked(e) /\ Offered(e)
  BY DEF LInv
<1>2. M \in Masters /\ P \in [Kinds -> Seq(Data)] /\ Parts(M, x, S, P) /\ Lane(M, x, S, P)
  BY <1>1, LanePart DEF Linked
<1>3. d \in Data
  BY LinkAssumption
<1>4. PICK q : q = ReadyPacket(d)
  OBVIOUS
<1>5. PICK k \in Kinds : k = IF d \in Requests THEN "down" ELSE "up"
  BY DEF Kinds
<1>6. /\ q \in IF k = "down" THEN ReqP ELSE RspP
      /\ q.CMD = d /\ q.DRTC = 0 /\ q.URTC = 0 /\ KindOf(ReadyPacket(d)) = k
  <2>1. d \in Requests \/ d \in Responses
    BY <1>3 DEF Data
  <2> QED BY <1>3, <1>4, <1>5, <2>1, MadePackets
<1>7. q \in Packets /\ q.packetType = TypeOf(k)
  BY <1>6 DEF ReqP, RspP, TypeOf
<1>8. PICK B : B = Append(MBuf(M, k), q)
  OBVIOUS
<1>9. PICK N : N = IF k = "down" THEN [M EXCEPT !.downBuffers = B] ELSE [M EXCEPT !.upBuffers = B]
  OBVIOUS
<1>10. B \in IF k = "down" THEN Seq(ReqP) ELSE Seq(RspP \cup TretP)
  <2>1. M.downBuffers \in Seq(ReqP) /\ M.upBuffers \in Seq(RspP \cup TretP)
    BY <1>2 DEF Masters
  <2>2. CASE k = "down"
    <3>1. Append(M.downBuffers, q) \in Seq(ReqP)
      BY <1>6, <2>1, <2>2, AppendFacts
    <3> QED BY <1>8, <2>2, <3>1 DEF MBuf
  <2>3. CASE k # "down"
    <3>1. q \in RspP \cup TretP
      BY <1>6, <2>3
    <3>2. Append(M.upBuffers, q) \in Seq(RspP \cup TretP)
      BY <2>1, <3>1, AppendFacts
    <3> QED BY <1>8, <2>3, <3>2 DEF MBuf
  <2> QED BY <2>2, <2>3
<1>11. N \in Masters
  <2>1. CASE k = "down"
    BY <1>2, <1>9, <1>10, <2>1 DEF Masters
  <2>2. CASE k # "down"
    BY <1>2, <1>9, <1>10, <2>2 DEF Masters
  <2> QED BY <2>1, <2>2
<1>12. /\ N.linkRxTx = M.linkRxTx /\ N.masterSEQ = M.masterSEQ
       /\ \A j \in Kinds : Tok(N, j) = Tok(M, j) /\ MBuf(N, j) = IF j = k THEN B ELSE MBuf(M, j)
  <2>1. CASE k = "down"
    BY <1>2, <1>9, <2>1 DEF Masters, Tok, MBuf
  <2>2. CASE k # "down"
    BY <1>2, <1>9, <2>2 DEF Masters, Tok, MBuf, Kinds
  <2> QED BY <2>1, <2>2
<1>13. PICK Q : Q = [P EXCEPT ![k] = Append(@, d)]
  OBVIOUS
<1>14. Q \in [Kinds -> Seq(Data)] /\ \A j \in Kinds : Q[j] = IF j = k THEN Append(P[j], d) ELSE P[j]
  <2>1. Append(P[k], d) \in Seq(Data)
    BY <1>2, <1>3, AppendFacts
  <2> QED BY <1>2, <1>13, <2>1
<1>15. Parts(N, x, S, Q)
  BY <1>2, <1>11, <1>14 DEF Parts
<1>16. /\ Lane(N, x, S, Q)
       /\ \A j \in Kinds : Out(j, N, x, S) = Out(j, M, x, S) /\ Back(j, N, x, S) = Back(j, M, x, S)
  <2>1. \A j \in Kinds : /\ Tok(N, j) = Tok(M, j)
                         /\ MBuf(N, j) = IF j = k THEN Append(MBuf(M, j), q) ELSE MBuf(M, j)
                         /\ Q[j] = IF j = k THEN Append(P[j], d) ELSE P[j]
    BY <1>8, <1>12, <1>14
  <2> HIDE DEF M, x, S, P
  <2> QED BY <1>2, <1>3, <1>6, <1>7, <1>12, <1>15, <2>1, LaneAccept
<1>17. master' = [master EXCEPT ![e] = N]
  <2>1. CASE d \in Requests
    <3>1. master' = [master EXCEPT ![e].downBuffers = Append(@, q)] /\ k = "down"
      BY <1>4, <1>5, <2>1 DEF Accept
    <3> QED BY <1>1, <1>8, <1>9, <3>1 DEF MBuf, Quiet
  <2>2. CASE d \notin Requests
    <3>1. master' = [master EXCEPT ![e].upBuffers = Append(@, q)] /\ k = "up"
      BY <1>4, <1>5, <2>2 DEF Accept
    <3> QED BY <1>1, <1>8, <1>9, <3>1 DEF MBuf, Quiet
  <2> QED BY <2>1, <2>2
<1>18. pending' = [pending EXCEPT ![e] = Q]
  <2>1. pending' = [pending EXCEPT ![e][k] = Append(@, d)]
    BY <1>6 DEF Accept
  <2> QED BY <1>1, <1>13, <2>1 DEF Quiet
<1>19. inFlightPacket' = inFlightPacket /\ slave' = slave
  BY DEF Accept
<1>20. master' \in [Ends -> Masters] /\ master'[e] = N /\ master'[Peer(e)] = master[Peer(e)]
  <2>1. master \in [Ends -> Masters]
    BY <1>1 DEF Quiet
  <2> QED BY <1>11, <1>17, <2>1, EndFacts
<1>21. /\ pending' \in [Ends -> [Kinds -> Seq(Data)]] /\ pending'[e] = Q
       /\ pending'[Peer(e)] = pending[Peer(e)]
  <2>1. pending \in [Ends -> [Kinds -> Seq(Data)]]
    BY <1>1 DEF Quiet
  <2> QED BY <1>14, <1>18, <2>1, EndFacts
<1>22. Quiet'
  BY <1>1, <1>19, <1>20, <1>21 DEF Quiet
<1>23. Linked(e)'
  BY <1>16, <1>19, <1>20, <1>21 DEF Linked
<1>24. Offered(e)'
  <2>1. \A j \in Kinds : P[j] \in Seq(Sends[e])
    BY <1>1 DEF Offered
  <2>2. Append(P[k], d) \in Seq(Sends[e])
    BY <2>1, AppendFacts
  <2> QED BY <1>14, <1>21, <2>1, <2>2 DEF Offered
<1>25. \A j \in Kinds : OutOf(e, j)' = OutOf(e, j) /\ BackBy(e, j)' = BackBy(e, j)
  BY <1>16, <1>19, <1>20 DEF OutOf, BackBy
<1> QED BY <1>19, <1>20, <1>21, <1>22, <1>23, <1>24, <1>25, OneLane

LEMMA SendStep ==
  ASSUME LInv, NEW e \in Ends, NEW k \in Kinds, MBuf(master[e], k) # <<>>,
         CanSend(master[e], MBuf(master[e], k)[1], Tok(master[e], k)),
         master' = [master EXCEPT ![e] = UpdateField(master[e], MBuf(master[e], k)[1])],
         UNCHANGED <<inFlightPacket, slave, noise, pending>>
  PROVE  LInv'
<1> DEFINE M == master[e]
           x == inFlightPacket[e]
           S == slave[Peer(e)]
           P == pending[e]
<1>1. Quiet /\ Linked(e) /\ Offered(e)
  BY DEF LInv
<1>2. M \in Masters /\ Parts(M, x, S, P) /\ Lane(M, x, S, P)
  BY <1>1, LanePart DEF Linked
<1>3. PICK p : p = MBuf(M, k)[1]
  OBVIOUS
<1>4. IF k = "down" THEN p \in ReqP ELSE p \in RspP \cup TretP
  <2>1. M.downBuffers \in Seq(ReqP) /\ M.upBuffers \in Seq(RspP \cup TretP)
    BY <1>2 DEF Masters
  <2> QED BY <1>3, <2>1, TailFacts DEF MBuf
<1>5. /\ p \in ReqP \cup RspP \cup TretP /\ p \in Packets /\ p.CMD # "PRET"
      /\ (p \in ReqP <=> k = "down")
      /\ p.packetType \in {TypeOf(k), "FLOW"} /\ (p \in RspP <=> k = "up" /\ p.packetType # "FLOW")
      /\ (p.packetType = "FLOW" <=> p \in TretP) /\ (p.packetType = "REQUEST" <=> p \in ReqP)
      /\ (p.packetType = "RESPONSE" <=> p \in RspP)
  BY <1>4, Commands DEF ReqP, RspP, TretP, TypeOf, Kinds, FlowCMD, Data
<1>6. IF p \in ReqP THEN M.downBuffers # <<>> ELSE M.upBuffers # <<>>
  BY <1>5 DEF MBuf
<1>7. PICK N : N = UpdateField(M, p)
  OBVIOUS
<1>8. PICK q \in SentP :
        /\ Resembles(q, p) /\ q.SEQ = Num(M.masterSEQ)
        /\ N \in Masters
        /\ N.linkRxTx = Append(M.linkRxTx, q) /\ N.masterSEQ = Next_SEQ(M.masterSEQ)
        /\ N.downTokenCount = IF p \in ReqP THEN M.downTokenCount - p.LNG ELSE M.downTokenCount
        /\ N.upTokenCount = IF p \in RspP THEN M.upTokenCount - p.LNG ELSE M.upTokenCount
        /\ N.downBuffers = IF p \in ReqP THEN Tail(M.downBuffers) ELSE M.downBuffers
        /\ N.upBuffers = IF p \in ReqP THEN M.upBuffers ELSE Tail(M.upBuffers)
  BY <1>2, <1>5, <1>6, <1>7, SendEffect, Zenon
<1>9. /\ q \in Packets /\ q.packetType = p.packetType /\ q.CMD = p.CMD /\ q.LNG = p.LNG
      /\ p.LNG \in Nat
  BY <1>5, <1>8, PacketKinds DEF Resembles, Packets
<1>10. \A j \in Kinds : MBuf(N, j) = IF j = k THEN Tail(MBuf(M, j)) ELSE MBuf(M, j)
  BY <1>5, <1>8 DEF MBuf, Kinds
<1>11. \A j \in Kinds : Tok(N, j) = Tok(M, j) - Lng(j)[q]
  <2>0. M.downTokenCount \in Int /\ M.upTokenCount \in Int
    BY <1>2 DEF Masters
  <2>1. Lng("down")[q] = IF p \in ReqP THEN p.LNG ELSE 0
    BY <1>5, <1>9 DEF Lng, TypeOf
  <2>2. Lng("up")[q] = IF p \in RspP THEN p.LNG ELSE 0
    BY <1>5, <1>9 DEF Lng, TypeOf
  <2>3. N.downTokenCount = M.downTokenCount - Lng("down")[q]
    BY <1>8, <2>0, <2>1
  <2>4. N.upTokenCount = M.upTokenCount - Lng("up")[q]
    BY <1>8, <2>0, <2>2
  <2> QED BY <2>3, <2>4 DEF Tok, Kinds
<1>12. q.packetType = TypeOf(k) => Tok(M, k) >= q.LNG
  BY <1>3, <1>9 DEF CanSend, TypeOf
<1>13. Parts(N, x, S, P)
  BY <1>2, <1>8 DEF Parts
<1>14. /\ Lane(N, x, S, P)
       /\ \A j \in Kinds : Out(j, N, x, S) = Out(j, M, x, S) /\ Back(j, N, x, S) = Back(j, M, x, S)
  <2>1. Resembles(q, MBuf(M, k)[1]) /\ q.CMD # "PRET" /\ q.packetType \in {TypeOf(k), "FLOW"}
    BY <1>3, <1>5, <1>8, <1>9
  <2> QED BY <1>2, <1>8, <1>9, <1>10, <1>11, <1>12, <1>13, <2>1, LaneSend, SMTT(60)
<1>15. master' \in [Ends -> Masters] /\ master'[e] = N /\ master'[Peer(e)] = master[Peer(e)]
  <2>1. master \in [Ends -> Masters]
    BY <1>1 DEF Quiet
  <2>2. master' = [master EXCEPT ![e] = N]
    BY <1>3, <1>7
  <2> QED BY <1>8, <2>1, <2>2, EndFacts
<1>16. Quiet'
  BY <1>1, <1>15 DEF Quiet
<1>17. Linked(e)'
  BY <1>14, <1>15 DEF Linked
<1>18. Offered(e)'
  BY <1>1 DEF Offered
<1>19. \A j \in Kinds : OutOf(e, j)' = OutOf(e, j) /\ BackBy(e, j)' = BackBy(e, j)
  BY <1>14, <1>15 DEF OutOf, BackBy
<1> QED BY <1>15, <1>16, <1>17, <1>18, <1>19, OneLane

LEMMA TransmitStep ==
  ASSUME LInv, NEW e \in Ends, Transmit(e)
  PROVE  LInv'
<1> DEFINE M == master[e]
           x == inFlightPacket[e]
           S == slave[Peer(e)]
           P == pending[e]
<1>1. Quiet /\ Linked(e) /\ Offered(e)
  BY DEF LInv
<1>2. M \in Masters /\ Parts(M, x, S, P) /\ Lane(M, x, S, P)
  BY <1>1, LanePart DEF Linked
<1>3. x = NULL /\ M.linkRxTx # <<>>
  BY DEF Transmit
<1>4. PICK p : p = M.linkRxTx[1]
  OBVIOUS
<1>5. M.linkRxTx \in Seq(SentP)
  BY <1>2 DEF Masters
<1>6. p \in SentP /\ Tail(M.linkRxTx) \in Seq(SentP)
  BY <1>3, <1>4, <1>5, TailFacts
<1>7. PICK L : L = Tail(M.linkRxTx)
  OBVIOUS
<1>8. PICK N : N = [M EXCEPT !.linkRxTx = L]
  OBVIOUS
<1>9. N \in Masters
  BY <1>2, <1>6, <1>7, <1>8 DEF Masters
<1>10. /\ N.linkRxTx = L /\ N.masterSEQ = M.masterSEQ
       /\ \A j \in Kinds : MBuf(N, j) = MBuf(M, j) /\ Tok(N, j) = Tok(M, j)
  BY <1>2, <1>8 DEF Masters, MBuf, Tok
<1>11. Parts(N, p, S, P)
  BY <1>2, <1>6, <1>9 DEF Parts
<1>12. Way(N, p, S) = Way(M, x, S)
  <2>1. N.linkRxTx = Tail(M.linkRxTx)
    BY <1>7, <1>10
  <2> HIDE DEF M, x, S, P
  <2>2. Way(N, M.linkRxTx[1], S) = Way(M, x, S)
    BY <1>2, <1>3, <2>1, WayTransmit
  <2> QED BY <1>4, <2>2
<1>13. \A q : Alike(q, q)
  BY DEF Alike, Resembles
<1>14. /\ Lane(N, p, S, P)
       /\ \A j \in Kinds : Out(j, N, p, S) = Out(j, M, x, S) /\ Back(j, N, p, S) = Back(j, M, x, S)
  <2>1. /\ Len(Way(M, x, S)) = Len(Way(N, p, S))
        /\ \A i \in 1..Len(Way(M, x, S)) : Alike(Way(N, p, S)[i], Way(M, x, S)[i])
    BY <1>12, <1>13
  <2>2. \A j \in Kinds : MBuf(N, j) = MBuf(M, j) /\ Tok(N, j) = Tok(M, j) /\ SBuf(S, j) = SBuf(S, j)
    BY <1>10
  <2> HIDE DEF M, x, S, P
  <2> QED BY <1>2, <1>10, <1>11, <2>1, <2>2, LaneMoves
<1>15. master' \in [Ends -> Masters] /\ master'[e] = N /\ master'[Peer(e)] = master[Peer(e)]
  <2>1. master \in [Ends -> Masters]
    BY <1>1 DEF Quiet
  <2>2. master' = [master EXCEPT ![e] = N]
    BY <1>7, <1>8, <2>1 DEF Transmit
  <2> QED BY <1>9, <2>1, <2>2, EndFacts
<1>16. /\ inFlightPacket' \in [Ends -> SentP \cup {NULL}] /\ inFlightPacket'[e] = p
       /\ inFlightPacket'[Peer(e)] = inFlightPacket[Peer(e)]
  <2>1. inFlightPacket \in [Ends -> SentP \cup {NULL}]
    BY <1>1 DEF Quiet
  <2>2. inFlightPacket' = [inFlightPacket EXCEPT ![e] = p]
    BY <1>4 DEF Transmit
  <2> QED BY <1>6, <2>1, <2>2, EndFacts
<1>17. slave' = slave /\ pending' = pending
  BY DEF Transmit
<1>18. Quiet'
  BY <1>1, <1>15, <1>16, <1>17 DEF Quiet
<1>19. Linked(e)' /\ Offered(e)'
  BY <1>1, <1>14, <1>15, <1>16, <1>17 DEF Linked, Offered
<1>20. \A j \in Kinds : OutOf(e, j)' = OutOf(e, j) /\ BackBy(e, j)' = BackBy(e, j)
  BY <1>14, <1>15, <1>16, <1>17 DEF OutOf, BackBy
<1> QED BY <1>15, <1>16, <1>17, <1>18, <1>19, <1>20, OneLane

LEMMA ArriveStep ==
  ASSUME LInv, NEW e \in Ends, Arrive(e), noise \in Nat, Clean'
  PROVE  LInv'
<1> DEFINE M == master[e]
           x == inFlightPacket[e]
           S == slave[Peer(e)]
           P == pending[e]
<1>1. Quiet /\ Linked(e) /\ Offered(e)
  BY DEF LInv
<1>2. S \in Slaves /\ Parts(M, x, S, P) /\ Lane(M, x, S, P)
  BY <1>1, LanePart, EndFacts DEF Linked
<1>3. x # NULL /\ x \in SentP
  BY <1>2 DEF Arrive, Parts
<1>4. PICK bad \in BOOLEAN :
        /\ slave' = [slave EXCEPT ![Peer(e)].linkRxTx = Append(@, [x EXCEPT !.CRC = ~bad])]
        /\ noise' = IF bad THEN noise + 1 ELSE noise
  BY DEF Arrive
<1>5. CRC_CHECK => ~bad
  BY <1>4 DEF Clean
<1>6. PICK q : q = [x EXCEPT !.CRC = ~bad]
  OBVIOUS
<1>7. q \in SentP /\ Alike(q, x)
  <2>1. x \in Packets
    BY <1>3, PacketKinds
  <2>2. /\ q \in Packets /\ q.CRC = ~bad
        /\ q.packetType = x.packetType /\ q.CMD = x.CMD /\ q.LNG = x.LNG
        /\ q.URTC = x.URTC /\ q.DRTC = x.DRTC /\ q.SEQ = x.SEQ
    BY <1>6, <2>1 DEF Packets
  <2>3. q \in ReqP \cup RspP \cup TretP \cup PretP
    BY <1>3, <2>2 DEF SentP, ReqP, RspP, TretP, PretP
  <2> QED BY <1>5, <2>2, <2>3 DEF SentP, Alike, Resembles
<1>8. PICK L : L = Append(S.linkRxTx, q)
  OBVIOUS
<1>9. L \in Seq(SentP)
  <2>1. S.linkRxTx \in Seq(SentP)
    BY <1>2 DEF Slaves
  <2> QED BY <1>7, <1>8, <2>1, AppendFacts
<1>10. PICK R : R = [S EXCEPT !.linkRxTx = L]
  OBVIOUS
<1>11. R \in Slaves
  BY <1>2, <1>9, <1>10 DEF Slaves
<1>12. /\ R.linkRxTx = L /\ R.slaveSEQ = S.slaveSEQ /\ \A j \in Kinds : SBuf(R, j) = SBuf(S, j)
  BY <1>2, <1>10 DEF Slaves, SBuf
<1>13. Parts(M, NULL, R, P)
  BY <1>2, <1>11 DEF Parts
<1>14. /\ Lane(M, NULL, R, P)
       /\ \A j \in Kinds : Out(j, M, NULL, R) = Out(j, M, x, S) /\ Back(j, M, NULL, R) = Back(j, M, x, S)
  <2>0. R.linkRxTx = Append(S.linkRxTx, q) /\ q \in Packets
    BY <1>7, <1>8, <1>12, PacketKinds
  <2>1. /\ Len(Way(M, x, S)) = Len(Way(M, NULL, R))
        /\ \A i \in 1..Len(Way(M, x, S)) : Alike(Way(M, NULL, R)[i], Way(M, x, S)[i])
    <3> HIDE DEF M, x, S, P
    <3> QED BY <1>2, <1>3, <1>7, <2>0, WayArrive
  <2>2. \A j \in Kinds : MBuf(M, j) = MBuf(M, j) /\ Tok(M, j) = Tok(M, j) /\ SBuf(R, j) = SBuf(S, j)
    BY <1>12
  <2> HIDE DEF M, x, S, P
  <2> QED BY <1>2, <1>12, <1>13, <2>1, <2>2, LaneMoves
<1>15. slave' \in [Ends -> Slaves] /\ slave'[Peer(e)] = R /\ slave'[e] = slave[e]
  <2>1. slave \in [Ends -> Slaves]
    BY <1>1 DEF Quiet
  <2>2. slave' = [slave EXCEPT ![Peer(e)] = R]
    BY <1>4, <1>6, <1>8, <1>10, <2>1, EndFacts
  <2> QED BY <1>11, <2>1, <2>2, EndFacts
<1>16. /\ inFlightPacket' \in [Ends -> SentP \cup {NULL}] /\ inFlightPacket'[e] = NULL
       /\ inFlightPacket'[Peer(e)] = inFlightPacket[Peer(e)]
  <2>1. inFlightPacket \in [Ends -> SentP \cup {NULL}]
    BY <1>1 DEF Quiet
  <2>2. inFlightPacket' = [inFlightPacket EXCEPT ![e] = NULL]
    BY DEF Arrive
  <2> QED BY <2>1, <2>2, EndFacts
<1>17. master' = master /\ pending' = pending
  BY DEF Arrive
<1>18. Quiet'
  BY <1>1, <1>15, <1>16, <1>17 DEF Quiet
<1>19. Linked(e)' /\ Offered(e)'
  BY <1>1, <1>14, <1>15, <1>16, <1>17 DEF Linked, Offered
<1>20. \A j \in Kinds : OutOf(e, j)' = OutOf(e, j) /\ BackBy(e, j)' = BackBy(e, j)
  BY <1>14, <1>15, <1>16, <1>17 DEF OutOf, BackBy
<1> QED BY <1>15, <1>16, <1>17, <1>18, <1>19, <1>20, OneLane

LEMMA PRETStep ==
  ASSUME LInv, NEW e \in Ends, ReceivePRET(e)
  PROVE  LInv'
<1> DEFINE f == Peer(e)
           S == slave[e]
           M == master[e]
<1>0. f \in Ends /\ Peer(f) = e /\ f # e
  BY EndFacts
<1>1. Quiet /\ Linked(e) /\ Linked(f) /\ Offered(e) /\ Offered(f)
  BY <1>0 DEF LInv
<1>2. /\ M \in Masters /\ S \in Slaves
      /\ Parts(M, inFlightPacket[e], slave[f], pending[e])
      /\ Lane(M, inFlightPacket[e], slave[f], pending[e])
      /\ Parts(master[f], inFlightPacket[f], S, pending[f])
      /\ Lane(master[f], inFlightPacket[f], S, pending[f])
  BY <1>0, <1>1, LanePart DEF Linked
<1>3. S.linkRxTx \in Seq(SentP) /\ S.linkRxTx # <<>> /\ S.linkRxTx[1].CMD = "PRET"
  BY <1>2 DEF ReceivePRET, Slaves
<1>4. PICK p : p = S.linkRxTx[1]
  OBVIOUS
<1>5. p \in PretP /\ p \in Packets /\ Tail(S.linkRxTx) \in Seq(SentP)
  <2>1. p \in SentP /\ Tail(S.linkRxTx) \in Seq(SentP)
    BY <1>3, <1>4, TailFacts
  <2> QED BY <1>3, <1>4, <2>1, PacketKinds
<1>6. PICK N : N = UpdateRetryPointer(M, p)
  OBVIOUS
<1>7. /\ N \in Masters
      /\ N.upBuffers = M.upBuffers /\ N.downBuffers = M.downBuffers /\ N.linkRxTx = M.linkRxTx
      /\ N.upTokenCount = M.upTokenCount /\ N.downTokenCount = M.downTokenCount
      /\ N.masterSEQ = M.masterSEQ
  BY <1>2, <1>5, <1>6, RetryPointerStays
<1>8. PICK L : L = Tail(S.linkRxTx)
  OBVIOUS
<1>9. PICK R : R = [S EXCEPT !.linkRxTx = L]
  OBVIOUS
<1>10. R \in Slaves
  BY <1>2, <1>5, <1>8, <1>9 DEF Slaves
<1>11. /\ R.linkRxTx = L /\ R.slaveSEQ = S.slaveSEQ /\ \A j \in Kinds : SBuf(R, j) = SBuf(S, j)
  BY <1>2, <1>9 DEF Slaves, SBuf
<1>12. /\ Lane(N, inFlightPacket[e], slave[f], pending[e])
       /\ \A j \in Kinds : /\ Out(j, N, inFlightPacket[e], slave[f]) = Out(j, M, inFlightPacket[e], slave[f])
                           /\ Back(j, N, inFlightPacket[e], slave[f]) = Back(j, M, inFlightPacket[e], slave[f])
  <2>1. PICK x, T, P : x = inFlightPacket[e] /\ T = slave[f] /\ P = pending[e]
    OBVIOUS
  <2>2. Lane(M, x, T, P) /\ Parts(M, x, T, P)
    BY <1>2, <2>1
  <2>3. Parts(N, x, T, P)
    BY <1>7, <2>2 DEF Parts
  <2>4. Way(N, x, T) = Way(M, x, T)
    BY <1>7 DEF Way
  <2>5. \A j \in Kinds : MBuf(N, j) = MBuf(M, j) /\ Tok(N, j) = Tok(M, j)
    BY <1>7 DEF MBuf, Tok
  <2>6. Lane(N, x, T, P)
    BY <1>7, <2>2, <2>3, <2>4, <2>5 DEF Lane, Ordered
  <2>7. "down" \in Kinds /\ "up" \in Kinds
    BY DEF Kinds
  <2>8. \A j \in Kinds : Out(j, N, x, T) = Out(j, M, x, T) /\ Back(j, N, x, T) = Back(j, M, x, T)
    BY <2>4, <2>5, <2>7 DEF Out, Back
  <2> QED BY <2>1, <2>6, <2>8
<1>13. /\ Lane(master[f], inFlightPacket[f], R, pending[f])
       /\ \A j \in Kinds : /\ Out(j, master[f], inFlightPacket[f], R) = Out(j, master[f], inFlightPacket[f], S)
                           /\ Back(j, master[f], inFlightPacket[f], R) = Back(j, master[f], inFlightPacket[f], S)
  <2>1. PICK x, T, P : x = inFlightPacket[f] /\ T = master[f] /\ P = pending[f]
    OBVIOUS
  <2>2. Lane(T, x, S, P) /\ Parts(T, x, S, P)
    BY <1>2, <2>1
  <2>3. Parts(T, x, R, P)
    BY <1>10, <2>2 DEF Parts
  <2>4. S.linkRxTx[1] \in PretP /\ R.linkRxTx = Tail(S.linkRxTx)
    BY <1>4, <1>5, <1>8, <1>11
  <2>5. /\ Lane(T, x, R, P)
        /\ \A j \in Kinds : Out(j, T, x, R) = Out(j, T, x, S) /\ Back(j, T, x, R) = Back(j, T, x, S)
    <3> HIDE DEF S, M, f
    <3> QED BY <1>3, <1>11, <2>2, <2>3, <2>4, LanePret
  <2> QED BY <2>1, <2>5
<1>14. master' \in [Ends -> Masters] /\ master'[e] = N /\ master'[f] = master[f]
  <2>1. master \in [Ends -> Masters]
    BY <1>1 DEF Quiet
  <2>2. master' = [master EXCEPT ![e] = N]
    BY <1>4, <1>6 DEF ReceivePRET
  <2> QED BY <1>0, <1>7, <2>1, <2>2
<1>15. slave' \in [Ends -> Slaves] /\ slave'[e] = R /\ slave'[f] = slave[f]
  <2>1. slave \in [Ends -> Slaves]
    BY <1>1 DEF Quiet
  <2>2. slave' = [slave EXCEPT ![e] = R]
    BY <1>8, <1>9, <2>1 DEF ReceivePRET
  <2> QED BY <1>0, <1>10, <2>1, <2>2
<1>16. inFlightPacket' = inFlightPacket /\ pending' = pending
  BY DEF ReceivePRET
<1>17. Quiet'
  BY <1>1, <1>14, <1>15, <1>16 DEF Quiet
<1>18. Linked(e)' /\ Linked(f)' /\ Offered(e)' /\ Offered(f)'
  BY <1>0, <1>1, <1>12, <1>13, <1>14, <1>15, <1>16 DEF Linked, Offered
<1>19. \A j \in Kinds : /\ OutOf(e, j)' = OutOf(e, j) /\ BackBy(e, j)' = BackBy(e, j)
                        /\ OutOf(f, j)' = OutOf(f, j) /\ BackBy(f, j)' = BackBy(f, j)
  BY <1>0, <1>12, <1>13, <1>14, <1>15, <1>16 DEF OutOf, BackBy
<1> QED BY <1>17, <1>18, <1>19, TwoLanes

LEMMA StoredEffect ==
  ASSUME NEW S \in Slaves, S.linkRxTx # <<>>, NEW p, p = S.linkRxTx[1], p.CMD # "PRET"
  PROVE  LET R == Stored(p, [S EXCEPT !.linkRxTx = Tail(@), !.slaveSEQ = Next_SEQ(@)]) IN
         /\ R \in Slaves /\ R.linkRxTx = Tail(S.linkRxTx) /\ R.slaveSEQ = Next_SEQ(S.slaveSEQ)
         /\ \A j \in Kinds : SBuf(R, j) = IF p.packetType = TypeOf(j) THEN Append(SBuf(S, j), p)
                                                                      ELSE SBuf(S, j)
<1>1. /\ S.linkRxTx \in Seq(SentP) /\ S.upBuffers \in Seq(RspP) /\ S.downBuffers \in Seq(ReqP)
      /\ S.slaveSEQ \in 0..MaxSEQ
  BY DEF Slaves
<1>2. p \in SentP /\ Tail(S.linkRxTx) \in Seq(SentP)
  BY <1>1, TailFacts
<1>3. PICK L, n : L = Tail(S.linkRxTx) /\ n = Next_SEQ(S.slaveSEQ)
  OBVIOUS
<1>4. L \in Seq(SentP) /\ n \in 0..MaxSEQ
  BY <1>1, <1>2, <1>3, NextCount
<1>5. PICK T : T = [S EXCEPT !.linkRxTx = L, !.slaveSEQ = n]
  OBVIOUS
<1>6. T = [S EXCEPT !.linkRxTx = Tail(@), !.slaveSEQ = Next_SEQ(@)]
  BY <1>3, <1>5
<1>7. T \in Slaves
  BY <1>4, <1>5 DEF Slaves
<1>8. T.linkRxTx = L /\ T.slaveSEQ = n /\ T.upBuffers = S.upBuffers /\ T.downBuffers = S.downBuffers
  BY <1>5 DEF Slaves
<1>9. PICK R : R = Stored(p, T)
  OBVIOUS
<1>10. R \in Slaves /\ R.linkRxTx = L /\ R.slaveSEQ = n
       /\ \A j \in Kinds : SBuf(R, j) = IF p.packetType = TypeOf(j) THEN Append(SBuf(S, j), p)
                                                                    ELSE SBuf(S, j)
  <2>1. CASE p \in ReqP
    <3>1. p.CMD # "TRET" /\ p.packetType = "REQUEST"
      BY <1>2, <2>1, PacketKinds, Commands DEF ReqP, FlowCMD
    <3>2. PICK B : B = Append(S.downBuffers, p)
      OBVIOUS
    <3>3. B \in Seq(ReqP)
      BY <1>1, <2>1, <3>2, AppendFacts
    <3>4. R = [T EXCEPT !.downBuffers = B]
      BY <1>8, <1>9, <3>1, <3>2 DEF Stored
    <3>5. R \in Slaves
      BY <1>7, <3>3, <3>4 DEF Slaves
    <3>6. R.linkRxTx = L /\ R.slaveSEQ = n /\ R.downBuffers = B /\ R.upBuffers = S.upBuffers
      BY <1>7, <1>8, <3>4 DEF Slaves
    <3> QED BY <3>1, <3>2, <3>5, <3>6 DEF SBuf, TypeOf
  <2>2. CASE p \in RspP
    <3>1. p.CMD # "TRET" /\ p.packetType = "RESPONSE"
      BY <1>2, <2>2, PacketKinds, Commands DEF RspP, FlowCMD
    <3>2. PICK B : B = Append(S.upBuffers, p)
      OBVIOUS
    <3>3. B \in Seq(RspP)
      BY <1>1, <2>2, <3>2, AppendFacts
    <3>4. R = [T EXCEPT !.upBuffers = B]
      BY <1>8, <1>9, <3>1, <3>2 DEF Stored
    <3>5. R \in Slaves
      BY <1>7, <3>3, <3>4 DEF Slaves
    <3>6. R.linkRxTx = L /\ R.slaveSEQ = n /\ R.upBuffers = B /\ R.downBuffers = S.downBuffers
      BY <1>7, <1>8, <3>4 DEF Slaves
    <3> QED BY <3>1, <3>2, <3>5, <3>6 DEF SBuf, TypeOf
  <2>3. CASE p \in TretP
    <3>1. p.CMD = "TRET" /\ p.packetType = "FLOW"
      BY <2>3 DEF TretP
    <3>2. R = T
      BY <1>9, <3>1 DEF Stored
    <3> QED BY <1>7, <1>8, <3>1, <3>2 DEF SBuf, TypeOf
  <2> QED BY <1>2, <2>1, <2>2, <2>3, PacketKinds DEF SentP
<1> QED BY <1>3, <1>6, <1>9, <1>10

(* What a slave that receives a packet does to its buffers and to the      *)
(* packets that it still has to accept.                                    *)
LEMMA ReceiveMoves ==
  ASSUME LInv, NEW e \in Ends, ReceivePacket(e), NEW p, p = slave[e].linkRxTx[1]
  PROVE  /\ slave' \in [Ends -> Slaves] /\ slave'[Peer(e)] = slave[Peer(e)]
         /\ slave'[e].linkRxTx = Tail(slave[e].linkRxTx)
         /\ slave'[e].slaveSEQ = Next_SEQ(slave[e].slaveSEQ)
         /\ \A j \in Kinds : SBuf(slave'[e], j) = IF p.packetType = TypeOf(j) THEN Append(SBuf(slave[e], j), p)
                                                                             ELSE SBuf(slave[e], j)
         /\ pending' \in [Ends -> [Kinds -> Seq(Data)]] /\ pending'[e] = pending[e]
         /\ \A j \in Kinds : pending'[Peer(e)][j] = IF p.packetType = TypeOf(j) THEN Tail(pending[Peer(e)][j])
                                                                               ELSE pending[Peer(e)][j]
         /\ \A j \in Kinds : p.packetType = TypeOf(j) => /\ pending[Peer(e)][j] # <<>>
                                                        /\ pending[Peer(e)][j][1] = p.CMD
<1> DEFINE f == Peer(e)
           S == slave[e]
           M == master[e]
<1>0. f \in Ends /\ Peer(f) = e /\ f # e
  BY EndFacts
<1>1. Quiet /\ Linked(e) /\ Linked(f) /\ Offered(e) /\ Offered(f)
  BY <1>0 DEF LInv
<1>2. /\ M \in Masters /\ S \in Slaves
      /\ Parts(M, inFlightPacket[e], slave[f], pending[e])
      /\ Lane(M, inFlightPacket[e], slave[f], pending[e])
      /\ Parts(master[f], inFlightPacket[f], S, pending[f])
      /\ Lane(master[f], inFlightPacket[f], S, pending[f])
  BY <1>0, <1>1, LanePart DEF Linked
<1>3. /\ S.linkRxTx \in Seq(SentP) /\ S.linkRxTx # <<>> /\ S.linkRxTx[1].CMD # "PRET"
  BY <1>2 DEF ReceivePacket, Sequenced, Slaves
<1>5. p \in SentP /\ p \in Packets /\ p.CMD # "PRET"
  BY <1>3, TailFacts, PacketKinds
<1>4. p = S.linkRxTx[1]
  OBVIOUS
<1>8. PICK R : R = Stored(p, [S EXCEPT !.linkRxTx = Tail(@), !.slaveSEQ = Next_SEQ(@)])
  OBVIOUS
<1>9. /\ R \in Slaves /\ R.linkRxTx = Tail(S.linkRxTx) /\ R.slaveSEQ = Next_SEQ(S.slaveSEQ)
      /\ \A j \in Kinds : SBuf(R, j) = IF p.packetType = TypeOf(j) THEN Append(SBuf(S, j), p)
                                                                   ELSE SBuf(S, j)
  <2> HIDE DEF S, f
  <2> QED BY <1>2, <1>3, <1>4, <1>5, <1>8, StoredEffect, Zenon
<1>11. PICK Q : Q = [pending[f] EXCEPT ![KindOf(p)] = RemoveFirst(@, p.CMD)]
  OBVIOUS
<1>12. /\ Q \in [Kinds -> Seq(Data)]
       /\ \A j \in Kinds :
            Q[j] = IF p.packetType = TypeOf(j) THEN Tail(pending[f][j]) ELSE pending[f][j]
       /\ \A j \in Kinds : p.packetType = TypeOf(j) => pending[f][j] # <<>> /\ pending[f][j][1] = p.CMD
  <2>1. PICK P : P = pending[f]
    OBVIOUS
  <2>2. P \in [Kinds -> Seq(Data)] /\ Ordered(master[f], inFlightPacket[f], S, P)
    BY <1>2, <2>1 DEF Parts, Lane
  <2>3. PICK W \in Seq(Packets) : W = Way(master[f], inFlightPacket[f], S)
    BY <1>2, LaneSeqs
  <2>4. W # <<>> /\ W[1] = p
    <3>1. Shorter(R.linkRxTx, S.linkRxTx, p)
      BY <1>3, <1>9 DEF Shorter
    <3>2. Shorter(Way(master[f], inFlightPacket[f], R), Way(master[f], inFlightPacket[f], S), p)
      BY <1>2, <3>1, WayTail, Zenon
    <3> QED BY <2>3, <3>2 DEF Shorter
  <2>5. ASSUME NEW j \in Kinds, p.packetType = TypeOf(j)
        PROVE  P[j] # <<>> /\ P[j][1] = p.CMD
    <3>1. Matches(j, P[j], W, MBuf(master[f], j))
      BY <2>2, <2>3 DEF Ordered
    <3> QED BY <2>4, <2>5, <3>1, MatchesTail
  <2>6. ASSUME NEW j \in Kinds, p.packetType = TypeOf(j)
        PROVE  RemoveFirst(P[j], p.CMD) = Tail(P[j]) /\ Tail(P[j]) \in Seq(Data) /\ KindOf(p) = j
    <3>1. P[j] \in Seq(Data) /\ P[j] # <<>> /\ p.CMD = P[j][1]
      BY <2>2, <2>5, <2>6
    <3>2. RemoveFirst(P[j], P[j][1]) = Tail(P[j])
      BY <3>1, RemoveHead
    <3>3. Tail(P[j]) \in Seq(Data)
      BY <3>1, TailFacts
    <3>4. KindOf(p) = j
      BY <2>6 DEF KindOf, TypeOf, Kinds
    <3> QED BY <3>1, <3>2, <3>3, <3>4
  <2>7. CASE p \in TretP
    <3>1. p.CMD = "TRET" /\ p.packetType = "FLOW" /\ KindOf(p) = "up"
      BY <2>7 DEF TretP, KindOf
    <3>2. p.CMD \notin Data /\ "up" \in Kinds
      BY <3>1, Commands DEF FlowCMD, Kinds
    <3>3. RemoveFirst(P["up"], p.CMD) = P["up"]
      BY <2>2, <3>2, RemoveOther
    <3>4. Q = P
      BY <1>11, <2>1, <2>2, <3>1, <3>3
    <3>5. \A j : p.packetType # TypeOf(j)
      BY <3>1 DEF TypeOf
    <3> QED BY <2>1, <2>2, <3>4, <3>5
  <2>8. CASE p \in ReqP \cup RspP
    <3>1. PICK i \in Kinds : p.packetType = TypeOf(i)
      BY <2>8 DEF ReqP, RspP, TypeOf, Kinds
    <3>2. Q = [P EXCEPT ![i] = Tail(P[i])] /\ Tail(P[i]) \in Seq(Data)
      BY <1>11, <2>1, <2>6, <3>1
    <3>3. \A j \in Kinds : p.packetType = TypeOf(j) <=> j = i
      BY <3>1 DEF TypeOf, Kinds
    <3> QED BY <2>1, <2>2, <2>5, <3>2, <3>3
  <2> QED BY <1>5, <2>1, <2>5, <2>7, <2>8, PacketKinds DEF SentP
<1>15. slave' \in [Ends -> Slaves] /\ slave'[e] = R /\ slave'[f] = slave[f]
  <2>1. slave \in [Ends -> Slaves]
    BY <1>1 DEF Quiet
  <2>2. slave' = [slave EXCEPT ![e] = R]
    BY <1>8 DEF ReceivePacket
  <2> QED BY <1>0, <1>9, <2>1, <2>2
<1>17. /\ pending' \in [Ends -> [Kinds -> Seq(Data)]] /\ pending'[e] = pending[e] /\ pending'[f] = Q
  <2>1. pending \in [Ends -> [Kinds -> Seq(Data)]]
    BY <1>1 DEF Quiet
  <2>2. pending' = [pending EXCEPT ![f] = Q]
    <3>1. pending' = [pending EXCEPT ![f][KindOf(p)] = RemoveFirst(@, p.CMD)]
      BY DEF ReceivePacket
    <3> QED BY <1>0, <1>11, <2>1, <3>1
  <2> QED BY <1>0, <1>12, <2>1, <2>2
<1> QED BY <1>9, <1>12, <1>15, <1>17

LEMMA ReceiveStep ==
  ASSUME LInv, NEW e \in Ends, ReceivePacket(e)
  PROVE  LInv'
<1> DEFINE f == Peer(e)
           S == slave[e]
           M == master[e]
<1>0. f \in Ends /\ Peer(f) = e /\ f # e
  BY EndFacts
<1>1. Quiet /\ Linked(e) /\ Linked(f) /\ Offered(e) /\ Offered(f)
  BY <1>0 DEF LInv
<1>2. /\ M \in Masters /\ S \in Slaves
      /\ Parts(M, inFlightPacket[e], slave[f], pending[e])
      /\ Lane(M, inFlightPacket[e], slave[f], pending[e])
      /\ Parts(master[f], inFlightPacket[f], S, pending[f])
      /\ Lane(master[f], inFlightPacket[f], S, pending[f])
  BY <1>0, <1>1, LanePart DEF Linked
<1>3. /\ S.linkRxTx \in Seq(SentP) /\ S.linkRxTx # <<>> /\ S.linkRxTx[1].CMD # "PRET"
  BY <1>2 DEF ReceivePacket, Sequenced, Slaves
<1>4. PICK p : p = S.linkRxTx[1]
  OBVIOUS
<1>5. p \in SentP /\ p \in Packets /\ p.CMD # "PRET"
  BY <1>3, <1>4, TailFacts, PacketKinds
<1>6. PICK N : N = UpdateToken(ReturnRetryPointer(UpdateRetryPointer(M, p), p), p)
  OBVIOUS
<1>7. /\ N \in Masters
      /\ N.upBuffers = M.upBuffers /\ N.downBuffers = M.downBuffers
      /\ N.upTokenCount = M.upTokenCount + p.URTC
      /\ N.downTokenCount = M.downTokenCount + p.DRTC
      /\ N.masterSEQ = M.masterSEQ
      /\ \/ N.linkRxTx = M.linkRxTx
         \/ \E r \in PretP : r \in SentP /\ N.linkRxTx = Append(M.linkRxTx, r)
  BY <1>2, <1>5, <1>6, ReceiveEffect, Zenon
<1>8. PICK R, Q : R = slave'[e] /\ Q = pending'[f]
  OBVIOUS
<1>9. /\ slave' \in [Ends -> Slaves] /\ slave'[f] = slave[f]
      /\ R.linkRxTx = Tail(S.linkRxTx) /\ R.slaveSEQ = Next_SEQ(S.slaveSEQ)
      /\ \A j \in Kinds : SBuf(R, j) = IF p.packetType = TypeOf(j) THEN Append(SBuf(S, j), p)
                                                                   ELSE SBuf(S, j)
      /\ pending' \in [Ends -> [Kinds -> Seq(Data)]] /\ pending'[e] = pending[e]
      /\ \A j \in Kinds : Q[j] = IF p.packetType = TypeOf(j) THEN Tail(pending[f][j]) ELSE pending[f][j]
  BY <1>4, <1>8, ReceiveMoves
<1>10. /\ Lane(N, inFlightPacket[e], slave[f], pending[e])
       /\ \A j \in Kinds : /\ Out(j, N, inFlightPacket[e], slave[f])
                                = Out(j, M, inFlightPacket[e], slave[f]) + Ret(j)[p]
                           /\ Back(j, N, inFlightPacket[e], slave[f]) = Back(j, M, inFlightPacket[e], slave[f])
  <2>1. PICK x, T, P : x = inFlightPacket[e] /\ T = slave[f] /\ P = pending[e]
    OBVIOUS
  <2>2. Lane(M, x, T, P) /\ Parts(M, x, T, P)
    BY <1>2, <2>1
  <2>3. Parts(N, x, T, P)
    BY <1>7, <2>2 DEF Parts
  <2>4. \A j \in Kinds : Tok(N, j) = Tok(M, j) + Ret(j)[p] /\ MBuf(N, j) = MBuf(M, j)
    BY <1>5, <1>7 DEF MBuf, Tok, Ret
  <2>5. \/ N.linkRxTx = M.linkRxTx
        \/ \E r \in PretP : N.linkRxTx = Append(M.linkRxTx, r)
    BY <1>7
  <2>6. /\ Lane(N, x, T, P)
        /\ \A j \in Kinds : /\ Out(j, N, x, T) = Out(j, M, x, T) + Ret(j)[p]
                            /\ Back(j, N, x, T) = Back(j, M, x, T)
    <3> HIDE DEF S, M, f
    <3> QED BY <1>5, <1>7, <2>2, <2>3, <2>4, <2>5, LaneCredit
  <2> QED BY <2>1, <2>6
<1>12. R \in Slaves /\ Q \in [Kinds -> Seq(Data)]
  BY <1>0, <1>8, <1>9
<1>13. /\ Lane(master[f], inFlightPacket[f], R, Q)
       /\ \A j \in Kinds : /\ Out(j, master[f], inFlightPacket[f], R) = Out(j, master[f], inFlightPacket[f], S)
                           /\ Back(j, master[f], inFlightPacket[f], S)
                                = Back(j, master[f], inFlightPacket[f], R) + Ret(j)[p]
  <2>1. PICK x, T, P : x = inFlightPacket[f] /\ T = master[f] /\ P = pending[f]
    OBVIOUS
  <2>2. Lane(T, x, S, P) /\ Parts(T, x, S, P)
    BY <1>2, <2>1
  <2>3. Parts(T, x, R, Q)
    BY <1>9, <1>12, <2>2 DEF Parts
  <2>4. \A j \in Kinds :
          /\ SBuf(R, j) = IF p.packetType = TypeOf(j) THEN Append(SBuf(S, j), p) ELSE SBuf(S, j)
          /\ Q[j] = IF p.packetType = TypeOf(j) THEN Tail(P[j]) ELSE P[j]
    BY <1>9, <2>1
  <2>5. R.linkRxTx = Tail(S.linkRxTx) /\ R.slaveSEQ = Next_SEQ(S.slaveSEQ)
    BY <1>9
  <2>6. /\ Lane(T, x, R, Q)
        /\ \A j \in Kinds : /\ Out(j, T, x, R) = Out(j, T, x, S)
                            /\ Back(j, T, x, S) = Back(j, T, x, R) + Ret(j)[p]
    <3> HIDE DEF S, M, f
    <3> QED BY <1>3, <1>4, <1>5, <2>2, <2>3, <2>4, <2>5, LaneReceive
  <2> QED BY <2>1, <2>6
<1>14. master' \in [Ends -> Masters] /\ master'[e] = N /\ master'[f] = master[f]
  <2>1. master \in [Ends -> Masters]
    BY <1>1 DEF Quiet
  <2>2. master' = [master EXCEPT ![e] = N]
    BY <1>4, <1>6 DEF ReceivePacket
  <2> QED BY <1>0, <1>7, <2>1, <2>2
<1>16. inFlightPacket' = inFlightPacket
  BY DEF ReceivePacket
<1>18. Quiet'
  BY <1>1, <1>9, <1>14, <1>16 DEF Quiet
<1>19. Linked(e)' /\ Linked(f)'
  BY <1>0, <1>1, <1>8, <1>9, <1>10, <1>13, <1>14, <1>16 DEF Linked
<1>20. Offered(e)' /\ Offered(f)'
  <2>1. \A j \in Kinds : pending[f][j] \in Seq(Sends[f])
    BY <1>1 DEF Offered
  <2>2. ASSUME NEW j \in Kinds PROVE Q[j] \in Seq(Sends[f])
    <3>1. CASE p.packetType # TypeOf(j)
      BY <1>9, <2>1, <3>1
    <3>2. CASE p.packetType = TypeOf(j)
      <4>1. Q[j] = Tail(pending[f][j])
        BY <1>9, <3>2
      <4>2. CASE pending[f][j] # <<>>
        BY <2>1, <4>1, <4>2, TailFacts
      <4>3. CASE pending[f][j] = <<>>
        BY <4>1, <4>3
      <4> QED BY <4>2, <4>3
    <3> QED BY <3>1, <3>2
  <2> QED BY <1>1, <1>8, <1>9, <2>2 DEF Offered
<1>21. \A j \in Kinds : /\ OutOf(e, j)' = OutOf(e, j) + Ret(j)[p] /\ BackBy(e, j)' = BackBy(e, j)
                        /\ OutOf(f, j)' = OutOf(f, j) /\ BackBy(f, j) = BackBy(f, j)' + Ret(j)[p]
  BY <1>0, <1>8, <1>9, <1>10, <1>13, <1>14, <1>16 DEF OutOf, BackBy
<1>22. ASSUME NEW j \in Kinds
       PROVE  /\ OutOf(e, j)' + BackBy(f, j)' = OutOf(e, j) + BackBy(f, j)
              /\ OutOf(f, j)' + BackBy(e, j)' = OutOf(f, j) + BackBy(e, j)
  <2>1. Ret(j)[p] \in Nat
    BY <1>5, Weights
  <2>2. OutOf(e, j) \in Nat
    BY <1>1, LaneNumbers DEF Linked, OutOf
  <2>3. BackBy(f, j)' \in Nat
    BY <1>19, LaneNumbers DEF Linked, BackBy
  <2>4. PICK a \in Nat, b \in Nat, r \in Nat : a = OutOf(e, j) /\ b = BackBy(f, j)' /\ r = Ret(j)[p]
    BY <2>1, <2>2, <2>3
  <2>5. OutOf(e, j)' = a + r /\ BackBy(f, j) = b + r
    BY <1>21, <2>4
  <2>6. (a + r) + b = a + (b + r)
    OBVIOUS
  <2> QED BY <1>21, <2>4, <2>5, <2>6
<1> QED BY <1>18, <1>19, <1>20, <1>22, TwoLanes

LEMMA TakeStep ==
  ASSUME LInv, NEW e \in Ends, NEW k \in Kinds, SBuf(slave[e], k) # <<>>,
         master' = [master EXCEPT ![e] = ReturnToken(master[e], SBuf(slave[e], k)[1])],
         slave' = IF k = "down" THEN [slave EXCEPT ![e].downBuffers = Tail(@)]
                                ELSE [slave EXCEPT ![e].upBuffers = Tail(@)],
         UNCHANGED <<inFlightPacket, noise, pending>>
  PROVE  LInv'
<1> DEFINE f == Peer(e)
           S == slave[e]
           M == master[e]
<1>0. f \in Ends /\ Peer(f) = e /\ f # e
  BY EndFacts
<1>1. Quiet /\ Linked(e) /\ Linked(f) /\ Offered(e) /\ Offered(f)
  BY <1>0 DEF LInv
<1>2. /\ M \in Masters /\ S \in Slaves
      /\ Parts(M, inFlightPacket[e], slave[f], pending[e])
      /\ Lane(M, inFlightPacket[e], slave[f], pending[e])
      /\ Parts(master[f], inFlightPacket[f], S, pending[f])
      /\ Lane(master[f], inFlightPacket[f], S, pending[f])
  BY <1>0, <1>1, LanePart DEF Linked
<1>3. PICK p : p = SBuf(S, k)[1]
  OBVIOUS
<1>4. S.downBuffers \in Seq(ReqP) /\ S.upBuffers \in Seq(RspP)
  BY <1>2 DEF Slaves
<1>5. IF k = "down" THEN p \in ReqP /\ Tail(S.downBuffers) \in Seq(ReqP)
                    ELSE p \in RspP /\ Tail(S.upBuffers) \in Seq(RspP)
  BY <1>3, <1>4, TailFacts DEF SBuf
<1>6. /\ p \in Packets /\ p.packetType = TypeOf(k) /\ p.LNG \in Nat /\ p \in ReqP \cup RspP
      /\ (p \in ReqP <=> p.packetType = "REQUEST")
  <2>1. p \in Packets /\ p \in ReqP \cup RspP
    BY <1>5 DEF ReqP, RspP
  <2>2. p.LNG \in Nat
    BY <2>1 DEF Packets
  <2>3. p.packetType = TypeOf(k)
    BY <1>5 DEF ReqP, RspP, TypeOf
  <2>4. p \in ReqP <=> p.packetType = "REQUEST"
    BY <2>1 DEF ReqP, RspP
  <2> QED BY <2>1, <2>2, <2>3, <2>4
<1>7. PICK d \in Nat, u \in Nat : /\ d = IF p \in ReqP THEN p.LNG ELSE 0
                                  /\ u = IF p \in ReqP THEN 0 ELSE p.LNG
  BY <1>6
<1>8. \A j \in Kinds : Lng(j)[p] = IF j = "down" THEN d ELSE u
  BY <1>6, <1>7 DEF Lng, TypeOf, Kinds
<1>9. PICK N : N = ReturnToken(M, p)
  OBVIOUS
<1>10. /\ N \in Masters
       /\ N.linkRxTx = M.linkRxTx /\ N.masterSEQ = M.masterSEQ
       /\ N.upTokenCount = M.upTokenCount /\ N.downTokenCount = M.downTokenCount
       /\ \/ FirstGets(M.upBuffers, N.upBuffers, d, u) /\ N.downBuffers = M.downBuffers
          \/ FirstGets(M.downBuffers, N.downBuffers, d, u) /\ N.upBuffers = M.upBuffers
          \/ \E x \in TretP : /\ x.DRTC = d /\ x.URTC = u
                              /\ N.upBuffers = <<x>> \o M.upBuffers /\ N.downBuffers = M.downBuffers
  <2>1. TokensFor(p, d, u)
    BY <1>7 DEF TokensFor
  <2>2. M \in Masters /\ p \in ReqP \cup RspP
    BY <1>2, <1>6
  <2>3. LET K == ReturnToken(M, p) IN
        /\ K \in Masters
        /\ K.linkRxTx = M.linkRxTx /\ K.masterSEQ = M.masterSEQ
        /\ K.upTokenCount = M.upTokenCount /\ K.downTokenCount = M.downTokenCount
        /\ \/ FirstGets(M.upBuffers, K.upBuffers, d, u) /\ K.downBuffers = M.downBuffers
           \/ FirstGets(M.downBuffers, K.downBuffers, d, u) /\ K.upBuffers = M.upBuffers
           \/ \E x \in TretP : /\ x.DRTC = d /\ x.URTC = u
                               /\ K.upBuffers = <<x>> \o M.upBuffers /\ K.downBuffers = M.downBuffers
    <3> HIDE DEF S, M, f
    <3> QED BY <2>1, <2>2, ReturnEffect, Zenon
  <2> QED BY <1>9, <2>3, Zenon
<1>11. PICK i \in Kinds : /\ Gets(MBuf(M, i), MBuf(N, i), d, u)
                          /\ \A j \in Kinds : j # i => MBuf(N, j) = MBuf(M, j)
  <2>1. CASE FirstGets(M.upBuffers, N.upBuffers, d, u) /\ N.downBuffers = M.downBuffers
    <3>1. /\ Gets(MBuf(M, "up"), MBuf(N, "up"), d, u)
          /\ \A j \in Kinds : j # "up" => MBuf(N, j) = MBuf(M, j)
      BY <2>1 DEF Gets, MBuf, Kinds
    <3> QED BY <3>1 DEF Kinds
  <2>2. CASE FirstGets(M.downBuffers, N.downBuffers, d, u) /\ N.upBuffers = M.upBuffers
    <3>1. /\ Gets(MBuf(M, "down"), MBuf(N, "down"), d, u)
          /\ \A j \in Kinds : j # "down" => MBuf(N, j) = MBuf(M, j)
      BY <2>2 DEF Gets, MBuf, Kinds
    <3> QED BY <3>1 DEF Kinds
  <2>3. CASE \E x \in TretP : /\ x.DRTC = d /\ x.URTC = u
                              /\ N.upBuffers = <<x>> \o M.upBuffers /\ N.downBuffers = M.downBuffers
    <3>1. /\ Gets(MBuf(M, "up"), MBuf(N, "up"), d, u)
          /\ \A j \in Kinds : j # "up" => MBuf(N, j) = MBuf(M, j)
      BY <2>3 DEF Gets, MBuf, Kinds
    <3> QED BY <3>1 DEF Kinds
  <2> QED BY <1>10, <2>1, <2>2, <2>3
<1>12. /\ Lane(N, inFlightPacket[e], slave[f], pending[e])
       /\ \A j \in Kinds : /\ Out(j, N, inFlightPacket[e], slave[f]) = Out(j, M, inFlightPacket[e], slave[f])
                           /\ Back(j, N, inFlightPacket[e], slave[f])
                                = Back(j, M, inFlightPacket[e], slave[f]) + Lng(j)[p]
  <2>1. PICK x, T, P : x = inFlightPacket[e] /\ T = slave[f] /\ P = pending[e]
    OBVIOUS
  <2>2. Lane(M, x, T, P) /\ Parts(M, x, T, P)
    BY <1>2, <2>1
  <2>3. Parts(N, x, T, P)
    BY <1>10, <2>2 DEF Parts
  <2>4. \A j \in Kinds : Tok(N, j) = Tok(M, j) /\ (j # i => MBuf(N, j) = MBuf(M, j))
    BY <1>10, <1>11 DEF Tok
  <2>5. /\ Lane(N, x, T, P)
        /\ \A j \in Kinds : /\ Out(j, N, x, T) = Out(j, M, x, T)
                            /\ Back(j, N, x, T) = Back(j, M, x, T) + (IF j = "down" THEN d ELSE u)
    <3> HIDE DEF S, M, f
    <3> QED BY <1>10, <1>11, <2>2, <2>3, <2>4, LaneReturn
  <2> QED BY <1>8, <2>1, <2>5
<1>13. PICK R : R = IF k = "down" THEN [S EXCEPT !.downBuffers = Tail(@)]
                                  ELSE [S EXCEPT !.upBuffers = Tail(@)]
  OBVIOUS
<1>14. R \in Slaves
  <2>1. CASE k = "down"
    <3>1. PICK B \in Seq(ReqP) : B = Tail(S.downBuffers)
      BY <1>5, <2>1
    <3>2. R = [S EXCEPT !.downBuffers = B]
      BY <1>13, <2>1, <3>1
    <3> QED BY <1>2, <3>2 DEF Slaves
  <2>2. CASE k # "down"
    <3>1. PICK B \in Seq(RspP) : B = Tail(S.upBuffers)
      BY <1>5, <2>2
    <3>2. R = [S EXCEPT !.upBuffers = B]
      BY <1>13, <2>2, <3>1
    <3> QED BY <1>2, <3>2 DEF Slaves
  <2> QED BY <2>1, <2>2
<1>15. /\ R.linkRxTx = S.linkRxTx /\ R.slaveSEQ = S.slaveSEQ
       /\ \A j \in Kinds : SBuf(R, j) = IF j = k THEN Tail(SBuf(S, j)) ELSE SBuf(S, j)
  BY <1>2, <1>13 DEF Slaves, SBuf, Kinds
<1>16. /\ Lane(master[f], inFlightPacket[f], R, pending[f])
       /\ \A j \in Kinds : /\ Out(j, master[f], inFlightPacket[f], S)
                                = Out(j, master[f], inFlightPacket[f], R) + Lng(j)[p]
                           /\ Back(j, master[f], inFlightPacket[f], R) = Back(j, master[f], inFlightPacket[f], S)
  <2>1. PICK x, T, P : x = inFlightPacket[f] /\ T = master[f] /\ P = pending[f]
    OBVIOUS
  <2>2. Lane(T, x, S, P) /\ Parts(T, x, S, P)
    BY <1>2, <2>1
  <2>3. Parts(T, x, R, P)
    BY <1>14, <2>2 DEF Parts
  <2>4. SBuf(S, k) # <<>> /\ SBuf(S, k)[1] = p
    BY <1>3
  <2>5. /\ Lane(T, x, R, P)
        /\ \A j \in Kinds : /\ Out(j, T, x, S) = Out(j, T, x, R) + Lng(j)[p]
                            /\ Back(j, T, x, R) = Back(j, T, x, S)
    <3> HIDE DEF S, M, f
    <3> QED BY <1>6, <1>15, <2>2, <2>3, <2>4, LaneTake
  <2> QED BY <2>1, <2>5
<1>17. master' \in [Ends -> Masters] /\ master'[e] = N /\ master'[f] = master[f]
  <2>1. master \in [Ends -> Masters]
    BY <1>1 DEF Quiet
  <2>2. master' = [master EXCEPT ![e] = N]
    BY <1>3, <1>9
  <2> QED BY <1>0, <1>10, <2>1, <2>2
<1>18. slave' \in [Ends -> Slaves] /\ slave'[e] = R /\ slave'[f] = slave[f]
  <2>1. slave \in [Ends -> Slaves]
    BY <1>1 DEF Quiet
  <2>2. slave' = [slave EXCEPT ![e] = R]
    BY <1>13, <2>1
  <2> QED BY <1>0, <1>14, <2>1, <2>2
<1>19. Quiet'
  BY <1>1, <1>17, <1>18 DEF Quiet
<1>20. Linked(e)' /\ Linked(f)' /\ Offered(e)' /\ Offered(f)'
  BY <1>0, <1>1, <1>12, <1>16, <1>17, <1>18 DEF Linked, Offered
<1>21. \A j \in Kinds : /\ OutOf(e, j)' = OutOf(e, j) /\ BackBy(e, j)' = BackBy(e, j) + Lng(j)[p]
                        /\ OutOf(f, j) = OutOf(f, j)' + Lng(j)[p] /\ BackBy(f, j)' = BackBy(f, j)
  BY <1>0, <1>12, <1>16, <1>17, <1>18 DEF OutOf, BackBy
<1>22. ASSUME NEW j \in Kinds
       PROVE  /\ OutOf(e, j)' + BackBy(f, j)' = OutOf(e, j) + BackBy(f, j)
              /\ OutOf(f, j)' + BackBy(e, j)' = OutOf(f, j) + BackBy(e, j)
  <2>1. Lng(j)[p] \in Nat
    BY <1>6, Weights
  <2>2. BackBy(e, j) \in Nat
    BY <1>1, LaneNumbers DEF Linked, BackBy
  <2>3. OutOf(f, j)' \in Nat
    BY <1>20, LaneNumbers DEF Linked, OutOf
  <2>4. PICK a \in Nat, b \in Nat, r \in Nat : a = BackBy(e, j) /\ b = OutOf(f, j)' /\ r = Lng(j)[p]
    BY <2>1, <2>2, <2>3
  <2>5. BackBy(e, j)' = a + r /\ OutOf(f, j) = b + r
    BY <1>21, <2>4
  <2>6. b + (a + r) = (b + r) + a
    OBVIOUS
  <2> QED BY <1>21, <2>4, <2>5, <2>6
<1> QED BY <1>19, <1>20, <1>22, TwoLanes

(* The packet at the head of a slave is the one it waits for.              *)
LEMMA HeadInOrder ==
  ASSUME LInv, NEW e \in Ends, Sequenced(slave[e])
  PROVE  LET p == slave[e].linkRxTx[1] IN
         /\ CheckNoError(slave[e], p)
         /\ p.CMD \in Data => /\ pending[Peer(e)][KindOf(p)] # <<>>
                              /\ pending[Peer(e)][KindOf(p)][1] = p.CMD
<1>0. Peer(e) \in Ends /\ Peer(Peer(e)) = e
  BY EndFacts
<1>1. PICK M, x, S, P : M = master[Peer(e)] /\ x = inFlightPacket[Peer(e)] /\ S = slave[e] /\ P = pending[Peer(e)]
  OBVIOUS
<1>2. Lane(M, x, S, P) /\ Parts(M, x, S, P) /\ S \in Slaves
  <2>1. Linked(Peer(e)) /\ Quiet
    BY <1>0 DEF LInv
  <2> QED BY <1>0, <1>1, <2>1, LanePart DEF Linked
<1>3. S.linkRxTx \in Seq(SentP) /\ S.linkRxTx # <<>> /\ S.linkRxTx[1].CMD # "PRET"
  BY <1>1, <1>2 DEF Sequenced, Slaves
<1>4. PICK p : p = S.linkRxTx[1]
  OBVIOUS
<1>5. p \in SentP /\ p.CMD # "PRET"
  BY <1>3, <1>4, TailFacts
<1>6. PICK W \in Seq(Packets) : W = Way(M, x, S)
  BY <1>2, LaneSeqs
<1>7. W # <<>> /\ W[1] = p
  <2>1. PICK R : R = [S EXCEPT !.linkRxTx = Tail(@)]
    OBVIOUS
  <2>2. Shorter(R.linkRxTx, S.linkRxTx, p)
    BY <1>2, <1>3, <1>4, <2>1 DEF Shorter, Slaves
  <2>3. Shorter(Way(M, x, R), Way(M, x, S), p)
    BY <1>2, <2>2, WayTail, Zenon
  <2> QED BY <1>6, <2>3 DEF Shorter
<1>8. Counts(S.slaveSEQ, W, M.masterSEQ) /\ \A k \in Kinds : Matches(k, P[k], W, MBuf(M, k))
  BY <1>2, <1>6 DEF Lane, Ordered
<1>9. CheckNoError(S, p)
  <2>1. p.SEQ = Num(S.slaveSEQ)
    BY <1>5, <1>7, <1>8, CountsTail
  <2>2. CRC_CHECK => p.CRC
    BY <1>5 DEF SentP
  <2> QED BY <2>1, <2>2 DEF CheckNoError, Num
<1>10. ASSUME p.CMD \in Data PROVE P[KindOf(p)] # <<>> /\ P[KindOf(p)][1] = p.CMD
  <2>1. p \in ReqP \cup RspP
    BY <1>5, <1>10, PacketKinds
  <2>2. PICK k \in Kinds : k = KindOf(p)
    BY DEF KindOf, Kinds
  <2>3. p.packetType = TypeOf(k)
    BY <2>1, <2>2 DEF ReqP, RspP, KindOf, TypeOf
  <2>4. P[k] # <<>> /\ P[k][1] = p.CMD
    BY <1>7, <1>8, <2>3, MatchesTail
  <2> QED BY <2>2, <2>4
<1> QED BY <1>1, <1>4, <1>9, <1>10

LEMMA NextLInv ==
  ASSUME LInv, noise \in Nat, [Next]_vars, Clean'
  PROVE  LInv'
<1>1. CASE UNCHANGED vars
  BY <1>1 DEF vars, LInv, Quiet, Linked, Balanced, OutOf, BackBy, Offered
<1>2. ASSUME NEW e \in Ends, NEW d \in Sends[e], Accept(e, d) PROVE LInv'
  BY <1>2, AcceptStep
<1>3. ASSUME NEW e \in Ends, SendUp(e) PROVE LInv'
  <2>1. /\ "up" \in Kinds /\ MBuf(master[e], "up") = master[e].upBuffers
        /\ Tok(master[e], "up") = master[e].upTokenCount
    BY DEF Kinds, MBuf, Tok
  <2>2. /\ MBuf(master[e], "up") # <<>>
        /\ CanSend(master[e], MBuf(master[e], "up")[1], Tok(master[e], "up"))
        /\ master' = [master EXCEPT ![e] = UpdateField(master[e], MBuf(master[e], "up")[1])]
        /\ UNCHANGED <<inFlightPacket, slave, noise, pending>>
    BY <1>3, <2>1 DEF SendUp, CanSendUp
  <2> QED BY <2>1, <2>2, SendStep
<1>4. ASSUME NEW e \in Ends, SendDown(e) PROVE LInv'
  <2>1. /\ "down" \in Kinds /\ MBuf(master[e], "down") = master[e].downBuffers
        /\ Tok(master[e], "down") = master[e].downTokenCount
    BY DEF Kinds, MBuf, Tok
  <2>2. /\ MBuf(master[e], "down") # <<>>
        /\ CanSend(master[e], MBuf(master[e], "down")[1], Tok(master[e], "down"))
        /\ master' = [master EXCEPT ![e] = UpdateField(master[e], MBuf(master[e], "down")[1])]
        /\ UNCHANGED <<inFlightPacket, slave, noise, pending>>
    BY <1>4, <2>1 DEF SendDown
  <2> QED BY <2>1, <2>2, SendStep
<1>5. ASSUME NEW e \in Ends PROVE ~EndLinkRetry(e) /\ ~RetryTimeout(e)
  <2>1. master[e].currentState = "NORMAL" /\ master[e].startRetryTimer = FALSE
    BY DEF LInv, Quiet, Masters
  <2> QED BY <2>1 DEF EndLinkRetry, RetryTimeout
<1>6. ASSUME NEW e \in Ends PROVE ~ReceiveIRTRY(e) /\ ~DropPacket(e) /\ ~ErrorAbort(e)
  <2>1. slave[e].linkRxTx \in Seq(SentP) /\ slave[e].currentState = "NORMAL"
    BY DEF LInv, Quiet, Slaves
  <2>2. slave[e].linkRxTx # <<>> => slave[e].linkRxTx[1].CMD # "IRTRY"
    BY <2>1, TailFacts, PacketKinds
  <2>3. Sequenced(slave[e]) => CheckNoError(slave[e], slave[e].linkRxTx[1])
    BY HeadInOrder
  <2> QED BY <2>1, <2>2, <2>3 DEF ReceiveIRTRY, DropPacket, ErrorAbort
<1>7. ASSUME NEW e \in Ends, TakeUp(e) PROVE LInv'
  <2>1. "up" \in Kinds /\ SBuf(slave[e], "up") = slave[e].upBuffers
    BY DEF Kinds, SBuf
  <2>2. /\ SBuf(slave[e], "up") # <<>>
        /\ master' = [master EXCEPT ![e] = ReturnToken(master[e], SBuf(slave[e], "up")[1])]
        /\ slave' = [slave EXCEPT ![e].upBuffers = Tail(@)]
        /\ UNCHANGED <<inFlightPacket, noise, pending>>
    BY <1>7, <2>1 DEF TakeUp
  <2>3. slave' = IF "up" = "down" THEN [slave EXCEPT ![e].downBuffers = Tail(@)]
                                  ELSE [slave EXCEPT ![e].upBuffers = Tail(@)]
    BY <2>2
  <2> QED BY <2>1, <2>2, <2>3, TakeStep
<1>8. ASSUME NEW e \in Ends, TakeDown(e) PROVE LInv'
  <2>1. "down" \in Kinds /\ SBuf(slave[e], "down") = slave[e].downBuffers
    BY DEF Kinds, SBuf
  <2>2. /\ SBuf(slave[e], "down") # <<>>
        /\ master' = [master EXCEPT ![e] = ReturnToken(master[e], SBuf(slave[e], "down")[1])]
        /\ slave' = [slave EXCEPT ![e].downBuffers = Tail(@)]
        /\ UNCHANGED <<inFlightPacket, noise, pending>>
    BY <1>8, <2>1 DEF TakeDown
  <2>3. slave' = IF "down" = "down" THEN [slave EXCEPT ![e].downBuffers = Tail(@)]
                                    ELSE [slave EXCEPT ![e].upBuffers = Tail(@)]
    BY <2>2
  <2> QED BY <2>1, <2>2, <2>3, TakeStep
<1>9. CASE Next
  <2>1. PICK e \in Ends :
          \/ \E d \in Sends[e] : Accept(e, d)
          \/ MasterUpdate(e) \/ LinkUpdate(e) \/ SlaveReceive(e) \/ TakeUp(e) \/ TakeDown(e)
    BY <1>9 DEF Next
  <2>2. CASE \E d \in Sends[e] : Accept(e, d)
    BY <1>2, <2>2
  <2>3. CASE MasterUpdate(e)
    BY <1>3, <1>4, <1>5, <2>3 DEF MasterUpdate
  <2>4. CASE LinkUpdate(e)
    BY <2>4, TransmitStep, ArriveStep DEF LinkUpdate
  <2>5. CASE SlaveReceive(e)
    BY <1>6, <2>5, PRETStep, ReceiveStep DEF SlaveReceive
  <2>6. CASE TakeUp(e) \/ TakeDown(e)
    BY <1>7, <1>8, <2>6
  <2> QED BY <2>1, <2>2, <2>3, <2>4, <2>5, <2>6
<1> QED BY <1>1, <1>9
-----------------------------------------------------------------------------
(* The corrupted packets are only ever more.                               *)
LEMMA NoiseGrows ==
  ASSUME noise \in 0..MaxNoise, [Next]_vars
  PROVE  noise' \in 0..MaxNoise /\ (Clean' => Clean)
<1>0. MaxNoise \in Nat
  BY LinkAssumption
<1>1. CASE UNCHANGED noise
  BY <1>1 DEF Clean
<1>2. ASSUME NEW e \in Ends, Arrive(e) PROVE noise' \in 0..MaxNoise /\ (Clean' => Clean)
  <2>1. \/ noise' = noise
        \/ noise < MaxNoise /\ noise' = noise + 1
    BY <1>2 DEF Arrive, CanCorrupt
  <2>2. noise' \in 0..MaxNoise /\ (noise' = 0 => noise = 0)
    BY <1>0, <2>1
  <2> QED BY <2>2 DEF Clean
<1>3. Next => UNCHANGED noise \/ \E e \in Ends : Arrive(e)
  BY ZenonT(60) DEF Next, Accept, MasterUpdate, SendUp, SendDown, EndLinkRetry, RetryTimeout, LinkUpdate,
         Transmit, SlaveReceive, ReceiveIRTRY, DropPacket, ReceivePRET, ReceivePacket, ErrorAbort,
         TakeUp, TakeDown
<1>4. UNCHANGED vars => UNCHANGED noise
  BY DEF vars
<1> QED BY <1>1, <1>2, <1>3, <1>4

LinkInv == noise \in 0..MaxNoise /\ (Clean => LInv)

(* As long as no packet that is checked has been corrupted, both lanes are *)
(* in order and in balance.                                                *)
THEOREM LinkInvariance == Spec => []LinkInv
<1>1. Init => LinkInv
  <2>1. Init => noise = 0 /\ 0 \in 0..MaxNoise
    BY LinkAssumption DEF Init
  <2> QED BY <2>1, InitLInv DEF LinkInv
<1>2. LinkInv /\ [Next]_vars => LinkInv'
  <2> SUFFICES ASSUME LinkInv, [Next]_vars PROVE LinkInv'
    OBVIOUS
  <2>1. noise \in 0..MaxNoise /\ noise \in Nat
    BY LinkAssumption DEF LinkInv
  <2>2. noise' \in 0..MaxNoise /\ (Clean' => Clean)
    BY <2>1, NoiseGrows
  <2>3. ASSUME Clean' PROVE LInv'
    <3>1. LInv
      BY <2>2, <2>3 DEF LinkInv
    <3> QED BY <2>1, <2>3, <3>1, NextLInv
  <2> QED BY <2>2, <2>3 DEF LinkInv
<1> QED BY <1>1, <1>2, PTL DEF Spec

LEMMA Measures ==
  ASSUME NEW k \in Kinds, NEW s \in Seq(Packets)
  PROVE  /\ FlitsOf(TypeOf(k), s) = Wt(Lng(k), s)
         /\ (\A i \in 1..Len(s) : s[i].packetType = TypeOf(k)) => Flits(s) = Wt(Lng(k), s)
         /\ k = "down" => Total([i \in DOMAIN s |-> s[i].DRTC]) = Wt(Ret(k), s)
         /\ k = "up" => Total([i \in DOMAIN s |-> s[i].URTC]) = Wt(Ret(k), s)
<1>1. \A i \in DOMAIN s : s[i] \in Packets
  OBVIOUS
<1>2. FlitsOf(TypeOf(k), s) = Wt(Lng(k), s)
  <2>1. [i \in DOMAIN s |-> IF s[i].packetType = TypeOf(k) THEN s[i].LNG ELSE 0]
          = [i \in DOMAIN s |-> Lng(k)[s[i]]]
    BY <1>1 DEF Lng
  <2> QED BY <2>1 DEF FlitsOf, Wt
<1>3. ASSUME \A i \in 1..Len(s) : s[i].packetType = TypeOf(k) PROVE Flits(s) = Wt(Lng(k), s)
  <2>1. [i \in DOMAIN s |-> s[i].LNG] = [i \in DOMAIN s |-> Lng(k)[s[i]]]
    <3>1. \A i \in DOMAIN s : s[i].packetType = TypeOf(k)
      BY <1>3
    <3> QED BY <1>1, <3>1 DEF Lng
  <2> QED BY <2>1 DEF Flits, Wt
<1>4. k = "down" => [i \in DOMAIN s |-> s[i].DRTC] = [i \in DOMAIN s |-> Ret(k)[s[i]]]
  BY <1>1 DEF Ret
<1>5. k = "up" => [i \in DOMAIN s |-> s[i].URTC] = [i \in DOMAIN s |-> Ret(k)[s[i]]]
  BY <1>1 DEF Ret
<1> QED BY <1>2, <1>3, <1>4, <1>5 DEF Wt

LEMMA LaneSums ==
  ASSUME LInv, NEW e \in Ends, NEW k \in Kinds
  PROVE  /\ Tok(master[e], k) + FlitsOf(TypeOf(k), OnTheWay(e)) + Flits(SBuf(slave[Peer(e)], k))
              + Wt(Ret(k), Carrying(Peer(e))) = MAX_LINK_BUF
         /\ Tok(master[e], k) \in Nat /\ FlitsOf(TypeOf(k), OnTheWay(e)) \in Nat
         /\ Flits(SBuf(slave[Peer(e)], k)) \in Nat /\ Wt(Ret(k), Carrying(Peer(e))) \in Nat
         /\ Carrying(Peer(e)) \in Seq(Packets)
<1> DEFINE f == Peer(e)
<1>0. f \in Ends /\ Peer(f) = e
  BY EndFacts
<1>1. Quiet /\ Linked(e) /\ Linked(f) /\ Balanced(e)
  BY <1>0 DEF LInv
<1>2. /\ Lane(master[e], inFlightPacket[e], slave[f], pending[e])
      /\ Parts(master[e], inFlightPacket[e], slave[f], pending[e])
      /\ Lane(master[f], inFlightPacket[f], slave[e], pending[f])
      /\ Parts(master[f], inFlightPacket[f], slave[e], pending[f])
  BY <1>0, <1>1, LanePart DEF Linked
<1>3. PICK W \in Seq(Packets) : W = OnTheWay(e) /\ W = Way(master[e], inFlightPacket[e], slave[f])
  <2>1. OnTheWay(e) = Way(master[e], inFlightPacket[e], slave[f])
    BY DEF OnTheWay, Way, OnLink
  <2> QED BY <1>2, <2>1, LaneSeqs
<1>4. PICK X \in Seq(Packets) : X = OnTheWay(f) /\ X = Way(master[f], inFlightPacket[f], slave[e])
  <2>1. OnTheWay(f) = Way(master[f], inFlightPacket[f], slave[e])
    BY <1>0 DEF OnTheWay, Way, OnLink
  <2> QED BY <1>2, <2>1, LaneSeqs
<1>5. PICK a \in Seq(Packets), b \in Seq(Packets) : a = master[f].upBuffers /\ b = master[f].downBuffers
  <2>1. MBuf(master[f], "up") \in Seq(Packets) /\ MBuf(master[f], "down") \in Seq(Packets)
    BY <1>2, LaneSeqs DEF Kinds
  <2> QED BY <2>1 DEF MBuf
<1>w. Ret(k) \in [Packets -> Nat] /\ Lng(k) \in [Packets -> Nat]
  BY Weights
<1>6. /\ Carrying(f) = (a \o b) \o X /\ a \o b \in Seq(Packets) /\ (a \o b) \o X \in Seq(Packets)
  <2>1. a \o b \in Seq(Packets)
    BY ConcatFacts
  <2>2. (a \o b) \o X \in Seq(Packets)
    BY <2>1, ConcatFacts
  <2> QED BY <1>4, <1>5, <2>1, <2>2 DEF Carrying
<1>7. Wt(Ret(k), Carrying(f)) = Back(k, master[f], inFlightPacket[f], slave[e])
  <2>1. Wt(Ret(k), (a \o b) \o X) = Wt(Ret(k), a \o b) + Wt(Ret(k), X)
    BY <1>6, <1>w, WtConcat
  <2>2. Wt(Ret(k), a \o b) = Wt(Ret(k), a) + Wt(Ret(k), b)
    BY <1>w, WtConcat
  <2>3. Wt(Ret(k), a) \in Nat /\ Wt(Ret(k), b) \in Nat /\ Wt(Ret(k), X) \in Nat
    BY <1>w, WtNat
  <2>4. Back(k, master[f], inFlightPacket[f], slave[e]) = Wt(Ret(k), b) + Wt(Ret(k), a) + Wt(Ret(k), X)
    BY <1>4, <1>5 DEF Back, MBuf
  <2> QED BY <1>6, <2>1, <2>2, <2>3, <2>4
<1>8. PICK B \in Seq(Packets) : B = SBuf(slave[f], k)
  BY <1>2, LaneSeqs
<1>9. Flits(B) = Wt(Lng(k), B)
  <2>1. slave[f].downBuffers \in Seq(ReqP) /\ slave[f].upBuffers \in Seq(RspP)
    BY <1>2 DEF Parts, Slaves
  <2>2. \A i \in 1..Len(B) : B[i] \in IF k = "down" THEN ReqP ELSE RspP
    BY <1>8, <2>1 DEF SBuf
  <2>3. \A i \in 1..Len(B) : B[i].packetType = TypeOf(k)
    BY <2>2 DEF ReqP, RspP, TypeOf
  <2> QED BY <2>3, Measures
<1>10. FlitsOf(TypeOf(k), W) = Wt(Lng(k), W)
  BY Measures
<1>11. /\ Tok(master[e], k) \in Nat /\ Wt(Lng(k), W) \in Nat /\ Wt(Lng(k), B) \in Nat
       /\ Wt(Ret(k), Carrying(f)) \in Nat
  <2>1. Tok(master[e], k) \in Nat
    BY <1>2, LaneSeqs DEF Lane
  <2>2. Wt(Ret(k), (a \o b) \o X) \in Nat
    BY <1>6, <1>w, WtNat
  <2> QED BY <1>6, <1>w, <2>1, <2>2, WtNat
<1>12. Out(k, master[e], inFlightPacket[e], slave[f]) = Tok(master[e], k) + Wt(Lng(k), W) + Wt(Lng(k), B)
  BY <1>3, <1>8 DEF Out
<1>13. Out(k, master[e], inFlightPacket[e], slave[f]) + Back(k, master[f], inFlightPacket[f], slave[e])
         = MAX_LINK_BUF
  BY <1>0, <1>1 DEF Balanced, OutOf, BackBy
<1> QED BY <1>3, <1>6, <1>7, <1>8, <1>9, <1>10, <1>11, <1>12, <1>13

(* Tokens are neither lost nor made, whatever the sizes of packets and     *)
(* buffers (UpdateField, UpdateToken, ReturnToken).                        *)
THEOREM TokensCorrect == Spec => [](Clean => TokensConserved)
<1>1. LinkInv => (Clean => TokensConserved)
  <2> SUFFICES ASSUME LInv, NEW e \in Ends
               PROVE  LET back == Carrying(Peer(e)) IN
                      /\ master[e].downTokenCount + FlitsOf("REQUEST", OnTheWay(e))
                           + Flits(slave[Peer(e)].downBuffers)
                           + Total([i \in DOMAIN back |-> back[i].DRTC]) = MAX_LINK_BUF
                      /\ master[e].upTokenCount + FlitsOf("RESPONSE", OnTheWay(e))
                           + Flits(slave[Peer(e)].upBuffers)
                           + Total([i \in DOMAIN back |-> back[i].URTC]) = MAX_LINK_BUF
    BY DEF LinkInv, TokensConserved
  <2>k. "down" \in Kinds /\ "up" \in Kinds
    BY DEF Kinds
  <2>1. PICK back \in Seq(Packets) : back = Carrying(Peer(e))
    BY <2>k, LaneSums
  <2>2. /\ Total([i \in DOMAIN back |-> back[i].DRTC]) = Wt(Ret("down"), back)
        /\ Total([i \in DOMAIN back |-> back[i].URTC]) = Wt(Ret("up"), back)
    BY <2>k, Measures
  <2>3. master[e].downTokenCount + FlitsOf("REQUEST", OnTheWay(e))
          + Flits(slave[Peer(e)].downBuffers) + Wt(Ret("down"), back) = MAX_LINK_BUF
    <3>1. Tok(master[e], "down") + FlitsOf(TypeOf("down"), OnTheWay(e))
            + Flits(SBuf(slave[Peer(e)], "down")) + Wt(Ret("down"), Carrying(Peer(e))) = MAX_LINK_BUF
      BY <2>k, LaneSums
    <3>2. /\ Tok(master[e], "down") = master[e].downTokenCount /\ TypeOf("down") = "REQUEST"
          /\ SBuf(slave[Peer(e)], "down") = slave[Peer(e)].downBuffers
      BY DEF Tok, TypeOf, SBuf
    <3> QED BY <2>1, <3>1, <3>2
  <2>4. master[e].upTokenCount + FlitsOf("RESPONSE", OnTheWay(e))
          + Flits(slave[Peer(e)].upBuffers) + Wt(Ret("up"), back) = MAX_LINK_BUF
    <3>1. Tok(master[e], "up") + FlitsOf(TypeOf("up"), OnTheWay(e))
            + Flits(SBuf(slave[Peer(e)], "up")) + Wt(Ret("up"), Carrying(Peer(e))) = MAX_LINK_BUF
      BY <2>k, LaneSums
    <3>2. /\ Tok(master[e], "up") = master[e].upTokenCount /\ TypeOf("up") = "RESPONSE"
          /\ SBuf(slave[Peer(e)], "up") = slave[Peer(e)].upBuffers
      BY DEF Tok, TypeOf, SBuf
    <3> QED BY <2>1, <3>1, <3>2
  <2> QED BY <2>1, <2>2, <2>3, <2>4
<1> QED BY <1>1, LinkInvariance, PTL

(* Sequence numbers stay in step, past the point where they stop counting, *)
(* and packets of a kind are accepted in the order in which they were      *)
(* handed over (UpdateField, CheckNoError).                                *)
THEOREM StepCorrect == Spec => [](Clean => InStep)
<1>1. LinkInv => (Clean => InStep)
  <2> SUFFICES ASSUME LInv PROVE InStep
    BY DEF LinkInv
  <2> SUFFICES ASSUME NEW e \in Ends, Sequenced(slave[e])
               PROVE  LET p == slave[e].linkRxTx[1]
                          waiting == pending[Peer(e)][KindOf(p)]
                      IN  /\ CheckNoError(slave[e], p)
                          /\ p.CMD \in Data => waiting # <<>> /\ waiting[1] = p.CMD
    BY DEF InStep
  <2> QED BY HeadInOrder
<1> QED BY <1>1, LinkInvariance, PTL

LEMMA HeadOnWay ==
  ASSUME LInv, NEW e \in Ends, slave[e].linkRxTx # <<>>
  PROVE  /\ slave[e].linkRxTx[1] \in SentP /\ OnTheWay(Peer(e)) \in Seq(Packets)
         /\ OnTheWay(Peer(e)) # <<>> /\ OnTheWay(Peer(e))[1] = slave[e].linkRxTx[1]
<1>0. Peer(e) \in Ends /\ Peer(Peer(e)) = e
  BY EndFacts
<1>1. PICK M, x, S, P : M = master[Peer(e)] /\ x = inFlightPacket[Peer(e)] /\ S = slave[e] /\ P = pending[Peer(e)]
  OBVIOUS
<1>2. Parts(M, x, S, P) /\ S \in Slaves
  BY <1>0, <1>1, LanePart DEF LInv
<1>3. S.linkRxTx \in Seq(SentP) /\ S.linkRxTx # <<>> /\ S.linkRxTx[1] \in SentP
  BY <1>1, <1>2, TailFacts DEF Slaves
<1>4. OnTheWay(Peer(e)) = Way(M, x, S)
  BY <1>0, <1>1 DEF OnTheWay, Way, OnLink
<1>5. PICK R : R = [S EXCEPT !.linkRxTx = Tail(@)]
  OBVIOUS
<1>6. Shorter(R.linkRxTx, S.linkRxTx, S.linkRxTx[1])
  BY <1>2, <1>3, <1>5 DEF Shorter, Slaves
<1>7. Shorter(Way(M, x, R), Way(M, x, S), S.linkRxTx[1])
  BY <1>2, <1>6, WayTail, Zenon
<1>8. Way(M, x, S) \in Seq(Packets)
  BY <1>2, LaneSeqs
<1> QED BY <1>1, <1>3, <1>4, <1>7, <1>8 DEF Shorter

(* A packet at the head of a slave is counted once among the flits on the  *)
(* way to it, and the tokens it brings among those on their way back.      *)
LEMMA HeadCounts ==
  ASSUME LInv, NEW e \in Ends, NEW k \in Kinds, slave[e].linkRxTx # <<>>
  PROVE  LET p == slave[e].linkRxTx[1] IN
         /\ p.packetType = TypeOf(k) => Flits(SBuf(slave[e], k)) + p.LNG <= MAX_LINK_BUF
         /\ Tok(master[e], k) + Ret(k)[p] <= MAX_LINK_BUF
<1> DEFINE f == Peer(e)
<1>0. f \in Ends /\ Peer(f) = e
  BY EndFacts
<1>1. PICK p, W : p = slave[e].linkRxTx[1] /\ W = OnTheWay(f)
  OBVIOUS
<1>2. p \in SentP /\ p \in Packets /\ W \in Seq(Packets) /\ W # <<>> /\ W[1] = p
  BY <1>1, HeadOnWay, PacketKinds
<1>3. Lng(k) \in [Packets -> Nat] /\ Ret(k) \in [Packets -> Nat]
  BY Weights
<1>4. Tail(W) \in Seq(Packets)
  BY <1>2, TailFacts
<1>5. p.packetType = TypeOf(k) => Flits(SBuf(slave[e], k)) + p.LNG <= MAX_LINK_BUF
  <2>1. /\ Tok(master[f], k) + FlitsOf(TypeOf(k), W) + Flits(SBuf(slave[e], k))
             + Wt(Ret(k), Carrying(e)) = MAX_LINK_BUF
        /\ Tok(master[f], k) \in Nat /\ FlitsOf(TypeOf(k), W) \in Nat
        /\ Flits(SBuf(slave[e], k)) \in Nat /\ Wt(Ret(k), Carrying(e)) \in Nat
    BY <1>0, <1>1, LaneSums
  <2>2. FlitsOf(TypeOf(k), W) = Lng(k)[p] + Wt(Lng(k), Tail(W))
    BY <1>2, <1>3, Measures, WtTail
  <2>3. Lng(k)[p] \in Nat /\ Wt(Lng(k), Tail(W)) \in Nat
    BY <1>2, <1>3, <1>4, WtNat
  <2>4. p.packetType = TypeOf(k) => Lng(k)[p] = p.LNG
    BY <1>2 DEF Lng
  <2>5. PICK t \in Nat, g \in Nat, r \in Nat, l \in Nat, w \in Nat :
          /\ t = Tok(master[f], k) /\ g = Flits(SBuf(slave[e], k)) /\ r = Wt(Ret(k), Carrying(e))
          /\ l = Lng(k)[p] /\ w = Wt(Lng(k), Tail(W))
    BY <2>1, <2>3
  <2>6. t + (l + w) + g + r = MAX_LINK_BUF
    BY <2>1, <2>2, <2>5
  <2>7. g + l <= MAX_LINK_BUF
    BY <2>6
  <2> QED BY <2>4, <2>5, <2>7
<1>6. Tok(master[e], k) + Ret(k)[p] <= MAX_LINK_BUF
  <2>1. /\ Tok(master[e], k) + FlitsOf(TypeOf(k), OnTheWay(e)) + Flits(SBuf(slave[f], k))
             + Wt(Ret(k), Carrying(f)) = MAX_LINK_BUF
        /\ Tok(master[e], k) \in Nat /\ FlitsOf(TypeOf(k), OnTheWay(e)) \in Nat
        /\ Flits(SBuf(slave[f], k)) \in Nat
    BY LaneSums
  <2>2. PICK a \in Seq(Packets) : Carrying(f) = a \o W
    <3>1. Parts(master[f], inFlightPacket[f], slave[e], pending[f])
      BY <1>0, LanePart DEF LInv
    <3>2. MBuf(master[f], "up") \in Seq(Packets) /\ MBuf(master[f], "down") \in Seq(Packets)
      BY <3>1, LaneSeqs DEF Kinds
    <3>3. MBuf(master[f], "up") = master[f].upBuffers /\ MBuf(master[f], "down") = master[f].downBuffers
      BY DEF MBuf
    <3>4. master[f].upBuffers \o master[f].downBuffers \in Seq(Packets)
      BY <3>2, <3>3, ConcatFacts
    <3> QED BY <1>1, <3>4 DEF Carrying
  <2>3. Wt(Ret(k), Carrying(f)) = Wt(Ret(k), a) + Wt(Ret(k), W)
    BY <1>2, <1>3, <2>2, WtConcat
  <2>4. Wt(Ret(k), W) = Ret(k)[p] + Wt(Ret(k), Tail(W))
    BY <1>2, <1>3, WtTail
  <2>5. Ret(k)[p] \in Nat /\ Wt(Ret(k), Tail(W)) \in Nat /\ Wt(Ret(k), a) \in Nat
    BY <1>2, <1>3, <1>4, WtNat
  <2>6. PICK t \in Nat, o \in Nat, g \in Nat, l \in Nat, w \in Nat, b \in Nat :
          /\ t = Tok(master[e], k) /\ o = FlitsOf(TypeOf(k), OnTheWay(e))
          /\ g = Flits(SBuf(slave[f], k)) /\ l = Ret(k)[p] /\ w = Wt(Ret(k), Tail(W))
          /\ b = Wt(Ret(k), a)
    BY <2>1, <2>5
  <2>7. t + o + g + (b + (l + w)) = MAX_LINK_BUF
    BY <2>1, <2>3, <2>4, <2>6
  <2>8. t + l <= MAX_LINK_BUF
    BY <2>7
  <2> QED BY <2>6, <2>8
<1> QED BY <1>1, <1>5, <1>6

(* No error exit of a master or a slave is due on a link that corrupts     *)
(* nothing: the slave always has room for the packet that it accepts, and  *)
(* no token count passes its maximum (LinkSlave::Update, UpdateToken).     *)
THEOREM ExitCorrect == Spec => [](Clean => NoExit)
<1>1. LinkInv => (Clean => NoExit)
  <2> SUFFICES ASSUME LInv, NEW e \in Ends, slave[e].linkRxTx # <<>>,
                      NEW p, p = slave[e].linkRxTx[1]
               PROVE  /\ p.CMD # "IRTRY"
                      /\ Sequenced(slave[e]) =>
                           /\ CheckNoError(slave[e], p)
                           /\ p.CMD # "TRET" => FitsIn(slave[e], p)
                           /\ master[e].downTokenCount + p.DRTC <= MAX_LINK_BUF
                           /\ master[e].upTokenCount + p.URTC <= MAX_LINK_BUF
    BY DEF LinkInv, NoExit
  <2>1. p \in SentP /\ p \in Packets /\ p.CMD # "IRTRY"
    BY HeadOnWay, PacketKinds
  <2>2. Sequenced(slave[e]) => CheckNoError(slave[e], p)
    BY HeadInOrder
  <2>3. Sequenced(slave[e]) /\ p.CMD # "TRET" => FitsIn(slave[e], p)
    <3> SUFFICES ASSUME Sequenced(slave[e]), p.CMD # "TRET" PROVE FitsIn(slave[e], p)
      OBVIOUS
    <3>1. p.CMD # "PRET"
      BY DEF Sequenced
    <3>2. p \in ReqP \/ p \in RspP
      BY <2>1, <3>1, PacketKinds DEF SentP
    <3>3. PICK k \in Kinds : p.packetType = TypeOf(k)
      BY <3>2 DEF ReqP, RspP, TypeOf, Kinds
    <3>4. Flits(SBuf(slave[e], k)) + p.LNG <= MAX_LINK_BUF
      BY <3>3, HeadCounts
    <3>5. SBuf(slave[e], k) = IF p.packetType = "REQUEST" THEN slave[e].downBuffers ELSE slave[e].upBuffers
      BY <3>3 DEF SBuf, TypeOf, Kinds
    <3> QED BY <3>4, <3>5 DEF FitsIn
  <2>4. master[e].downTokenCount + p.DRTC <= MAX_LINK_BUF
    <3>1. "down" \in Kinds /\ Tok(master[e], "down") = master[e].downTokenCount
      BY DEF Kinds, Tok
    <3>2. Ret("down")[p] = p.DRTC
      BY <2>1 DEF Ret
    <3>3. Tok(master[e], "down") + Ret("down")[p] <= MAX_LINK_BUF
      BY <3>1, HeadCounts
    <3> QED BY <3>1, <3>2, <3>3
  <2>5. master[e].upTokenCount + p.URTC <= MAX_LINK_BUF
    <3>1. "up" \in Kinds /\ Tok(master[e], "up") = master[e].upTokenCount
      BY DEF Kinds, Tok
    <3>2. Ret("up")[p] = p.URTC
      BY <2>1 DEF Ret
    <3>3. Tok(master[e], "up") + Ret("up")[p] <= MAX_LINK_BUF
      BY <3>1, HeadCounts
    <3> QED BY <3>1, <3>2, <3>3
  <2> QED BY <2>1, <2>2, <2>3, <2>4, <2>5
<1> QED BY <1>1, LinkInvariance, PTL

(* Type correctness; token counts in particular stay between 0 and the     *)
(* size of a buffer.                                                       *)
THEOREM LinkTypeCorrect == Spec => [](Clean => TypeOK)
<1>1. LinkInv => (Clean => TypeOK)
  <2> SUFFICES ASSUME LInv, noise \in 0..MaxNoise PROVE TypeOK
    BY DEF LinkInv
  <2>1. ASSUME NEW e \in Ends, NEW k \in Kinds PROVE Tok(master[e], k) \in 0..MAX_LINK_BUF
    <3>1. PICK a \in Nat, b \in Nat, c \in Nat, d \in Nat : a = Tok(master[e], k) /\ a + b + c + d = MAX_LINK_BUF
      BY <2>1, LaneSums
    <3>2. MAX_LINK_BUF \in Nat
      BY Sizes
    <3>3. a \in 0..MAX_LINK_BUF
      BY <3>1, <3>2
    <3> QED BY <3>1, <3>3
  <2>2. ASSUME NEW e \in Ends PROVE Pending(e) \subseteq Sends[e]
    <3>1. pending[e]["down"] \in Seq(Sends[e]) /\ pending[e]["up"] \in Seq(Sends[e])
      BY <2>2 DEF LInv, Offered, Kinds
    <3>2. \A s \in Seq(Sends[e]) : \A i \in DOMAIN s : s[i] \in Sends[e]
      OBVIOUS
    <3>3. \A s \in Seq(Sends[e]) : ToSet(s) \subseteq Sends[e]
      BY <3>2 DEF ToSet
    <3> QED BY <3>1, <3>3 DEF Pending
  <2>3. ASSUME NEW e \in Ends
        PROVE  /\ master[e].upTokenCount \in 0..MAX_LINK_BUF /\ master[e].downTokenCount \in 0..MAX_LINK_BUF
               /\ master[e].masterSEQ \in 0..MaxSEQ /\ slave[e].slaveSEQ \in 0..MaxSEQ
               /\ master[e].currentState = "NORMAL" /\ slave[e].currentState = "NORMAL"
               /\ inFlightPacket[e] \in Packets \cup {NULL}
    <3>1. "down" \in Kinds /\ "up" \in Kinds
      BY DEF Kinds
    <3>2. master[e].upTokenCount \in 0..MAX_LINK_BUF /\ master[e].downTokenCount \in 0..MAX_LINK_BUF
      BY <2>1, <2>3, <3>1 DEF Tok
    <3>3. master[e] \in Masters /\ slave[e] \in Slaves /\ inFlightPacket[e] \in SentP \cup {NULL}
      BY <2>3, LanePart DEF LInv
    <3> QED BY <3>2, <3>3, PacketKinds DEF Masters, Slaves
  <2> QED BY <2>2, <2>3 DEF TypeOK
<1> QED BY <1>1, LinkInvariance, PTL
-----------------------------------------------------------------------------
(* The links as channels.                                                  *)

Cmds(B) == [i \in DOMAIN B |-> B[i].CMD]

LEMMA CmdsFacts ==
  ASSUME NEW B \in Seq(ReqP \cup RspP)
  PROVE  /\ Cmds(B) \in Seq(Data) /\ Len(Cmds(B)) = Len(B)
         /\ \A i \in 1..Len(B) : Cmds(B)[i] = B[i].CMD
<1>1. \A i \in 1..Len(B) : B[i].CMD \in Data
  <2>1. \A p \in ReqP \cup RspP : p.CMD \in Data
    BY DEF ReqP, RspP, Data
  <2> QED BY <2>1
<1>2. DOMAIN B = 1..Len(B) /\ Len(B) \in Nat
  OBVIOUS
<1> QED BY <1>1, <1>2 DEF Cmds

LEMMA CmdsAppend ==
  ASSUME NEW B \in Seq(ReqP \cup RspP), NEW p \in ReqP \cup RspP
  PROVE  p.CMD \in Data /\ Cmds(Append(B, p)) = Append(Cmds(B), p.CMD)
<1>0. p.CMD \in Data
  BY DEF ReqP, RspP, Data
<1>1. PICK A : A = Append(B, p)
  OBVIOUS
<1>2. /\ A \in Seq(ReqP \cup RspP) /\ Len(A) = Len(B) + 1
      /\ \A i \in 1..(Len(B) + 1) : A[i] = IF i <= Len(B) THEN B[i] ELSE p
  BY <1>1, AppendFacts
<1>3. /\ Cmds(B) \in Seq(Data) /\ Len(Cmds(B)) = Len(B)
      /\ \A i \in 1..Len(B) : Cmds(B)[i] = B[i].CMD
  BY CmdsFacts
<1>4. /\ Cmds(A) \in Seq(Data) /\ Len(Cmds(A)) = Len(A)
      /\ \A i \in 1..Len(A) : Cmds(A)[i] = A[i].CMD
  BY <1>2, CmdsFacts
<1>5. /\ Append(Cmds(B), p.CMD) \in Seq(Data) /\ Len(Append(Cmds(B), p.CMD)) = Len(B) + 1
      /\ \A i \in 1..(Len(B) + 1) :
           Append(Cmds(B), p.CMD)[i] = IF i <= Len(B) THEN Cmds(B)[i] ELSE p.CMD
  BY <1>0, <1>3, AppendFacts
<1>6. Len(B) \in Nat
  OBVIOUS
<1>7. ASSUME NEW i \in 1..Len(A) PROVE Cmds(A)[i] = Append(Cmds(B), p.CMD)[i]
  <2>1. CASE i <= Len(B)
    <3>1. i \in 1..Len(B)
      BY <1>2, <1>6, <2>1
    <3> QED BY <1>2, <1>3, <1>4, <1>5, <2>1, <3>1
  <2>2. CASE ~(i <= Len(B))
    BY <1>2, <1>4, <1>5, <2>2
  <2> QED BY <2>1, <2>2
<1>8. Cmds(A) = Append(Cmds(B), p.CMD)
  BY <1>2, <1>4, <1>5, <1>7, SeqEqual
<1> QED BY <1>0, <1>1, <1>8

LEMMA CmdsTail ==
  ASSUME NEW B \in Seq(ReqP \cup RspP), B # <<>>
  PROVE  Cmds(B) # <<>> /\ Cmds(Tail(B)) = Tail(Cmds(B))
<1>1. PICK A : A = Tail(B)
  OBVIOUS
<1>2. /\ A \in Seq(ReqP \cup RspP) /\ Len(A) = Len(B) - 1 /\ Len(B) \in Nat \ {0}
      /\ \A i \in 1..(Len(B) - 1) : A[i] = B[i + 1]
  BY <1>1, TailFacts
<1>3. /\ Cmds(B) \in Seq(Data) /\ Len(Cmds(B)) = Len(B)
      /\ \A i \in 1..Len(B) : Cmds(B)[i] = B[i].CMD
  BY CmdsFacts
<1>4. /\ Cmds(A) \in Seq(Data) /\ Len(Cmds(A)) = Len(A)
      /\ \A i \in 1..Len(A) : Cmds(A)[i] = A[i].CMD
  BY <1>2, CmdsFacts
<1>5. Cmds(B) # <<>>
  BY <1>2, <1>3
<1>6. /\ Tail(Cmds(B)) \in Seq(Data) /\ Len(Tail(Cmds(B))) = Len(B) - 1
      /\ \A i \in 1..(Len(B) - 1) : Tail(Cmds(B))[i] = Cmds(B)[i + 1]
  BY <1>3, <1>5, TailFacts
<1>7. ASSUME NEW i \in 1..Len(A) PROVE Cmds(A)[i] = Tail(Cmds(B))[i]
  <2>1. i \in 1..(Len(B) - 1) /\ i + 1 \in 1..Len(B)
    BY <1>2
  <2> QED BY <1>2, <1>3, <1>4, <1>6, <2>1
<1>8. Cmds(A) = Tail(Cmds(B))
  BY <1>2, <1>4, <1>6, <1>7, SeqEqual
<1> QED BY <1>1, <1>5, <1>8

Line(B, P) == Cmds(B) \o P

LEMMA LineOf ==
  ASSUME LInv, NEW e \in Ends, NEW k \in Kinds
  PROVE  /\ Undelivered(e, k) = Line(SBuf(slave[Peer(e)], k), pending[e][k])
         /\ SBuf(slave[Peer(e)], k) \in Seq(ReqP \cup RspP) /\ pending[e][k] \in Seq(Data)
<1>1. slave[Peer(e)] \in Slaves /\ pending[e] \in [Kinds -> Seq(Data)]
  BY EndFacts, LanePart DEF LInv
<1>2. slave[Peer(e)].downBuffers \in Seq(ReqP) /\ slave[Peer(e)].upBuffers \in Seq(RspP)
  BY <1>1 DEF Slaves
<1>3. slave[Peer(e)].downBuffers \in Seq(ReqP \cup RspP) /\ slave[Peer(e)].upBuffers \in Seq(ReqP \cup RspP)
  BY <1>2, SeqSub
<1>4. SBuf(slave[Peer(e)], k) \in Seq(ReqP \cup RspP)
  BY <1>3 DEF SBuf
<1>5. Undelivered(e, k) = Line(SBuf(slave[Peer(e)], k), pending[e][k])
  BY DEF Undelivered, Line, Cmds, SBuf
<1> QED BY <1>1, <1>4, <1>5

LEMMA LineAccept ==
  ASSUME NEW B \in Seq(ReqP \cup RspP), NEW P \in Seq(Data), NEW d \in Data
  PROVE  Line(B, Append(P, d)) = Append(Line(B, P), d)
<1>1. PICK C \in Seq(Data) : C = Cmds(B)
  BY CmdsFacts
<1>2. C \o Append(P, d) = Append(C \o P, d)
  BY ConcatAppend
<1> QED BY <1>1, <1>2 DEF Line

LEMMA LineReceive ==
  ASSUME NEW B \in Seq(ReqP \cup RspP), NEW P \in Seq(Data), NEW p \in ReqP \cup RspP,
         P # <<>>, P[1] = p.CMD
  PROVE  Line(Append(B, p), Tail(P)) = Line(B, P)
<1>1. PICK C \in Seq(Data) : C = Cmds(B)
  BY CmdsFacts
<1>2. PICK d \in Data : d = p.CMD /\ Cmds(Append(B, p)) = Append(C, d)
  BY <1>1, CmdsAppend
<1>3. PICK T \in Seq(Data) : T = Tail(P) /\ <<d>> \in Seq(Data) /\ P = <<d>> \o T
  BY <1>2, HeadTail, TailFacts
<1>4. Append(C, d) = C \o <<d>>
  OBVIOUS
<1>5. (C \o <<d>>) \o T = C \o (<<d>> \o T)
  BY <1>3, ConcatAssoc
<1> QED BY <1>1, <1>2, <1>3, <1>4, <1>5 DEF Line

LEMMA LineTake ==
  ASSUME NEW B \in Seq(ReqP \cup RspP), NEW P \in Seq(Data), B # <<>>
  PROVE  Line(B, P) # <<>> /\ Line(Tail(B), P) = Tail(Line(B, P))
<1>1. PICK C \in Seq(Data) : C = Cmds(B) /\ C # <<>> /\ Cmds(Tail(B)) = Tail(C)
  BY CmdsFacts, CmdsTail
<1>2. C \o P # <<>> /\ Tail(C \o P) = Tail(C) \o P
  BY <1>1, ConcatTail
<1> QED BY <1>1, <1>2 DEF Line

Chan == [k \in Ends \X Kinds |-> Undelivered(k[1], k[2])]

LEMMA SameChannels ==
  ASSUME \A c \in Ends, j \in Kinds : Undelivered(c, j)' = Undelivered(c, j)
  PROVE  [Channel!Next]_Chan
<1>1. Chan' = Chan
  BY DEF Chan
<1> QED BY <1>1

LEMMA OneChannel ==
  ASSUME NEW e \in Ends, NEW k \in Kinds,
         \A c \in Ends, j \in Kinds : c # e \/ j # k => Undelivered(c, j)' = Undelivered(c, j),
         \/ Undelivered(e, k) # <<>> /\ Undelivered(e, k)' = Tail(Undelivered(e, k))
         \/ \E d \in Data : Undelivered(e, k)' = Append(Undelivered(e, k), d)
  PROVE  [Channel!Next]_Chan
<1>1. PICK n, i : n = Undelivered(e, k)' /\ i = <<e, k>>
  OBVIOUS
<1>2. i \in Ends \X Kinds /\ Chan[i] = Undelivered(e, k) /\ Chan'[i] = n
  BY <1>1 DEF Chan
<1>3. Chan' = [Chan EXCEPT ![i] = n]
  <2>1. ASSUME NEW j \in Ends \X Kinds, j # i PROVE Undelivered(j[1], j[2])' = Undelivered(j[1], j[2])
    <3>1. j[1] \in Ends /\ j[2] \in Kinds /\ (j[1] # e \/ j[2] # k)
      BY <1>1, <2>1
    <3> QED BY <3>1
  <2>2. Chan = [j \in Ends \X Kinds |-> Undelivered(j[1], j[2])]
    BY DEF Chan
  <2>3. Chan' = [j \in Ends \X Kinds |-> Undelivered(j[1], j[2])']
    BY DEF Chan
  <2>4. \A j \in Ends \X Kinds : Chan'[j] = IF j = i THEN n ELSE Chan[j]
    BY <1>2, <2>1, <2>2, <2>3
  <2> QED BY <2>2, <2>3, <2>4
<1>4. CASE Chan'[i] = Chan[i]
  <2>1. Chan' = Chan
    BY <1>2, <1>3, <1>4 DEF Chan
  <2> QED BY <2>1
<1>5. CASE Chan'[i] # Chan[i]
  <2>1. CASE Undelivered(e, k) # <<>> /\ Undelivered(e, k)' = Tail(Undelivered(e, k))
    <3>1. Chan[i] # <<>> /\ Chan' = [Chan EXCEPT ![i] = Tail(Chan[i])]
      BY <1>1, <1>2, <1>3, <2>1
    <3>2. Channel!Take(i)
      BY <3>1 DEF Channel!Take, Chan
    <3> QED BY <1>2, <1>5, <3>2 DEF Channel!Next, Chan
  <2>2. CASE \E d \in Data : Undelivered(e, k)' = Append(Undelivered(e, k), d)
    <3>1. PICK d \in Data : Chan' = [Chan EXCEPT ![i] = Append(Chan[i], d)]
      BY <1>1, <1>2, <1>3, <2>2
    <3>2. Channel!Send(i, d)
      BY <3>1 DEF Channel!Send, Chan
    <3> QED BY <1>2, <1>5, <3>2 DEF Channel!Next, Chan
  <2> QED BY <2>1, <2>2
<1> QED BY <1>4, <1>5

LEMMA QuietSteps ==
  ASSUME LInv, LInv', UNCHANGED pending,
         \A e \in Ends : /\ slave'[e].downBuffers = slave[e].downBuffers
                         /\ slave'[e].upBuffers = slave[e].upBuffers
  PROVE  [Channel!Next]_Chan
<1>1. \A c \in Ends, j \in Kinds : Undelivered(c, j)' = Undelivered(c, j)
  BY EndFacts DEF Undelivered
<1> QED BY <1>1, SameChannels

LEMMA AcceptSends ==
  ASSUME LInv, LInv', NEW e \in Ends, NEW d \in Sends[e], Accept(e, d)
  PROVE  [Channel!Next]_Chan
<1>1. d \in Data /\ slave' = slave
  BY LinkAssumption DEF Accept
<1>2. PICK k \in Kinds : k = KindOf(ReadyPacket(d))
  BY DEF KindOf, Kinds
<1>3. pending \in [Ends -> [Kinds -> Seq(Data)]] /\ pending' = [pending EXCEPT ![e][k] = Append(@, d)]
  BY <1>2 DEF LInv, Quiet, Accept
<1>4. /\ pending'[e][k] = Append(pending[e][k], d)
      /\ \A c \in Ends, j \in Kinds : c # e \/ j # k => pending'[c][j] = pending[c][j]
  BY <1>3
<1>5. \A c \in Ends, j \in Kinds : c # e \/ j # k => Undelivered(c, j)' = Undelivered(c, j)
  BY <1>1, <1>4 DEF Undelivered
<1>6. Undelivered(e, k)' = Append(Undelivered(e, k), d)
  <2>1. PICK B \in Seq(ReqP \cup RspP), P \in Seq(Data) :
          B = SBuf(slave[Peer(e)], k) /\ P = pending[e][k] /\ Undelivered(e, k) = Line(B, P)
    BY LineOf
  <2>2. Undelivered(e, k)' = Line(SBuf(slave[Peer(e)], k), pending'[e][k])
    BY <1>1, LineOf DEF Undelivered, Line, Cmds, SBuf
  <2>3. Line(B, Append(P, d)) = Append(Line(B, P), d)
    BY <1>1, LineAccept
  <2> QED BY <1>4, <2>1, <2>2, <2>3
<1> QED BY <1>1, <1>5, <1>6, OneChannel

LEMMA TakeTakes ==
  ASSUME LInv, LInv', NEW e \in Ends, TakeUp(e) \/ TakeDown(e)
  PROVE  [Channel!Next]_Chan
<1>0. Peer(e) \in Ends /\ Peer(Peer(e)) = e /\ \A c \in Ends : Peer(c) = e => c = Peer(e)
  BY DEF Ends, Peer
<1>1. slave \in [Ends -> Slaves]
  BY DEF LInv, Quiet
<1>2. PICK k \in Kinds :
        /\ SBuf(slave[e], k) # <<>> /\ SBuf(slave'[e], k) = Tail(SBuf(slave[e], k))
        /\ \A j \in Kinds : j # k => SBuf(slave'[e], j) = SBuf(slave[e], j)
  <2>1. CASE TakeUp(e)
    <3>1. /\ slave[e].upBuffers # <<>> /\ slave'[e].upBuffers = Tail(slave[e].upBuffers)
          /\ slave'[e].downBuffers = slave[e].downBuffers
      BY <1>1, <2>1 DEF TakeUp, Slaves
    <3>2. "up" \in Kinds
      BY DEF Kinds
    <3> QED BY <3>1, <3>2 DEF SBuf, Kinds
  <2>2. CASE TakeDown(e)
    <3>1. /\ slave[e].downBuffers # <<>> /\ slave'[e].downBuffers = Tail(slave[e].downBuffers)
          /\ slave'[e].upBuffers = slave[e].upBuffers
      BY <1>1, <2>2 DEF TakeDown, Slaves
    <3>2. "down" \in Kinds
      BY DEF Kinds
    <3> QED BY <3>1, <3>2 DEF SBuf, Kinds
  <2> QED BY <2>1, <2>2
<1>3. pending' = pending /\ \A c \in Ends : c # e => slave'[c] = slave[c]
  BY <1>1 DEF TakeUp, TakeDown
<1>4. \A c \in Ends, j \in Kinds : Undelivered(c, j)' = Line(SBuf(slave'[Peer(c)], j), pending'[c][j])
  BY DEF Undelivered, Line, Cmds, SBuf
<1>5. \A c \in Ends, j \in Kinds : Undelivered(c, j) = Line(SBuf(slave[Peer(c)], j), pending[c][j])
  BY LineOf
<1>6. ASSUME NEW c \in Ends, NEW j \in Kinds, c # Peer(e) \/ j # k
      PROVE  Undelivered(c, j)' = Undelivered(c, j)
  <2>1. SBuf(slave'[Peer(c)], j) = SBuf(slave[Peer(c)], j)
    BY <1>0, <1>2, <1>3, <1>6, EndFacts
  <2> QED BY <1>3, <1>4, <1>5, <2>1
<1>7. /\ Undelivered(Peer(e), k) # <<>>
      /\ Undelivered(Peer(e), k)' = Tail(Undelivered(Peer(e), k))
  <2>1. PICK B \in Seq(ReqP \cup RspP), P \in Seq(Data) :
          B = SBuf(slave[e], k) /\ P = pending[Peer(e)][k] /\ Undelivered(Peer(e), k) = Line(B, P)
    BY <1>0, LineOf
  <2>2. Undelivered(Peer(e), k)' = Line(Tail(B), P)
    BY <1>0, <1>2, <1>3, <1>4, <2>1, ZenonT(60)
  <2>3. Line(B, P) # <<>> /\ Line(Tail(B), P) = Tail(Line(B, P))
    BY <1>2, <2>1, LineTake
  <2> QED BY <2>1, <2>2, <2>3
<1> QED BY <1>0, <1>6, <1>7, OneChannel

LEMMA ReceiveStutters ==
  ASSUME LInv, LInv', NEW e \in Ends, ReceivePacket(e)
  PROVE  [Channel!Next]_Chan
<1>0. Peer(e) \in Ends /\ Peer(Peer(e)) = e /\ \A c \in Ends : c = e \/ c = Peer(e)
  BY DEF Ends, Peer
<1>1. PICK p : p = slave[e].linkRxTx[1]
  OBVIOUS
<1>2. p \in SentP
  BY <1>1, HeadOnWay DEF ReceivePacket, Sequenced
<1>3. /\ slave'[Peer(e)] = slave[Peer(e)] /\ pending'[e] = pending[e]
      /\ \A j \in Kinds : SBuf(slave'[e], j) = IF p.packetType = TypeOf(j) THEN Append(SBuf(slave[e], j), p)
                                                                          ELSE SBuf(slave[e], j)
      /\ \A j \in Kinds : pending'[Peer(e)][j] = IF p.packetType = TypeOf(j) THEN Tail(pending[Peer(e)][j])
                                                                            ELSE pending[Peer(e)][j]
      /\ \A j \in Kinds : p.packetType = TypeOf(j) => /\ pending[Peer(e)][j] # <<>>
                                                     /\ pending[Peer(e)][j][1] = p.CMD
  BY <1>1, ReceiveMoves
<1>4. \A c \in Ends, j \in Kinds : Undelivered(c, j)' = Line(SBuf(slave'[Peer(c)], j), pending'[c][j])
  BY DEF Undelivered, Line, Cmds, SBuf
<1>5. \A c \in Ends, j \in Kinds : Undelivered(c, j) = Line(SBuf(slave[Peer(c)], j), pending[c][j])
  BY LineOf
<1>6. ASSUME NEW j \in Kinds PROVE Undelivered(e, j)' = Undelivered(e, j)
  BY <1>3, <1>4, <1>5
<1>7. ASSUME NEW j \in Kinds PROVE Undelivered(Peer(e), j)' = Undelivered(Peer(e), j)
  <2>1. CASE p.packetType # TypeOf(j)
    BY <1>0, <1>3, <1>4, <1>5, <2>1
  <2>2. CASE p.packetType = TypeOf(j)
    <3>1. PICK B \in Seq(ReqP \cup RspP), P \in Seq(Data) :
            B = SBuf(slave[e], j) /\ P = pending[Peer(e)][j] /\ Undelivered(Peer(e), j) = Line(B, P)
      BY <1>0, LineOf
    <3>2. p \in ReqP \cup RspP
      BY <1>2, <2>2, PacketKinds DEF TypeOf
    <3>3. Undelivered(Peer(e), j)' = Line(Append(B, p), Tail(P)) /\ P # <<>> /\ P[1] = p.CMD
      BY <1>0, <1>3, <1>4, <2>2, <3>1
    <3>4. Line(Append(B, p), Tail(P)) = Line(B, P)
      BY <3>2, <3>3, LineReceive
    <3> QED BY <3>1, <3>3, <3>4
  <2> QED BY <2>1, <2>2
<1>8. \A c \in Ends, j \in Kinds : Undelivered(c, j)' = Undelivered(c, j)
  BY <1>0, <1>6, <1>7
<1> QED BY <1>8, SameChannels

LEMMA NextIsChannel ==
  ASSUME LInv, LInv', [Next]_vars
  PROVE  [Channel!Next]_Chan
<1>1. slave \in [Ends -> Slaves] /\ Ends # {} /\ \A e \in Ends : Peer(e) \in Ends
  BY EndFacts DEF LInv, Quiet, Ends
<1>2. CASE UNCHANGED vars
  BY <1>2, QuietSteps DEF vars
<1>3. ASSUME NEW e \in Ends, SendUp(e) \/ SendDown(e) \/ EndLinkRetry(e) \/ RetryTimeout(e) \/ Transmit(e)
      PROVE  [Channel!Next]_Chan
  <2>1. pending' = pending /\ slave' = slave
    BY <1>3 DEF SendUp, SendDown, EndLinkRetry, RetryTimeout, Transmit
  <2> QED BY <2>1, QuietSteps
<1>4. ASSUME NEW e \in Ends, Arrive(e) PROVE [Channel!Next]_Chan
  <2>1. PICK s : pending' = pending /\ slave' = [slave EXCEPT ![Peer(e)].linkRxTx = s]
    BY <1>4 DEF Arrive
  <2>2. \A c \in Ends : /\ slave'[c].downBuffers = slave[c].downBuffers
                        /\ slave'[c].upBuffers = slave[c].upBuffers
    BY <1>1, <2>1 DEF Slaves
  <2> QED BY <2>1, <2>2, QuietSteps
<1>5. ASSUME NEW e \in Ends, ReceivePRET(e) PROVE [Channel!Next]_Chan
  <2>1. pending' = pending /\ slave' = [slave EXCEPT ![e].linkRxTx = Tail(@)]
    BY <1>5 DEF ReceivePRET
  <2>2. \A c \in Ends : /\ slave'[c].downBuffers = slave[c].downBuffers
                        /\ slave'[c].upBuffers = slave[c].upBuffers
    BY <1>1, <2>1 DEF Slaves
  <2> QED BY <2>1, <2>2, QuietSteps
<1>6. ASSUME NEW e \in Ends PROVE ~ReceiveIRTRY(e) /\ ~DropPacket(e) /\ ~ErrorAbort(e)
  <2>1. slave[e].linkRxTx \in Seq(SentP) /\ slave[e].currentState = "NORMAL"
    BY <1>1 DEF Slaves
  <2>2. slave[e].linkRxTx # <<>> => slave[e].linkRxTx[1].CMD # "IRTRY"
    BY <2>1, TailFacts, PacketKinds
  <2>3. Sequenced(slave[e]) => CheckNoError(slave[e], slave[e].linkRxTx[1])
    BY HeadInOrder
  <2> QED BY <2>1, <2>2, <2>3 DEF ReceiveIRTRY, DropPacket, ErrorAbort
<1>7. CASE Next
  <2>1. PICK e \in Ends :
          \/ \E d \in Sends[e] : Accept(e, d)
          \/ MasterUpdate(e) \/ LinkUpdate(e) \/ SlaveReceive(e) \/ TakeUp(e) \/ TakeDown(e)
    BY <1>7 DEF Next
  <2>2. CASE \E d \in Sends[e] : Accept(e, d)
    BY <2>2, AcceptSends
  <2>3. CASE MasterUpdate(e)
    BY <1>3, <2>3 DEF MasterUpdate
  <2>4. CASE LinkUpdate(e)
    BY <1>3, <1>4, <2>4 DEF LinkUpdate
  <2>5. CASE SlaveReceive(e)
    BY <1>5, <1>6, <2>5, ReceiveStutters DEF SlaveReceive
  <2>6. CASE TakeUp(e) \/ TakeDown(e)
    BY <2>6, TakeTakes
  <2> QED BY <2>1, <2>2, <2>3, <2>4, <2>5, <2>6
<1> QED BY <1>2, <1>7

(* A pair of links that corrupts no packet that is checked implements the  *)
(* channels: in each direction requests and responses arrive in the order  *)
(* in which they were handed over, none is lost and none comes twice,      *)
(* whatever the sizes of the buffers and the sequence numbers.             *)
THEOREM ChannelCorrect == Spec /\ []Clean => IsChannel
<1>1. Init => Channel!Init
  <2> SUFFICES ASSUME Init PROVE Chan = [k \in Ends \X Kinds |-> <<>>]
    BY DEF Channel!Init, Chan
  <2>1. ASSUME NEW e \in Ends, NEW k \in Kinds PROVE Undelivered(e, k) = <<>>
    <3>1. /\ slave[Peer(e)].downBuffers = <<>> /\ slave[Peer(e)].upBuffers = <<>>
          /\ pending[e][k] = <<>>
      BY <2>1, EndFacts DEF Init, NewSlave
    <3> QED BY <3>1 DEF Undelivered
  <2> QED BY <2>1 DEF Chan
<1>2. LinkInv /\ LinkInv' /\ Clean /\ Clean' /\ [Next]_vars => [Channel!Next]_Chan
  BY NextIsChannel DEF LinkInv
<1> QED BY <1>1, <1>2, LinkInvariance, PTL DEF Spec, IsChannel, Channel!Spec, Chan
=============================================================================
