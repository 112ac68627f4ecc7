----------------------------- MODULE VaultProofs ----------------------------
(***************************************************************************)
(* The commands and the responses of a vault, for every number of banks,   *)
(* size of buffers and queues and set of requests.                         *)
(*                                                                         *)
(* VInv relates queues, command bus and banks: a command is still legal    *)
(* when it reaches the DRAM.  RInv relates the places a request can be in  *)
(* with the locks, the room in the queues and what pendingDataSize keeps:  *)
(* the queues never overflow and, where every response takes no more than  *)
(* was kept for it (Sound), no response is lost.                           *)
(***************************************************************************)
EXTENDS Vault, FiniteSetTheorems, WellFoundedInduction, TLAPS

-----------------------------------------------------------------------------
(* Induction over numbers, and least numbers.                              *)

LEMMA LeastNumber ==
  ASSUME NEW T, T \subseteq Nat, T # {}
  PROVE  \E x \in T : \A y \in T : x <= y
<1>1. \E x \in T : \A y \in T : ~(<<y, x>> \in OpToRel(<, Nat))
  BY WFMin, NatLessThanWellFounded
<1>2. ASSUME NEW x \in T, NEW y \in T, ~(<<y, x>> \in OpToRel(<, Nat))
      PROVE  x <= y
  BY <1>2 DEF OpToRel
<1> QED BY <1>1, <1>2

LEMMA NumberInduction ==
  ASSUME NEW S, 0 \in S, \A n \in Nat : n \in S => n + 1 \in S
  PROVE  Nat \subseteq S
<1> DEFINE T == {n \in Nat : n \notin S}
<1>1. SUFFICES ASSUME T # {} PROVE FALSE
  OBVIOUS
<1>2. PICK x \in T : \A y \in T : x <= y
  BY <1>1, LeastNumber
<1>3. x # 0 /\ x - 1 \in Nat
  BY <1>2
<1>4. x - 1 \in S
  BY <1>2, <1>3
<1> QED BY <1>2, <1>3, <1>4

LEMMA MinIs ==
  ASSUME NEW T, T \subseteq Nat, T # {}
  PROVE  Min(T) \in T /\ \A y \in T : Min(T) <= y
<1>1. \E x \in T : \A y \in T : x <= y
  BY LeastNumber
<1> QED BY <1>1, Zenon DEF Min

LEMMA MaxIs ==
  ASSUME NEW n \in Nat, NEW u \in SUBSET (1..n), n \in u
  PROVE  Max(u) = n
<1>1. \A y \in u : n >= y
  OBVIOUS
<1>2. Max(u) \in u /\ \A y \in u : Max(u) >= y
  BY <1>1, Zenon DEF Max
<1>3. PICK x : x = Max(u)
  OBVIOUS
<1>4. x \in 1..n /\ x >= n
  BY <1>2, <1>3
<1> QED BY <1>3, <1>4

-----------------------------------------------------------------------------
(* Sequences.                                                              *)

LEMMA AppendFacts ==
  ASSUME NEW S, NEW s \in Seq(S), NEW x \in S
  PROVE  /\ Append(s, x) \in Seq(S) /\ Len(Append(s, x)) = Len(s) + 1
         /\ \A i \in 1..(Len(s) + 1) : Append(s, x)[i] = IF i <= Len(s) THEN s[i] ELSE x
OBVIOUS

LEMMA ConcatFacts ==
  ASSUME NEW S, NEW s \in Seq(S), NEW t \in Seq(S)
  PROVE  /\ s \o t \in Seq(S) /\ Len(s \o t) = Len(s) + Len(t)
         /\ \A i \in 1..(Len(s) + Len(t)) :
              (s \o t)[i] = IF i <= Len(s) THEN s[i] ELSE t[i - Len(s)]
OBVIOUS

LEMMA SubFacts ==
  ASSUME NEW S, NEW s \in Seq(S), NEW j \in Nat \ {0}, NEW k \in Nat, k <= Len(s), j <= k + 1
  PROVE  /\ SubSeq(s, j, k) \in Seq(S) /\ Len(SubSeq(s, j, k)) = k - j + 1
         /\ \A i \in 1..(k - j + 1) : SubSeq(s, j, k)[i] = s[j + i - 1]
OBVIOUS

LEMMA RemoveFacts ==
  ASSUME NEW S, NEW s \in Seq(S), NEW k \in 1..Len(s)
  PROVE  /\ RemoveAt(s, k) \in Seq(S) /\ Len(RemoveAt(s, k)) = Len(s) - 1
         /\ \A i \in 1..(Len(s) - 1) : RemoveAt(s, k)[i] = IF i < k THEN s[i] ELSE s[i + 1]
<1>1. PICK n \in Nat : n = Len(s)
  OBVIOUS
<1>2. PICK a : a = SubSeq(s, 1, k - 1)
  OBVIOUS
<1>3. PICK b : b = SubSeq(s, k + 1, Len(s))
  OBVIOUS
<1>4. a \in Seq(S) /\ Len(a) = k - 1 /\ \A i \in 1..(k - 1) : a[i] = s[i]
  <2>1. PICK h \in Nat : h = k - 1 /\ h <= n /\ 1 <= h + 1
    BY <1>1
  <2>2. /\ SubSeq(s, 1, h) \in Seq(S) /\ Len(SubSeq(s, 1, h)) = h - 1 + 1
        /\ \A i \in 1..(h - 1 + 1) : SubSeq(s, 1, h)[i] = s[1 + i - 1]
    BY <1>1, <2>1, SubFacts
  <2> QED BY <1>2, <2>1, <2>2
<1>5. b \in Seq(S) /\ Len(b) = n - k /\ \A i \in 1..(n - k) : b[i] = s[k + i]
  <2>1. PICK h \in Nat \ {0} : h = k + 1 /\ h <= n + 1
    BY <1>1
  <2>2. /\ SubSeq(s, h, n) \in Seq(S) /\ Len(SubSeq(s, h, n)) = n - h + 1
        /\ \A i \in 1..(n - h + 1) : SubSeq(s, h, n)[i] = s[h + i - 1]
    BY <1>1, <2>1, SubFacts
  <2>3. n - h + 1 = n - k /\ \A i \in Int : h + i - 1 = k + i
    BY <2>1
  <2> QED BY <1>1, <1>3, <2>1, <2>2, <2>3
<1>6. /\ a \o b \in Seq(S) /\ Len(a \o b) = Len(a) + Len(b)
      /\ \A i \in 1..(Len(a) + Len(b)) : (a \o b)[i] = IF i <= Len(a) THEN a[i] ELSE b[i - Len(a)]
  BY <1>4, <1>5, ConcatFacts
<1>7. RemoveAt(s, k) = a \o b
  BY <1>2, <1>3 DEF RemoveAt
<1>8. Len(s) \in Nat /\ Len(a) + Len(b) = Len(s) - 1
  BY <1>1, <1>4, <1>5
<1>9. ASSUME NEW i \in 1..(Len(s) - 1) PROVE (a \o b)[i] = IF i < k THEN s[i] ELSE s[i + 1]
  <2>1. i \in 1..(Len(a) + Len(b))
    BY <1>8
  <2>2. CASE i < k
    <3>1. i \in 1..(k - 1) /\ i <= Len(a)
      BY <1>4, <2>2
    <3> QED BY <1>4, <1>6, <2>1, <2>2, <3>1
  <2>3. CASE ~(i < k)
    <3>1. /\ ~(i <= Len(a)) /\ i - Len(a) \in 1..(Len(s) - k) /\ k + (i - Len(a)) = i + 1
      BY <1>1, <1>4, <1>5, <1>8, <2>3
    <3> QED BY <1>1, <1>5, <1>6, <2>1, <2>3, <3>1
  <2> QED BY <2>2, <2>3
<1> QED BY <1>6, <1>7, <1>8, <1>9

-----------------------------------------------------------------------------
(* The pass over downBuffers: FoldLeft satisfies its recursion.            *)

Passes(s, z, D, g) ==
  /\ g = [u \in SUBSET D |-> g[u]]
  /\ \A u \in SUBSET D : g[u] = IF u = {} THEN z ELSE Convert(g[u \ {Max(u)}], s[Max(u)])

LEMMA PassExists ==
  ASSUME NEW s, NEW z, NEW m \in Nat
  PROVE  \E g : Passes(s, z, 1..m, g)
<1> DEFINE P == {n \in Nat : \E g : Passes(s, z, 1..n, g)}
<1>1. 0 \in P
  <2>1. Passes(s, z, 1..0, [u \in SUBSET (1..0) |-> z])
    BY DEF Passes
  <2> QED BY <2>1
<1>2. ASSUME NEW n \in Nat, n \in P PROVE n + 1 \in P
  <2>1. PICK g : Passes(s, z, 1..n, g)
    BY <1>2
  <2> DEFINE h == [u \in SUBSET (1..(n + 1)) |->
                     IF n + 1 \in u THEN Convert(g[u \ {n + 1}], s[n + 1]) ELSE g[u]]
  <2>2. ASSUME NEW u \in SUBSET (1..(n + 1))
        PROVE  h[u] = IF u = {} THEN z ELSE Convert(h[u \ {Max(u)}], s[Max(u)])
    <3>1. CASE n + 1 \in u
      <4>1. Max(u) = n + 1
        BY <3>1, MaxIs
      <4>2. u \ {n + 1} \in SUBSET (1..(n + 1)) /\ n + 1 \notin u \ {n + 1} /\ u # {}
        BY <3>1
      <4>3. h[u \ {n + 1}] = g[u \ {n + 1}]
        BY <4>2
      <4>4. h[u] = Convert(g[u \ {n + 1}], s[n + 1])
        BY <3>1
      <4> QED BY <4>1, <4>2, <4>3, <4>4
    <3>2. CASE n + 1 \notin u
      <4>1. u \in SUBSET (1..n)
        BY <3>2
      <4>2. CASE u = {}
        BY <2>1, <3>2, <4>1, <4>2 DEF Passes
      <4>3. CASE u # {}
        <5>1. u \ {Max(u)} \in SUBSET (1..(n + 1)) /\ n + 1 \notin u \ {Max(u)}
          BY <3>2, <4>1
        <5>2. h[u \ {Max(u)}] = g[u \ {Max(u)}] /\ h[u] = g[u]
          BY <3>2, <5>1
        <5>3. g[u] = Convert(g[u \ {Max(u)}], s[Max(u)])
          BY <2>1, <4>1, <4>3 DEF Passes
        <5> QED BY <4>3, <5>2, <5>3
      <4> QED BY <4>2, <4>3
    <3> QED BY <3>1, <3>2
  <2>3. h = [u \in SUBSET (1..(n + 1)) |-> h[u]]
    OBVIOUS
  <2>4. Passes(s, z, 1..(n + 1), h)
    <3> HIDE DEF h
    <3> QED BY <2>2, <2>3 DEF Passes
  <2> QED BY <2>4
<1>3. Nat \subseteq P
  BY <1>1, <1>2, NumberInduction
<1> QED BY <1>3

(* The states of the pass, one for each request of downBuffers.            *)
Trace(s, z, m, h) ==
  /\ m = Len(s) /\ h[0] = z /\ h[m] = FoldLeft(Convert, z, s)
  /\ \A i \in 1..m : h[i] = Convert(h[i - 1], s[i])

LEMMA PassSteps ==
  ASSUME NEW s \in Seq(Requests), NEW z, NEW m \in Nat, m = Len(s)
  PROVE  \E h : Trace(s, z, m, h)
<1> DEFINE D == DOMAIN s
           G(g) == g = [u \in SUBSET D |->
                          IF u = {} THEN z ELSE Convert(g[u \ {Max(u)}], s[Max(u)])]
<1>1. FoldLeft(Convert, z, s) = (CHOOSE g : G(g))[D]
  BY DEF FoldLeft, MapThenFoldSet
<1>2. D = 1..m
  OBVIOUS
<1>3. PICK f : Passes(s, z, 1..m, f)
  BY PassExists
<1>4. G(f)
  <2>1. \A u \in SUBSET D : f[u] = IF u = {} THEN z ELSE Convert(f[u \ {Max(u)}], s[Max(u)])
    BY <1>2, <1>3 DEF Passes
  <2>2. f = [u \in SUBSET D |-> f[u]]
    BY <1>2, <1>3 DEF Passes
  <2> QED BY <2>1, <2>2
<1>5. PICK g : g = CHOOSE h : G(h)
  OBVIOUS
<1>6. G(g)
  BY <1>4, <1>5, Zenon
<1>7. FoldLeft(Convert, z, s) = g[1..m]
  BY <1>1, <1>2, <1>5
<1>8. ASSUME NEW u \in SUBSET D
      PROVE  g[u] = IF u = {} THEN z ELSE Convert(g[u \ {Max(u)}], s[Max(u)])
  BY <1>6
<1>9. g[1..0] = z
  <2>1. 1..0 = {} /\ 1..0 \in SUBSET D
    OBVIOUS
  <2> QED BY <1>8, <2>1
<1>10. ASSUME NEW j \in 1..m PROVE g[1..j] = Convert(g[1..(j - 1)], s[j])
  <2>1. 1..j \in SUBSET D /\ 1..j # {} /\ j \in 1..j
    <3>1. 1..j \subseteq 1..m /\ j \in 1..j
      OBVIOUS
    <3> QED BY <1>2, <3>1
  <2>2. Max(1..j) = j /\ (1..j) \ {j} = 1..(j - 1)
    <3>1. Max(1..j) = j
      BY <2>1, MaxIs
    <3> QED BY <3>1
  <2> QED BY <1>8, <2>1, <2>2
<1>11. PICK h : h = [i \in 0..m |-> g[1..i]]
  OBVIOUS
<1>12. h[0] = z /\ h[m] = FoldLeft(Convert, z, s)
  BY <1>7, <1>9, <1>11
<1>13. ASSUME NEW i \in 1..m PROVE h[i] = Convert(h[i - 1], s[i])
  <2>1. i \in 0..m /\ i - 1 \in 0..m
    OBVIOUS
  <2> QED BY <1>10, <1>11, <2>1
<1>14. Trace(s, z, m, h)
  BY <1>12, <1>13 DEF Trace
<1> QED BY <1>14

(* What holds before the pass and is kept by every request of downBuffers, *)
(* holds after it.                                                         *)
LEMMA PassKeeps ==
  ASSUME NEW s \in Seq(Requests), NEW z, NEW J, z \in J,
         \A a \in J : \A i \in 1..Len(s) : Convert(a, s[i]) \in J
  PROVE  FoldLeft(Convert, z, s) \in J
<1>1. PICK m \in Nat : m = Len(s)
  OBVIOUS
<1>2. PICK h : Trace(s, z, m, h)
  BY <1>1, PassSteps
<1>3. /\ h[0] = z /\ h[m] = FoldLeft(Convert, z, s)
      /\ \A i \in 1..m : h[i] = Convert(h[i - 1], s[i])
  BY <1>2 DEF Trace
<1> DEFINE P == {i \in Nat : i <= m => h[i] \in J}
<1>4. 0 \in P
  BY <1>3
<1>5. ASSUME NEW i \in Nat, i \in P PROVE i + 1 \in P
  <2>1. SUFFICES ASSUME i + 1 <= m PROVE h[i + 1] \in J
    OBVIOUS
  <2>2. i + 1 \in 1..m /\ (i + 1) - 1 = i
    BY <2>1
  <2>3. h[i + 1] = Convert(h[i], s[i + 1]) /\ h[i] \in J
    BY <1>3, <1>5, <2>1, <2>2
  <2> QED BY <1>1, <2>2, <2>3
<1>6. Nat \subseteq P
  BY <1>4, <1>5, NumberInduction
<1> QED BY <1>3, <1>6

-----------------------------------------------------------------------------
(* The invariant.                                                          *)

Cmds == [commandType : CommandTypes, packetTAG : Requests, lastCMD : BOOLEAN]
RefreshCommand == Command("REFRESH", NULL, TRUE)
States == [currentBankState : BankStateTypes, openRowAddress : {Row[r] : r \in Requests} \cup {NULL}]

(* An ACTIVATE is never the last command of its request.                   *)
Followed(q) ==
  \A i \in 1..Len(q) : q[i].commandType = "ACTIVATE" =>
    \E j \in 1..Len(q) : j > i /\ q[j].packetTAG = q[i].packetTAG

OfBank(b, q) == \A i \in 1..Len(q) : Bank[q[i].packetTAG] = b

GoodQueue(b, q) == q \in Seq(Cmds) /\ OfBank(b, q) /\ Followed(q)

GoodQueues(f) == f = [b \in Banks |-> f[b]] /\ \A b \in Banks : GoodQueue(b, f[b])

(* What a command carries.                                                 *)
GoodCommands ==
  /\ downBuffers \in Seq(Requests)
  /\ readReturnDATA \in Seq(Cmds)
  /\ atomicCMD # NULL => atomicCMD \in Cmds
  /\ cmdBus # NULL => cmdBus \in Cmds \/ cmdBus = RefreshCommand

(* Power-down, power-up and refresh concern all banks.                     *)
Uniform ==
  \A b, x \in Banks :
    bankStates[b].currentBankState \in {"REFRESHING", "POWERDOWN", "AWAKING"}
      => bankStates[x].currentBankState = bankStates[b].currentBankState

(* The commands that an ACTIVATE is for keep the DRAM awake until it is    *)
(* there.                                                                  *)
Awaited ==
  cmdBus # NULL /\ cmdBus.commandType = "ACTIVATE" => queue[Bank[cmdBus.packetTAG]] # <<>>

VInv ==
  /\ GoodCommands /\ GoodQueues(queue)
  /\ bankStates \in [Banks -> States] /\ Uniform
  /\ Awaited /\ CommandLegal

-----------------------------------------------------------------------------
(* Queues stay good.                                                       *)

LEMMA CommandIs ==
  ASSUME NEW type \in CommandTypes, NEW r \in Requests, NEW last \in BOOLEAN
  PROVE  /\ Command(type, r, last) \in Cmds
         /\ Command(type, r, last).packetTAG = r
         /\ Command(type, r, last).commandType = type
         /\ Command(type, r, last).lastCMD = last
BY DEF Command, Cmds

(* A request becomes an ACTIVATE and at least one data command.            *)
LEMMA CommandsFacts ==
  ASSUME NEW r \in Requests
  PROVE  /\ Commands(r) \in Seq(Cmds) /\ Len(Commands(r)) >= 2
         /\ \A i \in 1..Len(Commands(r)) :
              /\ Commands(r)[i].packetTAG = r
              /\ i # 1 => Commands(r)[i].commandType # "ACTIVATE"
<1>1. PICK n \in Nat : n = DataCommands(r) /\ n >= 1
  <2>1. reqDataSize[r] \in Nat \ {0}
    BY VaultAssumption
  <2> QED BY <2>1 DEF DataCommands
<1>2. PICK type, lastType :
        /\ type \in CommandTypes /\ type # "ACTIVATE"
        /\ lastType \in CommandTypes /\ lastType # "ACTIVATE"
        /\ type = (IF CMD[r] \in Writes THEN "WRITE" ELSE "READ")
        /\ lastType = (CASE CMD[r] \in Writes -> "WRITE_P"
                         [] CMD[r] \in Reads -> "READ_P"
                         [] OTHER -> "READ")
  BY DEF CommandTypes
<1>3. PICK d : d = [i \in 1..n |-> Command(IF i < n THEN type ELSE lastType, r, i = n)]
  OBVIOUS
<1>4. ASSUME NEW i \in 1..n
      PROVE  d[i] \in Cmds /\ d[i].packetTAG = r /\ d[i].commandType # "ACTIVATE"
  <2>1. PICK t \in CommandTypes, last \in BOOLEAN : d[i] = Command(t, r, last) /\ t # "ACTIVATE"
    BY <1>2, <1>3
  <2> QED BY <2>1, CommandIs
<1>5. d \in Seq(Cmds) /\ Len(d) = n
  BY <1>1, <1>3, <1>4
<1>6. PICK a \in Cmds : a = Command("ACTIVATE", r, TRUE) /\ a.packetTAG = r
  <2>1. "ACTIVATE" \in CommandTypes /\ TRUE \in BOOLEAN
    BY DEF CommandTypes
  <2> QED BY <2>1, CommandIs, Zenon
<1>7. Commands(r) = <<a>> \o d
  BY <1>1, <1>2, <1>3, <1>6 DEF Commands
<1>8. <<a>> \in Seq(Cmds) /\ Len(<<a>>) = 1 /\ <<a>>[1] = a
  OBVIOUS
<1>9. /\ <<a>> \o d \in Seq(Cmds) /\ Len(<<a>> \o d) = n + 1
      /\ \A i \in 1..(n + 1) : (<<a>> \o d)[i] = IF i <= 1 THEN <<a>>[i] ELSE d[i - 1]
  BY <1>5, <1>8, ConcatFacts
<1>10. ASSUME NEW i \in 1..(n + 1)
       PROVE  /\ (<<a>> \o d)[i].packetTAG = r
              /\ i # 1 => (<<a>> \o d)[i].commandType # "ACTIVATE"
  <2>1. CASE i = 1
    <3>1. (<<a>> \o d)[1] = a
      BY <1>1, <1>8, <1>9
    <3> QED BY <1>6, <2>1, <3>1
  <2>2. CASE i # 1
    <3>1. i - 1 \in 1..n /\ ~(i <= 1)
      BY <2>2
    <3> QED BY <1>4, <1>9, <2>2, <3>1
  <2> QED BY <2>1, <2>2
<1> QED BY <1>1, <1>7, <1>9, <1>10

LEMMA GoodExtend ==
  ASSUME NEW b, NEW q, GoodQueue(b, q), NEW r \in Requests, Bank[r] = b
  PROVE  GoodQueue(b, q \o Commands(r)) /\ q \o Commands(r) # <<>>
<1>1. PICK t \in Seq(Cmds) :
        /\ t = Commands(r) /\ Len(t) >= 2
        /\ \A i \in 1..Len(t) : t[i].packetTAG = r /\ (i # 1 => t[i].commandType # "ACTIVATE")
  BY CommandsFacts
<1>2. PICK m \in Nat, n \in Nat : m = Len(q) /\ n = Len(t) /\ n >= 2 /\ q \in Seq(Cmds)
  BY <1>1 DEF GoodQueue
<1>3. PICK p : p = q \o t
  OBVIOUS
<1>4. /\ p \in Seq(Cmds) /\ Len(p) = m + n
      /\ \A i \in 1..(m + n) : p[i] = IF i <= m THEN q[i] ELSE t[i - m]
  BY <1>2, <1>3, ConcatFacts
<1>5. \A i \in 1..m : p[i] = q[i]
  BY <1>4
<1>6. \A i \in 1..n : p[m + i] = t[i]
  <2> SUFFICES ASSUME NEW i \in 1..n PROVE p[m + i] = t[i]
    OBVIOUS
  <2>1. m + i \in 1..(m + n) /\ ~(m + i <= m) /\ (m + i) - m = i
    OBVIOUS
  <2> QED BY <1>4, <2>1
<1>7. ASSUME NEW i \in 1..(m + n)
      PROVE  i \in 1..m \/ \E x \in 1..n : i = m + x
  <2>1. CASE i <= m
    BY <2>1
  <2>2. CASE ~(i <= m)
    <3>1. i - m \in 1..n /\ i = m + (i - m)
      BY <2>2
    <3> QED BY <3>1
  <2> QED BY <2>1, <2>2
<1>8. OfBank(b, p)
  <2> SUFFICES ASSUME NEW i \in 1..(m + n) PROVE Bank[p[i].packetTAG] = b
    BY <1>4 DEF OfBank
  <2>1. CASE i \in 1..m
    BY <1>2, <1>5, <2>1 DEF GoodQueue, OfBank
  <2>2. ASSUME NEW x \in 1..n, i = m + x PROVE Bank[p[i].packetTAG] = b
    BY <1>1, <1>2, <1>6, <2>2
  <2> QED BY <1>7, <2>1, <2>2
<1>9. Followed(p)
  <2> SUFFICES ASSUME NEW i \in 1..(m + n), p[i].commandType = "ACTIVATE"
               PROVE  \E j \in 1..(m + n) : j > i /\ p[j].packetTAG = p[i].packetTAG
    BY <1>4 DEF Followed
  <2>1. CASE i \in 1..m
    <3>1. PICK j \in 1..m : j > i /\ q[j].packetTAG = q[i].packetTAG
      BY <1>2, <1>5, <2>1 DEF GoodQueue, Followed
    <3>2. j \in 1..(m + n)
      OBVIOUS
    <3> QED BY <1>5, <2>1, <3>1, <3>2
  <2>2. ASSUME NEW x \in 1..n, i = m + x
        PROVE  \E j \in 1..(m + n) : j > i /\ p[j].packetTAG = p[i].packetTAG
    <3>1. x = 1 /\ 2 \in 1..n
      BY <1>1, <1>2, <1>6, <2>2
    <3>2. m + 2 \in 1..(m + n) /\ m + 2 > i
      BY <1>2, <2>2, <3>1
    <3>3. p[m + 2].packetTAG = r /\ p[i].packetTAG = r
      BY <1>1, <1>2, <1>6, <2>2, <3>1
    <3> QED BY <3>2, <3>3
  <2> QED BY <1>7, <2>1, <2>2
<1>10. p # <<>>
  BY <1>2, <1>4
<1> QED BY <1>1, <1>3, <1>4, <1>8, <1>9, <1>10 DEF GoodQueue

LEMMA GoodPrepend ==
  ASSUME NEW b, NEW q, GoodQueue(b, q), NEW r \in Requests, Bank[r] = b
  PROVE  /\ GoodQueue(b, <<Command("WRITE_P", r, TRUE)>> \o q)
         /\ <<Command("WRITE_P", r, TRUE)>> \o q # <<>>
<1>1. PICK c \in Cmds : /\ c = Command("WRITE_P", r, TRUE) /\ c.packetTAG = r
                        /\ c.commandType = "WRITE_P"
  <2>1. "WRITE_P" \in CommandTypes /\ TRUE \in BOOLEAN
    BY DEF CommandTypes
  <2> QED BY <2>1, CommandIs, Zenon
<1>2. PICK m \in Nat : m = Len(q) /\ q \in Seq(Cmds)
  BY DEF GoodQueue
<1>3. PICK p : p = <<c>> \o q
  OBVIOUS
<1>4. <<c>> \in Seq(Cmds) /\ Len(<<c>>) = 1 /\ <<c>>[1] = c
  OBVIOUS
<1>5. /\ p \in Seq(Cmds) /\ Len(p) = 1 + m
      /\ \A i \in 1..(1 + m) : p[i] = IF i <= 1 THEN <<c>>[i] ELSE q[i - 1]
  BY <1>2, <1>3, <1>4, ConcatFacts
<1>6. p[1] = c /\ \A i \in 1..m : p[i + 1] = q[i]
  <2>1. p[1] = c
    BY <1>4, <1>5
  <2>2. ASSUME NEW i \in 1..m PROVE p[i + 1] = q[i]
    <3>1. i + 1 \in 1..(1 + m) /\ ~(i + 1 <= 1) /\ (i + 1) - 1 = i
      OBVIOUS
    <3> QED BY <1>5, <3>1
  <2> QED BY <2>1, <2>2
<1>7. ASSUME NEW i \in 1..(1 + m) PROVE i = 1 \/ \E x \in 1..m : i = x + 1
  <2>1. CASE i # 1
    <3>1. i - 1 \in 1..m /\ i = (i - 1) + 1
      BY <2>1
    <3> QED BY <3>1
  <2> QED BY <2>1
<1>8. OfBank(b, p)
  <2> SUFFICES ASSUME NEW i \in 1..(1 + m) PROVE Bank[p[i].packetTAG] = b
    BY <1>5 DEF OfBank
  <2>1. CASE i = 1
    BY <1>1, <1>6, <2>1
  <2>2. ASSUME NEW x \in 1..m, i = x + 1 PROVE Bank[p[i].packetTAG] = b
    BY <1>2, <1>6, <2>2 DEF GoodQueue, OfBank
  <2> QED BY <1>7, <2>1, <2>2
<1>9. Followed(p)
  <2> SUFFICES ASSUME NEW i \in 1..(1 + m), p[i].commandType = "ACTIVATE"
               PROVE  \E j \in 1..(1 + m) : j > i /\ p[j].packetTAG = p[i].packetTAG
    BY <1>5 DEF Followed
  <2>1. CASE i = 1
    BY <1>1, <1>6, <2>1
  <2>2. ASSUME NEW x \in 1..m, i = x + 1
        PROVE  \E j \in 1..(1 + m) : j > i /\ p[j].packetTAG = p[i].packetTAG
    <3>1. PICK j \in 1..m : j > x /\ q[j].packetTAG = q[x].packetTAG
      BY <1>2, <1>6, <2>2 DEF GoodQueue, Followed
    <3>2. j + 1 \in 1..(1 + m) /\ j + 1 > i
      BY <2>2, <3>1
    <3> QED BY <1>6, <2>2, <3>1, <3>2
  <2> QED BY <1>7, <2>1, <2>2
<1>10. p # <<>>
  BY <1>2, <1>5
<1> QED BY <1>1, <1>3, <1>5, <1>8, <1>9, <1>10 DEF GoodQueue

(* A command may go if no ACTIVATE of its request waits before it.         *)
LEMMA GoodWithout ==
  ASSUME NEW b, NEW q, GoodQueue(b, q), NEW k \in 1..Len(q), NEW p,
         p \in Seq(Cmds), Len(p) = Len(q) - 1,
         \A i \in 1..(Len(q) - 1) : p[i] = IF i < k THEN q[i] ELSE q[i + 1],
         \A j \in 1..(k - 1) : ~(q[j].commandType = "ACTIVATE" /\ q[j].packetTAG = q[k].packetTAG)
  PROVE  GoodQueue(b, p) /\ (q[k].commandType = "ACTIVATE" => p # <<>>)
<1>1. PICK m \in Nat : m = Len(q) - 1 /\ m + 1 = Len(q) /\ q \in Seq(Cmds)
  BY DEF GoodQueue
<1>2. ASSUME NEW i \in 1..m
      PROVE  \E x \in 1..(m + 1) : x # k /\ p[i] = q[x] /\ x = IF i < k THEN i ELSE i + 1
  <2>1. (IF i < k THEN i ELSE i + 1) \in 1..(m + 1) /\ (IF i < k THEN i ELSE i + 1) # k
    BY <1>1
  <2> QED BY <1>1, <2>1
<1>3. ASSUME NEW x \in 1..(m + 1), x # k
      PROVE  \E i \in 1..m : p[i] = q[x] /\ i = IF x < k THEN x ELSE x - 1
  <2>1. CASE x < k
    <3>1. x \in 1..m
      BY <1>1, <2>1
    <3> QED BY <1>1, <2>1, <3>1
  <2>2. CASE ~(x < k)
    <3>1. x - 1 \in 1..m /\ ~(x - 1 < k) /\ (x - 1) + 1 = x
      BY <1>1, <1>3, <2>2
    <3> QED BY <1>1, <2>2, <3>1
  <2> QED BY <2>1, <2>2
<1>4. OfBank(b, p)
  <2> SUFFICES ASSUME NEW i \in 1..m PROVE Bank[p[i].packetTAG] = b
    BY <1>1 DEF OfBank
  <2>1. PICK x \in 1..(m + 1) : p[i] = q[x]
    BY <1>2
  <2> QED BY <1>1, <2>1 DEF GoodQueue, OfBank
<1>5. Followed(p)
  <2> SUFFICES ASSUME NEW i \in 1..m, p[i].commandType = "ACTIVATE"
               PROVE  \E j \in 1..m : j > i /\ p[j].packetTAG = p[i].packetTAG
    BY <1>1 DEF Followed
  <2>1. PICK x \in 1..(m + 1) : x # k /\ p[i] = q[x] /\ x = IF i < k THEN i ELSE i + 1
    BY <1>2
  <2>2. PICK y \in 1..(m + 1) : y > x /\ q[y].packetTAG = q[x].packetTAG
    BY <1>1, <2>1 DEF GoodQueue, Followed
  <2>3. y # k
    <3> SUFFICES ASSUME y = k PROVE FALSE
      OBVIOUS
    <3>1. x \in 1..(k - 1)
      BY <2>2
    <3> QED BY <2>1, <2>2, <3>1
  <2>4. PICK j \in 1..m : p[j] = q[y] /\ j = IF y < k THEN y ELSE y - 1
    BY <1>3, <2>3
  <2>5. j > i
    BY <1>1, <2>1, <2>2, <2>3, <2>4
  <2> QED BY <2>1, <2>2, <2>4, <2>5
<1>6. q[k].commandType = "ACTIVATE" => p # <<>>
  <2> SUFFICES ASSUME q[k].commandType = "ACTIVATE" PROVE m # 0
    BY <1>1
  <2>1. PICK y \in 1..(m + 1) : y > k
    BY <1>1 DEF GoodQueue, Followed
  <2> QED BY <1>1, <2>1
<1> QED BY <1>4, <1>5, <1>6 DEF GoodQueue

LEMMA GoodRemove ==
  ASSUME NEW b, NEW q, GoodQueue(b, q), NEW k \in 1..Len(q),
         \A j \in 1..(k - 1) : ~(q[j].commandType = "ACTIVATE" /\ q[j].packetTAG = q[k].packetTAG)
  PROVE  GoodQueue(b, RemoveAt(q, k)) /\ (q[k].commandType = "ACTIVATE" => RemoveAt(q, k) # <<>>)
<1>1. q \in Seq(Cmds)
  BY DEF GoodQueue
<1>2. PICK p : p = RemoveAt(q, k)
  OBVIOUS
<1>3. /\ p \in Seq(Cmds) /\ Len(p) = Len(q) - 1
      /\ \A i \in 1..(Len(q) - 1) : p[i] = IF i < k THEN q[i] ELSE q[i + 1]
  BY <1>1, <1>2, RemoveFacts
<1> QED BY <1>2, <1>3, GoodWithout

LEMMA GoodTail ==
  ASSUME NEW b, NEW q, GoodQueue(b, q), q # <<>>
  PROVE  GoodQueue(b, Tail(q)) /\ (q[1].commandType = "ACTIVATE" => Tail(q) # <<>>)
<1>1. q \in Seq(Cmds) /\ 1 \in 1..Len(q)
  BY DEF GoodQueue
<1>2. PICK p : p = Tail(q)
  OBVIOUS
<1>3. /\ p \in Seq(Cmds) /\ Len(p) = Len(q) - 1
      /\ \A i \in 1..(Len(q) - 1) : p[i] = IF i < 1 THEN q[i] ELSE q[i + 1]
  BY <1>1, <1>2
<1>4. PICK k \in 1..Len(q) : k = 1
  BY <1>1
<1>5. /\ \A i \in 1..(Len(q) - 1) : p[i] = IF i < k THEN q[i] ELSE q[i + 1]
      /\ \A j \in 1..(k - 1) : ~(q[j].commandType = "ACTIVATE" /\ q[j].packetTAG = q[k].packetTAG)
  BY <1>3, <1>4
<1>6. GoodQueue(b, p) /\ (q[k].commandType = "ACTIVATE" => p # <<>>)
  BY <1>3, <1>5, GoodWithout
<1> QED BY <1>2, <1>4, <1>6

-----------------------------------------------------------------------------
(* One lemma for each way a step changes cmdBus and the banks.             *)

LEMMA NoBusStep ==
  ASSUME VInv, UNCHANGED <<cmdBus, bankStates>>, downBuffers' \in Seq(Requests),
         readReturnDATA' \in Seq(Cmds), atomicCMD' # NULL => atomicCMD' \in Cmds,
         GoodQueues(queue'), \A b \in Banks : queue[b] # <<>> => queue'[b] # <<>>
  PROVE  VInv'
<1>1. GoodCommands'
  BY DEF VInv, GoodCommands
<1>2. Uniform' /\ CommandLegal' /\ bankStates' \in [Banks -> States]
  BY DEF VInv, Uniform, CommandLegal
<1>3. Awaited'
  <2> SUFFICES ASSUME cmdBus # NULL, cmdBus.commandType = "ACTIVATE"
               PROVE  queue'[Bank[cmdBus.packetTAG]] # <<>>
    BY DEF Awaited
  <2>1. cmdBus \in Cmds
    BY DEF VInv, GoodCommands, RefreshCommand, Command
  <2>2. Bank[cmdBus.packetTAG] \in Banks
    BY <2>1, VaultAssumption DEF Cmds
  <2> QED BY <2>2 DEF VInv, Awaited
<1> QED BY <1>1, <1>2, <1>3 DEF VInv

LEMMA PopStep ==
  ASSUME VInv, NEW b \in Banks, NEW c \in Cmds, Bank[c.packetTAG] = b, isIssuable(b, c),
         cmdBus' = c, UNCHANGED <<downBuffers, readReturnDATA, atomicCMD, bankStates>>,
         GoodQueues(queue'), c.commandType = "ACTIVATE" => queue'[b] # <<>>
  PROVE  VInv'
<1>1. GoodCommands'
  BY DEF VInv, GoodCommands
<1>2. Uniform' /\ bankStates' \in [Banks -> States]
  BY DEF VInv, Uniform
<1>3. Awaited'
  BY DEF Awaited
<1>4. CommandLegal'
  <2>1. PICK S, r : S = bankStates[b] /\ r = c.packetTAG
    OBVIOUS
  <2>2. CASE c.commandType = "ACTIVATE"
    <3>1. bankStates[b].currentBankState = "IDLE"
      BY <2>2 DEF isIssuable, IsRead, IsWrite
    <3> QED BY <2>2, <3>1 DEF CommandLegal
  <2>3. CASE c.commandType # "ACTIVATE"
    <3>1. c.commandType \in {"READ", "READ_P", "WRITE", "WRITE_P"}
      BY <2>3 DEF Cmds, CommandTypes
    <3>2. S.currentBankState = "ROW_ACTIVE" /\ S.openRowAddress = Row[r]
      BY <2>1, <2>3, <3>1 DEF isIssuable, IsRead, IsWrite
    <3> QED BY <2>1, <2>3, <3>1, <3>2 DEF CommandLegal
  <2> QED BY <2>2, <2>3
<1> QED BY <1>1, <1>2, <1>3, <1>4 DEF VInv

LEMMA QueueChanged ==
  ASSUME GoodQueues(queue), NEW b \in Banks, NEW q, GoodQueue(b, q), queue' = [queue EXCEPT ![b] = q]
  PROVE  GoodQueues(queue') /\ queue'[b] = q /\ \A x \in Banks : x # b => queue'[x] = queue[x]
<1>1. DOMAIN queue = Banks
  BY DEF GoodQueues
<1>2. queue' = [x \in Banks |-> queue'[x]] /\ queue'[b] = q /\ \A x \in Banks : x # b => queue'[x] = queue[x]
  BY <1>1
<1> QED BY <1>2 DEF GoodQueues

(* The element of a queue is a command of its bank.                        *)
LEMMA Element ==
  ASSUME NEW b, NEW q, GoodQueue(b, q), NEW i \in 1..Len(q)
  PROVE  q[i] \in Cmds /\ q[i].packetTAG \in Requests /\ Bank[q[i].packetTAG] = b
<1>1. q[i] \in Cmds
  BY DEF GoodQueue
<1> QED BY <1>1 DEF GoodQueue, OfBank, Cmds

LEMMA PopLockedStep ==
  ASSUME VInv, NEW b \in Banks, PopLocked(b)
  PROVE  VInv'
<1>1. PICK q : q = queue[b] /\ GoodQueue(b, q) /\ q # <<>>
  BY DEF VInv, GoodQueues, PopLocked, OwnerHead
<1>2. PICK k \in 1..Len(q) : k = 1
  BY <1>1 DEF GoodQueue
<1>3. q[1] \in Cmds /\ Bank[q[1].packetTAG] = b
  BY <1>1, <1>2, Element
<1>4. GoodQueue(b, Tail(q)) /\ (q[1].commandType = "ACTIVATE" => Tail(q) # <<>>)
  BY <1>1, GoodTail
<1>5. queue' = [queue EXCEPT ![b] = Tail(q)] /\ GoodQueues(queue) /\ isIssuable(b, q[1])
  BY <1>1 DEF PopLocked, VInv
<1>6. GoodQueues(queue') /\ queue'[b] = Tail(q)
  BY <1>4, <1>5, QueueChanged
<1>7. cmdBus' = q[1] /\ UNCHANGED <<downBuffers, readReturnDATA, atomicCMD, bankStates>>
  BY <1>1 DEF PopLocked, Issue, packetVars, dramVars
<1> QED BY <1>3, <1>4, <1>5, <1>6, <1>7, PopStep

LEMMA PopAtStep ==
  ASSUME VInv, NEW b \in Banks, NEW k \in DOMAIN queue[b], PopAt(b, k), Independent(b, k)
  PROVE  VInv'
<1>1. PICK q : q = queue[b] /\ GoodQueue(b, q) /\ k \in 1..Len(q)
  BY DEF VInv, GoodQueues, GoodQueue
<1>2. q[k] \in Cmds /\ Bank[q[k].packetTAG] = b
  BY <1>1, Element
<1>3. \A j \in 1..(k - 1) : ~(q[j].commandType = "ACTIVATE" /\ q[j].packetTAG = q[k].packetTAG)
  BY <1>1 DEF Independent
<1>4. GoodQueue(b, RemoveAt(q, k)) /\ (q[k].commandType = "ACTIVATE" => RemoveAt(q, k) # <<>>)
  BY <1>1, <1>3, GoodRemove
<1>5. queue' = [queue EXCEPT ![b] = RemoveAt(q, k)] /\ GoodQueues(queue) /\ isIssuable(b, q[k])
  BY <1>1 DEF PopAt, VInv
<1>6. GoodQueues(queue') /\ queue'[b] = RemoveAt(q, k)
  BY <1>4, <1>5, QueueChanged
<1>7. cmdBus' = q[k] /\ UNCHANGED <<downBuffers, readReturnDATA, atomicCMD, bankStates>>
  BY <1>1 DEF PopAt, Issue, packetVars, dramVars
<1> QED BY <1>2, <1>4, <1>5, <1>6, <1>7, PopStep

(* A command for the open row is popped while a refresh waits: it is the   *)
(* first one, so that the ACTIVATE of its request cannot stand before it.  *)
LEMMA OpenRowIndependent ==
  ASSUME VInv, NEW b \in Banks, ForOpenRow(b) # {}
  PROVE  /\ Min(ForOpenRow(b)) \in DOMAIN queue[b]
         /\ Independent(b, Min(ForOpenRow(b)))
<1>1. PICK q : q = queue[b] /\ GoodQueue(b, q)
  BY DEF VInv, GoodQueues
<1>2. ForOpenRow(b) \subseteq 1..Len(q) /\ DOMAIN q = 1..Len(q) /\ Len(q) \in Nat
  BY <1>1 DEF ForOpenRow, GoodQueue
<1>3. ForOpenRow(b) \subseteq Nat
  BY <1>2
<1>4. PICK k : k = Min(ForOpenRow(b)) /\ k \in ForOpenRow(b) /\ \A y \in ForOpenRow(b) : k <= y
  BY <1>3, MinIs
<1>5. Independent(b, k)
  <2> SUFFICES ASSUME NEW j \in 1..(k - 1), q[j].packetTAG = q[k].packetTAG PROVE FALSE
    BY <1>1 DEF Independent
  <2>1. k \in 1..Len(q) /\ j \in 1..Len(q) /\ ~(k <= j)
    BY <1>2, <1>4
  <2>2. j \in ForOpenRow(b)
    BY <1>1, <1>2, <1>4, <2>1 DEF ForOpenRow
  <2> QED BY <1>4, <2>1, <2>2
<1> QED BY <1>1, <1>2, <1>4, <1>5

LEMMA PoppableMin ==
  ASSUME VInv, NEW b \in Banks, Poppable(b) # {}
  PROVE  Min(Poppable(b)) \in DOMAIN queue[b] /\ Independent(b, Min(Poppable(b)))
<1>1. DOMAIN queue[b] \subseteq Nat
  BY DEF VInv, GoodQueues, GoodQueue
<1>2. Poppable(b) \subseteq Nat
  BY <1>1 DEF Poppable
<1>3. Min(Poppable(b)) \in Poppable(b)
  BY <1>2, MinIs
<1> QED BY <1>3 DEF Poppable

LEMMA PopsStep ==
  ASSUME VInv, NEW b \in Banks, Pop(b)
  PROVE  VInv'
<1>1. CASE PopLocked(b)
  BY <1>1, PopLockedStep
<1>2. CASE CmdPop(b) /\ ~PopLocked(b)
  <2>1. Poppable(b) # {} /\ PopAt(b, Min(Poppable(b)))
    BY <1>2 DEF CmdPop
  <2>2. Min(Poppable(b)) \in DOMAIN queue[b] /\ Independent(b, Min(Poppable(b)))
    BY <2>1, PoppableMin
  <2> QED BY <2>1, <2>2, PopAtStep
<1>3. CASE CmdPopForRefresh(b) /\ ~PopLocked(b)
  <2>1. ForOpenRow(b) # {} /\ PopAt(b, Min(ForOpenRow(b)))
    BY <1>3 DEF CmdPopForRefresh
  <2>2. Min(ForOpenRow(b)) \in DOMAIN queue[b] /\ Independent(b, Min(ForOpenRow(b)))
    BY <2>1, OpenRowIndependent
  <2> QED BY <2>1, <2>2, PopAtStep
<1> QED BY <1>1, <1>2, <1>3 DEF Pop

-----------------------------------------------------------------------------
(* The actions.                                                            *)

LEMMA ConvStep ==
  ASSUME VInv, ConvPacketIntoCMDs
  PROVE  VInv'
<1> DEFINE Q == {f \in [Banks -> Seq(Cmds)] :
                   /\ \A b \in Banks : GoodQueue(b, f[b])
                   /\ \A b \in Banks : queue[b] # <<>> => f[b] # <<>>}
           J == [kept : Seq(Requests), skip : BOOLEAN, queue : Q]
<1>1. downBuffers \in Seq(Requests) /\ GoodQueues(queue)
  BY DEF VInv, GoodCommands
<1>2. queue \in Q
  BY <1>1 DEF GoodQueues, GoodQueue
<1>3. PICK z : z = [kept |-> <<>>, skip |-> FALSE, queue |-> queue]
  OBVIOUS
<1>4. z \in J
  <2> HIDE DEF Q
  <2> QED BY <1>2, <1>3
<1>5. ASSUME NEW a \in J, NEW r \in Requests PROVE Convert(a, r) \in J
  <2>1. PICK b \in Banks : b = Bank[r]
    BY VaultAssumption
  <2>2. PICK f \in Q : f = a.queue
    OBVIOUS
  <2>3. PICK g : g = [f EXCEPT ![b] = @ \o Commands(r)]
    OBVIOUS
  <2>4. g \in Q
    <3>1. GoodQueue(b, f[b] \o Commands(r)) /\ f[b] \o Commands(r) # <<>>
      BY <2>1, <2>2, GoodExtend
    <3>2. g[b] = f[b] \o Commands(r) /\ \A x \in Banks : x # b => g[x] = f[x]
      BY <2>2, <2>3
    <3>3. \A x \in Banks : GoodQueue(x, g[x]) /\ (queue[x] # <<>> => g[x] # <<>>)
      BY <2>2, <3>1, <3>2
    <3>4. g \in [Banks -> Seq(Cmds)]
      <4>1. g = [x \in Banks |-> g[x]]
        BY <2>2, <2>3
      <4>2. \A x \in Banks : g[x] \in Seq(Cmds)
        BY <3>3 DEF GoodQueue
      <4> QED BY <4>1, <4>2
    <3> QED BY <3>3, <3>4
  <2> HIDE DEF Q
  <2>5. CASE ~a.skip /\ AvailableSpace(Bank[r], a.queue, DataCommands(r) + 1)
    <3>1. Convert(a, r) = [kept |-> a.kept, skip |-> TRUE, queue |-> g]
      BY <2>1, <2>2, <2>3, <2>5 DEF Convert
    <3> QED BY <2>4, <3>1
  <2>6. CASE ~(~a.skip /\ AvailableSpace(Bank[r], a.queue, DataCommands(r) + 1))
    <3>1. Convert(a, r) = [a EXCEPT !.kept = Append(@, r), !.skip = FALSE]
      BY <2>6 DEF Convert
    <3>2. Convert(a, r) = [kept |-> Append(a.kept, r), skip |-> FALSE, queue |-> a.queue]
      BY <3>1
    <3>3. Append(a.kept, r) \in Seq(Requests)
      OBVIOUS
    <3> QED BY <2>2, <3>2, <3>3
  <2> QED BY <2>5, <2>6
<1>6. Pass \in J
  <2> HIDE DEF J
  <2>1. \A a \in J : \A i \in 1..Len(downBuffers) : Convert(a, downBuffers[i]) \in J
    BY <1>1, <1>5
  <2>2. FoldLeft(Convert, z, downBuffers) \in J
    BY <1>1, <1>4, <2>1, PassKeeps
  <2> QED BY <1>3, <2>2 DEF Pass
<1>7. downBuffers' \in Seq(Requests) /\ queue' \in Q
  <2> HIDE DEF Q
  <2> QED BY <1>6 DEF ConvPacketIntoCMDs
<1>8. GoodQueues(queue') /\ \A b \in Banks : queue[b] # <<>> => queue'[b] # <<>>
  BY <1>7 DEF GoodQueues
<1>9. UNCHANGED <<cmdBus, bankStates, readReturnDATA, atomicCMD>>
  BY DEF ConvPacketIntoCMDs, dramVars
<1>10. readReturnDATA' \in Seq(Cmds) /\ (atomicCMD' # NULL => atomicCMD' \in Cmds)
  BY <1>9 DEF VInv, GoodCommands
<1> QED BY <1>7, <1>8, <1>9, <1>10, NoBusStep

LEMMA AtomicStep ==
  ASSUME VInv, AtomicOperation
  PROVE  VInv'
<1>1. PICK r, b : r = atomicCMD.packetTAG /\ b = Bank[r]
  OBVIOUS
<1>2. r \in Requests /\ b \in Banks
  <2>1. atomicCMD \in Cmds
    BY DEF AtomicOperation, VInv, GoodCommands
  <2> QED BY <1>1, <2>1, VaultAssumption DEF Cmds
<1>3. GoodQueues(queue)
  BY DEF VInv
<1>4. GoodQueues(queue') /\ \A x \in Banks : queue[x] # <<>> => queue'[x] # <<>>
  <2>1. CASE WritesBack(r)
    <3>1. PICK q : q = <<Command("WRITE_P", r, TRUE)>> \o queue[b] /\ GoodQueue(b, q) /\ q # <<>>
      BY <1>1, <1>2, <1>3, GoodPrepend DEF GoodQueues
    <3>2. queue' = [queue EXCEPT ![b] = q]
      BY <1>1, <2>1, <3>1 DEF AtomicOperation
    <3>3. GoodQueues(queue') /\ queue'[b] = q /\ \A x \in Banks : x # b => queue'[x] = queue[x]
      BY <1>2, <1>3, <3>1, <3>2, QueueChanged
    <3> QED BY <3>1, <3>3
  <2>2. CASE ~WritesBack(r)
    BY <1>1, <1>3, <2>2 DEF AtomicOperation
  <2> QED BY <2>1, <2>2
<1>5. UNCHANGED <<cmdBus, bankStates, readReturnDATA, downBuffers>> /\ atomicCMD' = NULL
  BY DEF AtomicOperation, dramVars
<1>6. readReturnDATA' \in Seq(Cmds) /\ downBuffers' \in Seq(Requests)
  BY <1>5 DEF VInv, GoodCommands
<1> QED BY <1>4, <1>5, <1>6, NoBusStep

LEMMA ReturnStep ==
  ASSUME VInv, ReturnRead
  PROVE  VInv'
<1>1. UNCHANGED <<cmdBus, bankStates, queue, downBuffers>>
  BY DEF ReturnRead, queueVars
<1>2. readReturnDATA \in Seq(Cmds) /\ readReturnDATA # <<>> /\ readReturnDATA' = Tail(readReturnDATA)
  BY DEF ReturnRead, VInv, GoodCommands
<1>3. readReturnDATA' \in Seq(Cmds) /\ readReturnDATA[1] \in Cmds
  BY <1>2
<1>4. atomicCMD' # NULL => atomicCMD' \in Cmds
  BY <1>3 DEF ReturnRead, VInv, GoodCommands
<1>5. downBuffers' \in Seq(Requests) /\ GoodQueues(queue')
      /\ \A b \in Banks : queue[b] # <<>> => queue'[b] # <<>>
  BY <1>1 DEF VInv, GoodCommands
<1> QED BY <1>1, <1>3, <1>4, <1>5, NoBusStep

LEMMA QuietStep ==
  ASSUME VInv, downBuffers' \in Seq(Requests),
         UNCHANGED <<cmdBus, bankStates, queue, readReturnDATA, atomicCMD>>
  PROVE  VInv'
<1>1. GoodQueues(queue') /\ \A b \in Banks : queue[b] # <<>> => queue'[b] # <<>>
  BY DEF VInv
<1>2. readReturnDATA' \in Seq(Cmds) /\ (atomicCMD' # NULL => atomicCMD' \in Cmds)
  BY DEF VInv, GoodCommands
<1> QED BY <1>1, <1>2, NoBusStep

LEMMA PopRefreshStep ==
  ASSUME VInv, PopRefresh
  PROVE  VInv'
<1>1. cmdBus' = RefreshCommand /\ UNCHANGED <<bankStates, queue, readReturnDATA, atomicCMD, downBuffers>>
  BY DEF PopRefresh, RefreshCommand, packetVars, dramVars
<1>2. RefreshCommand.commandType = "REFRESH"
  BY DEF RefreshCommand, Command
<1>3. \A b \in Banks : bankStates[b].currentBankState \in {"IDLE", "POWERDOWN"}
  BY DEF PopRefresh, Busy
<1>4. GoodCommands' /\ GoodQueues(queue') /\ bankStates' \in [Banks -> States] /\ Uniform'
  BY <1>1 DEF VInv, GoodCommands, Uniform
<1>5. Awaited' /\ CommandLegal'
  BY <1>1, <1>2, <1>3 DEF Awaited, CommandLegal
<1> QED BY <1>4, <1>5 DEF VInv

(* The state of some banks changes and nothing else that matters.          *)
LEMMA BanksStep ==
  ASSUME VInv, UNCHANGED <<cmdBus, queue, readReturnDATA, atomicCMD, downBuffers>>,
         bankStates' \in [Banks -> States], Uniform', CommandLegal'
  PROVE  VInv'
<1>1. GoodCommands' /\ GoodQueues(queue') /\ Awaited'
  BY DEF VInv, GoodCommands, Awaited
<1> QED BY <1>1 DEF VInv

LEMMA StateChange ==
  ASSUME NEW S \in States, NEW v \in BankStateTypes
  PROVE  /\ [S EXCEPT !.currentBankState = v] \in States
         /\ [S EXCEPT !.currentBankState = v].currentBankState = v
         /\ [S EXCEPT !.currentBankState = v].openRowAddress = S.openRowAddress
BY DEF States

(* All banks go to one state.                                              *)
LEMMA AllBanks ==
  ASSUME bankStates \in [Banks -> States], NEW v \in BankStateTypes,
         bankStates' = [b \in Banks |-> [bankStates[b] EXCEPT !.currentBankState = v]]
  PROVE  /\ bankStates' \in [Banks -> States] /\ Uniform'
         /\ \A b \in Banks : bankStates'[b].currentBankState = v
<1>1. \A b \in Banks : /\ bankStates'[b] = [bankStates[b] EXCEPT !.currentBankState = v]
                       /\ bankStates[b] \in States
  OBVIOUS
<1>2. \A b \in Banks : bankStates'[b] \in States /\ bankStates'[b].currentBankState = v
  BY <1>1, StateChange
<1> QED BY <1>2 DEF Uniform

LEMMA PowerDownStep ==
  ASSUME VInv, PowerDown
  PROVE  VInv'
<1>1. UNCHANGED <<cmdBus, queue, readReturnDATA, atomicCMD, downBuffers>>
  BY DEF PowerDown, packetVars, queueVars
<1>2. /\ bankStates' \in [Banks -> States] /\ Uniform'
      /\ \A b \in Banks : bankStates'[b].currentBankState = "POWERDOWN"
  BY AllBanks DEF PowerDown, VInv, BankStateTypes
<1>3. CommandLegal'
  <2> SUFFICES ASSUME cmdBus # NULL, cmdBus # RefreshCommand PROVE FALSE
    BY <1>1, <1>2 DEF CommandLegal, RefreshCommand, Command
  <2>1. cmdBus \in Cmds /\ Bank[cmdBus.packetTAG] \in Banks
    <3>1. cmdBus \in Cmds
      BY DEF VInv, GoodCommands
    <3> QED BY <3>1, VaultAssumption DEF Cmds
  <2>2. CASE cmdBus.commandType = "ACTIVATE"
    BY <2>1, <2>2 DEF VInv, Awaited, PowerDown, Idle
  <2>3. CASE cmdBus.commandType # "ACTIVATE"
    <3>1. cmdBus.commandType # "REFRESH"
      BY <2>1 DEF Cmds, CommandTypes
    <3>2. bankStates[Bank[cmdBus.packetTAG]].currentBankState = "ROW_ACTIVE"
      BY <2>3, <3>1 DEF VInv, CommandLegal
    <3> QED BY <2>1, <3>2 DEF PowerDown
  <2> QED BY <2>2, <2>3
<1> QED BY <1>1, <1>2, <1>3, BanksStep

LEMMA PowerUpStep ==
  ASSUME VInv, PowerUp
  PROVE  VInv'
<1>1. UNCHANGED <<cmdBus, queue, readReturnDATA, atomicCMD, downBuffers>> /\ cmdBus = NULL
  BY DEF PowerUp, packetVars, queueVars
<1>2. bankStates' \in [Banks -> States] /\ Uniform'
  BY AllBanks DEF PowerUp, VInv, BankStateTypes
<1>3. CommandLegal'
  BY <1>1 DEF CommandLegal
<1> QED BY <1>1, <1>2, <1>3, BanksStep

LEMMA BankIdleStep ==
  ASSUME VInv, NEW b \in Banks, BankIdle(b)
  PROVE  VInv'
<1>1. UNCHANGED <<cmdBus, queue, readReturnDATA, atomicCMD, downBuffers>>
  BY DEF BankIdle, packetVars, queueVars
<1>2. PICK same : same = IF bankStates[b].currentBankState = "PRECHARGING" THEN {b} ELSE Banks
  OBVIOUS
<1>3. \A x \in Banks : bankStates'[x] = IF x \in same
                         THEN [bankStates[x] EXCEPT !.currentBankState = "IDLE"] ELSE bankStates[x]
  BY <1>2 DEF BankIdle
<1>4. bankStates \in [Banks -> States] /\ \A x \in Banks : bankStates[x] \in States
  BY DEF VInv
<1>5. \A x \in Banks : bankStates'[x] \in States
                       /\ bankStates'[x].currentBankState
                            = IF x \in same THEN "IDLE" ELSE bankStates[x].currentBankState
  <2>1. "IDLE" \in BankStateTypes
    BY DEF BankStateTypes
  <2>2. SUFFICES ASSUME NEW x \in Banks
                 PROVE  /\ bankStates'[x] \in States
                        /\ bankStates'[x].currentBankState
                             = IF x \in same THEN "IDLE" ELSE bankStates[x].currentBankState
    OBVIOUS
  <2>3. PICK S \in States : S = bankStates[x]
    BY <1>4
  <2>4. /\ [S EXCEPT !.currentBankState = "IDLE"] \in States
        /\ [S EXCEPT !.currentBankState = "IDLE"].currentBankState = "IDLE"
    BY <2>1, StateChange
  <2> QED BY <1>3, <2>3, <2>4
<1>6. bankStates' \in [Banks -> States]
  <2>1. bankStates' = [x \in Banks |-> bankStates'[x]]
    BY DEF BankIdle
  <2> QED BY <1>5, <2>1
<1>7. Uniform'
  <2> SUFFICES ASSUME NEW x \in Banks, NEW y \in Banks,
                      bankStates'[x].currentBankState \in {"REFRESHING", "POWERDOWN", "AWAKING"}
               PROVE  bankStates'[y].currentBankState = bankStates'[x].currentBankState
    BY DEF Uniform
  <2>1. x \notin same /\ bankStates[x].currentBankState \in {"REFRESHING", "POWERDOWN", "AWAKING"}
    BY <1>5
  <2>2. bankStates[b].currentBankState = "PRECHARGING"
    BY <1>2, <2>1
  <2> QED BY <2>1, <2>2 DEF VInv, Uniform
<1>8. CommandLegal'
  <2> SUFFICES ASSUME cmdBus # NULL PROVE CommandLegal'
    BY <1>1 DEF CommandLegal
  <2>1. CASE cmdBus = RefreshCommand
    <3>1. bankStates[b].currentBankState \in {"IDLE", "POWERDOWN"}
      BY <2>1 DEF VInv, CommandLegal, RefreshCommand, Command
    <3> QED BY <3>1 DEF BankIdle
  <2>2. CASE cmdBus # RefreshCommand
    <3>1. cmdBus \in Cmds /\ Bank[cmdBus.packetTAG] \in Banks /\ cmdBus.commandType # "REFRESH"
      <4>1. cmdBus \in Cmds
        BY <2>2 DEF VInv, GoodCommands
      <4> QED BY <4>1, VaultAssumption DEF Cmds, CommandTypes
    <3>2. PICK x \in Banks : x = Bank[cmdBus.packetTAG]
      BY <3>1
    <3>3. CASE cmdBus.commandType = "ACTIVATE"
      <4>1. bankStates[x].currentBankState = "IDLE"
        BY <3>2, <3>3 DEF VInv, CommandLegal
      <4> QED BY <1>1, <1>5, <3>2, <3>3, <4>1 DEF CommandLegal
    <3>4. CASE cmdBus.commandType # "ACTIVATE"
      <4>1. bankStates[x].currentBankState = "ROW_ACTIVE"
            /\ bankStates[x].openRowAddress = Row[cmdBus.packetTAG]
        BY <3>1, <3>2, <3>4 DEF VInv, CommandLegal
      <4>2. x \notin same
        <5>1. bankStates[b].currentBankState \in {"PRECHARGING", "REFRESHING", "AWAKING"}
          BY DEF BankIdle
        <5>2. bankStates[b].currentBankState \in {"REFRESHING", "AWAKING"} =>
                bankStates[x].currentBankState = bankStates[b].currentBankState
          BY DEF VInv, Uniform
        <5> QED BY <1>2, <4>1, <5>1, <5>2
      <4>3. bankStates'[x] = bankStates[x]
        BY <1>3, <4>2
      <4> QED BY <1>1, <3>1, <3>2, <3>4, <4>1, <4>3 DEF CommandLegal
    <3> QED BY <3>3, <3>4
  <2> QED BY <2>1, <2>2
<1> QED BY <1>1, <1>6, <1>7, <1>8, BanksStep

LEMMA DramStep ==
  ASSUME VInv, IssueToDRAM
  PROVE  VInv'
<1>1. PICK c : c = cmdBus /\ c # NULL
  BY DEF IssueToDRAM
<1>2. cmdBus' = NULL /\ UNCHANGED <<queue, atomicCMD, downBuffers>>
  BY DEF IssueToDRAM, packetVars, queueVars
<1>3. Awaited' /\ CommandLegal' /\ GoodQueues(queue')
  BY <1>2 DEF Awaited, CommandLegal, VInv
<1>4. bankStates \in [Banks -> States]
  BY DEF VInv
<1>5. CASE c = RefreshCommand
  <2>1. c.commandType = "REFRESH"
    BY <1>5 DEF RefreshCommand, Command
  <2>2. readReturnDATA' = readReturnDATA
    BY <1>1, <2>1 DEF IssueToDRAM, IsRead
  <2>3. bankStates' = [x \in Banks |-> [bankStates[x] EXCEPT !.currentBankState = "REFRESHING"]]
    BY <1>1, <2>1 DEF IssueToDRAM
  <2>4. "REFRESHING" \in BankStateTypes
    BY DEF BankStateTypes
  <2>5. bankStates' \in [Banks -> States] /\ Uniform'
    BY <1>4, <2>3, <2>4, AllBanks
  <2> QED BY <1>2, <1>3, <2>2, <2>5 DEF VInv, GoodCommands
<1>6. CASE c # RefreshCommand
  <2>1. c \in Cmds /\ c.packetTAG \in Requests /\ c.commandType # "REFRESH"
    <3>1. c \in Cmds
      BY <1>1, <1>6 DEF VInv, GoodCommands
    <3> QED BY <3>1 DEF Cmds, CommandTypes
  <2>2. PICK b \in Banks : b = Bank[c.packetTAG]
    BY <2>1, VaultAssumption
  <2>3. readReturnDATA' \in Seq(Cmds)
    BY <1>1, <2>1 DEF IssueToDRAM, VInv, GoodCommands
  <2>4. GoodCommands'
    BY <1>2, <2>3 DEF VInv, GoodCommands
  <2>5. bankStates[b].currentBankState \in {"IDLE", "ROW_ACTIVE"}
    BY <1>1, <2>1, <2>2 DEF VInv, CommandLegal
  <2>6. \E S \in States : /\ S.currentBankState \in {"IDLE", "ROW_ACTIVE", "PRECHARGING"}
                          /\ bankStates' = [bankStates EXCEPT ![b] = S]
    <3>1. CASE c.commandType = "ACTIVATE"
      <4>1. PICK S : S = [currentBankState |-> "ROW_ACTIVE", openRowAddress |-> Row[c.packetTAG]]
        OBVIOUS
      <4>2. S \in States /\ S.currentBankState = "ROW_ACTIVE"
        BY <2>1, <4>1 DEF States, BankStateTypes
      <4>3. bankStates' = [bankStates EXCEPT ![b] = S]
        BY <1>1, <2>2, <3>1, <4>1 DEF IssueToDRAM
      <4> QED BY <4>2, <4>3
    <3>2. CASE c.commandType \in {"READ_P", "WRITE_P"}
      <4>1. PICK S : S = [bankStates[b] EXCEPT !.currentBankState = "PRECHARGING"]
        OBVIOUS
      <4>2. S \in States /\ S.currentBankState = "PRECHARGING"
        BY <1>4, <4>1, StateChange DEF BankStateTypes
      <4>3. bankStates' = [bankStates EXCEPT ![b] = S]
        BY <1>1, <1>4, <2>2, <3>2, <4>1 DEF IssueToDRAM
      <4> QED BY <4>2, <4>3
    <3>3. CASE c.commandType \notin {"ACTIVATE", "READ_P", "WRITE_P"}
      <4>1. bankStates' = bankStates
        BY <1>1, <2>1, <3>3 DEF IssueToDRAM
      <4>2. bankStates' = [bankStates EXCEPT ![b] = bankStates[b]]
        BY <1>4, <4>1
      <4> QED BY <1>4, <2>5, <4>2
    <3> QED BY <3>1, <3>2, <3>3
  <2>7. PICK S \in States : /\ S.currentBankState \in {"IDLE", "ROW_ACTIVE", "PRECHARGING"}
                            /\ bankStates' = [bankStates EXCEPT ![b] = S]
    BY <2>6
  <2>8. bankStates' \in [Banks -> States]
    BY <1>4, <2>7
  <2>9. \A x \in Banks : bankStates'[x] = IF x = b THEN S ELSE bankStates[x]
    BY <1>4, <2>7
  <2>10. \A x \in Banks : bankStates[x].currentBankState \notin {"REFRESHING", "POWERDOWN", "AWAKING"}
    BY <2>5 DEF VInv, Uniform
  <2>11. Uniform'
    BY <2>7, <2>9, <2>10 DEF Uniform
  <2> QED BY <1>3, <2>4, <2>8, <2>11 DEF VInv
<1> QED BY <1>5, <1>6

LEMMA VInvInit == Init => VInv
<1> SUFFICES ASSUME Init PROVE VInv
  OBVIOUS
<1>1. GoodCommands /\ Awaited /\ CommandLegal
  BY DEF Init, GoodCommands, Awaited, CommandLegal
<1>2. GoodQueues(queue)
  BY DEF Init, GoodQueues, GoodQueue, OfBank, Followed
<1>3. bankStates \in [Banks -> States] /\ Uniform
  BY DEF Init, States, BankStateTypes, Uniform
<1> QED BY <1>1, <1>2, <1>3 DEF VInv

LEMMA VInvNext == VInv /\ [Next]_vars => VInv'
<1> SUFFICES ASSUME VInv, [Next]_vars PROVE VInv'
  OBVIOUS
<1>1. downBuffers \in Seq(Requests)
  BY DEF VInv, GoodCommands
<1>2. ASSUME NEW r \in Requests, ReceiveDown(r) PROVE VInv'
  <2>1. downBuffers' = Append(downBuffers, r)
    BY <1>2 DEF ReceiveDown
  <2>2. UNCHANGED <<cmdBus, bankStates, queue, readReturnDATA, atomicCMD>>
    BY <1>2 DEF ReceiveDown, queueVars, dramVars
  <2>3. downBuffers' \in Seq(Requests)
    BY <1>1, <2>1
  <2> QED BY <2>2, <2>3, QuietStep
<1>3. CASE SendUp \/ ReturnPcu
  <2>1. UNCHANGED <<downBuffers, cmdBus, bankStates, queue, readReturnDATA, atomicCMD>>
    BY <1>3 DEF SendUp, ReturnPcu, queueVars, dramVars
  <2> QED BY <1>1, <2>1, QuietStep
<1>4. ASSUME NEW b \in Banks, StopAtLock(b) PROVE VInv'
  <2>1. UNCHANGED <<downBuffers, cmdBus, bankStates, queue, readReturnDATA, atomicCMD>>
    BY <1>4 DEF StopAtLock, packetVars, dramVars
  <2> QED BY <1>1, <2>1, QuietStep
<1>5. CASE SendWriteData \/ RefreshDue \/ RefreshOver
  <2>1. UNCHANGED <<downBuffers, cmdBus, bankStates, queue, readReturnDATA, atomicCMD>>
    BY <1>5 DEF SendWriteData, RefreshDue, RefreshOver, packetVars, queueVars, dramVars
  <2> QED BY <1>1, <2>1, QuietStep
<1>6. CASE UNCHANGED vars
  <2>1. UNCHANGED <<downBuffers, cmdBus, bankStates, queue, readReturnDATA, atomicCMD>>
    BY <1>6 DEF vars
  <2> QED BY <1>1, <2>1, QuietStep
<1> QED BY <1>2, <1>3, <1>4, <1>5, <1>6, ConvStep, PopsStep, BankIdleStep, PopRefreshStep, DramStep,
          AtomicStep, PowerDownStep, PowerUpStep, ReturnStep DEF Next

(* The invariant of the vault: queues, command bus and banks fit together. *)
THEOREM VaultInvariance == Spec => []VInv
BY VInvInit, VInvNext, PTL DEF Spec

(* A command that the controller has found issuable is still legal when it *)
(* reaches the DRAM, whatever precharges, refreshes, power-downs and       *)
(* power-ups come in between (isIssuable, CmdPop, EnablePowerdown,         *)
(* DRAM::receiveCMD).                                                      *)
THEOREM CommandsCorrect == Spec => []CommandLegal
<1>1. VInv => CommandLegal
  BY DEF VInv
<1> QED BY <1>1, VaultInvariance, PTL

-----------------------------------------------------------------------------
(* What is kept for a set of requests: the sum satisfies its recursion, in *)
(* whatever order the elements are chosen.                                 *)

LEMMA SizeTypes ==
  ASSUME NEW r \in Requests
  PROVE  Flits(r) \in Nat \ {0} /\ Reserved(r) \in Nat \ {0} /\ ResponseLNG(r) \in Nat \ {0}
<1>1. reqDataSize[r] \in Nat
  BY VaultAssumption
<1>2. Flits(r) \in Nat \ {0}
  BY <1>1 DEF Flits
<1>3. Reserved(r) \in Nat \ {0}
  BY <1>2 DEF Reserved
<1> QED BY <1>2, <1>3 DEF ResponseLNG

Chosen(s) == CHOOSE x \in s : TRUE
Small(n) == {s \in SUBSET Requests : Cardinality(s) <= n}

Adds(D, g) ==
  /\ g \in [D -> Nat]
  /\ \A s \in D : g[s] = IF s = {} THEN 0 ELSE Reserved(Chosen(s)) + g[s \ {Chosen(s)}]

LEMMA ChosenIn ==
  ASSUME NEW s \in SUBSET Requests, s # {}
  PROVE  /\ Chosen(s) \in s /\ Chosen(s) \in Requests /\ s \ {Chosen(s)} \in SUBSET Requests
         /\ Cardinality(s) \in Nat /\ Cardinality(s \ {Chosen(s)}) = Cardinality(s) - 1
<1>1. Chosen(s) \in s
  BY DEF Chosen
<1>2. IsFiniteSet(s)
  BY VaultAssumption, FS_Subset
<1> QED BY <1>1, <1>2, FS_CardinalityType, FS_RemoveElement

LEMMA SetSize ==
  ASSUME NEW s \in SUBSET Requests
  PROVE  IsFiniteSet(s) /\ Cardinality(s) \in Nat /\ (Cardinality(s) = 0 <=> s = {})
<1>1. IsFiniteSet(s)
  BY VaultAssumption, FS_Subset
<1> QED BY <1>1, FS_CardinalityType, FS_EmptySet

LEMMA AddsSmall ==
  ASSUME NEW m \in Nat
  PROVE  \E g : Adds(Small(m), g)
<1> DEFINE P == {n \in Nat : \E g : Adds(Small(n), g)}
<1>1. 0 \in P
  <2>1. Small(0) = {{}}
    BY SetSize DEF Small
  <2>2. Adds(Small(0), [s \in Small(0) |-> 0])
    BY <2>1 DEF Adds
  <2> QED BY <2>2
<1>2. ASSUME NEW n \in Nat, n \in P PROVE n + 1 \in P
  <2>1. PICK g : Adds(Small(n), g)
    BY <1>2
  <2> DEFINE h == [s \in Small(n + 1) |-> IF s \in Small(n) THEN g[s]
                                           ELSE Reserved(Chosen(s)) + g[s \ {Chosen(s)}]]
  <2>2. ASSUME NEW s \in Small(n + 1)
        PROVE  /\ h[s] \in Nat
               /\ h[s] = IF s = {} THEN 0 ELSE Reserved(Chosen(s)) + h[s \ {Chosen(s)}]
    <3>1. CASE s = {}
      <4>1. s \in Small(n)
        BY <3>1, SetSize DEF Small
      <4> QED BY <2>1, <3>1, <4>1 DEF Adds
    <3>2. CASE s # {}
      <4>1. PICK x : x = Chosen(s) /\ x \in s /\ x \in Requests /\ s \ {x} \in SUBSET Requests
                     /\ Cardinality(s) \in Nat /\ Cardinality(s \ {x}) = Cardinality(s) - 1
        BY <3>2, ChosenIn DEF Small
      <4>2. s \ {x} \in Small(n) /\ s \ {x} \in Small(n + 1)
        BY <4>1 DEF Small
      <4>3. h[s \ {x}] = g[s \ {x}] /\ g[s \ {x}] \in Nat /\ Reserved(x) \in Nat
        BY <2>1, <4>1, <4>2, SizeTypes DEF Adds
      <4>4. CASE s \in Small(n)
        <5>1. h[s] = g[s] /\ g[s] \in Nat /\ g[s] = Reserved(x) + g[s \ {x}]
          BY <2>1, <3>2, <4>1, <4>4 DEF Adds
        <5> QED BY <3>2, <4>1, <4>3, <5>1
      <4>5. CASE s \notin Small(n)
        <5>1. h[s] = Reserved(x) + g[s \ {x}]
          BY <4>1, <4>5
        <5> QED BY <3>2, <4>1, <4>3, <5>1
      <4> QED BY <4>4, <4>5
    <3> QED BY <3>1, <3>2
  <2>3. h = [s \in Small(n + 1) |-> h[s]]
    OBVIOUS
  <2>4. Adds(Small(n + 1), h)
    <3> HIDE DEF h
    <3> QED BY <2>2, <2>3 DEF Adds
  <2> QED BY <2>4
<1>3. Nat \subseteq P
  BY <1>1, <1>2, NumberInduction
<1> QED BY <1>3

LEMMA AddsExists == \E g : Adds(SUBSET Requests, g)
<1>1. PICK n \in Nat : n = Cardinality(Requests)
  BY VaultAssumption, FS_CardinalityType
<1>2. Small(n) = SUBSET Requests
  BY <1>1, VaultAssumption, FS_Subset DEF Small
<1> QED BY <1>2, AddsSmall

(* Two sums agree.                                                         *)
LEMMA AddsAgree ==
  ASSUME NEW S \in SUBSET Requests, NEW g, Adds(SUBSET Requests, g), NEW h,
         \A s \in SUBSET S : h[s] = IF s = {} THEN 0 ELSE Reserved(Chosen(s)) + h[s \ {Chosen(s)}]
  PROVE  h[S] = g[S]
<1> DEFINE P == {n \in Nat : \A s \in SUBSET S : Cardinality(s) = n => h[s] = g[s]}
<1>1. 0 \in P
  <2> SUFFICES ASSUME NEW s \in SUBSET S, Cardinality(s) = 0 PROVE h[s] = g[s]
    OBVIOUS
  <2>1. s = {} /\ s \in SUBSET Requests
    BY SetSize
  <2> QED BY <2>1 DEF Adds
<1>2. ASSUME NEW n \in Nat, n \in P PROVE n + 1 \in P
  <2> SUFFICES ASSUME NEW s \in SUBSET S, Cardinality(s) = n + 1 PROVE h[s] = g[s]
    OBVIOUS
  <2>1. s \in SUBSET Requests /\ s # {}
    BY SetSize
  <2>2. PICK x : x = Chosen(s) /\ x \in s /\ Cardinality(s \ {x}) = n
    BY <2>1, ChosenIn
  <2>3. h[s \ {x}] = g[s \ {x}]
    BY <1>2, <2>2
  <2>4. h[s] = Reserved(x) + h[s \ {x}]
    BY <2>1, <2>2
  <2>5. g[s] = Reserved(x) + g[s \ {x}]
    BY <2>1, <2>2 DEF Adds
  <2> QED BY <2>3, <2>4, <2>5
<1>3. Nat \subseteq P
  BY <1>1, <1>2, NumberInduction
<1> QED BY <1>3, SetSize

LEMMA SumIs ==
  ASSUME NEW S \in SUBSET Requests, NEW g, Adds(SUBSET Requests, g)
  PROVE  MapThenSumSet(Reserved, S) = g[S]
<1> DEFINE G(h) == h = [s \in SUBSET S |-> IF s = {} THEN 0
                                            ELSE Reserved(Chosen(s)) + h[s \ {Chosen(s)}]]
<1>1. MapThenSumSet(Reserved, S) = (CHOOSE h : G(h))[S]
  BY DEF MapThenSumSet, MapThenFoldSet, Chosen
<1>2. PICK f : f = [s \in SUBSET S |-> g[s]]
  OBVIOUS
<1>3. \A s \in SUBSET S : f[s] = IF s = {} THEN 0 ELSE Reserved(Chosen(s)) + f[s \ {Chosen(s)}]
  <2> SUFFICES ASSUME NEW s \in SUBSET S
               PROVE  f[s] = IF s = {} THEN 0 ELSE Reserved(Chosen(s)) + f[s \ {Chosen(s)}]
    OBVIOUS
  <2>1. s \in SUBSET Requests /\ s \ {Chosen(s)} \in SUBSET S
    OBVIOUS
  <2>2. f[s] = g[s] /\ f[s \ {Chosen(s)}] = g[s \ {Chosen(s)}]
    BY <1>2, <2>1
  <2> QED BY <2>1, <2>2 DEF Adds
<1>4. G(f)
  <2>1. f = [s \in SUBSET S |-> f[s]]
    BY <1>2
  <2> QED BY <1>3, <2>1
<1>5. PICK h : h = CHOOSE k : G(k)
  OBVIOUS
<1>6. G(h)
  BY <1>4, <1>5, Zenon
<1>7. h[S] = g[S]
  <2>1. \A s \in SUBSET S : h[s] = IF s = {} THEN 0 ELSE Reserved(Chosen(s)) + h[s \ {Chosen(s)}]
    BY <1>6
  <2> QED BY <2>1, AddsAgree
<1> QED BY <1>1, <1>5, <1>7

LEMMA AddsOne ==
  ASSUME NEW g, Adds(SUBSET Requests, g), NEW S \in SUBSET Requests, NEW r \in Requests, r \notin S
  PROVE  g[S \cup {r}] = Reserved(r) + g[S]
<1> DEFINE P == {n \in Nat : \A s \in SUBSET Requests : Cardinality(s) = n =>
                   \A z \in Requests \ s : g[s \cup {z}] = Reserved(z) + g[s]}
<1>0. \A s \in SUBSET Requests : s # {} =>
        g[s] = Reserved(Chosen(s)) + g[s \ {Chosen(s)}] /\ Chosen(s) \in s
  BY ChosenIn DEF Adds
<1>1. 0 \in P
  <2> SUFFICES ASSUME NEW s \in SUBSET Requests, Cardinality(s) = 0, NEW z \in Requests \ s
               PROVE  g[s \cup {z}] = Reserved(z) + g[s]
    OBVIOUS
  <2>1. s = {}
    BY SetSize
  <2>2. PICK t : t = s \cup {z} /\ t \in SUBSET Requests /\ t # {} /\ t \ {z} = s
    BY <2>1
  <2>3. Chosen(t) = z
    BY <1>0, <2>1, <2>2
  <2> QED BY <1>0, <2>2, <2>3
<1>2. ASSUME NEW n \in Nat, n \in P PROVE n + 1 \in P
  <2> SUFFICES ASSUME NEW s \in SUBSET Requests, Cardinality(s) = n + 1, NEW z \in Requests \ s
               PROVE  g[s \cup {z}] = Reserved(z) + g[s]
    OBVIOUS
  <2>1. PICK t : t = s \cup {z} /\ t \in SUBSET Requests /\ t # {} /\ t \ {z} = s
    <3>1. s \cup {z} \in SUBSET Requests /\ s \cup {z} # {} /\ (s \cup {z}) \ {z} = s
      OBVIOUS
    <3> QED BY <3>1, Zenon
  <2>2. PICK x : x = Chosen(t) /\ x \in t /\ g[t] = Reserved(x) + g[t \ {x}]
    BY <1>0, <2>1
  <2>3. CASE x = z
    BY <2>1, <2>2, <2>3
  <2>4. CASE x # z
    <3>0. x \in s /\ x \in Requests /\ z \notin s
      BY <2>1, <2>2, <2>4
    <3>1. PICK v : /\ v = s \ {x} /\ v \in SUBSET Requests /\ x \notin v /\ z \notin v
                   /\ v \cup {x} = s /\ t \ {x} = v \cup {z}
      <4>1. PICK v : v = s \ {x}
        OBVIOUS
      <4>2. v \cup {x} = s /\ t \ {x} = v \cup {z}
        BY <2>1, <2>4, <3>0, <4>1
      <4> QED BY <3>0, <4>1, <4>2
    <3>2. Cardinality(v) = n
      <4>1. IsFiniteSet(s)
        BY SetSize
      <4> QED BY <3>0, <3>1, <4>1, FS_RemoveElement
    <3>3. g[v \cup {z}] = Reserved(z) + g[v] /\ g[v \cup {x}] = Reserved(x) + g[v]
      BY <1>2, <3>0, <3>1, <3>2
    <3>4. g[v] \in Nat /\ Reserved(x) \in Nat /\ Reserved(z) \in Nat
      BY <3>0, <3>1, SizeTypes DEF Adds
    <3>5. g[t] = Reserved(x) + g[v \cup {z}] /\ g[s] = Reserved(x) + g[v]
      <4>1. g[t] = Reserved(x) + g[v \cup {z}]
        BY <2>2, <3>1, Zenon
      <4>2. g[s] = g[v \cup {x}]
        BY <3>1, Zenon
      <4> QED BY <3>3, <4>1, <4>2
    <3>6. PICK i \in Nat, j \in Nat, k \in Nat : i = Reserved(x) /\ j = Reserved(z) /\ k = g[v]
      BY <3>4
    <3>7. g[t] = i + (j + k) /\ g[s] = i + k
      BY <3>3, <3>5, <3>6, Zenon
    <3>8. g[t] = j + g[s]
      BY <3>7
    <3> QED BY <2>1, <3>6, <3>8, Zenon
  <2> QED BY <2>3, <2>4
<1>3. Nat \subseteq P
  BY <1>1, <1>2, NumberInduction
<1> QED BY <1>3, SetSize

Kept(S) == MapThenSumSet(Reserved, S)

LEMMA KeptFacts ==
  /\ Kept({}) = 0
  /\ \A S \in SUBSET Requests : Kept(S) \in Nat
  /\ \A S \in SUBSET Requests, r \in Requests : r \notin S => Kept(S \cup {r}) = Kept(S) + Reserved(r)
<1>1. PICK g : Adds(SUBSET Requests, g)
  BY AddsExists
<1>2. \A S \in SUBSET Requests : Kept(S) = g[S] /\ g[S] \in Nat
  BY <1>1, SumIs DEF Kept, Adds
<1>3. Kept({}) = 0
  BY <1>1, <1>2 DEF Adds
<1>4. ASSUME NEW S \in SUBSET Requests, NEW r \in Requests, r \notin S
      PROVE  Kept(S \cup {r}) = Kept(S) + Reserved(r)
  <2>1. S \cup {r} \in SUBSET Requests /\ Reserved(r) \in Nat
    BY SizeTypes
  <2>2. g[S \cup {r}] = Reserved(r) + g[S]
    BY <1>1, <1>4, AddsOne
  <2> QED BY <1>2, <2>1, <2>2
<1> QED BY <1>2, <1>3, <1>4

LEMMA KeptLess ==
  ASSUME NEW S \in SUBSET Requests, NEW r \in S
  PROVE  Kept(S) = Kept(S \ {r}) + Reserved(r)
<1>1. PICK T \in SUBSET Requests : T = S \ {r}
  OBVIOUS
<1>2. T \cup {r} = S /\ r \in Requests /\ r \notin T
  BY <1>1
<1> QED BY <1>1, <1>2, KeptFacts

-----------------------------------------------------------------------------
(* The flits of upBuffers.                                                 *)

UsedBy(s) == FoldLeft(LAMBDA n, r : n + ResponseLNG(r), 0, s)

Fills(s, D, g) ==
  /\ g \in [SUBSET D -> Nat]
  /\ \A u \in SUBSET D : g[u] = IF u = {} THEN 0 ELSE g[u \ {Max(u)}] + ResponseLNG(s[Max(u)])

LEMMA FillsExist ==
  ASSUME NEW s \in Seq(Requests), NEW m \in Nat, m = Len(s)
  PROVE  \E g : Fills(s, 1..m, g)
<1> DEFINE P == {n \in Nat : n <= m => \E g : Fills(s, 1..n, g)}
<1>1. 0 \in P
  <2>1. Fills(s, 1..0, [u \in SUBSET (1..0) |-> 0])
    BY DEF Fills
  <2> QED BY <2>1
<1>2. ASSUME NEW n \in Nat, n \in P PROVE n + 1 \in P
  <2>1. SUFFICES ASSUME n + 1 <= m PROVE \E g : Fills(s, 1..(n + 1), g)
    OBVIOUS
  <2>2. PICK g : Fills(s, 1..n, g)
    BY <1>2, <2>1
  <2>3. PICK w \in Nat : w = ResponseLNG(s[n + 1])
    <3>1. s[n + 1] \in Requests
      BY <2>1
    <3> QED BY <3>1, SizeTypes
  <2> DEFINE h == [u \in SUBSET (1..(n + 1)) |-> IF n + 1 \in u THEN g[u \ {n + 1}] + w ELSE g[u]]
  <2>4. ASSUME NEW u \in SUBSET (1..(n + 1))
        PROVE  /\ h[u] \in Nat
               /\ h[u] = IF u = {} THEN 0 ELSE h[u \ {Max(u)}] + ResponseLNG(s[Max(u)])
    <3>1. CASE n + 1 \in u
      <4>1. Max(u) = n + 1
        BY <3>1, MaxIs
      <4>2. u \ {n + 1} \in SUBSET (1..n) /\ u \ {n + 1} \in SUBSET (1..(n + 1)) /\ u # {}
        BY <3>1
      <4>3. g[u \ {n + 1}] \in Nat
        BY <2>2, <4>2 DEF Fills
      <4>4. h[u \ {n + 1}] = g[u \ {n + 1}] /\ h[u] = g[u \ {n + 1}] + w
        BY <3>1, <4>2
      <4> QED BY <2>3, <4>1, <4>2, <4>3, <4>4
    <3>2. CASE n + 1 \notin u
      <4>1. u \in SUBSET (1..n)
        BY <3>2
      <4>2. CASE u = {}
        BY <2>2, <3>2, <4>1, <4>2 DEF Fills
      <4>3. CASE u # {}
        <5>1. u \ {Max(u)} \in SUBSET (1..n) /\ n + 1 \notin u \ {Max(u)}
          BY <3>2, <4>1
        <5>2. h[u \ {Max(u)}] = g[u \ {Max(u)}] /\ h[u] = g[u]
          BY <3>2, <5>1
        <5>3. g[u] \in Nat /\ g[u] = g[u \ {Max(u)}] + ResponseLNG(s[Max(u)])
          BY <2>2, <4>1, <4>3 DEF Fills
        <5> QED BY <4>3, <5>2, <5>3
      <4> QED BY <4>2, <4>3
    <3> QED BY <3>1, <3>2
  <2>5. h = [u \in SUBSET (1..(n + 1)) |-> h[u]]
    OBVIOUS
  <2>6. Fills(s, 1..(n + 1), h)
    <3> HIDE DEF h
    <3> QED BY <2>4, <2>5 DEF Fills
  <2> QED BY <2>6
<1>3. Nat \subseteq P
  BY <1>1, <1>2, NumberInduction
<1> QED BY <1>3

(* UsedBy with its partial sums listed.                                    *)
Partial(s, g) ==
  /\ g \in [0..Len(s) -> Nat] /\ g[0] = 0
  /\ \A i \in 1..Len(s) : g[i] = g[i - 1] + ResponseLNG(s[i])

LEMMA UsedPartial ==
  ASSUME NEW s \in Seq(Requests)
  PROVE  \E g : Partial(s, g) /\ UsedBy(s) = g[Len(s)]
<1> DEFINE D == DOMAIN s
           G(g) == g = [u \in SUBSET D |->
                          IF u = {} THEN 0 ELSE g[u \ {Max(u)}] + ResponseLNG(s[Max(u)])]
<1>1. UsedBy(s) = (CHOOSE g : G(g))[D]
  BY DEF UsedBy, FoldLeft, MapThenFoldSet
<1>2. PICK m \in Nat : D = 1..m /\ m = Len(s)
  OBVIOUS
<1>3. PICK f : Fills(s, 1..m, f)
  BY <1>2, FillsExist
<1>4. G(f)
  BY <1>2, <1>3 DEF Fills
<1>5. PICK g : g = CHOOSE h : G(h)
  OBVIOUS
<1>6. G(g)
  BY <1>4, <1>5, Zenon
<1>7. UsedBy(s) = g[1..m]
  BY <1>1, <1>2, <1>5
<1>8. ASSUME NEW i \in Nat, i <= m, i # 0
      PROVE  g[1..i] = g[1..(i - 1)] + ResponseLNG(s[i])
  <2>1. 1..i \in SUBSET D /\ 1..i # {} /\ i \in 1..i
    <3>1. 1..i \subseteq 1..m /\ i \in 1..i
      BY <1>8
    <3> QED BY <1>2, <3>1
  <2>2. Max(1..i) = i
    BY <2>1, MaxIs
  <2>3. (1..i) \ {i} = 1..(i - 1)
    BY <1>8
  <2> QED BY <1>6, <2>1, <2>2, <2>3
<1>9. g[1..0] = 0
  <2>1. 1..0 = {} /\ 1..0 \in SUBSET D
    OBVIOUS
  <2> QED BY <1>6, <2>1
<1> DEFINE k == [i \in 0..m |-> g[1..i]]
           P == {i \in Nat : i <= m => g[1..i] \in Nat}
<1>10. Nat \subseteq P
  <2>1. 0 \in P
    BY <1>9
  <2>2. ASSUME NEW i \in Nat, i \in P PROVE i + 1 \in P
    <3>1. SUFFICES ASSUME i + 1 <= m PROVE g[1..(i + 1)] \in Nat
      OBVIOUS
    <3>2. g[1..(i + 1)] = g[1..i] + ResponseLNG(s[i + 1])
      BY <1>8, <3>1
    <3>3. s[i + 1] \in Requests
      BY <1>2, <3>1
    <3>4. ResponseLNG(s[i + 1]) \in Nat /\ g[1..i] \in Nat
      BY <2>2, <3>1, <3>3, SizeTypes
    <3> QED BY <3>2, <3>4
  <2> QED BY <2>1, <2>2, NumberInduction
<1>11. Partial(s, k)
  <2>1. k \in [0..m -> Nat]
    BY <1>10
  <2>2. k[0] = 0
    BY <1>2, <1>9
  <2>3. \A i \in 1..m : k[i] = k[i - 1] + ResponseLNG(s[i])
    BY <1>2, <1>8
  <2> QED BY <1>2, <2>1, <2>2, <2>3 DEF Partial
<1>12. UsedBy(s) = k[Len(s)]
  BY <1>2, <1>7
<1> QED BY <1>11, <1>12

LEMMA UsedType ==
  ASSUME NEW s \in Seq(Requests)
  PROVE  UsedBy(s) \in Nat /\ UsedBy(<<>>) = 0
<1>1. PICK g : Partial(s, g) /\ UsedBy(s) = g[Len(s)]
  BY UsedPartial
<1>2. <<>> \in Seq(Requests) /\ Len(<<>>) = 0
  OBVIOUS
<1>3. PICK h : Partial(<<>>, h) /\ UsedBy(<<>>) = h[Len(<<>>)]
  BY <1>2, UsedPartial
<1>4. Len(s) \in 0..Len(s)
  OBVIOUS
<1> QED BY <1>1, <1>2, <1>3, <1>4 DEF Partial

LEMMA UsedAppend ==
  ASSUME NEW s \in Seq(Requests), NEW r \in Requests
  PROVE  UsedBy(Append(s, r)) = UsedBy(s) + ResponseLNG(r)
<1>1. PICK t : t = Append(s, r)
  OBVIOUS
<1>2. PICK n \in Nat : n = Len(s)
  OBVIOUS
<1>3. /\ t \in Seq(Requests) /\ Len(t) = n + 1
      /\ \A i \in 1..(n + 1) : t[i] = IF i <= n THEN s[i] ELSE r
  BY <1>1, <1>2, AppendFacts
<1>4. PICK g : Partial(s, g) /\ UsedBy(s) = g[Len(s)]
  BY UsedPartial
<1>5. PICK h : Partial(t, h) /\ UsedBy(t) = h[Len(t)]
  BY <1>3, UsedPartial
<1> DEFINE P == {i \in Nat : i <= n => h[i] = g[i]}
<1>6. 0 \in P
  BY <1>4, <1>5 DEF Partial
<1>7. ASSUME NEW i \in Nat, i \in P PROVE i + 1 \in P
  <2>1. SUFFICES ASSUME i + 1 <= n PROVE h[i + 1] = g[i + 1]
    OBVIOUS
  <2>2. i + 1 \in 1..n /\ i + 1 \in 1..(n + 1) /\ (i + 1) - 1 = i
    BY <2>1
  <2>3. t[i + 1] = s[i + 1]
    BY <1>3, <2>1, <2>2
  <2>4. h[i + 1] = h[i] + ResponseLNG(t[i + 1])
    BY <1>3, <1>5, <2>2 DEF Partial
  <2>5. g[i + 1] = g[i] + ResponseLNG(s[i + 1])
    BY <1>2, <1>4, <2>2 DEF Partial
  <2> QED BY <1>7, <2>1, <2>3, <2>4, <2>5
<1>8. Nat \subseteq P
  BY <1>6, <1>7, NumberInduction
<1>9. h[n] = g[n]
  BY <1>8
<1>10. n + 1 \in 1..(n + 1) /\ (n + 1) - 1 = n /\ t[n + 1] = r
  BY <1>3
<1>11. h[n + 1] = h[n] + ResponseLNG(r)
  BY <1>3, <1>5, <1>10 DEF Partial
<1> QED BY <1>1, <1>2, <1>3, <1>4, <1>5, <1>9, <1>11

LEMMA UsedTail ==
  ASSUME NEW s \in Seq(Requests), s # <<>>
  PROVE  UsedBy(s) = UsedBy(Tail(s)) + ResponseLNG(s[1])
<1>1. PICK t : t = Tail(s)
  OBVIOUS
<1>2. PICK n \in Nat : n + 1 = Len(s)
  OBVIOUS
<1>3. /\ t \in Seq(Requests) /\ Len(t) = n
      /\ \A i \in 1..n : t[i] = s[i + 1]
  BY <1>1, <1>2
<1>4. PICK g : Partial(s, g) /\ UsedBy(s) = g[Len(s)]
  BY UsedPartial
<1>5. PICK h : Partial(t, h) /\ UsedBy(t) = h[Len(t)]
  BY <1>3, UsedPartial
<1>6. PICK w \in Nat : w = ResponseLNG(s[1])
  <2>1. s[1] \in Requests
    BY <1>2
  <2> QED BY <2>1, SizeTypes
<1> DEFINE P == {i \in Nat : i <= n => g[i + 1] = h[i] + w}
<1>7. 0 \in P
  <2>1. g[1] = g[0] + w /\ g[0] = 0 /\ h[0] = 0
    BY <1>2, <1>4, <1>5, <1>6 DEF Partial
  <2> QED BY <1>6, <2>1
<1>8. ASSUME NEW i \in Nat, i \in P PROVE i + 1 \in P
  <2>1. SUFFICES ASSUME i + 1 <= n PROVE g[(i + 1) + 1] = h[i + 1] + w
    OBVIOUS
  <2>2. PICK j \in Nat : j = i + 1 /\ j - 1 = i /\ j \in 1..n /\ j + 1 \in 1..(n + 1) /\ (j + 1) - 1 = j
    BY <2>1
  <2>3. PICK v \in Nat : v = ResponseLNG(t[j]) /\ v = ResponseLNG(s[j + 1])
    <3>1. t[j] \in Requests /\ t[j] = s[j + 1]
      BY <1>3, <2>2
    <3> QED BY <3>1, SizeTypes
  <2>4. h[j] = h[i] + v
    BY <1>3, <1>5, <2>2, <2>3 DEF Partial
  <2>5. g[j + 1] = g[j] + v
    BY <1>2, <1>4, <2>2, <2>3 DEF Partial
  <2>6. g[j] = h[i] + w
    BY <1>8, <2>1, <2>2
  <2>7. h[i] \in Nat
    <3>1. i \in 0..n
      BY <2>2
    <3> QED BY <1>3, <1>5, <3>1 DEF Partial
  <2> QED BY <2>2, <2>4, <2>5, <2>6, <2>7
<1>9. Nat \subseteq P
  BY <1>7, <1>8, NumberInduction
<1>10. g[n + 1] = h[n] + w
  BY <1>9
<1> QED BY <1>1, <1>2, <1>3, <1>4, <1>5, <1>6, <1>10

-----------------------------------------------------------------------------
(* The commands of a request: it is opened, its data are read or written,  *)
(* the final command makes the response, and an atomic request writes its  *)
(* result back.                                                            *)

Kind(c) ==
  IF c.commandType = "ACTIVATE" THEN "open"
  ELSE IF IsWrite(c) /\ atomic(c.packetTAG) THEN "back"
  ELSE IF c.lastCMD THEN "final" ELSE "data"

Is(c, r, k) == c.packetTAG = r /\ Kind(c) = k

Has(s, r, k) == \E i \in 1..Len(s) : Is(s[i], r, k)

Once(s, r, k) == \A i, j \in 1..Len(s) : Is(s[i], r, k) /\ Is(s[j], r, k) => i = j

(* A command fits its request.                                             *)
Proper(c) ==
  /\ Kind(c) = "back" => c.lastCMD
  /\ IsRead(c) => CMD[c.packetTAG] \notin Writes
  /\ IsWrite(c) => CMD[c.packetTAG] \notin Reads

AllProper(s) == \A i \in 1..Len(s) : Proper(s[i])

(* p is q without its element n.                                           *)
Shrunk(q, n, p) ==
  /\ p \in Seq(Cmds) /\ Len(p) = Len(q) - 1
  /\ \A i \in 1..(Len(q) - 1) : p[i] = IF i < n THEN q[i] ELSE q[i + 1]

LEMMA ShrunkIndex ==
  ASSUME NEW q \in Seq(Cmds), NEW n \in 1..Len(q), NEW p, Shrunk(q, n, p)
  PROVE  /\ \A i \in 1..Len(p) : \E x \in 1..Len(q) :
              x # n /\ p[i] = q[x] /\ x = IF i < n THEN i ELSE i + 1
         /\ \A x \in 1..Len(q) : x # n =>
              \E i \in 1..Len(p) : p[i] = q[x] /\ i = IF x < n THEN x ELSE x - 1
<1>1. PICK m \in Nat : m = Len(q) - 1 /\ m + 1 = Len(q) /\ Len(p) = m
  BY DEF Shrunk
<1>2. \A i \in 1..m : p[i] = IF i < n THEN q[i] ELSE q[i + 1]
  BY <1>1 DEF Shrunk
<1>3. ASSUME NEW i \in 1..m
      PROVE  \E x \in 1..(m + 1) : x # n /\ p[i] = q[x] /\ x = IF i < n THEN i ELSE i + 1
  <2>1. (IF i < n THEN i ELSE i + 1) \in 1..(m + 1) /\ (IF i < n THEN i ELSE i + 1) # n
    BY <1>1
  <2> QED BY <1>2, <2>1
<1>4. ASSUME NEW x \in 1..(m + 1), x # n
      PROVE  \E i \in 1..m : p[i] = q[x] /\ i = IF x < n THEN x ELSE x - 1
  <2>1. CASE x < n
    <3>1. x \in 1..m
      BY <1>1, <2>1
    <3> QED BY <1>2, <2>1, <3>1
  <2>2. CASE ~(x < n)
    <3>1. x - 1 \in 1..m /\ ~(x - 1 < n) /\ (x - 1) + 1 = x
      BY <1>1, <1>4, <2>2
    <3> QED BY <1>2, <2>2, <3>1
  <2> QED BY <2>1, <2>2
<1> QED BY <1>1, <1>3, <1>4

LEMMA RemoveShrunk ==
  ASSUME NEW q \in Seq(Cmds), NEW n \in 1..Len(q)
  PROVE  Shrunk(q, n, RemoveAt(q, n))
BY RemoveFacts DEF Shrunk

LEMMA TailShrunk ==
  ASSUME NEW q \in Seq(Cmds), q # <<>>
  PROVE  1 \in 1..Len(q) /\ Shrunk(q, 1, Tail(q)) /\ q[1] \in Cmds
<1>1. /\ Tail(q) \in Seq(Cmds) /\ Len(Tail(q)) = Len(q) - 1
      /\ \A i \in 1..(Len(q) - 1) : Tail(q)[i] = IF i < 1 THEN q[i] ELSE q[i + 1]
  OBVIOUS
<1> QED BY <1>1 DEF Shrunk

LEMMA HasShrunk ==
  ASSUME NEW q \in Seq(Cmds), NEW n \in 1..Len(q), NEW p, Shrunk(q, n, p), NEW r, NEW k
  PROVE  /\ ~Is(q[n], r, k) => (Has(p, r, k) <=> Has(q, r, k))
         /\ Is(q[n], r, k) /\ Once(q, r, k) => ~Has(p, r, k) /\ Has(q, r, k)
         /\ Once(q, r, k) => Once(p, r, k)
<1>1. ~Is(q[n], r, k) => (Has(p, r, k) <=> Has(q, r, k))
  <2>1. ASSUME NEW i \in 1..Len(p), Is(p[i], r, k) PROVE Has(q, r, k)
    <3>1. PICK x \in 1..Len(q) : p[i] = q[x]
      BY ShrunkIndex
    <3> QED BY <2>1, <3>1 DEF Has
  <2>2. ASSUME NEW x \in 1..Len(q), Is(q[x], r, k), x # n PROVE Has(p, r, k)
    <3>1. PICK i \in 1..Len(p) : p[i] = q[x]
      BY <2>2, ShrunkIndex
    <3> QED BY <2>2, <3>1 DEF Has
  <2> QED BY <2>1, <2>2 DEF Has
<1>2. ASSUME Is(q[n], r, k), Once(q, r, k) PROVE ~Has(p, r, k) /\ Has(q, r, k)
  <2>1. ASSUME NEW i \in 1..Len(p), Is(p[i], r, k) PROVE FALSE
    <3>1. PICK x \in 1..Len(q) : x # n /\ p[i] = q[x]
      BY ShrunkIndex
    <3> QED BY <1>2, <2>1, <3>1 DEF Once
  <2> QED BY <1>2, <2>1 DEF Has
<1>3. ASSUME Once(q, r, k) PROVE Once(p, r, k)
  <2> SUFFICES ASSUME NEW i \in 1..Len(p), NEW j \in 1..Len(p), Is(p[i], r, k), Is(p[j], r, k)
               PROVE  i = j
    BY DEF Once
  <2>1. PICK x \in 1..Len(q) : p[i] = q[x] /\ x = IF i < n THEN i ELSE i + 1
    BY ShrunkIndex
  <2>2. PICK y \in 1..Len(q) : p[j] = q[y] /\ y = IF j < n THEN j ELSE j + 1
    BY ShrunkIndex
  <2>3. x = y
    BY <1>3, <2>1, <2>2 DEF Once
  <2>4. PICK m \in Nat : m = Len(p)
    BY DEF Shrunk
  <2> QED BY <2>1, <2>2, <2>3, <2>4
<1> QED BY <1>1, <1>2, <1>3

LEMMA HasAppend ==
  ASSUME NEW s \in Seq(Cmds), NEW c \in Cmds, NEW r, NEW k
  PROVE  /\ Append(s, c) \in Seq(Cmds)
         /\ Has(Append(s, c), r, k) <=> Has(s, r, k) \/ Is(c, r, k)
         /\ Once(s, r, k) /\ ~(Has(s, r, k) /\ Is(c, r, k)) => Once(Append(s, c), r, k)
<1>0. PICK n \in Nat : n = Len(s)
  OBVIOUS
<1>1. PICK t : t = Append(s, c)
  OBVIOUS
<1>2. /\ t \in Seq(Cmds) /\ Len(t) = n + 1
      /\ \A i \in 1..(n + 1) : t[i] = IF i <= n THEN s[i] ELSE c
  BY <1>0, <1>1, AppendFacts
<1>3. (\A i \in 1..n : i \in 1..(n + 1) /\ t[i] = s[i]) /\ n + 1 \in 1..(n + 1) /\ t[n + 1] = c
  BY <1>2
<1>4. \A i \in 1..(n + 1) : i \in 1..n \/ i = n + 1
  <2> SUFFICES ASSUME NEW i \in 1..(n + 1), i # n + 1 PROVE i \in 1..n
    OBVIOUS
  <2> QED OBVIOUS
<1>5. Has(t, r, k) <=> Has(s, r, k) \/ Is(c, r, k)
  <2>1. Has(t, r, k) => Has(s, r, k) \/ Is(c, r, k)
    BY <1>0, <1>2, <1>3, <1>4 DEF Has
  <2>2. Has(s, r, k) \/ Is(c, r, k) => Has(t, r, k)
    BY <1>0, <1>2, <1>3 DEF Has
  <2> QED BY <2>1, <2>2
<1>6. ASSUME Once(s, r, k), ~(Has(s, r, k) /\ Is(c, r, k)) PROVE Once(t, r, k)
  BY <1>0, <1>2, <1>3, <1>4, <1>6 DEF Has, Once
<1> QED BY <1>1, <1>2, <1>5, <1>6

-----------------------------------------------------------------------------
(* The order of the commands in a queue.                                   *)

Completed(q) ==
  \A i \in 1..Len(q) : Kind(q[i]) \in {"open", "data"} =>
    \E j \in 1..Len(q) : i < j /\ Is(q[j], q[i].packetTAG, "final")

OpensFirst(q) ==
  \A i, j \in 1..Len(q) :
    Kind(q[i]) = "open" /\ q[j].packetTAG = q[i].packetTAG /\ i # j => i < j

InOrder(q) ==
  /\ q \in Seq(Cmds) /\ Completed(q) /\ OpensFirst(q)
  /\ \A r : Once(q, r, "final") /\ Once(q, r, "back")

(* The element n may go: nothing of its request that has to come before it *)
(* is left before it.                                                      *)
MayGo(q, n) ==
  \A j \in 1..(n - 1) :
    ~(/\ q[j].packetTAG = q[n].packetTAG
      /\ Kind(q[j]) = "open" \/ (Kind(q[j]) = "data" /\ Kind(q[n]) = "final"))

LEMMA OrderShrunk ==
  ASSUME NEW q, InOrder(q), NEW n \in 1..Len(q), NEW p, Shrunk(q, n, p), MayGo(q, n)
  PROVE  InOrder(p)
<1>1. q \in Seq(Cmds) /\ p \in Seq(Cmds)
  BY DEF InOrder, Shrunk
<1>2. PICK m \in Nat : m = Len(p) /\ m + 1 = Len(q)
  BY <1>1 DEF Shrunk
<1>3. \A i \in 1..m : \E x \in 1..(m + 1) : x # n /\ p[i] = q[x] /\ x = IF i < n THEN i ELSE i + 1
  <2>1. \A i \in 1..Len(p) : \E x \in 1..Len(q) :
           x # n /\ p[i] = q[x] /\ x = IF i < n THEN i ELSE i + 1
    BY <1>1, ShrunkIndex
  <2> QED BY <1>2, <2>1
<1>4. \A x \in 1..(m + 1) : x # n => \E i \in 1..m : p[i] = q[x] /\ i = IF x < n THEN x ELSE x - 1
  <2>1. \A x \in 1..Len(q) : x # n =>
           \E i \in 1..Len(p) : p[i] = q[x] /\ i = IF x < n THEN x ELSE x - 1
    BY <1>1, ShrunkIndex
  <2> QED BY <1>2, <2>1
<1>5. Completed(p)
  <2> SUFFICES ASSUME NEW i \in 1..m, Kind(p[i]) \in {"open", "data"}
               PROVE  \E j \in 1..m : i < j /\ Is(p[j], p[i].packetTAG, "final")
    BY <1>2 DEF Completed
  <2>1. PICK x \in 1..(m + 1) : x # n /\ p[i] = q[x] /\ x = IF i < n THEN i ELSE i + 1
    BY <1>3
  <2>2. PICK y \in 1..(m + 1) : x < y /\ Is(q[y], q[x].packetTAG, "final")
    BY <1>2, <2>1 DEF InOrder, Completed
  <2>3. y # n
    <3> SUFFICES ASSUME y = n PROVE FALSE
      OBVIOUS
    <3>1. x \in 1..(n - 1)
      BY <2>2
    <3>2. q[n].packetTAG = q[x].packetTAG /\ Kind(q[n]) = "final"
      BY <2>2 DEF Is
    <3> QED BY <2>1, <3>1, <3>2 DEF MayGo
  <2>4. PICK j \in 1..m : p[j] = q[y] /\ j = IF y < n THEN y ELSE y - 1
    BY <1>4, <2>3
  <2>5. i < j
    BY <1>2, <2>1, <2>2, <2>3, <2>4
  <2> QED BY <2>1, <2>2, <2>4, <2>5
<1>6. OpensFirst(p)
  <2> SUFFICES ASSUME NEW i \in 1..m, NEW j \in 1..m, Kind(p[i]) = "open",
                      p[j].packetTAG = p[i].packetTAG, i # j
               PROVE  i < j
    BY <1>2 DEF OpensFirst
  <2>1. PICK x \in 1..(m + 1) : x # n /\ p[i] = q[x] /\ x = IF i < n THEN i ELSE i + 1
    BY <1>3
  <2>2. PICK y \in 1..(m + 1) : y # n /\ p[j] = q[y] /\ y = IF j < n THEN j ELSE j + 1
    BY <1>3
  <2>3. x # y
    BY <1>2, <2>1, <2>2
  <2>4. x < y
    BY <1>2, <2>1, <2>2, <2>3 DEF InOrder, OpensFirst
  <2> QED BY <1>2, <2>1, <2>2, <2>4
<1>7. \A r : Once(p, r, "final") /\ Once(p, r, "back")
  BY <1>1, HasShrunk DEF InOrder
<1> QED BY <1>1, <1>5, <1>6, <1>7 DEF InOrder

(* An open command and what follows it.                                    *)
LEMMA OpenUnique ==
  ASSUME NEW q, InOrder(q), NEW n \in 1..Len(q), NEW p, Shrunk(q, n, p), Kind(q[n]) = "open",
         NEW r, r = q[n].packetTAG
  PROVE  ~Has(p, r, "open") /\ Has(q, r, "open") /\ Has(q, r, "final") /\ Has(p, r, "final")
<1>1. q \in Seq(Cmds) /\ Len(q) \in Nat
  BY DEF InOrder
<1>2. ASSUME NEW i \in 1..Len(p), Is(p[i], r, "open") PROVE FALSE
  <2>1. PICK x \in 1..Len(q) : x # n /\ p[i] = q[x]
    BY <1>1, ShrunkIndex
  <2>2. x < n /\ n < x
    BY <1>2, <2>1 DEF InOrder, OpensFirst, Is
  <2> QED BY <1>1, <2>2
<1>3. Has(q, r, "open") /\ Has(q, r, "final")
  BY DEF Has, Is, InOrder, Completed
<1>4. ~Is(q[n], r, "final")
  BY DEF Is
<1>5. Has(p, r, "final")
  BY <1>1, <1>3, <1>4, HasShrunk
<1> QED BY <1>2, <1>3, <1>5 DEF Has

(* The result of an atomic request goes to the front of the queue.         *)
LEMMA OrderPrepend ==
  ASSUME NEW q, InOrder(q), NEW c \in Cmds, NEW r, Is(c, r, "back"),
         ~Has(q, r, "open"), ~Has(q, r, "back")
  PROVE  /\ InOrder(<<c>> \o q) /\ Len(<<c>> \o q) = Len(q) + 1
         /\ \A x, k : Has(<<c>> \o q, x, k) <=> Has(q, x, k) \/ Is(c, x, k)
<1>1. q \in Seq(Cmds)
  BY DEF InOrder
<1>2. PICK m \in Nat : m = Len(q)
  BY <1>1
<1>3. PICK p : p = <<c>> \o q
  OBVIOUS
<1>4. <<c>> \in Seq(Cmds) /\ Len(<<c>>) = 1 /\ <<c>>[1] = c
  OBVIOUS
<1>5. /\ p \in Seq(Cmds) /\ Len(p) = 1 + m
      /\ \A i \in 1..(1 + m) : p[i] = IF i <= 1 THEN <<c>>[i] ELSE q[i - 1]
  BY <1>1, <1>2, <1>3, <1>4, ConcatFacts
<1>6. p[1] = c /\ \A i \in 1..m : i + 1 \in 1..(1 + m) /\ p[i + 1] = q[i]
  <2>1. p[1] = c
    BY <1>4, <1>5
  <2>2. ASSUME NEW i \in 1..m PROVE i + 1 \in 1..(1 + m) /\ p[i + 1] = q[i]
    <3>1. i + 1 \in 1..(1 + m) /\ ~(i + 1 <= 1) /\ (i + 1) - 1 = i
      OBVIOUS
    <3> QED BY <1>5, <3>1
  <2> QED BY <2>1, <2>2
<1>7. ASSUME NEW i \in 1..(1 + m) PROVE i = 1 \/ \E x \in 1..m : i = x + 1
  <2>1. CASE i # 1
    <3>1. i - 1 \in 1..m /\ i = (i - 1) + 1
      BY <2>1
    <3> QED BY <3>1
  <2> QED BY <2>1
<1>8. ASSUME NEW x, NEW k PROVE Has(p, x, k) <=> Has(q, x, k) \/ Is(c, x, k)
  <2>1. ASSUME NEW i \in 1..(1 + m), Is(p[i], x, k) PROVE Has(q, x, k) \/ Is(c, x, k)
    BY <1>2, <1>6, <1>7, <2>1 DEF Has
  <2>2. ASSUME NEW i \in 1..m, Is(q[i], x, k) PROVE Has(p, x, k)
    BY <1>5, <1>6, <2>2 DEF Has
  <2>3. Is(c, x, k) => Has(p, x, k)
    BY <1>5, <1>6 DEF Has
  <2> QED BY <1>2, <1>5, <2>1, <2>2, <2>3 DEF Has
<1>9. Completed(p)
  <2> SUFFICES ASSUME NEW i \in 1..(1 + m), Kind(p[i]) \in {"open", "data"}
               PROVE  \E j \in 1..(1 + m) : i < j /\ Is(p[j], p[i].packetTAG, "final")
    BY <1>5 DEF Completed
  <2>1. i # 1
    BY <1>6 DEF Is
  <2>2. PICK x \in 1..m : i = x + 1
    BY <1>7, <2>1
  <2>3. PICK y \in 1..m : x < y /\ Is(q[y], q[x].packetTAG, "final")
    BY <1>2, <1>6, <2>2 DEF InOrder, Completed
  <2>4. y + 1 \in 1..(1 + m) /\ i < y + 1
    BY <2>2, <2>3
  <2> QED BY <1>6, <2>2, <2>3, <2>4
<1>10. OpensFirst(p)
  <2> SUFFICES ASSUME NEW i \in 1..(1 + m), NEW j \in 1..(1 + m), Kind(p[i]) = "open",
                      p[j].packetTAG = p[i].packetTAG, i # j
               PROVE  i < j
    BY <1>5 DEF OpensFirst
  <2>1. i # 1
    BY <1>6 DEF Is
  <2>2. PICK x \in 1..m : i = x + 1
    BY <1>7, <2>1
  <2>3. j # 1
    <3> SUFFICES ASSUME j = 1 PROVE FALSE
      OBVIOUS
    <3>1. q[x].packetTAG = r /\ Kind(q[x]) = "open"
      BY <1>6, <2>2 DEF Is
    <3> QED BY <1>2, <3>1 DEF Has, Is
  <2>4. PICK y \in 1..m : j = y + 1
    BY <1>7, <2>3
  <2>5. x < y
    BY <1>2, <1>6, <2>2, <2>4 DEF InOrder, OpensFirst
  <2> QED BY <2>2, <2>4, <2>5
<1>11. ASSUME NEW x PROVE Once(p, x, "final") /\ Once(p, x, "back")
  <2>1. ASSUME NEW k, Once(q, x, k), ~(Has(q, x, k) /\ Is(c, x, k)) PROVE Once(p, x, k)
    <3> SUFFICES ASSUME NEW i \in 1..(1 + m), NEW j \in 1..(1 + m), Is(p[i], x, k), Is(p[j], x, k)
                 PROVE  i = j
      BY <1>5 DEF Once
    <3>1. CASE Is(c, x, k)
      <4>1. \A y \in 1..m : ~Is(q[y], x, k)
        BY <1>2, <2>1, <3>1 DEF Has
      <4> QED BY <1>6, <1>7, <4>1
    <3>2. CASE ~Is(c, x, k)
      <4>1. PICK y \in 1..m, z \in 1..m : i = y + 1 /\ j = z + 1
        BY <1>6, <1>7, <3>2
      <4>2. y = z
        BY <1>2, <1>6, <2>1, <4>1 DEF Once
      <4> QED BY <4>1, <4>2
    <3> QED BY <3>1, <3>2
  <2>2. ~Is(c, x, "final") /\ ~(Has(q, x, "back") /\ Is(c, x, "back"))
    BY DEF Is
  <2> QED BY <2>1, <2>2 DEF InOrder
<1> QED BY <1>2, <1>3, <1>5, <1>8, <1>9, <1>10, <1>11 DEF InOrder

LEMMA CommandsKinds ==
  ASSUME NEW r \in Requests
  PROVE  /\ Commands(r) \in Seq(Cmds) /\ DataCommands(r) \in Nat \ {0}
         /\ Len(Commands(r)) = DataCommands(r) + 1 /\ AllProper(Commands(r))
         /\ \A i \in 1..Len(Commands(r)) :
              /\ Commands(r)[i].packetTAG = r
              /\ Kind(Commands(r)[i]) = IF i = 1 THEN "open"
                                        ELSE IF i = Len(Commands(r)) THEN "final" ELSE "data"
<1>1. PICK n \in Nat \ {0} : n = DataCommands(r)
  <2>1. reqDataSize[r] \in Nat \ {0}
    BY VaultAssumption
  <2> QED BY <2>1 DEF DataCommands
<1>2. PICK type, lastType :
        /\ type = (IF CMD[r] \in Writes THEN "WRITE" ELSE "READ")
        /\ lastType = (CASE CMD[r] \in Writes -> "WRITE_P"
                         [] CMD[r] \in Reads -> "READ_P"
                         [] OTHER -> "READ")
  OBVIOUS
<1>3. /\ type \in CommandTypes /\ type # "ACTIVATE" /\ lastType \in CommandTypes /\ lastType # "ACTIVATE"
      /\ atomic(r) => type = "READ" /\ lastType = "READ"
      /\ IF CMD[r] \in Writes THEN type = "WRITE" /\ lastType = "WRITE_P"
         ELSE type = "READ" /\ lastType \in {"READ", "READ_P"}
  BY <1>2 DEF CommandTypes, atomic, Atomics, Reads, Writes
<1>4. PICK d : d = [i \in 1..n |-> Command(IF i < n THEN type ELSE lastType, r, i = n)]
  OBVIOUS
<1>5. ASSUME NEW i \in 1..n
      PROVE  /\ d[i] \in Cmds /\ d[i].packetTAG = r /\ Kind(d[i]) = IF i = n THEN "final" ELSE "data"
             /\ Proper(d[i])
  <2>1. PICK t \in CommandTypes, last \in BOOLEAN :
           /\ d[i] = Command(t, r, last) /\ t # "ACTIVATE" /\ (last <=> i = n)
           /\ atomic(r) => t = "READ"
           /\ IF CMD[r] \in Writes THEN t \in {"WRITE", "WRITE_P"} ELSE t \in {"READ", "READ_P"}
    BY <1>3, <1>4
  <2>2. /\ d[i] \in Cmds /\ d[i].packetTAG = r /\ d[i].commandType = t /\ d[i].lastCMD = last
    BY <2>1, CommandIs
  <2>3. ~(IsWrite(d[i]) /\ atomic(r))
    BY <2>1, <2>2 DEF IsWrite
  <2>4. Kind(d[i]) = IF d[i].lastCMD THEN "final" ELSE "data"
    BY <2>1, <2>2, <2>3 DEF Kind
  <2>7. Proper(d[i])
    <3>1. CMD[r] \in Writes => CMD[r] \notin Reads
      BY DEF Reads, Writes
    <3> QED BY <2>1, <2>2, <2>4, <3>1 DEF Proper, IsRead, IsWrite
  <2>5. CASE i = n
    <3>1. d[i].lastCMD
      BY <2>1, <2>2, <2>5
    <3> QED BY <2>2, <2>4, <2>5, <2>7, <3>1
  <2>6. CASE i # n
    <3>1. ~d[i].lastCMD
      BY <2>1, <2>2, <2>6
    <3> QED BY <2>2, <2>4, <2>6, <2>7, <3>1
  <2> QED BY <2>5, <2>6, <2>7
<1>6. d \in Seq(Cmds) /\ Len(d) = n
  BY <1>1, <1>4, <1>5
<1>7. PICK a \in Cmds : a = Command("ACTIVATE", r, TRUE) /\ a.packetTAG = r /\ a.commandType = "ACTIVATE"
  <2>1. "ACTIVATE" \in CommandTypes /\ TRUE \in BOOLEAN
    BY DEF CommandTypes
  <2> QED BY <2>1, CommandIs, Zenon
<1>8. Commands(r) = <<a>> \o d
  BY <1>1, <1>2, <1>4, <1>7 DEF Commands
<1>9. <<a>> \in Seq(Cmds) /\ Len(<<a>>) = 1 /\ <<a>>[1] = a
  OBVIOUS
<1>10. PICK t : t = <<a>> \o d
  OBVIOUS
<1>11. /\ t \in Seq(Cmds) /\ Len(t) = n + 1
       /\ \A i \in 1..(n + 1) : t[i] = IF i <= 1 THEN <<a>>[i] ELSE d[i - 1]
  BY <1>6, <1>9, <1>10, ConcatFacts
<1>12. ASSUME NEW i \in 1..(n + 1)
       PROVE  /\ t[i].packetTAG = r
              /\ Kind(t[i]) = IF i = 1 THEN "open" ELSE IF i = n + 1 THEN "final" ELSE "data"
              /\ Proper(t[i])
  <2>1. CASE i = 1
    <3>1. t[1] = a
      BY <1>9, <1>11
    <3> QED BY <1>7, <2>1, <3>1 DEF Kind, Proper, IsRead, IsWrite
  <2>2. CASE i # 1
    <3>1. PICK j \in 1..n : j = i - 1 /\ ~(i <= 1) /\ (j = n <=> i = n + 1)
      BY <2>2
    <3>2. t[i] = d[j]
      BY <1>11, <3>1
    <3> QED BY <1>5, <2>2, <3>1, <3>2
  <2> QED BY <2>1, <2>2
<1>13. Commands(r) = t
  BY <1>8, <1>10
<1>14. AllProper(t)
  BY <1>11, <1>12 DEF AllProper
<1> QED BY <1>1, <1>11, <1>12, <1>13, <1>14

LEMMA OrderExtend ==
  ASSUME NEW q, InOrder(q), NEW r \in Requests, \A i \in 1..Len(q) : q[i].packetTAG # r
  PROVE  /\ AllProper(q) => AllProper(q \o Commands(r))
         /\ InOrder(q \o Commands(r)) /\ Len(q \o Commands(r)) = Len(q) + DataCommands(r) + 1
         /\ \A x, k : x # r => (Has(q \o Commands(r), x, k) <=> Has(q, x, k))
         /\ Has(q \o Commands(r), r, "open") /\ Has(q \o Commands(r), r, "final")
         /\ ~Has(q \o Commands(r), r, "back")
<1>1. PICK t \in Seq(Cmds) : t = Commands(r)
  BY CommandsKinds
<1>2. PICK n \in Nat : n = Len(t) /\ n = DataCommands(r) + 1 /\ n >= 2 /\ DataCommands(r) \in Nat
  BY <1>1, CommandsKinds
<1>3. \A i \in 1..n : /\ t[i].packetTAG = r
                      /\ Kind(t[i]) = IF i = 1 THEN "open" ELSE IF i = n THEN "final" ELSE "data"
  BY <1>1, <1>2, CommandsKinds
<1>4. q \in Seq(Cmds)
  BY DEF InOrder
<1>5. PICK m \in Nat : m = Len(q)
  BY <1>4
<1>6. PICK p : p = q \o t
  OBVIOUS
<1>7. /\ p \in Seq(Cmds) /\ Len(p) = m + n
      /\ \A i \in 1..(m + n) : p[i] = IF i <= m THEN q[i] ELSE t[i - m]
  <2>1. /\ q \o t \in Seq(Cmds) /\ Len(q \o t) = Len(q) + Len(t)
        /\ \A i \in 1..(Len(q) + Len(t)) : (q \o t)[i] = IF i <= Len(q) THEN q[i] ELSE t[i - Len(q)]
    BY <1>4, ConcatFacts
  <2> QED BY <1>2, <1>5, <1>6, <2>1
<1>8. \A i \in 1..m : i \in 1..(m + n) /\ p[i] = q[i]
  BY <1>7
<1>9. \A i \in 1..n : m + i \in 1..(m + n) /\ p[m + i] = t[i]
  <2> SUFFICES ASSUME NEW i \in 1..n PROVE m + i \in 1..(m + n) /\ p[m + i] = t[i]
    OBVIOUS
  <2>1. m + i \in 1..(m + n) /\ ~(m + i <= m) /\ (m + i) - m = i
    OBVIOUS
  <2> QED BY <1>7, <2>1
<1>10. ASSUME NEW i \in 1..(m + n)
       PROVE  i \in 1..m \/ \E x \in 1..n : i = m + x
  <2>1. CASE i <= m
    BY <2>1
  <2>2. CASE ~(i <= m)
    <3>1. i - m \in 1..n /\ i = m + (i - m)
      BY <2>2
    <3> QED BY <3>1
  <2> QED BY <2>1, <2>2
<1>11. \A i \in 1..m : q[i].packetTAG # r
  BY <1>5
<1>12. ASSUME NEW i \in 1..(m + n), p[i].packetTAG # r PROVE i \in 1..m
  <2>1. ASSUME NEW x \in 1..n, i = m + x PROVE FALSE
    BY <1>3, <1>9, <1>12, <2>1
  <2> QED BY <1>10, <2>1
<1>13. ASSUME NEW x, NEW k, x # r PROVE Has(p, x, k) <=> Has(q, x, k)
  <2>1. ASSUME NEW i \in 1..(m + n), Is(p[i], x, k) PROVE Has(q, x, k)
    <3>1. ASSUME NEW j \in 1..n, i = m + j PROVE FALSE
      BY <1>3, <1>9, <1>13, <2>1, <3>1 DEF Is
    <3>2. i \in 1..m
      BY <1>10, <3>1
    <3> QED BY <1>5, <1>8, <2>1, <3>2 DEF Has
  <2>2. ASSUME NEW i \in 1..m, Is(q[i], x, k) PROVE Has(p, x, k)
    BY <1>7, <1>8, <2>2 DEF Has
  <2> QED BY <1>5, <1>7, <2>1, <2>2 DEF Has
<1>14. PICK e \in 1..(m + n), f \in 1..(m + n) : e = m + 1 /\ f = m + n /\ e < f
  BY <1>2
<1>15. /\ Is(p[e], r, "open") /\ Is(p[f], r, "final")
       /\ \A i \in 1..(m + n) : p[i].packetTAG = r =>
            i >= e /\ Kind(p[i]) = IF i = e THEN "open" ELSE IF i = f THEN "final" ELSE "data"
  <2>1. 1 \in 1..n /\ n \in 1..n /\ n # 1
    BY <1>2
  <2>2. Is(p[e], r, "open") /\ Is(p[f], r, "final")
    BY <1>3, <1>9, <1>14, <2>1 DEF Is
  <2>3. ASSUME NEW i \in 1..(m + n), p[i].packetTAG = r
        PROVE  i >= e /\ Kind(p[i]) = IF i = e THEN "open" ELSE IF i = f THEN "final" ELSE "data"
    <3>1. PICK j \in 1..n : i = m + j
      BY <1>8, <1>10, <1>11, <2>3
    <3>2. i >= e /\ (i = e <=> j = 1) /\ (i = f <=> j = n)
      BY <1>14, <3>1
    <3>3. Kind(p[i]) = IF j = 1 THEN "open" ELSE IF j = n THEN "final" ELSE "data"
      BY <1>3, <1>9, <3>1
    <3> QED BY <3>2, <3>3
  <2> QED BY <2>2, <2>3
<1>16. Has(p, r, "open") /\ Has(p, r, "final") /\ ~Has(p, r, "back")
  BY <1>7, <1>15 DEF Has, Is
<1>17. Completed(p)
  <2> SUFFICES ASSUME NEW i \in 1..(m + n), Kind(p[i]) \in {"open", "data"}
               PROVE  \E j \in 1..(m + n) : i < j /\ Is(p[j], p[i].packetTAG, "final")
    BY <1>7 DEF Completed
  <2>1. CASE p[i].packetTAG = r
    <3>1. i # f /\ i < f
      BY <1>14, <1>15, <2>1 DEF Is
    <3> QED BY <1>15, <2>1, <3>1
  <2>2. CASE p[i].packetTAG # r
    <3>1. i \in 1..m
      BY <1>12, <2>2
    <3>2. PICK j \in 1..m : i < j /\ Is(q[j], q[i].packetTAG, "final")
      BY <1>5, <1>8, <3>1 DEF InOrder, Completed
    <3> QED BY <1>8, <3>1, <3>2
  <2> QED BY <2>1, <2>2
<1>18. OpensFirst(p)
  <2> SUFFICES ASSUME NEW i \in 1..(m + n), NEW j \in 1..(m + n), Kind(p[i]) = "open",
                      p[j].packetTAG = p[i].packetTAG, i # j
               PROVE  i < j
    BY <1>7 DEF OpensFirst
  <2>1. CASE p[i].packetTAG = r
    <3>1. i = e /\ j >= e
      BY <1>15, <2>1
    <3> QED BY <1>14, <3>1
  <2>2. CASE p[i].packetTAG # r
    <3>1. i \in 1..m /\ j \in 1..m
      BY <1>12, <2>2
    <3>2. p[i] = q[i] /\ p[j] = q[j]
      BY <1>8, <3>1
    <3> QED BY <1>5, <3>1, <3>2 DEF InOrder, OpensFirst
  <2> QED BY <2>1, <2>2
<1>19. ASSUME NEW x, NEW k \in {"final", "back"} PROVE Once(p, x, k)
  <2> SUFFICES ASSUME NEW i \in 1..(m + n), NEW j \in 1..(m + n), Is(p[i], x, k), Is(p[j], x, k)
               PROVE  i = j
    BY <1>7 DEF Once
  <2>1. CASE x = r
    <3>1. i = f /\ j = f
      BY <1>15, <2>1 DEF Is
    <3> QED BY <3>1
  <2>2. CASE x # r
    <3>1. i \in 1..m /\ j \in 1..m
      BY <1>12, <2>2 DEF Is
    <3>2. Is(q[i], x, k) /\ Is(q[j], x, k)
      BY <1>8, <3>1
    <3> QED BY <1>5, <3>1, <3>2 DEF InOrder, Once
  <2> QED BY <2>1, <2>2
<1>20. InOrder(p)
  BY <1>7, <1>17, <1>18, <1>19 DEF InOrder
<1>21. AllProper(q) => AllProper(p)
  <2> SUFFICES ASSUME AllProper(q), NEW i \in 1..(m + n) PROVE Proper(p[i])
    BY <1>7 DEF AllProper
  <2>1. AllProper(t)
    BY <1>1, CommandsKinds
  <2>2. CASE i \in 1..m
    BY <1>5, <1>8, <2>2 DEF AllProper
  <2>3. ASSUME NEW x \in 1..n, i = m + x PROVE Proper(p[i])
    BY <1>2, <1>9, <2>1, <2>3 DEF AllProper
  <2> QED BY <1>10, <2>2, <2>3
<1> QED BY <1>1, <1>2, <1>5, <1>6, <1>7, <1>13, <1>16, <1>20, <1>21

-----------------------------------------------------------------------------
(* Where a request is.                                                     *)

AsPacket(r) == \E i \in 1..Len(downBuffers) : downBuffers[i] = r
Unopened(r) == Has(queue[Bank[r]], r, "open")
Queued(r) == Has(queue[Bank[r]], r, "final")
OnBus(r) == cmdBus # NULL /\ IsRead(cmdBus) /\ Is(cmdBus, r, "final")
Reading(r) == Has(readReturnDATA, r, "final")
Operating(r) == atomicCMD # NULL /\ atomicCMD.packetTAG = r
Writing(r) == Has(writeDataToSend, r, "final")
Returning(r) == Has(queue[Bank[r]], r, "back")
Stored(r) == Has(writeDataToSend, r, "back")
AsResponse(r) == \E i \in 1..Len(upBuffers) : upBuffers[i] = r

(* It is in one place at most.                                             *)
Separate(r) ==
  /\ AsPacket(r) => ~(Queued(r) \/ OnBus(r) \/ Reading(r) \/ Operating(r) \/ Writing(r) \/ Returning(r))
  /\ Queued(r) => ~(OnBus(r) \/ Reading(r) \/ Operating(r) \/ Writing(r) \/ Returning(r))
  /\ OnBus(r) => ~(Reading(r) \/ Operating(r) \/ Writing(r) \/ Returning(r))
  /\ Reading(r) => ~(Operating(r) \/ Writing(r) \/ Returning(r))
  /\ Operating(r) => ~(Writing(r) \/ Returning(r))
  /\ Writing(r) => ~Returning(r)

(* What has been popped of an atomic request has still to be written back. *)
Owing(r) == (Queued(r) /\ ~Unopened(r)) \/ OnBus(r) \/ Reading(r) \/ Operating(r)

(* The final command has been popped and the response is still to be made. *)
Waits(r) == OnBus(r) \/ Reading(r) \/ Operating(r) \/ Writing(r)
Pending == {r \in Requests : ~posted(r) /\ Waits(r)}

-----------------------------------------------------------------------------
(* The invariant of the responses.                                         *)

Typed ==
  /\ upBuffers \in Seq(Requests) /\ pcuPacket \in Seq(Requests) /\ writeDataToSend \in Seq(Cmds)
  /\ open \subseteq Requests /\ issuedBank \in Banks /\ pendingDataSize \in Nat
  /\ atomicLock \in [Banks -> Requests \cup {NULL}]
  /\ UsedBy(upBuffers) <= MAX_VLT_BUF

Formed ==
  /\ AllProper(readReturnDATA) /\ \A i \in 1..Len(readReturnDATA) : IsRead(readReturnDATA[i])
  /\ AllProper(writeDataToSend) /\ \A i \in 1..Len(writeDataToSend) : IsWrite(writeDataToSend[i])
  /\ atomicCMD # NULL => IsRead(atomicCMD) /\ atomicCMD.lastCMD /\ atomic(atomicCMD.packetTAG)
  /\ cmdBus # NULL => Proper(cmdBus)

Unique ==
  /\ \A i, j \in 1..Len(downBuffers) : downBuffers[i] = downBuffers[j] => i = j
  /\ \A r \in Requests : Once(readReturnDATA, r, "final") /\ Once(writeDataToSend, r, "final")

Ordered == \A b \in Banks : InOrder(queue[b]) /\ AllProper(queue[b])

Apart == \A r \in Requests : Separate(r)

(* The lock of a bank belongs to the request that owes it a write-back.    *)
Locked ==
  /\ \A r \in Requests : /\ Returning(r) => WritesBack(r)
                         /\ WritesBack(r) /\ (Owing(r) \/ Returning(r)) => atomicLock[Bank[r]] = r
  /\ \A b \in Banks : atomicLock[b] # NULL =>
       /\ Bank[atomicLock[b]] = b /\ WritesBack(atomicLock[b])
       /\ Owing(atomicLock[b]) \/ Returning(atomicLock[b])

Fits ==
  \A b \in Banks :
    /\ Len(queue[b]) <= MAX_CMD_QUE
    /\ atomicLock[b] # NULL /\ Owing(atomicLock[b]) => Len(queue[b]) + 1 <= MAX_CMD_QUE

(* Every response takes no more than was kept for it, and that no more     *)
(* than RoomFor has looked for; no result waits in pcuPacket.              *)
Sound ==
  \A r \in Requests : /\ CMD[r] # "PEI_DOT"
                      /\ CMD[r] \in {"XOR16", "ACT_MULT"} => reqDataSize[r] >= 16

Enough ==
  /\ Kept(Pending) <= pendingDataSize
  /\ Sound => /\ pendingDataSize = Kept(Pending) /\ pcuPacket = <<>>
              /\ UsedBy(upBuffers) + pendingDataSize <= MAX_VLT_BUF

Answerable ==
  Sound => \A r \in open :
    \/ AsPacket(r) \/ Queued(r) \/ Waits(r) \/ AsResponse(r)
    \/ posted(r) /\ (Returning(r) \/ Stored(r))

RInv ==
  /\ Typed /\ Formed /\ Unique /\ Ordered /\ Apart /\ Locked /\ Fits /\ Enough
  /\ Answerable

-----------------------------------------------------------------------------
(* One lemma for each part that depends on where the requests are.         *)

Owes(r) == Owing(r) \/ Returning(r)

SamePlace(x) ==
  /\ AsPacket(x)' <=> AsPacket(x)
  /\ Unopened(x)' <=> Unopened(x)
  /\ Queued(x)' <=> Queued(x)
  /\ OnBus(x)' <=> OnBus(x)
  /\ Reading(x)' <=> Reading(x)
  /\ Operating(x)' <=> Operating(x)
  /\ Writing(x)' <=> Writing(x)
  /\ Returning(x)' <=> Returning(x)

LEMMA SamePlaceFacts ==
  ASSUME NEW x, SamePlace(x)
  PROVE  /\ Separate(x)' <=> Separate(x)
         /\ Owing(x)' <=> Owing(x)
         /\ Owes(x)' <=> Owes(x)
         /\ Waits(x)' <=> Waits(x)
         /\ Returning(x)' <=> Returning(x)
BY Zenon DEF SamePlace, Separate, Owing, Owes, Waits

LEMMA ApartStep ==
  ASSUME Apart, NEW r, \A x \in Requests : x # r => SamePlace(x), r \in Requests => Separate(r)'
  PROVE  Apart'
<1> SUFFICES ASSUME NEW x \in Requests, x # r PROVE Separate(x)'
  BY DEF Apart
<1>1. SamePlace(x) /\ Separate(x)
  BY DEF Apart
<1> QED BY <1>1, SamePlaceFacts

LEMMA LockedStep ==
  ASSUME Locked, UNCHANGED atomicLock, atomicLock \in [Banks -> Requests \cup {NULL}],
         \A x \in Requests : /\ Returning(x)' => WritesBack(x)
                             /\ WritesBack(x) => (Owes(x)' <=> Owes(x))
  PROVE  Locked'
<1>1. ASSUME NEW x \in Requests
      PROVE  /\ Returning(x)' => WritesBack(x)
             /\ WritesBack(x) /\ (Owing(x)' \/ Returning(x)') => atomicLock[Bank[x]] = x
  BY DEF Locked, Owes
<1>2. ASSUME NEW b \in Banks, atomicLock[b] # NULL
      PROVE  /\ Bank[atomicLock[b]] = b /\ WritesBack(atomicLock[b])
             /\ Owing(atomicLock[b])' \/ Returning(atomicLock[b])'
  <2>1. PICK x \in Requests : x = atomicLock[b]
    BY <1>2
  <2>2. Bank[x] = b /\ WritesBack(x) /\ (Owing(x) \/ Returning(x))
    BY <1>2, <2>1 DEF Locked
  <2>3. Owing(x)' \/ Returning(x)'
    BY <2>2 DEF Owes
  <2> QED BY <2>1, <2>2, <2>3
<1>3. \A x \in Requests :
        /\ Returning(x)' => WritesBack(x)
        /\ WritesBack(x) /\ (Owing(x)' \/ Returning(x)') => atomicLock'[Bank[x]] = x
  BY <1>1
<1>4. \A b \in Banks : atomicLock'[b] # NULL =>
        /\ Bank[atomicLock'[b]] = b /\ WritesBack(atomicLock'[b])
        /\ Owing(atomicLock[b])' \/ Returning(atomicLock[b])'
  BY <1>2
<1> QED BY <1>3, <1>4 DEF Locked

LEMMA FitsStep ==
  ASSUME Fits, Ordered, Locked, UNCHANGED atomicLock, atomicLock \in [Banks -> Requests \cup {NULL}],
         \A b \in Banks : Len(queue'[b]) \in Nat /\ Len(queue'[b]) <= Len(queue[b]),
         \A x \in Requests : WritesBack(x) /\ Owing(x)' => Owing(x)
  PROVE  Fits'
<1> SUFFICES ASSUME NEW b \in Banks
             PROVE  /\ Len(queue'[b]) <= MAX_CMD_QUE
                    /\ atomicLock[b] # NULL /\ Owing(atomicLock[b])' => Len(queue'[b]) + 1 <= MAX_CMD_QUE
  BY DEF Fits
<1>1. PICK m \in Nat, n \in Nat, k \in Nat : m = Len(queue[b]) /\ n = Len(queue'[b]) /\ k = MAX_CMD_QUE
  BY VaultAssumption DEF Ordered, InOrder
<1>2. m <= k /\ n <= m /\ (atomicLock[b] # NULL /\ Owing(atomicLock[b]) => m + 1 <= k)
  BY <1>1 DEF Fits
<1>3. atomicLock[b] # NULL /\ Owing(atomicLock[b])' => Owing(atomicLock[b])
  BY DEF Locked
<1> QED BY <1>1, <1>2, <1>3

LEMMA PendingSame ==
  ASSUME \A x \in Requests : Waits(x)' <=> Waits(x)
  PROVE  Pending' = Pending
BY DEF Pending

LEMMA Frames ==
  ASSUME NEW x
  PROVE  /\ UNCHANGED downBuffers => (AsPacket(x)' <=> AsPacket(x))
         /\ UNCHANGED queue => /\ Unopened(x)' <=> Unopened(x)
                               /\ Queued(x)' <=> Queued(x)
                               /\ Returning(x)' <=> Returning(x)
         /\ UNCHANGED cmdBus => (OnBus(x)' <=> OnBus(x))
         /\ UNCHANGED readReturnDATA => (Reading(x)' <=> Reading(x))
         /\ UNCHANGED atomicCMD => (Operating(x)' <=> Operating(x))
         /\ UNCHANGED writeDataToSend => (Writing(x)' <=> Writing(x)) /\ (Stored(x)' <=> Stored(x))
         /\ UNCHANGED upBuffers => (AsResponse(x)' <=> AsResponse(x))
BY DEF AsPacket, Unopened, Queued, Returning, OnBus, Reading, Operating, Writing, Stored, AsResponse

(* A bus that carries no last read.                                        *)
LEMMA QuietBus ==
  ASSUME NEW x
  PROVE  /\ cmdBus = NULL => ~OnBus(x)
         /\ cmdBus' = NULL => ~OnBus(x)'
         /\ cmdBus # NULL /\ ~IsRead(cmdBus) => ~OnBus(x)
         /\ cmdBus' # NULL /\ ~IsRead(cmdBus') => ~OnBus(x)'
BY DEF OnBus, IsRead

LEMMA QuietResponses ==
  ASSUME RInv, issuedBank' \in Banks,
         UNCHANGED <<downBuffers, upBuffers, pcuPacket, pendingDataSize, queue, atomicLock,
                     writeDataToSend, readReturnDATA, atomicCMD, open>>,
         cmdBus' # NULL => Proper(cmdBus'), \A x \in Requests : OnBus(x)' <=> OnBus(x)
  PROVE  RInv'
<1>1. \A x \in Requests : /\ SamePlace(x) /\ (Stored(x)' <=> Stored(x)) /\ (AsResponse(x)' <=> AsResponse(x))
                          /\ Separate(x)' <=> Separate(x)
                          /\ Owing(x)' <=> Owing(x)
                          /\ Owes(x)' <=> Owes(x)
                          /\ Waits(x)' <=> Waits(x)
                          /\ Returning(x)' <=> Returning(x)
  BY Frames, SamePlaceFacts DEF SamePlace
<1>2. Typed'
  BY DEF RInv, Typed
<1>3. Formed'
  BY DEF RInv, Formed
<1>4. Unique' /\ Ordered'
  BY DEF RInv, Unique, Ordered
<1>5. Apart'
  BY <1>1 DEF RInv, Apart
<1>6. Locked'
  BY <1>1, LockedStep DEF RInv, Typed, Locked
<1>7. Fits'
  <2>1. \A b \in Banks : Len(queue'[b]) \in Nat /\ Len(queue'[b]) <= Len(queue[b])
    BY DEF RInv, Ordered, InOrder
  <2> QED BY <1>1, <2>1, FitsStep DEF RInv, Typed
<1>8. Enough'
  <2>1. Pending' = Pending
    BY <1>1, PendingSame
  <2> QED BY <2>1 DEF RInv, Enough
<1>9. Answerable'
  BY <1>1 DEF RInv, Typed, Answerable, SamePlace
<1> QED BY <1>2, <1>3, <1>4, <1>5, <1>6, <1>7, <1>8, <1>9 DEF RInv

(* Under Sound, what is kept for a response is enough for it.              *)
LEMMA SoundSizes ==
  ASSUME Sound, NEW r \in Requests
  PROVE  ResponseLNG(r) <= Reserved(r) /\ Reserved(r) <= Flits(r)
<1>1. PICK n \in Nat : n = reqDataSize[r] /\ (CMD[r] \in {"XOR16", "ACT_MULT"} => n >= 16) /\ n # 0
  BY VaultAssumption DEF Sound
<1>2. PICK f \in Nat : f = Flits(r) /\ f >= 1 /\ (n >= 16 => f >= 2)
  BY <1>1 DEF Flits
<1>3. CMD[r] # "PEI_DOT"
  BY DEF Sound
<1>4. Reserved(r) = IF CMD[r] \in {"WR", "ADD16", "EQ16", "PEI_ATOMIC"} THEN 1
                    ELSE IF CMD[r] = "XOR16" THEN 2 ELSE f
  BY <1>2 DEF Reserved
<1>5. ResponseLNG(r) = IF CMD[r] = "ACT_MULT" THEN 2 ELSE Reserved(r)
  BY <1>3 DEF ResponseLNG
<1> QED BY <1>1, <1>2, <1>4, <1>5

(* A response is made: what was kept for it is given up.                   *)
LEMMA Responds ==
  ASSUME Typed, Enough, NEW r \in Requests, r \in Pending, Pending' = Pending \ {r},
         MakeRespondPacket(r)
  PROVE  /\ upBuffers' \in Seq(Requests) /\ pcuPacket' \in Seq(Requests)
         /\ pendingDataSize' \in Nat /\ UsedBy(upBuffers') <= MAX_VLT_BUF
         /\ Enough'
         /\ \A x : AsResponse(x) => AsResponse(x)'
         /\ Sound => AsResponse(r)'
<1>1. Pending \subseteq Requests
  BY DEF Pending
<1>2. Kept(Pending) = Kept(Pending \ {r}) + Reserved(r)
  BY <1>1, KeptLess
<1>3. PICK k \in Nat, n \in Nat, v \in Nat, l \in Nat, u \in Nat, m \in Nat :
        /\ k = Kept(Pending \ {r}) /\ n = pendingDataSize /\ v = Reserved(r) /\ l = ResponseLNG(r)
        /\ u = UsedBy(upBuffers) /\ m = MAX_VLT_BUF
  <2>1. Pending \ {r} \in SUBSET Requests /\ MAX_VLT_BUF \in Nat /\ pendingDataSize \in Nat
    BY <1>1, VaultAssumption DEF Typed
  <2> QED BY <2>1, KeptFacts, SizeTypes, UsedType DEF Typed
<1>4. k + v <= n /\ u <= m
  BY <1>2, <1>3 DEF Enough, Typed
<1>5. Sound => n = k + v /\ pcuPacket = <<>> /\ u + n <= m /\ l <= v /\ CMD[r] # "PEI_DOT"
  <2>1. Sound => n = k + v /\ pcuPacket = <<>> /\ u + n <= m
    BY <1>2, <1>3 DEF Enough
  <2>2. Sound => l <= v
    BY <1>3, SoundSizes
  <2> QED BY <2>1, <2>2 DEF Sound
<1>6. Accepts(r) <=> u + l <= m
  BY <1>3 DEF Accepts, Used, UsedBy
<1>7. CASE CMD[r] = "PEI_DOT"
  <2>1. pcuPacket' = Append(pcuPacket, r) /\ pendingDataSize' = n - v /\ upBuffers' = upBuffers
    BY <1>3, <1>7 DEF MakeRespondPacket
  <2>2. ~Sound
    BY <1>5, <1>7
  <2>3. Enough'
    <3>1. Kept(Pending') = k /\ pendingDataSize' = n - v /\ k <= n - v
      BY <1>3, <1>4, <2>1
    <3> QED BY <2>2, <3>1 DEF Enough
  <2>4. pendingDataSize' \in Nat /\ pcuPacket' \in Seq(Requests)
    BY <1>4, <2>1 DEF Typed
  <2> QED BY <2>1, <2>2, <2>3, <2>4, Frames DEF Typed
<1>8. CASE CMD[r] # "PEI_DOT" /\ Accepts(r)
  <2>1. pcuPacket' = pcuPacket /\ pendingDataSize' = n - v /\ upBuffers' = Append(upBuffers, r)
    BY <1>3, <1>8 DEF MakeRespondPacket
  <2>2. upBuffers \in Seq(Requests)
    BY DEF Typed
  <2>3. UsedBy(upBuffers') = u + l
    BY <1>3, <2>1, <2>2, UsedAppend
  <2>4. Enough'
    <3>1. Kept(Pending') = k /\ pendingDataSize' = n - v /\ k <= n - v
      BY <1>3, <1>4, <2>1
    <3>2. Sound => n - v = k /\ pcuPacket' = <<>> /\ u + l + (n - v) <= m
      BY <1>5, <2>1
    <3> QED BY <1>3, <2>3, <3>1, <3>2 DEF Enough
  <2>5. pendingDataSize' \in Nat /\ UsedBy(upBuffers') <= MAX_VLT_BUF
    <3>1. pendingDataSize' \in Nat
      BY <1>4, <2>1
    <3>2. u + l <= m
      BY <1>6, <1>8
    <3> QED BY <1>3, <2>3, <3>1, <3>2
  <2>6. upBuffers' \in Seq(Requests) /\ pcuPacket' \in Seq(Requests)
    BY <2>1, <2>2 DEF Typed
  <2>7. (\A x : AsResponse(x) => AsResponse(x)') /\ AsResponse(r)'
    <3>1. PICK h \in Nat : h = Len(upBuffers)
      BY <2>2
    <3>2. Len(upBuffers') = h + 1 /\ \A i \in 1..(h + 1) : upBuffers'[i] = IF i <= h THEN upBuffers[i] ELSE r
      BY <2>1, <2>2, <3>1, AppendFacts
    <3>3. h + 1 \in 1..(h + 1) /\ upBuffers'[h + 1] = r
      BY <3>2
    <3>4. \A i \in 1..h : i \in 1..(h + 1) /\ upBuffers'[i] = upBuffers[i]
      BY <3>2
    <3> QED BY <3>1, <3>2, <3>3, <3>4 DEF AsResponse
  <2> QED BY <2>4, <2>5, <2>6, <2>7
<1>9. CASE CMD[r] # "PEI_DOT" /\ ~Accepts(r)
  <2>1. pcuPacket' = pcuPacket /\ pendingDataSize' = n /\ upBuffers' = upBuffers
    BY <1>3, <1>9 DEF MakeRespondPacket
  <2>2. ~Sound
    BY <1>5, <1>6, <1>9
  <2>3. Enough'
    <3>1. Kept(Pending') = k /\ k <= n
      BY <1>3, <1>4
    <3> QED BY <2>1, <2>2, <3>1 DEF Enough
  <2> QED BY <2>1, <2>2, <2>3, Frames DEF Typed
<1> QED BY <1>7, <1>8, <1>9

-----------------------------------------------------------------------------
(* A command is popped: how the places of the requests change.             *)

Popped(c) ==
  \A x \in Requests :
    /\ AsPacket(x)' <=> AsPacket(x)
    /\ Unopened(x)' <=> Unopened(x) /\ ~Is(c, x, "open")
    /\ Queued(x)' <=> Queued(x) /\ ~Is(c, x, "final")
    /\ Returning(x)' <=> Returning(x) /\ ~Is(c, x, "back")
    /\ ~OnBus(x)
    /\ OnBus(x)' <=> IsRead(c) /\ Is(c, x, "final")
    /\ Reading(x)' <=> Reading(x)
    /\ Operating(x)' <=> Operating(x)
    /\ Writing(x)' <=> Writing(x) \/ (IsWrite(c) /\ Is(c, x, "final"))
    /\ Stored(x)' <=> Stored(x) \/ (IsWrite(c) /\ Is(c, x, "back"))
    /\ AsResponse(x)' <=> AsResponse(x)
    /\ Is(c, x, "open") => Unopened(x) /\ Queued(x)
    /\ Is(c, x, "final") => Queued(x)
    /\ Is(c, x, "back") => Returning(x)
    /\ Unopened(x)' => Queued(x)'

(* What a queue holds of a request that is not opened.                     *)
LEMMA OpenQueued ==
  ASSUME Ordered, NEW x \in Requests, Unopened(x)
  PROVE  Queued(x)
<1>1. Bank[x] \in Banks
  BY VaultAssumption
<1> QED BY <1>1 DEF Unopened, Queued, Ordered, InOrder, Completed, Has, Is

LEMMA PopPlaces ==
  ASSUME VInv, RInv, NEW b \in Banks, NEW n \in 1..Len(queue[b]), NEW p,
         Shrunk(queue[b], n, p), MayGo(queue[b], n), queue' = [queue EXCEPT ![b] = p],
         cmdBus = NULL, Issue(queue[b][n])
  PROVE  /\ Popped(queue[b][n]) /\ Ordered' /\ Formed' /\ Unique'
         /\ writeDataToSend' \in Seq(Cmds)
         /\ \A x \in Banks : /\ Len(queue'[x]) \in Nat
                             /\ Len(queue'[x]) = IF x = b THEN Len(queue[x]) - 1 ELSE Len(queue[x])
<1>1. PICK q, c, r : q = queue[b] /\ c = q[n] /\ r = c.packetTAG
  OBVIOUS
<1>2. GoodQueue(b, q) /\ InOrder(q) /\ AllProper(q) /\ n \in 1..Len(q) /\ q \in Seq(Cmds)
  BY <1>1 DEF VInv, GoodQueues, RInv, Ordered, GoodQueue
<1>3. c \in Cmds /\ r \in Requests /\ Bank[r] = b /\ Proper(c) /\ c # NULL
  <2>1. c \in Cmds /\ r \in Requests /\ Bank[r] = b
    BY <1>1, <1>2, Element
  <2>2. c # NULL
    BY <2>1, VaultAssumption DEF Cmds
  <2> QED BY <1>1, <1>2, <2>1, <2>2 DEF AllProper
<1>4. queue'[b] = p /\ \A x \in Banks : x # b => queue'[x] = queue[x]
  BY DEF VInv, GoodQueues
<1>5. InOrder(p) /\ AllProper(p)
  <2>1. InOrder(p)
    BY <1>1, <1>2, OrderShrunk
  <2>2. \A i \in 1..Len(p) : \E x \in 1..Len(q) :
           x # n /\ p[i] = q[x] /\ x = IF i < n THEN i ELSE i + 1
    <3>1. Shrunk(q, n, p) /\ n \in 1..Len(q) /\ q \in Seq(Cmds)
      BY <1>1, <1>2
    <3> QED BY <3>1, ShrunkIndex
  <2> QED BY <1>2, <2>1, <2>2 DEF AllProper
<1>6. Ordered'
  BY <1>4, <1>5 DEF RInv, Ordered
<1>7. \A x \in Banks : /\ Len(queue'[x]) \in Nat
                       /\ Len(queue'[x]) = IF x = b THEN Len(queue[x]) - 1 ELSE Len(queue[x])
  BY <1>4, <1>6 DEF Ordered, InOrder, Shrunk
<1>8. /\ cmdBus' = c /\ UNCHANGED <<downBuffers, upBuffers, atomicCMD, readReturnDATA>>
      /\ writeDataToSend' = IF IsWrite(c) THEN Append(writeDataToSend, c) ELSE writeDataToSend
  BY <1>1 DEF Issue, packetVars, dramVars
<1>9. ASSUME NEW x \in Requests, NEW k, ~Is(c, x, k)
      PROVE  Has(queue'[Bank[x]], x, k) <=> Has(queue[Bank[x]], x, k)
  <2>1. Bank[x] \in Banks
    BY VaultAssumption
  <2>2. CASE Bank[x] = b
    <3>1. Has(p, x, k) <=> Has(q, x, k)
      BY <1>1, <1>2, <1>9, HasShrunk
    <3> QED BY <1>1, <1>4, <2>2, <3>1
  <2>3. CASE Bank[x] # b
    BY <1>4, <2>1, <2>3
  <2> QED BY <2>2, <2>3
<1>10. ASSUME NEW x \in Requests, Is(c, x, "open") PROVE Unopened(x) /\ Queued(x) /\ ~Unopened(x)'
  <2>1. x = r /\ Kind(c) = "open" /\ Bank[x] = b
    BY <1>1, <1>3, <1>10 DEF Is
  <2>2. ~Has(p, r, "open") /\ Has(q, r, "open") /\ Has(q, r, "final")
    BY <1>1, <1>2, <2>1, OpenUnique
  <2> QED BY <1>1, <1>4, <2>1, <2>2 DEF Unopened, Queued
<1>11. ASSUME NEW x \in Requests, Is(c, x, "final") PROVE Queued(x) /\ ~Queued(x)'
  <2>1. x = r /\ Bank[x] = b /\ Once(q, x, "final")
    BY <1>1, <1>2, <1>3, <1>11 DEF Is, InOrder
  <2>2. ~Has(p, x, "final") /\ Has(q, x, "final")
    BY <1>1, <1>2, <1>11, <2>1, HasShrunk
  <2> QED BY <1>1, <1>4, <2>1, <2>2 DEF Queued
<1>12. ASSUME NEW x \in Requests, Is(c, x, "back") PROVE Returning(x) /\ ~Returning(x)'
  <2>1. x = r /\ Bank[x] = b /\ Once(q, x, "back")
    BY <1>1, <1>2, <1>3, <1>12 DEF Is, InOrder
  <2>2. ~Has(p, x, "back") /\ Has(q, x, "back")
    BY <1>1, <1>2, <1>12, <2>1, HasShrunk
  <2> QED BY <1>1, <1>4, <2>1, <2>2 DEF Returning
<1>13. \A x \in Requests : /\ Unopened(x)' <=> Unopened(x) /\ ~Is(c, x, "open")
                           /\ Queued(x)' <=> Queued(x) /\ ~Is(c, x, "final")
                           /\ Returning(x)' <=> Returning(x) /\ ~Is(c, x, "back")
  <2> SUFFICES ASSUME NEW x \in Requests
               PROVE  /\ Unopened(x)' <=> Unopened(x) /\ ~Is(c, x, "open")
                      /\ Queued(x)' <=> Queued(x) /\ ~Is(c, x, "final")
                      /\ Returning(x)' <=> Returning(x) /\ ~Is(c, x, "back")
    OBVIOUS
  <2>1. ~Is(c, x, "open") => (Unopened(x)' <=> Unopened(x))
    BY <1>9 DEF Unopened
  <2>2. ~Is(c, x, "final") => (Queued(x)' <=> Queued(x))
    BY <1>9 DEF Queued
  <2>3. ~Is(c, x, "back") => (Returning(x)' <=> Returning(x))
    BY <1>9 DEF Returning
  <2> QED BY <1>10, <1>11, <1>12, <2>1, <2>2, <2>3
<1>14. writeDataToSend \in Seq(Cmds)
  BY DEF RInv, Typed
<1>15. \A x \in Requests : /\ Writing(x)' <=> Writing(x) \/ (IsWrite(c) /\ Is(c, x, "final"))
                           /\ Stored(x)' <=> Stored(x) \/ (IsWrite(c) /\ Is(c, x, "back"))
  <2>1. CASE IsWrite(c)
    <3>1. \A x, k : Has(Append(writeDataToSend, c), x, k) <=> Has(writeDataToSend, x, k) \/ Is(c, x, k)
      BY <1>3, <1>14, HasAppend
    <3> QED BY <1>8, <2>1, <3>1 DEF Writing, Stored
  <2>2. CASE ~IsWrite(c)
    BY <1>8, <2>2 DEF Writing, Stored
  <2> QED BY <2>1, <2>2
<1>16. \A x \in Requests : ~OnBus(x) /\ (OnBus(x)' <=> IsRead(c) /\ Is(c, x, "final"))
  BY <1>3, <1>8 DEF OnBus
<1>17. \A x \in Requests : /\ AsPacket(x)' <=> AsPacket(x)
                           /\ Reading(x)' <=> Reading(x)
                           /\ Operating(x)' <=> Operating(x)
                           /\ AsResponse(x)' <=> AsResponse(x)
  BY <1>8, Frames
<1>18. \A x \in Requests : Unopened(x)' => Queued(x)'
  <2>1. \A x \in Requests : Bank[x] \in Banks
    BY VaultAssumption
  <2> QED BY <1>6, <2>1, SMTT(60) DEF Unopened, Queued, Ordered, InOrder, Completed, Has, Is
<1>19. Popped(c)
  BY <1>10, <1>11, <1>12, <1>13, <1>15, <1>16, <1>17, <1>18 DEF Popped
<1>20. /\ writeDataToSend' \in Seq(Cmds) /\ AllProper(writeDataToSend')
       /\ \A i \in 1..Len(writeDataToSend') : IsWrite(writeDataToSend'[i])
       /\ \A x \in Requests : Once(writeDataToSend', x, "final")
  <2>1. CASE IsWrite(c)
    <3>0. PICK s, m : s = Append(writeDataToSend, c) /\ m = Len(writeDataToSend)
      OBVIOUS
    <3>1. /\ s = Append(writeDataToSend, c) /\ m = Len(writeDataToSend) /\ m \in Nat
          /\ s \in Seq(Cmds) /\ Len(s) = m + 1
          /\ \A i \in 1..(m + 1) : s[i] = IF i <= m THEN writeDataToSend[i] ELSE c
      BY <1>3, <1>14, <3>0, AppendFacts
    <3>2. \A i \in 1..(m + 1) : s[i] = c \/ \E j \in 1..m : s[i] = writeDataToSend[j]
      <4> SUFFICES ASSUME NEW i \in 1..(m + 1), i <= m PROVE \E j \in 1..m : s[i] = writeDataToSend[j]
        BY <3>1
      <4>1. i \in 1..m
        BY <3>1
      <4> QED BY <3>1, <4>1
    <3>3. \A j \in 1..m : Proper(writeDataToSend[j]) /\ IsWrite(writeDataToSend[j])
      BY <3>1 DEF RInv, Formed, AllProper
    <3>4. AllProper(s) /\ \A i \in 1..Len(s) : IsWrite(s[i])
      BY <1>3, <2>1, <3>1, <3>2, <3>3 DEF AllProper
    <3>5. ASSUME NEW x \in Requests PROVE Once(s, x, "final")
      <4>1. Is(c, x, "final") => ~Has(writeDataToSend, x, "final")
        BY <1>11 DEF RInv, Apart, Separate, Writing
      <4>2. Once(writeDataToSend, x, "final")
        BY DEF RInv, Unique
      <4> QED BY <1>3, <1>14, <3>1, <4>1, <4>2, HasAppend
    <3> QED BY <1>8, <2>1, <3>1, <3>4, <3>5
  <2>2. CASE ~IsWrite(c)
    BY <1>8, <1>14, <2>2 DEF RInv, Formed, Unique
  <2> QED BY <2>1, <2>2
<1>21. Formed'
  BY <1>3, <1>8, <1>20 DEF RInv, Formed
<1>22. Unique'
  BY <1>8, <1>20 DEF RInv, Unique
<1> QED BY <1>1, <1>6, <1>7, <1>19, <1>20, <1>21, <1>22

(* The lock of the bank of a popped command.                               *)
LockRule(b, c) ==
  IF Kind(c) = "back" THEN atomicLock' = [atomicLock EXCEPT ![b] = NULL]
  ELSE IF Kind(c) = "open" /\ WritesBack(c.packetTAG)
    THEN atomicLock[b] = NULL /\ atomicLock' = [atomicLock EXCEPT ![b] = c.packetTAG]
  ELSE UNCHANGED atomicLock

LEMMA KindCases ==
  ASSUME NEW c \in Cmds
  PROVE  /\ Kind(c) \in {"open", "data", "final", "back"}
         /\ Kind(c) = "final" => /\ c.lastCMD /\ (IsRead(c) \/ IsWrite(c)) /\ ~(IsRead(c) /\ IsWrite(c))
                                 /\ c.commandType # "ACTIVATE" /\ (IsWrite(c) => ~atomic(c.packetTAG))
         /\ Kind(c) = "back" => IsWrite(c) /\ atomic(c.packetTAG) /\ ~IsRead(c)
         /\ Kind(c) = "open" => c.commandType = "ACTIVATE" /\ ~IsRead(c) /\ ~IsWrite(c)
         /\ Kind(c) = "data" => ~c.lastCMD /\ (IsWrite(c) => ~atomic(c.packetTAG)) /\ (IsRead(c) \/ IsWrite(c))
                                /\ c.commandType # "ACTIVATE"
<1>1. /\ c.commandType \in {"ACTIVATE", "READ", "READ_P", "WRITE", "WRITE_P"}
      /\ c.lastCMD \in BOOLEAN
  BY DEF Cmds, CommandTypes
<1> QED BY <1>1 DEF Kind, IsRead, IsWrite

LEMMA PopApart ==
  ASSUME NEW c \in Cmds, Popped(c), Apart
  PROVE  Apart'
<1> SUFFICES ASSUME NEW x \in Requests PROVE Separate(x)'
  BY DEF Apart
<1>1. Separate(x)
  BY DEF Apart
<1>2. /\ AsPacket(x)' <=> AsPacket(x)
      /\ Queued(x)' <=> Queued(x) /\ ~Is(c, x, "final")
      /\ Returning(x)' <=> Returning(x) /\ ~Is(c, x, "back")
      /\ ~OnBus(x)
      /\ OnBus(x)' <=> IsRead(c) /\ Is(c, x, "final")
      /\ Reading(x)' <=> Reading(x)
      /\ Operating(x)' <=> Operating(x)
      /\ Writing(x)' <=> Writing(x) \/ (IsWrite(c) /\ Is(c, x, "final"))
      /\ Is(c, x, "final") => Queued(x)
  BY DEF Popped
<1>3. ~(IsRead(c) /\ IsWrite(c))
  BY DEF IsRead, IsWrite
<1> QED BY <1>1, <1>2, <1>3, Zenon DEF Separate

LEMMA PopAnswerable ==
  ASSUME NEW c \in Cmds, Popped(c), Answerable, UNCHANGED open, open \subseteq Requests
  PROVE  Answerable'
<1> SUFFICES ASSUME Sound, NEW x \in open
             PROVE  \/ AsPacket(x)' \/ Queued(x)' \/ Waits(x)' \/ AsResponse(x)'
                    \/ posted(x) /\ (Returning(x)' \/ Stored(x)')
  BY DEF Answerable
<1>1. \/ AsPacket(x) \/ Queued(x) \/ Waits(x) \/ AsResponse(x)
      \/ posted(x) /\ (Returning(x) \/ Stored(x))
  BY DEF Answerable
<1>2. x \in Requests
  OBVIOUS
<1>3. /\ AsPacket(x)' <=> AsPacket(x)
      /\ Queued(x)' <=> Queued(x) /\ ~Is(c, x, "final")
      /\ Returning(x)' <=> Returning(x) /\ ~Is(c, x, "back")
      /\ ~OnBus(x)
      /\ OnBus(x)' <=> IsRead(c) /\ Is(c, x, "final")
      /\ Reading(x)' <=> Reading(x)
      /\ Operating(x)' <=> Operating(x)
      /\ Writing(x)' <=> Writing(x) \/ (IsWrite(c) /\ Is(c, x, "final"))
      /\ Stored(x)' <=> Stored(x) \/ (IsWrite(c) /\ Is(c, x, "back"))
      /\ AsResponse(x)' <=> AsResponse(x)
  BY <1>2 DEF Popped
<1>4. (Is(c, x, "final") => IsRead(c) \/ IsWrite(c)) /\ (Is(c, x, "back") => IsWrite(c))
  BY KindCases DEF Is
<1> QED BY <1>1, <1>3, <1>4, Zenon DEF Waits

LEMMA PopEnough ==
  ASSUME NEW b, NEW c \in Cmds, Popped(c), Apart, Typed, Enough, UNCHANGED <<upBuffers, pcuPacket>>,
         isIssuable(b, c),
         pendingDataSize' =
           IF c.lastCMD /\ ~posted(c.packetTAG) /\ (IsRead(c) \/ (IsWrite(c) /\ ~atomic(c.packetTAG)))
             THEN pendingDataSize + Reserved(c.packetTAG) ELSE pendingDataSize
  PROVE  Enough' /\ pendingDataSize' \in Nat
<1>1. PICK r \in Requests : r = c.packetTAG
  BY DEF Cmds
<1>2. \A x \in Requests : Waits(x)' <=> Waits(x) \/ Is(c, x, "final")
  <2> SUFFICES ASSUME NEW x \in Requests PROVE Waits(x)' <=> Waits(x) \/ Is(c, x, "final")
    OBVIOUS
  <2>1. Is(c, x, "final") => IsRead(c) \/ IsWrite(c)
    BY KindCases DEF Is
  <2> QED BY <2>1 DEF Popped, Waits
<1>3. CASE Kind(c) = "final" /\ ~posted(r)
  <2>1. ~Waits(r)
    BY <1>1, <1>3 DEF Popped, Apart, Separate, Is, Waits
  <2>2. r \notin Pending /\ Pending' = Pending \cup {r}
    <3>1. \A x \in Requests : Is(c, x, "final") <=> x = r
      BY <1>1, <1>3 DEF Is
    <3> QED BY <1>2, <1>3, <2>1, <3>1 DEF Pending
  <2>3. RoomFor(r)
    <3>1. (IsRead(c) \/ IsWrite(c)) /\ c.commandType # "ACTIVATE" /\ (IsWrite(c) => ~atomic(r))
      BY <1>1, <1>3, KindCases
    <3> QED BY <1>1, <1>3, <3>1 DEF isIssuable, IsRead, IsWrite
  <2>4. pendingDataSize' = pendingDataSize + Reserved(r)
    BY <1>1, <1>3, KindCases
  <2>5. PICK n \in Nat, v \in Nat, f \in Nat, u \in Nat, m \in Nat, k \in Nat :
          /\ n = pendingDataSize /\ v = Reserved(r) /\ f = Flits(r) /\ u = UsedBy(upBuffers)
          /\ m = MAX_VLT_BUF /\ k = Kept(Pending)
    <3>1. Pending \in SUBSET Requests /\ MAX_VLT_BUF \in Nat /\ pendingDataSize \in Nat
      BY VaultAssumption DEF Typed, Pending
    <3> QED BY <3>1, KeptFacts, SizeTypes, UsedType DEF Typed
  <2>6. Kept(Pending') = k + v
    <3>1. Pending \in SUBSET Requests
      BY DEF Pending
    <3> QED BY <2>2, <2>5, <3>1, KeptFacts
  <2>7. n + f <= m - u
    BY <2>3, <2>5 DEF RoomFor, Used, UsedBy
  <2>8. Sound => v <= f
    BY <2>5, SoundSizes
  <2>9. k <= n /\ (Sound => n = k /\ pcuPacket = <<>> /\ u + n <= m)
    BY <2>5 DEF Enough
  <2>10. pendingDataSize' = n + v
    BY <2>4, <2>5
  <2>11. k + v <= n + v /\ n + v \in Nat /\ (Sound => n + v = k + v /\ u + (n + v) <= m)
    BY <2>7, <2>8, <2>9
  <2> QED BY <2>5, <2>6, <2>9, <2>10, <2>11 DEF Enough
<1>4. CASE ~(Kind(c) = "final" /\ ~posted(r))
  <2>1. Pending' = Pending
    <3>1. \A x \in Requests : ~posted(x) => ~Is(c, x, "final")
      BY <1>1, <1>4 DEF Is
    <3> QED BY <1>2, <3>1 DEF Pending
  <2>2. pendingDataSize' = pendingDataSize
    <3>1. c.lastCMD /\ (IsRead(c) \/ (IsWrite(c) /\ ~atomic(r))) => Kind(c) = "final"
      BY <1>1 DEF Kind, IsRead, IsWrite
    <3> QED BY <1>1, <1>4, <3>1
  <2> QED BY <2>1, <2>2 DEF Enough, Typed
<1> QED BY <1>3, <1>4

LEMMA PopLocks ==
  ASSUME NEW b \in Banks, NEW c \in Cmds, Bank[c.packetTAG] = b, Popped(c), LockRule(b, c),
         Apart, Locked, Fits, Ordered, atomicLock \in [Banks -> Requests \cup {NULL}],
         \A x \in Banks : /\ Len(queue'[x]) \in Nat
                          /\ Len(queue'[x]) = IF x = b THEN Len(queue[x]) - 1 ELSE Len(queue[x])
  PROVE  Locked' /\ Fits' /\ atomicLock' \in [Banks -> Requests \cup {NULL}]
<1>1. PICK r \in Requests : r = c.packetTAG /\ Bank[r] = b
  BY DEF Cmds
<1>2. \A x \in Requests : Bank[x] \in Banks /\ x # NULL
  BY VaultAssumption
<1>3. ASSUME NEW x \in Requests, x # r
      PROVE  (Owing(x)' <=> Owing(x)) /\ (Returning(x)' <=> Returning(x))
  <2>1. \A k : ~Is(c, x, k)
    BY <1>1, <1>3 DEF Is
  <2> QED BY <2>1 DEF Popped, Owing
<1>4. ASSUME NEW x \in Banks
      PROVE  Len(queue[x]) \in Nat /\ Len(queue'[x]) \in Nat /\ Len(queue'[x]) <= Len(queue[x])
  BY DEF Ordered, InOrder
<1>5. CASE Kind(c) = "back"
  <2>1. atomicLock' = [atomicLock EXCEPT ![b] = NULL]
    BY <1>5 DEF LockRule
  <2>2. Returning(r) /\ ~Returning(r)' /\ WritesBack(r) /\ atomicLock[b] = r
    BY <1>1, <1>5 DEF Popped, Locked, Is
  <2>3. ~Owing(r)'
    <3>1. ~Queued(r) /\ ~Reading(r) /\ ~Operating(r)
      BY <2>2 DEF Apart, Separate
    <3>2. ~Is(c, r, "final")
      BY <1>5 DEF Is
    <3> QED BY <3>1, <3>2 DEF Popped, Owing
  <2>4. \A x \in Banks : atomicLock'[x] = IF x = b THEN NULL ELSE atomicLock[x]
    BY <2>1
  <2>5. ASSUME NEW x \in Requests
        PROVE  /\ Returning(x)' => WritesBack(x)
               /\ WritesBack(x) /\ (Owing(x)' \/ Returning(x)') => atomicLock'[Bank[x]] = x
    <3>1. CASE x = r
      BY <2>2, <2>3, <3>1
    <3>2. CASE x # r
      <4>1. Returning(x)' => WritesBack(x)
        BY <1>3, <3>2 DEF Locked
      <4>2. ASSUME WritesBack(x), Owing(x)' \/ Returning(x)' PROVE atomicLock'[Bank[x]] = x
        <5>1. atomicLock[Bank[x]] = x
          BY <1>3, <3>2, <4>2 DEF Locked
        <5>2. Bank[x] # b
          BY <2>2, <3>2, <5>1
        <5> QED BY <1>2, <2>4, <5>1, <5>2
      <4> QED BY <4>1, <4>2
    <3> QED BY <3>1, <3>2
  <2>6. ASSUME NEW d \in Banks, atomicLock'[d] # NULL
        PROVE  \E x \in Requests : /\ d # b /\ x # r /\ x = atomicLock'[d] /\ x = atomicLock[d]
                                   /\ Bank[x] = d /\ WritesBack(x) /\ (Owing(x)' \/ Returning(x)')
    <3>1. d # b /\ atomicLock'[d] = atomicLock[d] /\ atomicLock[d] # NULL
      BY <2>4, <2>6
    <3>2. PICK x \in Requests : x = atomicLock[d]
      BY <3>1
    <3>3. Bank[x] = d /\ WritesBack(x) /\ (Owing(x) \/ Returning(x))
      BY <3>1, <3>2 DEF Locked
    <3> QED BY <1>1, <1>3, <3>1, <3>2, <3>3
  <2>7. Locked'
    BY <2>5, <2>6 DEF Locked
  <2>8. Fits'
    <3> SUFFICES ASSUME NEW d \in Banks
                 PROVE  /\ Len(queue'[d]) <= MAX_CMD_QUE
                        /\ atomicLock'[d] # NULL /\ Owing(atomicLock[d])'
                             => Len(queue'[d]) + 1 <= MAX_CMD_QUE
      BY DEF Fits
    <3>1. Len(queue[d]) <= MAX_CMD_QUE /\ MAX_CMD_QUE \in Nat
      BY VaultAssumption DEF Fits
    <3>2. Len(queue'[d]) <= MAX_CMD_QUE
      BY <1>4, <3>1
    <3>3. ASSUME atomicLock'[d] # NULL, Owing(atomicLock[d])' PROVE Len(queue'[d]) + 1 <= MAX_CMD_QUE
      <4>1. PICK x \in Requests : d # b /\ x # r /\ x = atomicLock'[d] /\ x = atomicLock[d]
        BY <2>6, <3>3
      <4>2. Owing(x)
        BY <1>3, <3>3, <4>1
      <4>3. Len(queue[d]) + 1 <= MAX_CMD_QUE /\ Len(queue'[d]) = Len(queue[d])
        BY <1>2, <4>1, <4>2 DEF Fits
      <4> QED BY <4>3
    <3> QED BY <3>2, <3>3
  <2> QED BY <2>1, <2>7, <2>8
<1>6. CASE Kind(c) = "open" /\ WritesBack(r)
  <2>1. atomicLock[b] = NULL /\ atomicLock' = [atomicLock EXCEPT ![b] = r]
    BY <1>1, <1>6 DEF LockRule
  <2>2. \A x \in Banks : atomicLock'[x] = IF x = b THEN r ELSE atomicLock[x]
    BY <2>1
  <2>3. Owing(r)'
    BY <1>1, <1>6 DEF Popped, Owing, Is
  <2>4. ASSUME NEW x \in Requests
        PROVE  /\ Returning(x)' => WritesBack(x)
               /\ WritesBack(x) /\ (Owing(x)' \/ Returning(x)') => atomicLock'[Bank[x]] = x
    <3>1. CASE x = r
      BY <1>1, <1>6, <2>2, <3>1
    <3>2. CASE x # r
      <4>1. Returning(x)' => WritesBack(x)
        BY <1>3, <3>2 DEF Locked
      <4>2. ASSUME WritesBack(x), Owing(x)' \/ Returning(x)' PROVE atomicLock'[Bank[x]] = x
        <5>1. atomicLock[Bank[x]] = x
          BY <1>3, <3>2, <4>2 DEF Locked
        <5>2. Bank[x] # b
          BY <1>2, <2>1, <5>1
        <5> QED BY <1>2, <2>2, <5>1, <5>2
      <4> QED BY <4>1, <4>2
    <3> QED BY <3>1, <3>2
  <2>5. ASSUME NEW d \in Banks, atomicLock'[d] # NULL
        PROVE  \E x \in Requests : /\ x = atomicLock'[d] /\ (x = r <=> d = b) /\ (x # r => x = atomicLock[d])
                                   /\ Bank[x] = d /\ WritesBack(x) /\ (Owing(x)' \/ Returning(x)')
    <3>1. CASE d = b
      BY <1>1, <1>6, <2>2, <2>3, <3>1
    <3>2. CASE d # b
      <4>0. d # b /\ atomicLock'[d] = atomicLock[d] /\ atomicLock[d] # NULL
        BY <2>2, <2>5, <3>2
      <4>1. PICK x \in Requests : x = atomicLock[d]
        BY <4>0
      <4>2. Bank[x] = d /\ WritesBack(x) /\ (Owing(x) \/ Returning(x))
        BY <4>0, <4>1 DEF Locked
      <4> QED BY <1>1, <1>3, <3>2, <4>0, <4>1, <4>2
    <3> QED BY <3>1, <3>2
  <2>6. Locked'
    BY <2>4, <2>5 DEF Locked
  <2>7. Fits'
    <3> SUFFICES ASSUME NEW d \in Banks
                 PROVE  /\ Len(queue'[d]) <= MAX_CMD_QUE
                        /\ atomicLock'[d] # NULL /\ Owing(atomicLock[d])'
                             => Len(queue'[d]) + 1 <= MAX_CMD_QUE
      BY DEF Fits
    <3>1. Len(queue[d]) <= MAX_CMD_QUE /\ MAX_CMD_QUE \in Nat
      BY VaultAssumption DEF Fits
    <3>2. Len(queue'[d]) <= MAX_CMD_QUE
      BY <1>4, <3>1
    <3>3. ASSUME atomicLock'[d] # NULL, Owing(atomicLock[d])' PROVE Len(queue'[d]) + 1 <= MAX_CMD_QUE
      <4>1. PICK x \in Requests : x = atomicLock'[d] /\ (x = r <=> d = b) /\ (x # r => x = atomicLock[d])
        BY <2>5, <3>3
      <4>2. CASE d = b
        <5>1. Len(queue'[d]) = Len(queue[d]) - 1
          BY <4>2
        <5> QED BY <1>4, <3>1, <5>1
      <4>3. CASE d # b
        <5>1. Owing(x)
          BY <1>3, <3>3, <4>1, <4>3
        <5>2. Len(queue[d]) + 1 <= MAX_CMD_QUE /\ Len(queue'[d]) = Len(queue[d])
          BY <1>2, <4>1, <4>3, <5>1 DEF Fits
        <5> QED BY <5>2
      <4> QED BY <4>2, <4>3
    <3> QED BY <3>2, <3>3
  <2> QED BY <2>1, <2>6, <2>7
<1>7. CASE Kind(c) # "back" /\ ~(Kind(c) = "open" /\ WritesBack(r))
  <2>1. atomicLock' = atomicLock
    BY <1>1, <1>7 DEF LockRule
  <2>2. ASSUME NEW x \in Requests
        PROVE  /\ Returning(x)' <=> Returning(x)
               /\ WritesBack(x) => (Owing(x)' <=> Owing(x))
    <3>1. CASE x # r
      BY <1>3, <3>1
    <3>2. CASE x = r
      <4>1. Returning(x)' <=> Returning(x)
        BY <1>7 DEF Popped, Is
      <4>2. CASE WritesBack(x) /\ Kind(c) = "final"
        <5>1. Is(c, x, "final") /\ IsRead(c)
          BY <1>1, <3>2, <4>2, KindCases DEF Is, WritesBack
        <5>2. Queued(x) /\ ~Unopened(x) /\ OnBus(x)'
          <6>1. ~Is(c, x, "open")
            BY <4>2 DEF Is
          <6> QED BY <5>1, <6>1 DEF Popped
        <5> QED BY <4>1, <5>2 DEF Owing
      <4>3. CASE WritesBack(x) /\ Kind(c) # "final"
        <5>1. ~Is(c, x, "final") /\ ~Is(c, x, "open")
          BY <1>7, <3>2, <4>3 DEF Is
        <5>2. Owing(x)' <=> Owing(x)
          BY <5>1 DEF Popped, Owing
        <5> QED BY <4>1, <5>2
      <4> QED BY <4>1, <4>2, <4>3
    <3> QED BY <3>1, <3>2
  <2>3. Locked'
    <3>1. \A x \in Requests : /\ Returning(x)' => WritesBack(x)
                              /\ WritesBack(x) => (Owes(x)' <=> Owes(x))
      BY <2>2 DEF Owes, Locked
    <3> QED BY <2>1, <3>1, LockedStep
  <2>4. Fits'
    BY <1>4, <2>1, <2>2, FitsStep
  <2> QED BY <2>1, <2>3, <2>4
<1> QED BY <1>1, <1>5, <1>6, <1>7

LEMMA PopResponses ==
  ASSUME VInv, RInv, NEW b \in Banks, NEW n \in 1..Len(queue[b]), NEW p,
         Shrunk(queue[b], n, p), MayGo(queue[b], n), queue' = [queue EXCEPT ![b] = p],
         cmdBus = NULL, Issue(queue[b][n]), isIssuable(b, queue[b][n]), LockRule(b, queue[b][n]),
         issuedBank' \in Banks
  PROVE  RInv'
<1>1. /\ Popped(queue[b][n]) /\ Ordered' /\ Formed' /\ Unique'
      /\ writeDataToSend' \in Seq(Cmds)
      /\ \A x \in Banks : /\ Len(queue'[x]) \in Nat
                          /\ Len(queue'[x]) = IF x = b THEN Len(queue[x]) - 1 ELSE Len(queue[x])
  BY PopPlaces
<1>2. PICK c : c = queue[b][n]
  OBVIOUS
<1>3. c \in Cmds /\ Bank[c.packetTAG] = b
  BY <1>2, Element DEF VInv, GoodQueues
<1>4. /\ Typed /\ Apart /\ Locked /\ Fits /\ Ordered /\ Enough /\ Answerable
      /\ atomicLock \in [Banks -> Requests \cup {NULL}] /\ open \subseteq Requests
  BY DEF RInv, Typed
<1>5. UNCHANGED <<upBuffers, pcuPacket, open>>
  BY DEF Issue, packetVars
<1>6. pendingDataSize' =
        IF c.lastCMD /\ ~posted(c.packetTAG) /\ (IsRead(c) \/ (IsWrite(c) /\ ~atomic(c.packetTAG)))
          THEN pendingDataSize + Reserved(c.packetTAG) ELSE pendingDataSize
  BY <1>2 DEF Issue
<1>7. Popped(c) /\ isIssuable(b, c) /\ LockRule(b, c)
  BY <1>1, <1>2
<1>8. Apart'
  BY <1>3, <1>4, <1>7, PopApart
<1>9. Answerable'
  BY <1>3, <1>4, <1>5, <1>7, PopAnswerable
<1>10. Enough' /\ pendingDataSize' \in Nat
  BY <1>3, <1>4, <1>5, <1>6, <1>7, PopEnough
<1>11. Locked' /\ Fits' /\ atomicLock' \in [Banks -> Requests \cup {NULL}]
  BY <1>1, <1>3, <1>4, <1>7, PopLocks
<1>12. Typed'
  BY <1>1, <1>4, <1>5, <1>10, <1>11 DEF Typed
<1> QED BY <1>1, <1>8, <1>9, <1>10, <1>11, <1>12 DEF RInv

(* The owner of a lock is not waiting to be opened.                        *)
LEMMA OwnerOpened ==
  ASSUME RInv, NEW x \in Requests, Owes(x)
  PROVE  ~Unopened(x)
<1>1. Unopened(x) => Queued(x)
  BY OpenQueued DEF RInv
<1>2. Separate(x)
  BY DEF RInv, Apart
<1> QED BY <1>1, <1>2, Zenon DEF Owes, Owing, Separate

LEMMA PopLockedResponses ==
  ASSUME VInv, RInv, NEW b \in Banks, PopLocked(b), cmdBus = NULL, issuedBank' \in Banks
  PROVE  RInv'
<1>1. PICK q : q = queue[b] /\ GoodQueue(b, q) /\ q # <<>> /\ q \in Seq(Cmds)
  BY DEF VInv, GoodQueues, GoodQueue, PopLocked, OwnerHead
<1>2. 1 \in 1..Len(q) /\ Shrunk(q, 1, Tail(q)) /\ q[1] \in Cmds
  BY <1>1, TailShrunk
<1>3. MayGo(q, 1)
  BY DEF MayGo
<1>4. queue' = [queue EXCEPT ![b] = Tail(q)] /\ Issue(q[1]) /\ isIssuable(b, q[1])
  BY <1>1 DEF PopLocked
<1>5. PICK c \in Cmds, r \in Requests :
        /\ c = q[1] /\ r = c.packetTAG /\ r = atomicLock[b] /\ Bank[r] = b
  <2>1. q[1].packetTAG \in Requests /\ Bank[q[1].packetTAG] = b
    BY <1>1, <1>2, Element
  <2> QED BY <1>1, <1>2, <2>1 DEF PopLocked, OwnerHead
<1>6. WritesBack(r) /\ Owes(r)
  <2>1. atomicLock[b] # NULL
    BY <1>5, VaultAssumption
  <2> QED BY <1>5, <2>1 DEF RInv, Locked, Owes
<1>7. LockRule(b, c)
  <2>1. CASE IsWrite(c)
    <3>1. Kind(c) = "back"
      BY <1>5, <1>6, <2>1 DEF Kind, IsWrite, WritesBack
    <3>2. atomicLock' = [atomicLock EXCEPT ![b] = NULL]
      BY <1>1, <1>5, <2>1 DEF PopLocked
    <3> QED BY <3>1, <3>2 DEF LockRule
  <2>2. CASE ~IsWrite(c)
    <3>1. Kind(c) # "back"
      BY <2>2, KindCases
    <3>2. Kind(c) # "open"
      <4>1. ~Unopened(r)
        BY <1>6, OwnerOpened
      <4> QED BY <1>1, <1>2, <1>5, <4>1 DEF Unopened, Has, Is
    <3>3. atomicLock' = atomicLock
      BY <1>1, <1>5, <2>2 DEF PopLocked
    <3> QED BY <3>1, <3>2, <3>3 DEF LockRule
  <2> QED BY <2>1, <2>2
<1> QED BY <1>1, <1>2, <1>3, <1>4, <1>5, <1>7, PopResponses

LEMMA PopAtResponses ==
  ASSUME VInv, RInv, NEW b \in Banks, NEW n \in 1..Len(queue[b]), PopAt(b, n), Independent(b, n),
         MayGo(queue[b], n), atomicLock[b] = NULL, cmdBus = NULL, issuedBank' \in Banks
  PROVE  RInv'
<1>1. PICK q : q = queue[b] /\ GoodQueue(b, q) /\ q \in Seq(Cmds) /\ n \in 1..Len(q) /\ InOrder(q)
  BY DEF VInv, GoodQueues, GoodQueue, RInv, Ordered
<1>2. Shrunk(q, n, RemoveAt(q, n))
  BY <1>1, RemoveShrunk
<1>3. queue' = [queue EXCEPT ![b] = RemoveAt(q, n)] /\ Issue(q[n]) /\ isIssuable(b, q[n])
  BY <1>1 DEF PopAt
<1>4. PICK c \in Cmds, r \in Requests : c = q[n] /\ r = c.packetTAG /\ Bank[r] = b
  BY <1>1, Element
<1>5. ~(WritesBack(r) /\ Owes(r))
  BY <1>4, VaultAssumption DEF RInv, Locked, Owes
<1>6. Kind(c) # "back"
  <2> SUFFICES ASSUME Kind(c) = "back" PROVE FALSE
    OBVIOUS
  <2>1. Returning(r)
    BY <1>1, <1>4 DEF Returning, Has, Is
  <2> QED BY <1>5, <2>1 DEF RInv, Locked, Owes
<1>7. Kind(c) \in {"data", "final"} => ~WritesBack(r)
  <2> SUFFICES ASSUME Kind(c) \in {"data", "final"}, WritesBack(r) PROVE FALSE
    OBVIOUS
  <2>1. Queued(r)
    BY <1>1, <1>4 DEF Queued, Has, Is, InOrder, Completed
  <2>2. ASSUME NEW j \in 1..Len(q), Is(q[j], r, "open") PROVE FALSE
    <3>1. j < n
      BY <1>1, <1>4, <2>2 DEF InOrder, OpensFirst, Is
    <3>2. j \in 1..(n - 1)
      BY <1>1, <3>1
    <3>3. q[j].commandType = "ACTIVATE" /\ q[j].packetTAG = q[n].packetTAG
      BY <1>4, <2>2 DEF Is, Kind
    <3> QED BY <1>1, <3>2, <3>3 DEF Independent
  <2>3. ~Unopened(r)
    BY <1>1, <1>4, <2>2 DEF Unopened, Has
  <2> QED BY <1>5, <2>1, <2>3 DEF Owes, Owing
<1>8. LockRule(b, c)
  <2>1. Kind(c) \in {"open", "data", "final"}
    BY <1>6, KindCases
  <2>2. atomicLock' = IF WritesBack(r) THEN [atomicLock EXCEPT ![b] = r] ELSE atomicLock
    BY <1>1, <1>4 DEF PopAt
  <2> QED BY <1>4, <1>7, <2>1, <2>2 DEF LockRule
<1> QED BY <1>1, <1>2, <1>3, <1>4, <1>8, PopResponses

(* A command that is issuable lets no earlier data command of its request  *)
(* wait.                                                                   *)
LEMMA EarlierIssuable ==
  ASSUME NEW b, NEW c \in Cmds, NEW d \in Cmds, Proper(c), Proper(d), Kind(c) = "final",
         Kind(d) = "data", d.packetTAG = c.packetTAG, isIssuable(b, c)
  PROVE  isIssuable(b, d)
<1>1. PICK r \in Requests : r = c.packetTAG /\ r = d.packetTAG
  BY DEF Cmds
<1>2. /\ c.commandType # "ACTIVATE" /\ (IsRead(c) \/ IsWrite(c)) /\ (IsWrite(c) => ~atomic(r))
      /\ d.commandType # "ACTIVATE" /\ (IsRead(d) \/ IsWrite(d)) /\ (IsWrite(d) => ~atomic(r))
      /\ ~(IsRead(c) /\ IsWrite(c)) /\ ~(IsRead(d) /\ IsWrite(d))
  BY <1>1, KindCases DEF IsRead, IsWrite
<1>3. PICK opened : opened = (/\ bankStates[b].currentBankState = "ROW_ACTIVE"
                              /\ bankStates[b].openRowAddress = Row[r])
  OBVIOUS
<1>4. opened /\ (RoomFor(r) \/ (IsWrite(c) /\ posted(r)))
  BY <1>1, <1>2, <1>3 DEF isIssuable, IsRead, IsWrite
<1>5. IsRead(d) => RoomFor(r)
  <2>1. CMD[r] \in Reads \cup Writes \cup Atomics
    BY VaultAssumption
  <2>2. IsRead(d) => CMD[r] \notin Writes
    BY <1>1 DEF Proper
  <2>3. IsWrite(c) => CMD[r] \notin Reads
    BY <1>1 DEF Proper
  <2> QED BY <1>2, <1>4, <2>1, <2>2, <2>3 DEF atomic
<1> QED BY <1>1, <1>2, <1>3, <1>4, <1>5 DEF isIssuable, IsRead, IsWrite

LEMMA PopsResponses ==
  ASSUME VInv, RInv, NEW b \in Banks, Pop(b)
  PROVE  RInv'
<1>1. cmdBus = NULL
  BY DEF Pop, CmdPop, CmdPopForRefresh, MayPop
<1>2. issuedBank' \in Banks
  <2>1. issuedBank \in Banks /\ NUM_BANKS \in Nat \ {0}
    BY VaultAssumption DEF RInv, Typed
  <2>2. (b + 1) % NUM_BANKS \in Banks
    BY <2>1 DEF Banks
  <2> QED BY <2>1, <2>2 DEF Pop, CmdPop, CmdPopForRefresh
<1>3. PICK q : q = queue[b] /\ GoodQueue(b, q) /\ AllProper(q) /\ DOMAIN q = 1..Len(q) /\ Len(q) \in Nat
  BY DEF VInv, GoodQueues, GoodQueue, RInv, Ordered
<1>4. CASE PopLocked(b)
  BY <1>1, <1>2, <1>4, PopLockedResponses
<1>5. CASE CmdPop(b) /\ ~PopLocked(b)
  <2>1. Poppable(b) # {} /\ PopAt(b, Min(Poppable(b))) /\ atomicLock[b] = NULL
    BY <1>5 DEF CmdPop
  <2>2. Poppable(b) \subseteq Nat
    BY <1>3 DEF Poppable
  <2>3. PICK n : n = Min(Poppable(b)) /\ n \in Poppable(b) /\ \A y \in Poppable(b) : n <= y
    BY <2>1, <2>2, MinIs
  <2>4. n \in 1..Len(q) /\ isIssuable(b, q[n]) /\ Independent(b, n)
    BY <1>3, <2>3 DEF Poppable
  <2>5. MayGo(q, n)
    <3> SUFFICES ASSUME NEW j \in 1..(n - 1), q[j].packetTAG = q[n].packetTAG,
                        Kind(q[j]) = "open" \/ (Kind(q[j]) = "data" /\ Kind(q[n]) = "final")
                 PROVE  FALSE
      BY DEF MayGo
    <3>1. j \in 1..Len(q) /\ ~(n <= j)
      BY <1>3, <2>4
    <3>2. q[j] \in Cmds /\ q[n] \in Cmds /\ Proper(q[j]) /\ Proper(q[n])
      BY <1>3, <2>4, <3>1, Element DEF AllProper
    <3>3. Kind(q[j]) # "open"
      BY <1>3, <2>4, <3>2, KindCases DEF Independent
    <3>4. isIssuable(b, q[j])
      BY <2>4, <3>2, <3>3, EarlierIssuable
    <3>5. Independent(b, j)
      <4>1. \A k \in 1..(j - 1) : k \in 1..(n - 1)
        BY <1>3, <2>4
      <4> QED BY <1>3, <2>4, <4>1 DEF Independent
    <3>6. j \in Poppable(b)
      BY <1>3, <3>1, <3>4, <3>5 DEF Poppable
    <3> QED BY <2>3, <3>1, <3>6
  <2> QED BY <1>1, <1>2, <1>3, <2>1, <2>3, <2>4, <2>5, PopAtResponses
<1>6. CASE CmdPopForRefresh(b) /\ ~PopLocked(b)
  <2>1. ForOpenRow(b) # {} /\ PopAt(b, Min(ForOpenRow(b))) /\ atomicLock[b] = NULL
    BY <1>6 DEF CmdPopForRefresh
  <2>2. ForOpenRow(b) \subseteq Nat
    BY <1>3 DEF ForOpenRow
  <2>3. PICK n : n = Min(ForOpenRow(b)) /\ n \in ForOpenRow(b) /\ \A y \in ForOpenRow(b) : n <= y
    BY <2>1, <2>2, MinIs
  <2>4. n \in 1..Len(q) /\ Row[q[n].packetTAG] = bankStates[b].openRowAddress
    BY <1>3, <2>3 DEF ForOpenRow
  <2>5. Independent(b, n)
    BY <2>1, <2>3, OpenRowIndependent
  <2>6. MayGo(q, n)
    <3> SUFFICES ASSUME NEW j \in 1..(n - 1), q[j].packetTAG = q[n].packetTAG PROVE FALSE
      BY DEF MayGo
    <3>1. j \in 1..Len(q) /\ ~(n <= j)
      BY <1>3, <2>4
    <3>2. j \in ForOpenRow(b)
      BY <1>3, <2>4, <3>1 DEF ForOpenRow
    <3> QED BY <2>3, <3>1, <3>2
  <2> QED BY <1>1, <1>2, <1>3, <2>1, <2>3, <2>4, <2>5, <2>6, PopAtResponses
<1> QED BY <1>4, <1>5, <1>6 DEF Pop

-----------------------------------------------------------------------------
(* The steps that change no queue.                                         *)

LEMMA MoveStep ==
  ASSUME RInv, Typed', Formed', Unique', Enough', Answerable', UNCHANGED <<queue, atomicLock>>,
         NEW r \in Requests, \A x \in Requests : x # r => SamePlace(x), Separate(r)',
         WritesBack(r) => (Owing(r)' <=> Owing(r))
  PROVE  RInv'
<1>1. Ordered'
  BY DEF RInv, Ordered
<1>2. Apart'
  BY ApartStep DEF RInv
<1>3. \A x \in Requests : /\ Returning(x)' <=> Returning(x)
                          /\ WritesBack(x) => (Owing(x)' <=> Owing(x))
  BY Frames, SamePlaceFacts
<1>4. Locked'
  <2>1. \A x \in Requests : /\ Returning(x)' => WritesBack(x)
                            /\ WritesBack(x) => (Owes(x)' <=> Owes(x))
    BY <1>3 DEF Owes, RInv, Locked
  <2> QED BY <2>1, LockedStep DEF RInv, Typed
<1>5. Fits'
  <2>1. \A b \in Banks : Len(queue'[b]) \in Nat /\ Len(queue'[b]) <= Len(queue[b])
    BY DEF RInv, Ordered, InOrder
  <2> QED BY <1>3, <2>1, FitsStep DEF RInv, Typed
<1> QED BY <1>1, <1>2, <1>4, <1>5 DEF RInv

(* A request that the vault does not know is nowhere.                      *)
LEMMA Nowhere ==
  ASSUME VInv, RInv, NEW r \in Requests, r \notin InVault
  PROVE  /\ ~AsPacket(r) /\ ~Unopened(r) /\ ~Queued(r) /\ ~OnBus(r) /\ ~Reading(r) /\ ~Operating(r)
         /\ ~Writing(r) /\ ~Returning(r)
<1>1. Bank[r] \in Banks /\ queue[Bank[r]] \in Seq(Cmds)
  <2>1. Bank[r] \in Banks
    BY VaultAssumption
  <2> QED BY <2>1 DEF VInv, GoodQueues, GoodQueue
<1>2. ASSUME NEW s \in Seq(Cmds), r \notin TagsOf(s), NEW k PROVE ~Has(s, r, k)
  <2>1. \A i \in 1..Len(s) : s[i].packetTAG # r
    BY <1>2 DEF TagsOf
  <2> QED BY <2>1, Zenon DEF Has, Is
<1>3. r \notin TagsOf(queue[Bank[r]])
  BY <1>1 DEF InVault
<1>4. /\ r \notin TagsOf(writeDataToSend) /\ r \notin TagsOf(readReturnDATA)
      /\ r \notin {x.packetTAG : x \in {cmdBus, atomicCMD} \ {NULL}}
  <2>1. PICK A, B, C, D : /\ A = ToSet(downBuffers) \cup ToSet(upBuffers) \cup ToSet(pcuPacket)
                                  \cup (UNION {TagsOf(queue[b]) : b \in Banks})
                          /\ B = TagsOf(writeDataToSend) /\ C = TagsOf(readReturnDATA)
                          /\ D = {x.packetTAG : x \in {cmdBus, atomicCMD} \ {NULL}}
    BY Zenon
  <2>2. InVault = A \cup B \cup C \cup D
    BY <2>1, Zenon DEF InVault
  <2>3. r \notin B /\ r \notin C /\ r \notin D
    BY <2>2
  <2> QED BY <2>1, <2>3, Zenon
<1>5. ~AsPacket(r)
  <2>1. r \notin ToSet(downBuffers)
    BY DEF InVault
  <2> QED BY <2>1 DEF AsPacket, ToSet, VInv, GoodCommands
<1>6. ~OnBus(r) /\ ~Operating(r)
  <2>2. (cmdBus # NULL => cmdBus.packetTAG # r) /\ (atomicCMD # NULL => atomicCMD.packetTAG # r)
    BY <1>4
  <2> QED BY <2>2 DEF OnBus, Operating, Is
<1>7. writeDataToSend \in Seq(Cmds) /\ readReturnDATA \in Seq(Cmds)
  BY DEF VInv, GoodCommands, RInv, Typed
<1> QED BY <1>1, <1>2, <1>3, <1>4, <1>5, <1>6, <1>7 DEF Unopened, Queued, Reading, Writing, Returning

LEMMA ReceiveResponses ==
  ASSUME VInv, RInv, NEW r \in Requests, ReceiveDown(r)
  PROVE  RInv'
<1>1. /\ r \notin InVault /\ downBuffers' = Append(downBuffers, r) /\ open' = open \cup {r}
      /\ UNCHANGED <<upBuffers, pcuPacket, pendingDataSize, queue, atomicLock, issuedBank, cmdBus,
                     writeDataToSend, atomicCMD, readReturnDATA>>
  BY DEF ReceiveDown, queueVars, dramVars
<1>2. /\ ~AsPacket(r) /\ ~Unopened(r) /\ ~Queued(r) /\ ~OnBus(r) /\ ~Reading(r) /\ ~Operating(r)
      /\ ~Writing(r) /\ ~Returning(r)
  BY <1>1, Nowhere
<1>3. PICK s \in Seq(Requests), n \in Nat : s = downBuffers /\ n = Len(s)
  BY DEF VInv, GoodCommands
<1>4. /\ downBuffers' \in Seq(Requests) /\ Len(downBuffers') = n + 1
      /\ \A i \in 1..(n + 1) : downBuffers'[i] = IF i <= n THEN s[i] ELSE r
  BY <1>1, <1>3, AppendFacts
<1>5. \A i \in 1..(n + 1) : i = n + 1 \/ i \in 1..n
  <2> SUFFICES ASSUME NEW i \in 1..(n + 1), i # n + 1 PROVE i \in 1..n
    OBVIOUS
  <2> QED OBVIOUS
<1>6. (\A i \in 1..n : i \in 1..(n + 1) /\ downBuffers'[i] = s[i]) /\ downBuffers'[n + 1] = r /\ n + 1 \in 1..(n + 1)
  BY <1>4
<1>7. \A x : AsPacket(x)' <=> AsPacket(x) \/ x = r
  BY <1>3, <1>4, <1>5, <1>6 DEF AsPacket
<1>8. Unique'
  <2>1. \A i \in 1..n : s[i] # r
    BY <1>2, <1>3 DEF AsPacket
  <2>2. \A i, j \in 1..n : s[i] = s[j] => i = j
    BY <1>3 DEF RInv, Unique
  <2>3. ASSUME NEW i \in 1..(n + 1), NEW j \in 1..(n + 1), downBuffers'[i] = downBuffers'[j] PROVE i = j
    BY <1>5, <1>6, <2>1, <2>2, <2>3
  <2> QED BY <1>1, <1>4, <2>3 DEF RInv, Unique
<1>9. Typed' /\ Formed'
  BY <1>1 DEF RInv, Typed, Formed
<1>10. ASSUME NEW x
       PROVE  /\ (Unopened(x)' <=> Unopened(x)) /\ (Queued(x)' <=> Queued(x))
              /\ (Returning(x)' <=> Returning(x)) /\ (OnBus(x)' <=> OnBus(x))
              /\ (Reading(x)' <=> Reading(x)) /\ (Operating(x)' <=> Operating(x))
              /\ (Writing(x)' <=> Writing(x)) /\ (Stored(x)' <=> Stored(x))
              /\ (AsResponse(x)' <=> AsResponse(x))
  BY <1>1, Frames
<1>11. \A x \in Requests : x # r => SamePlace(x)
  BY <1>7, <1>10 DEF SamePlace
<1>12. Separate(r)'
  BY <1>2, <1>10 DEF Separate
<1>13. (Owing(r)' <=> Owing(r)) /\ \A x : Waits(x)' <=> Waits(x)
  BY <1>10 DEF Owing, Waits
<1>14. Enough'
  <2>1. Pending' = Pending
    BY <1>13, PendingSame
  <2> QED BY <1>1, <2>1 DEF RInv, Enough
<1>15. Answerable'
  BY <1>1, <1>7, <1>10, <1>13 DEF RInv, Answerable
<1> QED BY <1>1, <1>8, <1>9, <1>11, <1>12, <1>13, <1>14, <1>15, MoveStep

(* A response leaves upBuffers, or enters it from pcuPacket.               *)
LEMMA BufferStep ==
  ASSUME RInv, Typed', Enough', Answerable',
         UNCHANGED <<downBuffers, queue, atomicLock, cmdBus, writeDataToSend, atomicCMD, readReturnDATA>>
  PROVE  RInv'
<1>1. \A x : SamePlace(x)
  BY Frames DEF SamePlace
<1>2. Formed' /\ Unique' /\ Ordered'
  BY DEF RInv, Formed, Unique, Ordered
<1>3. Apart'
  BY <1>1, SamePlaceFacts DEF RInv, Apart
<1>4. Locked'
  <2>1. \A x \in Requests : (Returning(x)' => WritesBack(x)) /\ (WritesBack(x) => (Owes(x)' <=> Owes(x)))
    BY <1>1, SamePlaceFacts DEF RInv, Locked
  <2> QED BY <2>1, LockedStep DEF RInv, Typed
<1>5. Fits'
  <2>1. \A b \in Banks : Len(queue'[b]) \in Nat /\ Len(queue'[b]) <= Len(queue[b])
    BY DEF RInv, Ordered, InOrder
  <2>2. \A x \in Requests : WritesBack(x) /\ Owing(x)' => Owing(x)
    BY <1>1, SamePlaceFacts
  <2> QED BY <2>1, <2>2, FitsStep DEF RInv, Typed
<1> QED BY <1>2, <1>3, <1>4, <1>5 DEF RInv

LEMMA SendUpResponses ==
  ASSUME RInv, SendUp
  PROVE  RInv'
<1>1. /\ upBuffers # <<>> /\ upBuffers' = Tail(upBuffers) /\ open' = open \ {upBuffers[1]}
      /\ UNCHANGED <<downBuffers, pcuPacket, pendingDataSize, queue, atomicLock, issuedBank, cmdBus,
                     writeDataToSend, atomicCMD, readReturnDATA>>
  BY DEF SendUp, queueVars, dramVars
<1>2. PICK s \in Seq(Requests), n \in Nat : s = upBuffers /\ n = Len(s)
  BY DEF RInv, Typed
<1>3. /\ upBuffers' \in Seq(Requests) /\ Len(upBuffers') = n - 1 /\ n # 0
      /\ \A i \in 1..(n - 1) : upBuffers'[i] = s[i + 1]
  BY <1>1, <1>2
<1>4. PICK u \in Nat, v \in Nat, l \in Nat, m \in Nat :
        /\ u = UsedBy(upBuffers) /\ v = UsedBy(upBuffers') /\ l = ResponseLNG(s[1]) /\ m = MAX_VLT_BUF
  <2>1. s[1] \in Requests /\ MAX_VLT_BUF \in Nat
    BY <1>2, <1>3, VaultAssumption
  <2> QED BY <1>2, <1>3, <2>1, UsedType, SizeTypes
<1>5. u = v + l
  BY <1>1, <1>2, <1>4, UsedTail
<1>6. Typed'
  <2>1. v <= m
    BY <1>4, <1>5 DEF RInv, Typed
  <2> QED BY <1>1, <1>3, <1>4, <2>1 DEF RInv, Typed
<1>7. \A x : SamePlace(x) /\ (Stored(x)' <=> Stored(x)) /\ (Waits(x)' <=> Waits(x))
  BY <1>1, Frames, SamePlaceFacts DEF SamePlace
<1>8. Enough'
  <2>1. Pending' = Pending
    BY <1>7, PendingSame
  <2>2. pendingDataSize \in Nat /\ (Sound => u + pendingDataSize <= m)
    BY <1>4 DEF RInv, Typed, Enough
  <2>3. Sound => v + pendingDataSize <= m
    BY <1>5, <2>2
  <2> QED BY <1>1, <1>4, <2>1, <2>3 DEF RInv, Enough
<1>9. ASSUME NEW x, AsResponse(x), x # s[1] PROVE AsResponse(x)'
  <2>1. PICK i \in 1..n : s[i] = x
    BY <1>2, <1>9 DEF AsResponse
  <2>2. i - 1 \in 1..(n - 1) /\ (i - 1) + 1 = i
    BY <1>9, <2>1
  <2>3. upBuffers'[i - 1] = x
    BY <1>3, <2>1, <2>2
  <2> QED BY <1>3, <2>2, <2>3 DEF AsResponse
<1>10. Answerable'
  BY <1>1, <1>2, <1>7, <1>9 DEF RInv, Answerable, SamePlace
<1> QED BY <1>1, <1>6, <1>8, <1>10, BufferStep

LEMMA PcuResponses ==
  ASSUME RInv, ReturnPcu
  PROVE  RInv'
<1>1. /\ pcuPacket # <<>> /\ Accepts(pcuPacket[1]) /\ pcuPacket' = Tail(pcuPacket)
      /\ upBuffers' = Append(upBuffers, pcuPacket[1])
      /\ UNCHANGED <<downBuffers, open, pendingDataSize, queue, atomicLock, issuedBank, cmdBus,
                     writeDataToSend, atomicCMD, readReturnDATA>>
  BY DEF ReturnPcu, queueVars, dramVars
<1>2. PICK r \in Requests : r = pcuPacket[1]
  BY <1>1 DEF RInv, Typed
<1>3. upBuffers \in Seq(Requests) /\ upBuffers' \in Seq(Requests) /\ pcuPacket' \in Seq(Requests)
  BY <1>1, <1>2 DEF RInv, Typed
<1>4. UsedBy(upBuffers') <= MAX_VLT_BUF
  <2>1. UsedBy(Append(upBuffers, r)) = UsedBy(upBuffers) + ResponseLNG(r)
    BY <1>3, UsedAppend
  <2>2. UsedBy(upBuffers) + ResponseLNG(r) <= MAX_VLT_BUF
    BY <1>1, <1>2 DEF Accepts, Used, UsedBy
  <2> QED BY <1>1, <1>2, <2>1, <2>2
<1>5. Typed'
  BY <1>1, <1>3, <1>4 DEF RInv, Typed
<1>6. ~Sound
  BY <1>1 DEF RInv, Enough
<1>7. Enough' /\ Answerable'
  <2>1. \A x \in Requests : SamePlace(x) /\ (Waits(x)' <=> Waits(x))
    BY <1>1, Frames, SamePlaceFacts DEF SamePlace
  <2>2. Pending' = Pending
    BY <2>1, PendingSame
  <2> QED BY <1>1, <1>6, <2>2 DEF RInv, Enough, Answerable
<1> QED BY <1>1, <1>5, <1>7, BufferStep

(* The command on the bus reaches the DRAM.                                *)
LEMMA DramResponses ==
  ASSUME VInv, RInv, IssueToDRAM
  PROVE  RInv'
<1>1. PICK c : c = cmdBus /\ c # NULL
  BY DEF IssueToDRAM
<1>2. /\ cmdBus' = NULL
      /\ readReturnDATA' = IF IsRead(c) THEN Append(readReturnDATA, c) ELSE readReturnDATA
      /\ UNCHANGED <<downBuffers, upBuffers, pcuPacket, pendingDataSize, queue, atomicLock, issuedBank,
                     writeDataToSend, atomicCMD, open>>
  BY <1>1 DEF IssueToDRAM, packetVars, queueVars
<1>3. issuedBank' \in Banks
  BY <1>2 DEF RInv, Typed
<1>4. CASE ~IsRead(c)
  BY <1>1, <1>2, <1>3, <1>4, QuietBus, QuietResponses
<1>5. CASE IsRead(c)
  <2>1. c \in Cmds /\ Proper(c)
    <3>1. c # RefreshCommand
      BY <1>5 DEF RefreshCommand, Command, IsRead
    <3> QED BY <1>1, <3>1 DEF VInv, GoodCommands, RInv, Formed
  <2>2. PICK r \in Requests : r = c.packetTAG
    BY <2>1 DEF Cmds
  <2>3. PICK s \in Seq(Cmds), n \in Nat : s = readReturnDATA /\ n = Len(s)
    BY DEF VInv, GoodCommands
  <2>4. /\ readReturnDATA' \in Seq(Cmds) /\ Len(readReturnDATA') = n + 1
        /\ \A i \in 1..(n + 1) : readReturnDATA'[i] = IF i <= n THEN s[i] ELSE c
    BY <1>2, <1>5, <2>1, <2>3, AppendFacts
  <2>5. \A x, k : Has(readReturnDATA', x, k) <=> Has(readReturnDATA, x, k) \/ Is(c, x, k)
    BY <1>2, <1>5, <2>1, <2>3, HasAppend
  <2>6. \A x : /\ Reading(x)' <=> Reading(x) \/ Is(c, x, "final")
               /\ OnBus(x) <=> Is(c, x, "final")
               /\ ~OnBus(x)'
    BY <1>1, <1>2, <1>5, <2>5 DEF Reading, OnBus
  <2>7. \A x : /\ (AsPacket(x)' <=> AsPacket(x)) /\ (Unopened(x)' <=> Unopened(x))
               /\ (Queued(x)' <=> Queued(x)) /\ (Returning(x)' <=> Returning(x))
               /\ (Operating(x)' <=> Operating(x)) /\ (Writing(x)' <=> Writing(x))
               /\ (Stored(x)' <=> Stored(x)) /\ (AsResponse(x)' <=> AsResponse(x))
    BY <1>2, Frames
  <2>8. \A x \in Requests : x # r => SamePlace(x)
    BY <2>2, <2>6, <2>7 DEF SamePlace, Is
  <2>9. Separate(r)
    BY DEF RInv, Apart
  <2>10. Separate(r)' /\ (Owing(r)' <=> Owing(r)) /\ \A x : Waits(x)' <=> Waits(x)
    BY <2>6, <2>7, <2>9 DEF Separate, Owing, Waits
  <2>11. Formed'
    <3>1. \A i \in 1..n : Proper(s[i]) /\ IsRead(s[i])
      BY <2>3 DEF RInv, Formed, AllProper
    <3>2. ASSUME NEW i \in 1..(n + 1) PROVE Proper(readReturnDATA'[i]) /\ IsRead(readReturnDATA'[i])
      <4>1. CASE i <= n
        <5>1. i \in 1..n
          BY <4>1
        <5> QED BY <2>4, <3>1, <4>1, <5>1
      <4>2. CASE ~(i <= n)
        BY <1>5, <2>1, <2>4, <4>2
      <4> QED BY <4>1, <4>2
    <3>3. AllProper(readReturnDATA') /\ \A i \in 1..Len(readReturnDATA') : IsRead(readReturnDATA'[i])
      BY <2>4, <3>2 DEF AllProper
    <3> QED BY <1>2, <3>3 DEF RInv, Formed
  <2>12. Unique'
    <3>1. ASSUME NEW x \in Requests PROVE Once(readReturnDATA', x, "final")
      <4>1. Once(readReturnDATA, x, "final")
        BY DEF RInv, Unique
      <4>2. Is(c, x, "final") => ~Has(readReturnDATA, x, "final")
        BY <2>6 DEF RInv, Apart, Separate, Reading
      <4> QED BY <1>2, <1>5, <2>1, <2>3, <4>1, <4>2, HasAppend
    <3> QED BY <1>2, <3>1 DEF RInv, Unique
  <2>13. Typed'
    BY <1>2 DEF RInv, Typed
  <2>14. Enough'
    <3>1. Pending' = Pending
      BY <2>10, PendingSame
    <3> QED BY <1>2, <3>1 DEF RInv, Enough
  <2>15. Answerable'
    BY <1>2, <2>7, <2>10 DEF RInv, Answerable
  <2> QED BY <1>2, <2>8, <2>10, <2>11, <2>12, <2>13, <2>14, <2>15, MoveStep
<1> QED BY <1>4, <1>5

(* The first read data leave the DRAM.                                     *)
LEMMA TailFormed ==
  ASSUME NEW s \in Seq(Cmds), s # <<>>
  PROVE  /\ AllProper(s) => AllProper(Tail(s)) /\ Proper(s[1])
         /\ (\A i \in 1..Len(s) : IsRead(s[i])) => IsRead(s[1]) /\ \A i \in 1..Len(Tail(s)) : IsRead(Tail(s)[i])
         /\ (\A i \in 1..Len(s) : IsWrite(s[i])) => IsWrite(s[1]) /\ \A i \in 1..Len(Tail(s)) : IsWrite(Tail(s)[i])
<1>1. PICK t, n : t = Tail(s) /\ n = Len(s)
  OBVIOUS
<1>2. n \in Nat /\ n # 0 /\ Len(t) = n - 1 /\ \A i \in 1..(n - 1) : t[i] = s[i + 1]
  BY <1>1
<1>3. 1 \in 1..n /\ \A i \in 1..(n - 1) : i + 1 \in 1..n
  BY <1>2
<1> QED BY <1>1, <1>2, <1>3 DEF AllProper

LEMMA ReadResponses ==
  ASSUME VInv, RInv, ReturnRead
  PROVE  RInv'
<1>1. PICK s \in Seq(Cmds) : s = readReturnDATA /\ s # <<>> /\ readReturnDATA' = Tail(s)
  BY DEF VInv, GoodCommands, ReturnRead
<1>2. 1 \in 1..Len(s) /\ Shrunk(s, 1, Tail(s)) /\ s[1] \in Cmds
  BY <1>1, TailShrunk
<1>3. PICK c \in Cmds, r \in Requests : c = s[1] /\ r = c.packetTAG
  BY <1>2 DEF Cmds
<1>4. UNCHANGED <<downBuffers, open, queue, atomicLock, issuedBank, cmdBus, writeDataToSend>>
  BY DEF ReturnRead, queueVars
<1>5. /\ Proper(c) /\ IsRead(c) /\ AllProper(readReturnDATA')
      /\ \A i \in 1..Len(readReturnDATA') : IsRead(readReturnDATA'[i])
  BY <1>1, <1>3, TailFormed DEF RInv, Formed
<1>6. c.lastCMD <=> Kind(c) = "final"
  BY <1>5, KindCases DEF Kind, IsRead, IsWrite
<1>7. \A x \in Requests : Once(s, x, "final") /\ Once(readReturnDATA', x, "final")
  <2>1. \A x \in Requests : Once(s, x, "final")
    BY <1>1 DEF RInv, Unique
  <2> QED BY <1>1, <1>2, <2>1, HasShrunk
<1>8. \A x \in Requests : /\ Reading(x)' <=> Reading(x) /\ ~Is(c, x, "final")
                          /\ Is(c, x, "final") => Reading(x)
  <2> SUFFICES ASSUME NEW x \in Requests
               PROVE  /\ Reading(x)' <=> Reading(x) /\ ~Is(c, x, "final")
                      /\ Is(c, x, "final") => Reading(x)
    OBVIOUS
  <2>1. /\ ~Is(s[1], x, "final") => (Has(Tail(s), x, "final") <=> Has(s, x, "final"))
        /\ Is(s[1], x, "final") /\ Once(s, x, "final") => ~Has(Tail(s), x, "final") /\ Has(s, x, "final")
    BY <1>2, HasShrunk
  <2> QED BY <1>1, <1>3, <1>7, <2>1 DEF Reading
<1>9. \A x : /\ (AsPacket(x)' <=> AsPacket(x)) /\ (Unopened(x)' <=> Unopened(x))
             /\ (Queued(x)' <=> Queued(x)) /\ (Returning(x)' <=> Returning(x))
             /\ (OnBus(x)' <=> OnBus(x)) /\ (Writing(x)' <=> Writing(x))
             /\ (Stored(x)' <=> Stored(x))
  BY <1>4, Frames
<1>10. Unique'
  BY <1>4, <1>7 DEF RInv, Unique
<1>11. Separate(r)
  BY DEF RInv, Apart
<1>12. CASE ~c.lastCMD
  <2>1. UNCHANGED <<upBuffers, pcuPacket, pendingDataSize, atomicCMD>>
    BY <1>1, <1>3, <1>12 DEF ReturnRead
  <2>2. \A x \in Requests : ~Is(c, x, "final")
    BY <1>6, <1>12 DEF Is
  <2>3. \A x : (Operating(x)' <=> Operating(x)) /\ (AsResponse(x)' <=> AsResponse(x))
    BY <2>1, Frames
  <2>4. \A x \in Requests : /\ SamePlace(x)
                            /\ Separate(x)' <=> Separate(x)
                            /\ Owing(x)' <=> Owing(x)
                            /\ Owes(x)' <=> Owes(x)
                            /\ Waits(x)' <=> Waits(x)
                            /\ Returning(x)' <=> Returning(x)
    BY <1>8, <1>9, <2>2, <2>3, SamePlaceFacts DEF SamePlace
  <2>5. Typed' /\ Formed'
    BY <1>4, <1>5, <2>1 DEF RInv, Typed, Formed
  <2>6. Enough'
    <3>1. Pending' = Pending
      BY <2>4, PendingSame
    <3> QED BY <2>1, <3>1 DEF RInv, Enough
  <2>7. Answerable'
    BY <1>4, <1>9, <2>3, <2>4 DEF RInv, Typed, Answerable
  <2> QED BY <1>4, <1>10, <1>11, <2>4, <2>5, <2>6, <2>7, MoveStep
<1>13. CASE c.lastCMD /\ atomic(r)
  <2>1. UNCHANGED <<upBuffers, pcuPacket, pendingDataSize>> /\ atomicCMD = NULL /\ atomicCMD' = c
    BY <1>1, <1>3, <1>13 DEF ReturnRead
  <2>2. c # NULL
    BY VaultAssumption DEF Cmds
  <2>3. \A x \in Requests : /\ Is(c, x, "final") <=> x = r
                            /\ Operating(x)' <=> x = r
                            /\ ~Operating(x)
                            /\ AsResponse(x)' <=> AsResponse(x)
    BY <1>3, <1>6, <1>13, <2>1, <2>2, Frames DEF Is, Operating
  <2>4. \A x \in Requests : x # r => SamePlace(x)
    BY <1>8, <1>9, <2>3 DEF SamePlace
  <2>5. Separate(r)' /\ (Owing(r)' <=> Owing(r)) /\ \A x \in Requests : Waits(x)' <=> Waits(x)
    BY <1>8, <1>9, <1>11, <2>3 DEF Separate, Owing, Waits
  <2>6. Typed' /\ Formed'
    BY <1>3, <1>4, <1>5, <1>13, <2>1 DEF RInv, Typed, Formed
  <2>7. Enough'
    <3>1. Pending' = Pending
      BY <2>5, PendingSame
    <3> QED BY <2>1, <3>1 DEF RInv, Enough
  <2>8. Answerable'
    BY <1>4, <1>9, <2>3, <2>5 DEF RInv, Typed, Answerable
  <2> QED BY <1>4, <1>10, <2>4, <2>5, <2>6, <2>7, <2>8, MoveStep
<1>14. CASE c.lastCMD /\ ~atomic(r)
  <2>1. MakeRespondPacket(r) /\ UNCHANGED atomicCMD
    BY <1>1, <1>3, <1>14 DEF ReturnRead
  <2>2. \A x \in Requests : /\ Is(c, x, "final") <=> x = r
                            /\ Operating(x)' <=> Operating(x)
    BY <1>3, <1>6, <1>14, <2>1, Frames DEF Is
  <2>3. ~posted(r)
    BY <1>3, <1>5, <1>14 DEF Proper, posted, atomic, Atomics, Writes
  <2>4. Reading(r) /\ ~Reading(r)'
    BY <1>8, <2>2
  <2>5. /\ Separate(r)' /\ ~Waits(r)' /\ Waits(r)
        /\ \A x \in Requests : x # r => SamePlace(x) /\ (Waits(x)' <=> Waits(x))
    BY <1>8, <1>9, <1>11, <2>2, <2>4 DEF Separate, Waits, SamePlace
  <2>6. r \in Pending /\ Pending' = Pending \ {r}
    BY <2>3, <2>5 DEF Pending
  <2>7. /\ upBuffers' \in Seq(Requests) /\ pcuPacket' \in Seq(Requests)
        /\ pendingDataSize' \in Nat /\ UsedBy(upBuffers') <= MAX_VLT_BUF
        /\ Enough'
        /\ \A x : AsResponse(x) => AsResponse(x)'
        /\ Sound => AsResponse(r)'
    BY <2>1, <2>6, Responds DEF RInv
  <2>8. Typed' /\ Formed'
    BY <1>4, <1>5, <2>1, <2>7 DEF RInv, Typed, Formed
  <2>9. Answerable'
    BY <1>4, <1>9, <2>5, <2>7 DEF RInv, Typed, Answerable
  <2>10. ~WritesBack(r)
    BY <1>14 DEF WritesBack
  <2> QED BY <1>4, <1>10, <2>5, <2>7, <2>8, <2>9, <2>10, MoveStep
<1> QED BY <1>12, <1>13, <1>14

(* Write data have been sent.                                              *)
LEMMA WriteResponses ==
  ASSUME VInv, RInv, SendWriteData
  PROVE  RInv'
<1>1. PICK s \in Seq(Cmds) : s = writeDataToSend /\ s # <<>> /\ writeDataToSend' = Tail(s)
  BY DEF RInv, Typed, SendWriteData
<1>2. 1 \in 1..Len(s) /\ Shrunk(s, 1, Tail(s)) /\ s[1] \in Cmds
  BY <1>1, TailShrunk
<1>3. PICK c \in Cmds, r \in Requests : c = s[1] /\ r = c.packetTAG
  BY <1>2 DEF Cmds
<1>4. /\ UNCHANGED <<downBuffers, queue, atomicLock, issuedBank, cmdBus, atomicCMD, readReturnDATA>>
      /\ open' = IF c.lastCMD /\ posted(r) THEN open \ {r} ELSE open
  BY <1>1, <1>3 DEF SendWriteData, queueVars, dramVars
<1>5. /\ Proper(c) /\ IsWrite(c) /\ AllProper(writeDataToSend')
      /\ \A i \in 1..Len(writeDataToSend') : IsWrite(writeDataToSend'[i])
  BY <1>1, <1>3, TailFormed DEF RInv, Formed
<1>6. /\ Kind(c) = "final" <=> c.lastCMD /\ ~atomic(r)
      /\ Kind(c) = "back" <=> atomic(r)
  BY <1>3, <1>5 DEF Kind, IsWrite
<1>7. \A x \in Requests : Once(s, x, "final") /\ Once(writeDataToSend', x, "final")
  <2>1. \A x \in Requests : Once(s, x, "final")
    BY <1>1 DEF RInv, Unique
  <2> QED BY <1>1, <1>2, <2>1, HasShrunk
<1>8. \A x \in Requests : /\ Writing(x)' <=> Writing(x) /\ ~Is(c, x, "final")
                          /\ Is(c, x, "final") => Writing(x)
                          /\ ~Is(c, x, "back") => (Stored(x)' <=> Stored(x))
  <2> SUFFICES ASSUME NEW x \in Requests
               PROVE  /\ Writing(x)' <=> Writing(x) /\ ~Is(c, x, "final")
                      /\ Is(c, x, "final") => Writing(x)
                      /\ ~Is(c, x, "back") => (Stored(x)' <=> Stored(x))
    OBVIOUS
  <2>1. /\ ~Is(s[1], x, "final") => (Has(Tail(s), x, "final") <=> Has(s, x, "final"))
        /\ Is(s[1], x, "final") /\ Once(s, x, "final") => ~Has(Tail(s), x, "final") /\ Has(s, x, "final")
    BY <1>2, HasShrunk
  <2>2. ~Is(s[1], x, "back") => (Has(Tail(s), x, "back") <=> Has(s, x, "back"))
    BY <1>2, HasShrunk
  <2> QED BY <1>1, <1>3, <1>7, <2>1, <2>2 DEF Writing, Stored
<1>9. \A x : /\ (AsPacket(x)' <=> AsPacket(x)) /\ (Unopened(x)' <=> Unopened(x))
             /\ (Queued(x)' <=> Queued(x)) /\ (Returning(x)' <=> Returning(x))
             /\ (OnBus(x)' <=> OnBus(x)) /\ (Reading(x)' <=> Reading(x))
             /\ (Operating(x)' <=> Operating(x))
  BY <1>4, Frames
<1>10. Unique' /\ Formed' /\ writeDataToSend' \in Seq(Cmds) /\ open' \subseteq Requests
  <2>1. writeDataToSend' \in Seq(Cmds)
    BY <1>1, <1>2 DEF Shrunk
  <2>2. open' \subseteq Requests
    BY <1>4 DEF RInv, Typed
  <2> QED BY <1>4, <1>5, <1>7, <2>1, <2>2 DEF RInv, Unique, Formed
<1>11. Separate(r)
  BY DEF RInv, Apart
<1>12. \A x \in Requests : x # r => /\ SamePlace(x) /\ (Waits(x)' <=> Waits(x))
                                    /\ Stored(x)' <=> Stored(x)
  <2>1. \A x \in Requests : \A k : x # r => ~Is(c, x, k)
    BY <1>3 DEF Is
  <2> QED BY <1>8, <1>9, <2>1 DEF SamePlace, Waits
<1>13. Separate(r)' /\ (Owing(r)' <=> Owing(r))
  BY <1>8, <1>9, <1>11 DEF Separate, Owing
<1>14. CASE Kind(c) = "final" /\ ~posted(r)
  <2>1. MakeRespondPacket(r) /\ open' = open
    BY <1>1, <1>3, <1>4, <1>6, <1>14 DEF SendWriteData
  <2>2. Is(c, r, "final") /\ ~Is(c, r, "back")
    BY <1>3, <1>14 DEF Is
  <2>3. Waits(r) /\ ~Waits(r)'
    BY <1>8, <1>9, <1>11, <2>2 DEF Waits, Separate
  <2>4. r \in Pending /\ Pending' = Pending \ {r}
    BY <1>12, <1>14, <2>3 DEF Pending
  <2>5. /\ upBuffers' \in Seq(Requests) /\ pcuPacket' \in Seq(Requests)
        /\ pendingDataSize' \in Nat /\ UsedBy(upBuffers') <= MAX_VLT_BUF
        /\ Enough'
        /\ \A x : AsResponse(x) => AsResponse(x)'
        /\ Sound => AsResponse(r)'
    BY <2>1, <2>4, Responds DEF RInv
  <2>6. Typed'
    BY <1>4, <1>10, <2>5 DEF RInv, Typed
  <2>7. Answerable'
    BY <1>9, <1>12, <2>1, <2>5 DEF RInv, Typed, Answerable
  <2> QED BY <1>4, <1>10, <1>12, <1>13, <2>5, <2>6, <2>7, MoveStep
<1>15. CASE ~(Kind(c) = "final" /\ ~posted(r))
  <2>1. UNCHANGED <<upBuffers, pcuPacket, pendingDataSize>>
    BY <1>1, <1>3, <1>6, <1>15 DEF SendWriteData
  <2>2. Pending' = Pending
    <3>1. ~posted(r) => (Waits(r)' <=> Waits(r))
      BY <1>8, <1>9, <1>15 DEF Is, Waits
    <3> QED BY <1>12, <3>1 DEF Pending
  <2>3. Typed' /\ Enough'
    BY <1>4, <1>10, <2>1, <2>2 DEF RInv, Typed, Enough
  <2>4. \A x : AsResponse(x)' <=> AsResponse(x)
    BY <2>1, Frames
  <2>5. Answerable'
    <3> SUFFICES ASSUME Sound, NEW x \in open'
                 PROVE  \/ AsPacket(x)' \/ Queued(x)' \/ Waits(x)' \/ AsResponse(x)'
                        \/ posted(x) /\ (Returning(x)' \/ Stored(x)')
      BY DEF Answerable
    <3>1. x \in open /\ x \in Requests
      BY <1>4 DEF RInv, Typed
    <3>2. \/ AsPacket(x) \/ Queued(x) \/ Waits(x) \/ AsResponse(x)
          \/ posted(x) /\ (Returning(x) \/ Stored(x))
      BY <3>1 DEF RInv, Answerable
    <3>3. CASE x # r
      BY <1>9, <1>12, <2>4, <3>1, <3>2, <3>3
    <3>4. CASE x = r
      <4>1. ~(c.lastCMD /\ posted(r))
        BY <1>4, <3>4
      <4>2. ~Is(c, x, "final")
        BY <1>6, <1>15, <4>1 DEF Is
      <4>3. posted(x) => ~Is(c, x, "back")
        BY <1>5, <3>4, <4>1 DEF Is, Proper
      <4> QED BY <1>8, <1>9, <2>4, <3>1, <3>2, <4>2, <4>3 DEF Waits
    <3> QED BY <3>3, <3>4
  <2> QED BY <1>4, <1>10, <1>12, <1>13, <2>3, <2>5, MoveStep
<1> QED BY <1>14, <1>15

(* The operation on an atomic request: its result returns to the queue.    *)
LEMMA AtomicResponses ==
  ASSUME VInv, RInv, AtomicOperation
  PROVE  RInv'
<1>1. PICK r \in Requests : r = atomicCMD.packetTAG /\ atomicCMD # NULL /\ atomic(r)
  BY DEF AtomicOperation, VInv, GoodCommands, Cmds, RInv, Formed
<1>2. PICK b \in Banks : b = Bank[r]
  BY VaultAssumption
<1>3. /\ UNCHANGED <<downBuffers, open, atomicLock, issuedBank, cmdBus, writeDataToSend, readReturnDATA>>
      /\ atomicCMD' = NULL
  BY DEF AtomicOperation, dramVars
<1>4. \A x : Operating(x) <=> x = r
  BY <1>1 DEF Operating
<1>5. \A x : /\ (AsPacket(x)' <=> AsPacket(x)) /\ (OnBus(x)' <=> OnBus(x)) /\ (Reading(x)' <=> Reading(x))
             /\ (Writing(x)' <=> Writing(x)) /\ (Stored(x)' <=> Stored(x)) /\ ~Operating(x)'
  BY <1>3, Frames DEF Operating
<1>6. Separate(r)
  BY DEF RInv, Apart
<1>7. /\ ~AsPacket(r) /\ ~Queued(r) /\ ~OnBus(r) /\ ~Reading(r) /\ ~Writing(r) /\ ~Returning(r)
      /\ ~Unopened(r)
  BY <1>4, <1>6, OpenQueued DEF Separate, RInv
<1>8. PICK q : q = queue[b] /\ InOrder(q) /\ AllProper(q) /\ q \in Seq(Cmds) /\ Len(q) \in Nat
  BY DEF RInv, Ordered, InOrder
<1>9. /\ Ordered'
      /\ \A x \in Requests : /\ (Unopened(x)' <=> Unopened(x)) /\ (Queued(x)' <=> Queued(x))
                             /\ Returning(x)' <=> Returning(x) \/ (WritesBack(r) /\ x = r)
      /\ \A x \in Banks :
           Len(queue'[x]) = IF WritesBack(r) /\ x = b THEN Len(queue[x]) + 1 ELSE Len(queue[x])
  <2>1. CASE WritesBack(r)
    <3>1. PICK c \in Cmds : /\ c = Command("WRITE_P", r, TRUE) /\ c.packetTAG = r
                            /\ c.commandType = "WRITE_P" /\ c.lastCMD = TRUE
      <4>1. "WRITE_P" \in CommandTypes /\ TRUE \in BOOLEAN
        BY DEF CommandTypes
      <4> QED BY <4>1, CommandIs, Zenon
    <3>2. Is(c, r, "back") /\ Proper(c)
      <4>1. IsWrite(c) /\ ~IsRead(c) /\ c.lastCMD
        BY <3>1 DEF IsWrite, IsRead
      <4>2. CMD[r] \notin Reads
        BY <1>1 DEF atomic, Atomics, Reads
      <4> QED BY <1>1, <3>1, <4>1, <4>2 DEF Is, Kind, Proper
    <3>3. PICK p : p = <<c>> \o q
      OBVIOUS
    <3>4. ~Has(q, r, "open") /\ ~Has(q, r, "back")
      BY <1>2, <1>7, <1>8 DEF Unopened, Returning
    <3>5. /\ InOrder(p) /\ Len(p) = Len(q) + 1
          /\ \A x, k : Has(p, x, k) <=> Has(q, x, k) \/ Is(c, x, k)
      BY <1>8, <3>2, <3>3, <3>4, OrderPrepend
    <3>6. queue' = [queue EXCEPT ![b] = p]
      BY <1>1, <1>2, <1>8, <2>1, <3>1, <3>3 DEF AtomicOperation
    <3>7. queue'[b] = p /\ \A x \in Banks : x # b => queue'[x] = queue[x]
      BY <3>6 DEF VInv, GoodQueues
    <3>8. AllProper(p)
      <4>1. PICK m \in Nat : m = Len(q) /\ Len(p) = m + 1
        BY <1>8, <3>5
      <4>2. ASSUME NEW i \in 1..(m + 1) PROVE Proper(p[i])
        <5>1. <<c>> \in Seq(Cmds) /\ Len(<<c>>) = 1 /\ <<c>>[1] = c
          OBVIOUS
        <5>2. \A j \in 1..(1 + m) : p[j] = IF j <= 1 THEN <<c>>[j] ELSE q[j - 1]
          BY <1>8, <3>3, <4>1, <5>1, ConcatFacts
        <5>3. CASE i = 1
          BY <3>2, <5>1, <5>2, <5>3
        <5>4. CASE i # 1
          <6>1. i - 1 \in 1..m /\ ~(i <= 1) /\ i \in 1..(1 + m)
            BY <5>4
          <6> QED BY <1>8, <4>1, <5>2, <6>1 DEF AllProper
        <5> QED BY <5>3, <5>4
      <4> QED BY <4>1, <4>2 DEF AllProper
    <3>9. Ordered'
      BY <3>5, <3>7, <3>8 DEF RInv, Ordered
    <3>10. ASSUME NEW x \in Requests, NEW k
           PROVE  Has(queue'[Bank[x]], x, k) <=> Has(queue[Bank[x]], x, k) \/ Is(c, x, k)
      <4>1. Bank[x] \in Banks
        BY VaultAssumption
      <4>2. CASE Bank[x] = b
        BY <1>8, <3>5, <3>7, <4>2
      <4>3. CASE Bank[x] # b
        BY <1>2, <3>1, <3>7, <4>1, <4>3 DEF Is
      <4> QED BY <4>2, <4>3
    <3>11. \A x : ~Is(c, x, "open") /\ ~Is(c, x, "final") /\ (Is(c, x, "back") <=> x = r)
      BY <3>1, <3>2 DEF Is
    <3>12. \A x \in Requests : /\ (Unopened(x)' <=> Unopened(x)) /\ (Queued(x)' <=> Queued(x))
                               /\ Returning(x)' <=> Returning(x) \/ (WritesBack(r) /\ x = r)
      BY <2>1, <3>10, <3>11 DEF Unopened, Queued, Returning
    <3>13. \A x \in Banks :
             Len(queue'[x]) = IF WritesBack(r) /\ x = b THEN Len(queue[x]) + 1 ELSE Len(queue[x])
      BY <1>8, <2>1, <3>5, <3>7
    <3> QED BY <3>9, <3>12, <3>13
  <2>2. CASE ~WritesBack(r)
    <3>1. queue' = queue
      BY <1>1, <2>2 DEF AtomicOperation
    <3> QED BY <2>2, <3>1, Frames DEF RInv, Ordered
  <2> QED BY <2>1, <2>2
<1>10. Formed' /\ Unique'
  BY <1>3 DEF RInv, Formed, Unique
<1>11. \A x \in Requests : x # r => SamePlace(x) /\ (Waits(x)' <=> Waits(x))
  BY <1>4, <1>5, <1>9 DEF SamePlace, Waits
<1>12. Separate(r)'
  BY <1>5, <1>7, <1>9 DEF Separate
<1>13. Apart'
  BY <1>11, <1>12, ApartStep DEF RInv
<1>14. ~Owing(r)' /\ Owing(r) /\ (WritesBack(r) => Owes(r)' /\ Owes(r)) /\ ~Waits(r)' /\ Waits(r)
  BY <1>4, <1>5, <1>7, <1>9 DEF Owing, Owes, Waits
<1>15. Locked'
  <2>1. ASSUME NEW x \in Requests
        PROVE  (Returning(x)' => WritesBack(x)) /\ (WritesBack(x) => (Owes(x)' <=> Owes(x)))
    <3>1. CASE x = r
      BY <1>7, <1>9, <1>14, <3>1
    <3>2. CASE x # r
      BY <1>11, <3>2, SamePlaceFacts DEF RInv, Locked
    <3> QED BY <3>1, <3>2
  <2> QED BY <1>3, <2>1, LockedStep DEF RInv, Typed
<1>16. Fits'
  <2> SUFFICES ASSUME NEW x \in Banks
               PROVE  /\ Len(queue'[x]) <= MAX_CMD_QUE
                      /\ atomicLock[x] # NULL /\ Owing(atomicLock[x])' => Len(queue'[x]) + 1 <= MAX_CMD_QUE
    BY <1>3 DEF Fits
  <2>1. CASE WritesBack(r) /\ x = b
    <3>1. atomicLock[b] = r
      BY <1>2, <1>14, <2>1 DEF RInv, Locked
    <3>2. Len(queue[b]) + 1 <= MAX_CMD_QUE
      <4>1. r # NULL
        BY VaultAssumption
      <4> QED BY <1>14, <3>1, <4>1 DEF RInv, Fits
    <3>3. Len(queue'[b]) = Len(queue[b]) + 1
      BY <1>9, <2>1
    <3>4. ~Owing(atomicLock[x])'
      BY <1>3, <1>14, <2>1, <3>1
    <3> QED BY <2>1, <3>2, <3>3, <3>4
  <2>2. CASE ~(WritesBack(r) /\ x = b)
    <3>1. Len(queue'[x]) = Len(queue[x])
      BY <1>9, <2>2
    <3>2. ASSUME atomicLock[x] # NULL, Owing(atomicLock[x])' PROVE Owing(atomicLock[x])
      <4>1. PICK y \in Requests : y = atomicLock[x]
        BY <3>2 DEF RInv, Typed
      <4>2. y # r
        BY <1>3, <1>14, <3>2, <4>1
      <4>3. Owing(y)'
        BY <1>3, <3>2, <4>1
      <4>4. Owing(y)
        BY <1>11, <4>2, <4>3, SamePlaceFacts
      <4> QED BY <4>1, <4>4
    <3> QED BY <3>1, <3>2 DEF RInv, Fits
  <2> QED BY <2>1, <2>2
<1>17. Typed' /\ Enough' /\ Answerable'
  <2>1. CASE posted(r)
    <3>1. UNCHANGED <<upBuffers, pcuPacket, pendingDataSize>>
      BY <1>1, <2>1 DEF AtomicOperation
    <3>2. Pending' = Pending
      BY <1>11, <2>1 DEF Pending
    <3>3. WritesBack(r)
      BY <1>1, <2>1 DEF WritesBack, posted
    <3>4. \A x : AsResponse(x)' <=> AsResponse(x)
      BY <3>1, Frames
    <3>5. Answerable'
      BY <1>3, <1>5, <1>9, <1>11, <2>1, <3>3, <3>4 DEF RInv, Typed, Answerable
    <3> QED BY <1>3, <3>1, <3>2, <3>5 DEF RInv, Typed, Enough
  <2>2. CASE ~posted(r)
    <3>1. MakeRespondPacket(r)
      BY <1>1, <2>2 DEF AtomicOperation
    <3>2. r \in Pending /\ Pending' = Pending \ {r}
      BY <1>11, <1>14, <2>2 DEF Pending
    <3>3. /\ upBuffers' \in Seq(Requests) /\ pcuPacket' \in Seq(Requests)
          /\ pendingDataSize' \in Nat /\ UsedBy(upBuffers') <= MAX_VLT_BUF
          /\ Enough'
          /\ \A x : AsResponse(x) => AsResponse(x)'
          /\ Sound => AsResponse(r)'
      BY <3>1, <3>2, Responds DEF RInv
    <3>4. Answerable'
      BY <1>3, <1>5, <1>9, <1>11, <3>3 DEF RInv, Typed, Answerable
    <3> QED BY <1>3, <3>3, <3>4 DEF RInv, Typed
  <2> QED BY <2>1, <2>2
<1> QED BY <1>9, <1>10, <1>13, <1>15, <1>16, <1>17 DEF RInv

-----------------------------------------------------------------------------
(* The pass over downBuffers.                                              *)

ReachedBy(i, x) == \E j \in 1..i : downBuffers[j] = x
Holds(s, x) == \E j \in 1..Len(s) : s[j] = x

Changed(q, x) == Has(q, x, "open") /\ Has(q, x, "final") /\ ~Has(q, x, "back")
Alike(q, p, x) ==
  /\ Has(q, x, "open") <=> Has(p, x, "open")
  /\ Has(q, x, "final") <=> Has(p, x, "final")
  /\ Has(q, x, "back") <=> Has(p, x, "back")

Room(b, q) ==
  /\ Len(q) <= MAX_CMD_QUE
  /\ atomicLock[b] # NULL /\ Owing(atomicLock[b]) => Len(q) + 1 <= MAX_CMD_QUE

FineQueue(b, q) == InOrder(q) /\ AllProper(q) /\ Room(b, q)

(* After i requests: those reached are kept in their order or have become  *)
(* commands.                                                               *)
KeptPart(i, a) ==
  /\ a.kept \in Seq(Requests)
  /\ \A j \in 1..Len(a.kept) : ReachedBy(i, a.kept[j])
  /\ \A j, k \in 1..Len(a.kept) : a.kept[j] = a.kept[k] => j = k

QueuePart(a) ==
  /\ a.queue = [b \in Banks |-> a.queue[b]]
  /\ \A b \in Banks : FineQueue(b, a.queue[b])

MovedPart(i, a) ==
  \A x \in Requests :
    IF ReachedBy(i, x) /\ ~Holds(a.kept, x) THEN Changed(a.queue[Bank[x]], x)
    ELSE Alike(a.queue[Bank[x]], queue[Bank[x]], x)

InPass(i, a) ==
  /\ a = [kept |-> a.kept, skip |-> a.skip, queue |-> a.queue]
  /\ KeptPart(i, a) /\ QueuePart(a) /\ MovedPart(i, a)

(* A request that has no such command in a queue has none there at all.    *)
LEMMA NoneLeft ==
  ASSUME NEW q, InOrder(q), NEW r,
         ~Has(q, r, "open"), ~Has(q, r, "final"), ~Has(q, r, "back")
  PROVE  \A i \in 1..Len(q) : q[i].packetTAG # r
<1> SUFFICES ASSUME NEW i \in 1..Len(q), q[i].packetTAG = r PROVE FALSE
  OBVIOUS
<1>1. \A k : Kind(q[i]) = k => Is(q[i], r, k)
  BY DEF Is
<1>2. Kind(q[i]) \in {"open", "back", "final", "data"}
  BY DEF Kind
<1>3. Kind(q[i]) = "data"
  BY <1>1, <1>2 DEF Has
<1>4. PICK j \in 1..Len(q) : Is(q[j], r, "final")
  BY <1>3 DEF InOrder, Completed
<1> QED BY <1>4 DEF Has

LEMMA AppendHolds ==
  ASSUME NEW s \in Seq(Requests), NEW r \in Requests
  PROVE  /\ Append(s, r) \in Seq(Requests)
         /\ \A x : Holds(Append(s, r), x) <=> Holds(s, x) \/ x = r
         /\ ~Holds(s, r) /\ (\A j, k \in 1..Len(s) : s[j] = s[k] => j = k)
              => \A j, k \in 1..Len(Append(s, r)) : Append(s, r)[j] = Append(s, r)[k] => j = k
<1>0. PICK n \in Nat : n = Len(s)
  OBVIOUS
<1>1. PICK t : n = Len(s) /\ t = Append(s, r)
  BY <1>0
<1>2. /\ t \in Seq(Requests) /\ Len(t) = n + 1
      /\ \A i \in 1..(n + 1) : t[i] = IF i <= n THEN s[i] ELSE r
  BY <1>1, AppendFacts
<1>3. (\A i \in 1..n : i \in 1..(n + 1) /\ t[i] = s[i]) /\ n + 1 \in 1..(n + 1) /\ t[n + 1] = r
  BY <1>2
<1>4. \A i \in 1..(n + 1) : i \in 1..n \/ i = n + 1
  <2> SUFFICES ASSUME NEW i \in 1..(n + 1), i # n + 1 PROVE i \in 1..n
    OBVIOUS
  <2> QED OBVIOUS
<1>5. ASSUME NEW x PROVE Holds(t, x) <=> Holds(s, x) \/ x = r
  BY <1>1, <1>2, <1>3, <1>4 DEF Holds
<1>6. ASSUME ~Holds(s, r), \A j, k \in 1..n : s[j] = s[k] => j = k,
             NEW j \in 1..(n + 1), NEW k \in 1..(n + 1), t[j] = t[k]
      PROVE  j = k
  <2>1. \A i \in 1..n : s[i] # r
    BY <1>1, <1>6 DEF Holds
  <2> QED BY <1>3, <1>4, <1>6, <2>1
<1> QED BY <1>1, <1>2, <1>5, <1>6

LEMMA ConvertStep ==
  ASSUME VInv, RInv, NEW m \in Nat, m = Len(downBuffers), NEW i \in 1..m, NEW a, InPass(i - 1, a),
         NEW c, c = Convert(a, downBuffers[i])
  PROVE  InPass(i, c)
<1>1. PICK r \in Requests : r = downBuffers[i]
  BY DEF VInv, GoodCommands
<1>2. PICK b \in Banks : b = Bank[r]
  BY VaultAssumption
<1>3. \A x : ReachedBy(i, x) <=> ReachedBy(i - 1, x) \/ x = r
  <2>1. ASSUME NEW x, ReachedBy(i, x) PROVE ReachedBy(i - 1, x) \/ x = r
    <3>1. PICK j \in 1..i : downBuffers[j] = x
      BY <2>1 DEF ReachedBy
    <3>2. CASE j = i
      BY <1>1, <3>1, <3>2
    <3>3. CASE j # i
      <4>1. j \in 1..(i - 1)
        BY <3>3
      <4> QED BY <3>1, <4>1 DEF ReachedBy
    <3> QED BY <3>2, <3>3
  <2>2. ASSUME NEW x, ReachedBy(i - 1, x) PROVE ReachedBy(i, x)
    <3>1. PICK j \in 1..(i - 1) : downBuffers[j] = x
      BY <2>2 DEF ReachedBy
    <3>2. j \in 1..i
      OBVIOUS
    <3> QED BY <3>1, <3>2 DEF ReachedBy
  <2>3. ReachedBy(i, r)
    <3>1. i \in 1..i
      OBVIOUS
    <3> QED BY <1>1, <3>1 DEF ReachedBy
  <2> QED BY <2>1, <2>2, <2>3
<1>4. ~ReachedBy(i - 1, r)
  <2> SUFFICES ASSUME NEW j \in 1..(i - 1), downBuffers[j] = r PROVE FALSE
    BY DEF ReachedBy
  <2>1. j \in 1..m /\ j # i
    OBVIOUS
  <2> QED BY <1>1, <2>1 DEF RInv, Unique
<1>5. ~Holds(a.kept, r)
  BY <1>4 DEF InPass, KeptPart, Holds
<1>6. AsPacket(r)
  BY <1>1 DEF AsPacket
<1>7. ~Has(queue[b], r, "open") /\ ~Has(queue[b], r, "final") /\ ~Has(queue[b], r, "back")
  <2>1. ~Queued(r) /\ ~Returning(r)
    BY <1>6 DEF RInv, Apart, Separate
  <2>2. InOrder(queue[b])
    BY DEF RInv, Ordered
  <2>3. Has(queue[b], r, "open") => Has(queue[b], r, "final")
    BY <2>2 DEF Has, Is, InOrder, Completed
  <2> QED BY <1>2, <2>1, <2>3 DEF Queued, Returning
<1>8. PICK q : q = a.queue[b]
  OBVIOUS
<1>9. FineQueue(b, q) /\ Alike(q, queue[b], r)
  BY <1>2, <1>4, <1>8 DEF InPass, QueuePart, MovedPart
<1>10. \A j \in 1..Len(q) : q[j].packetTAG # r
  BY <1>7, <1>9, NoneLeft DEF FineQueue, Alike
<1>11. CASE ~a.skip /\ AvailableSpace(Bank[r], a.queue, DataCommands(r) + 1)
  <2>1. PICK p : p = q \o Commands(r)
    OBVIOUS
  <2>2. /\ AllProper(p) /\ InOrder(p) /\ Len(p) = Len(q) + DataCommands(r) + 1
        /\ \A x, k : x # r => (Has(p, x, k) <=> Has(q, x, k))
        /\ Has(p, r, "open") /\ Has(p, r, "final") /\ ~Has(p, r, "back")
    BY <1>9, <1>10, <2>1, OrderExtend DEF FineQueue
  <2>3. PICK f : f = [a.queue EXCEPT ![b] = p]
    OBVIOUS
  <2>4. c = [kept |-> a.kept, skip |-> TRUE, queue |-> f]
    BY <1>1, <1>2, <1>8, <1>11, <2>1, <2>3 DEF Convert
  <2>5. c.kept = a.kept /\ c.queue = f
    BY <2>4
  <2>6. f = [x \in Banks |-> f[x]] /\ f[b] = p /\ \A x \in Banks : x # b => f[x] = a.queue[x]
    BY <2>3 DEF InPass, QueuePart
  <2>7. Room(b, p)
    <3>1. Len(q) \in Nat /\ DataCommands(r) \in Nat /\ MAX_CMD_QUE \in Nat
      BY <1>9, CommandsKinds, VaultAssumption DEF FineQueue, InOrder
    <3>2. PICK l \in Nat, d \in Nat, n \in Nat : l = Len(q) /\ d = DataCommands(r) /\ n = MAX_CMD_QUE
      BY <3>1
    <3>3. l + (d + 1) + (IF atomicLock[b] # NULL THEN 1 ELSE 0) <= n
      BY <1>2, <1>8, <1>11, <3>2 DEF AvailableSpace
    <3>4. Len(p) = l + d + 1
      BY <2>2, <3>2
    <3> QED BY <3>2, <3>3, <3>4, SMTT(60) DEF Room
  <2>8. QueuePart(c)
    <3>1. \A x \in Banks : FineQueue(x, f[x])
      BY <2>2, <2>6, <2>7 DEF InPass, QueuePart, FineQueue
    <3> QED BY <2>5, <2>6, <3>1 DEF QueuePart
  <2>9. KeptPart(i, c)
    BY <1>3, <2>5 DEF InPass, KeptPart
  <2>10. MovedPart(i, c)
    <3> SUFFICES ASSUME NEW x \in Requests
                 PROVE  IF ReachedBy(i, x) /\ ~Holds(a.kept, x) THEN Changed(f[Bank[x]], x)
                        ELSE Alike(f[Bank[x]], queue[Bank[x]], x)
      BY <2>5 DEF MovedPart
    <3>1. CASE x = r
      BY <1>2, <1>3, <1>5, <2>2, <2>6, <3>1 DEF Changed
    <3>2. CASE x # r
      <4>1. Bank[x] \in Banks
        BY VaultAssumption
      <4>2. \A k : Has(f[Bank[x]], x, k) <=> Has(a.queue[Bank[x]], x, k)
        BY <1>8, <2>2, <2>6, <3>2, <4>1
      <4>3. IF ReachedBy(i, x) /\ ~Holds(a.kept, x) THEN Changed(a.queue[Bank[x]], x)
            ELSE Alike(a.queue[Bank[x]], queue[Bank[x]], x)
        BY <1>3, <3>2 DEF InPass, MovedPart
      <4> QED BY <4>2, <4>3 DEF Changed, Alike
    <3> QED BY <3>1, <3>2
  <2> QED BY <2>4, <2>8, <2>9, <2>10 DEF InPass
<1>12. CASE ~(~a.skip /\ AvailableSpace(Bank[r], a.queue, DataCommands(r) + 1))
  <2>1. PICK s \in Seq(Requests) : s = a.kept
    BY DEF InPass, KeptPart
  <2>2. /\ Append(s, r) \in Seq(Requests)
        /\ \A x : Holds(Append(s, r), x) <=> Holds(s, x) \/ x = r
        /\ ~Holds(s, r) /\ (\A j, k \in 1..Len(s) : s[j] = s[k] => j = k)
              => \A j, k \in 1..Len(Append(s, r)) : Append(s, r)[j] = Append(s, r)[k] => j = k
    BY AppendHolds
  <2>3. c = [a EXCEPT !.kept = Append(@, r), !.skip = FALSE]
    BY <1>1, <1>12 DEF Convert
  <2>4. c = [kept |-> Append(s, r), skip |-> FALSE, queue |-> a.queue]
    BY <2>1, <2>3 DEF InPass
  <2>5. c.kept = Append(s, r) /\ c.queue = a.queue
    BY <2>4
  <2>6. PICK t : t = Append(s, r)
    OBVIOUS
  <2>7. /\ t \in Seq(Requests)
        /\ \A x : Holds(t, x) <=> Holds(s, x) \/ x = r
        /\ \A j, k \in 1..Len(t) : t[j] = t[k] => j = k
    <3>1. \A j, k \in 1..Len(s) : s[j] = s[k] => j = k
      BY <2>1 DEF InPass, KeptPart
    <3>2. ~Holds(s, r)
      BY <1>5, <2>1
    <3> QED BY <2>2, <2>6, <3>1, <3>2
  <2>8. \A j \in 1..Len(t) : ReachedBy(i, t[j])
    <3> SUFFICES ASSUME NEW j \in 1..Len(t) PROVE ReachedBy(i, t[j])
      OBVIOUS
    <3>1. Holds(t, t[j])
      BY DEF Holds
    <3>2. CASE t[j] = r
      BY <1>3, <3>2
    <3>3. CASE Holds(s, t[j])
      BY <1>3, <2>1, <3>3 DEF Holds, InPass, KeptPart
    <3> QED BY <2>7, <3>1, <3>2, <3>3
  <2>9. KeptPart(i, c)
    <3>1. c.kept = t
      BY <2>5, <2>6
    <3>2. /\ c.kept \in Seq(Requests) /\ (\A j \in 1..Len(c.kept) : ReachedBy(i, c.kept[j]))
          /\ \A j, k \in 1..Len(c.kept) : c.kept[j] = c.kept[k] => j = k
      BY <2>7, <2>8, <3>1
    <3> QED BY <3>2 DEF KeptPart
  <2>10. QueuePart(c)
    BY <2>5 DEF InPass, QueuePart
  <2>11. MovedPart(i, c)
    <3> SUFFICES ASSUME NEW x \in Requests
                 PROVE  IF ReachedBy(i, x) /\ ~Holds(t, x) THEN Changed(a.queue[Bank[x]], x)
                        ELSE Alike(a.queue[Bank[x]], queue[Bank[x]], x)
      BY <2>5, <2>6 DEF MovedPart
    <3>1. IF ReachedBy(i - 1, x) /\ ~Holds(s, x) THEN Changed(a.queue[Bank[x]], x)
          ELSE Alike(a.queue[Bank[x]], queue[Bank[x]], x)
      BY <2>1 DEF InPass, MovedPart
    <3> QED BY <1>3, <1>4, <2>7, <3>1
  <2> QED BY <2>4, <2>9, <2>10, <2>11 DEF InPass
<1> QED BY <1>11, <1>12

LEMMA PassIs ==
  ASSUME VInv, RInv, NEW m \in Nat, m = Len(downBuffers)
  PROVE  InPass(m, Pass)
<1>1. PICK s \in Seq(Requests) : s = downBuffers /\ m = Len(s)
  BY DEF VInv, GoodCommands
<1>2. PICK z : z = [kept |-> <<>>, skip |-> FALSE, queue |-> queue]
  OBVIOUS
<1>3. z = [kept |-> z.kept, skip |-> z.skip, queue |-> z.queue] /\ z.kept = <<>> /\ z.queue = queue
  BY <1>2
<1>4. InPass(0, z)
  <2>1. KeptPart(0, z)
    BY <1>3 DEF KeptPart
  <2>2. QueuePart(z)
    <3>1. \A b \in Banks : FineQueue(b, queue[b])
      BY DEF FineQueue, RInv, Ordered, Fits, Room
    <3>2. queue = [b \in Banks |-> queue[b]]
      BY DEF VInv, GoodQueues
    <3> QED BY <1>3, <3>1, <3>2 DEF QueuePart
  <2>3. MovedPart(0, z)
    <3>1. \A x : ~ReachedBy(0, x)
      BY DEF ReachedBy
    <3> QED BY <1>3, <3>1 DEF MovedPart, Alike
  <2> QED BY <1>3, <2>1, <2>2, <2>3 DEF InPass
<1>5. PICK h : Trace(s, z, m, h)
  BY <1>1, PassSteps
<1>6. /\ h[0] = z /\ h[m] = Pass
      /\ \A i \in 1..m : h[i] = Convert(h[i - 1], s[i])
  BY <1>1, <1>2, <1>5 DEF Trace, Pass
<1> DEFINE P == {i \in Nat : i <= m => InPass(i, h[i])}
<1>7. 0 \in P
  BY <1>4, <1>6
<1>8. ASSUME NEW i \in Nat, i \in P PROVE i + 1 \in P
  <2>1. SUFFICES ASSUME i + 1 <= m PROVE InPass(i + 1, h[i + 1])
    OBVIOUS
  <2>2. PICK j \in 1..m : j = i + 1 /\ j - 1 = i
    BY <2>1
  <2>3. InPass(j - 1, h[i])
    BY <1>8, <2>1, <2>2
  <2>4. h[j] = Convert(h[i], downBuffers[j])
    BY <1>1, <1>6, <2>2
  <2>5. InPass(j, h[j])
    BY <2>3, <2>4, ConvertStep
  <2> QED BY <2>2, <2>5
<1>9. m \in P
  BY <1>7, <1>8, NumberInduction
<1> QED BY <1>6, <1>9

LEMMA ConvResponses ==
  ASSUME VInv, RInv, ConvPacketIntoCMDs
  PROVE  RInv'
<1>1. PICK m \in Nat : m = Len(downBuffers)
  BY DEF VInv, GoodCommands
<1>2. InPass(m, Pass)
  BY <1>1, PassIs
<1>3. /\ downBuffers' = Pass.kept /\ queue' = Pass.queue
      /\ UNCHANGED <<upBuffers, pcuPacket, open, pendingDataSize, atomicLock, issuedBank, cmdBus,
                     writeDataToSend, atomicCMD, readReturnDATA>>
  BY DEF ConvPacketIntoCMDs, dramVars
<1>4. \A x : (ReachedBy(m, x) <=> AsPacket(x)) /\ (Holds(Pass.kept, x) <=> AsPacket(x)')
  BY <1>1, <1>3 DEF ReachedBy, AsPacket, Holds
<1>5. \A x : AsPacket(x)' => AsPacket(x)
  BY <1>2, <1>4 DEF InPass, KeptPart, Holds
<1>6. ASSUME NEW x \in Requests
      PROVE  IF AsPacket(x) /\ ~AsPacket(x)' THEN Unopened(x)' /\ Queued(x)' /\ ~Returning(x)'
             ELSE /\ Unopened(x)' <=> Unopened(x)
                  /\ Queued(x)' <=> Queued(x)
                  /\ Returning(x)' <=> Returning(x)
  <2>1. IF AsPacket(x) /\ ~AsPacket(x)' THEN Changed(queue'[Bank[x]], x)
        ELSE Alike(queue'[Bank[x]], queue[Bank[x]], x)
    BY <1>2, <1>3, <1>4 DEF InPass, MovedPart
  <2> QED BY <2>1 DEF Changed, Alike, Unopened, Queued, Returning
<1>7. ASSUME NEW x
      PROVE  /\ (OnBus(x)' <=> OnBus(x)) /\ (Reading(x)' <=> Reading(x))
             /\ (Operating(x)' <=> Operating(x)) /\ (Writing(x)' <=> Writing(x))
             /\ (Stored(x)' <=> Stored(x)) /\ (AsResponse(x)' <=> AsResponse(x))
             /\ (Waits(x)' <=> Waits(x))
  BY <1>3, Frames DEF Waits
<1>8. ASSUME NEW x \in Requests
      PROVE  /\ Separate(x)' /\ (Owing(x)' <=> Owing(x)) /\ (Returning(x)' <=> Returning(x))
             /\ AsPacket(x) => AsPacket(x)' \/ Queued(x)'
             /\ Queued(x) => Queued(x)'
  <2>1. Separate(x)
    BY DEF RInv, Apart
  <2>2. CASE AsPacket(x) /\ ~AsPacket(x)'
    BY <1>6, <1>7, <2>1, <2>2 DEF Separate, Owing
  <2>3. CASE ~(AsPacket(x) /\ ~AsPacket(x)')
    BY <1>5, <1>6, <1>7, <2>1, <2>3 DEF Separate, Owing
  <2> QED BY <2>2, <2>3
<1>9. Typed' /\ Formed'
  BY <1>3 DEF RInv, Typed, Formed
<1>10. Unique'
  BY <1>2, <1>3 DEF RInv, Unique, InPass, KeptPart
<1>11. Ordered'
  BY <1>2, <1>3 DEF Ordered, InPass, QueuePart, FineQueue
<1>12. Apart'
  BY <1>8 DEF Apart
<1>13. Locked'
  <2>1. \A x \in Requests : (Returning(x)' => WritesBack(x)) /\ (WritesBack(x) => (Owes(x)' <=> Owes(x)))
    BY <1>8 DEF RInv, Locked, Owes
  <2> QED BY <1>3, <2>1, LockedStep DEF RInv, Typed
<1>14. Fits'
  <2> SUFFICES ASSUME NEW b \in Banks
               PROVE  /\ Len(queue'[b]) <= MAX_CMD_QUE
                      /\ atomicLock[b] # NULL /\ Owing(atomicLock[b])' => Len(queue'[b]) + 1 <= MAX_CMD_QUE
    BY <1>3 DEF Fits
  <2>1. Room(b, queue'[b])
    BY <1>2, <1>3 DEF InPass, QueuePart, FineQueue
  <2>2. atomicLock[b] # NULL /\ Owing(atomicLock[b])' => Owing(atomicLock[b])
    <3> SUFFICES ASSUME atomicLock[b] # NULL
                 PROVE  Owing(atomicLock[b])' => Owing(atomicLock[b])
      OBVIOUS
    <3>1. PICK x \in Requests : x = atomicLock[b]
      BY DEF RInv, Typed
    <3>2. Owing(x)' <=> Owing(x)
      BY <1>8
    <3>3. x = atomicLock'[b]
      BY <1>3, <3>1
    <3> QED BY <3>1, <3>2, <3>3
  <2> QED BY <2>1, <2>2 DEF Room
<1>15. Enough'
  <2>1. Pending' = Pending
    BY <1>7, PendingSame
  <2> QED BY <1>3, <2>1 DEF RInv, Enough
<1>16. Answerable'
  BY <1>3, <1>7, <1>8 DEF RInv, Typed, Answerable
<1> QED BY <1>9, <1>10, <1>11, <1>12, <1>13, <1>14, <1>15, <1>16 DEF RInv

-----------------------------------------------------------------------------
(* The theorems on responses.                                              *)

LEMMA RInvInit == Init => RInv
<1> SUFFICES ASSUME Init PROVE RInv
  OBVIOUS
<1>1. /\ \A b \in Banks : queue[b] = <<>> /\ atomicLock[b] = NULL
      /\ cmdBus = NULL /\ atomicCMD = NULL /\ open = {} /\ issuedBank = 0
      /\ downBuffers = <<>> /\ readReturnDATA = <<>> /\ writeDataToSend = <<>>
      /\ upBuffers = <<>> /\ pcuPacket = <<>> /\ pendingDataSize = 0
  BY DEF Init
<1>2. ASSUME NEW r, NEW k PROVE ~Has(<<>>, r, k) /\ Once(<<>>, r, k)
  BY DEF Has, Once
<1>3. ASSUME NEW r \in Requests
      PROVE  /\ ~AsPacket(r) /\ ~Queued(r) /\ ~OnBus(r) /\ ~Reading(r) /\ ~Operating(r)
             /\ ~Writing(r) /\ ~Returning(r)
  <2>1. Bank[r] \in Banks
    BY VaultAssumption
  <2>2. queue[Bank[r]] = <<>>
    BY <1>1, <2>1
  <2>3. ~Queued(r) /\ ~Returning(r) /\ ~Reading(r) /\ ~Writing(r)
    BY <1>1, <1>2, <2>2 DEF Queued, Returning, Reading, Writing
  <2> QED BY <1>1, <2>3 DEF AsPacket, OnBus, Operating
<1>4. Typed
  <2>1. <<>> \in Seq(Requests) /\ <<>> \in Seq(Cmds)
    OBVIOUS
  <2>2. UsedBy(<<>>) = 0 /\ 0 <= MAX_VLT_BUF /\ 0 \in Banks
    <3>1. 0 <= MAX_VLT_BUF /\ 0 \in Banks
      BY VaultAssumption DEF Banks
    <3>2. UsedBy(<<>>) = 0
      BY <2>1, UsedType, Zenon
    <3> QED BY <3>1, <3>2
  <2>3. atomicLock \in [Banks -> Requests \cup {NULL}]
    BY DEF Init
  <2> QED BY <1>1, <2>1, <2>2, <2>3 DEF Typed
<1>5. Formed /\ Unique
  BY <1>1, <1>2 DEF Formed, Unique, AllProper
<1>6. Ordered
  <2>1. InOrder(<<>>) /\ AllProper(<<>>)
    BY <1>2 DEF InOrder, AllProper, Completed, OpensFirst
  <2> QED BY <1>1, <2>1 DEF Ordered
<1>7. Apart
  BY <1>3 DEF Apart, Separate
<1>8. Locked
  BY <1>1, <1>3 DEF Locked, Owing
<1>9. Fits
  <2>1. Len(<<>>) = 0 /\ 0 <= MAX_CMD_QUE
    BY VaultAssumption
  <2> QED BY <1>1, <2>1 DEF Fits
<1>10. Enough
  <2>1. Pending = {}
    BY <1>3 DEF Pending, Waits
  <2>2. UsedBy(upBuffers) = 0 /\ MAX_VLT_BUF \in Nat
    <3>1. MAX_VLT_BUF \in Nat
      BY VaultAssumption
    <3>2. UsedBy(upBuffers) = 0
      BY <1>1, <1>4, UsedType, Zenon DEF Typed
    <3> QED BY <3>1, <3>2
  <2> QED BY <1>1, <2>1, <2>2, KeptFacts DEF Enough
<1>11. Answerable
  BY <1>1 DEF Answerable
<1> QED BY <1>4, <1>5, <1>6, <1>7, <1>8, <1>9, <1>10, <1>11 DEF RInv

LEMMA RefreshResponses ==
  ASSUME RInv, PopRefresh
  PROVE  RInv'
<1>1. /\ cmdBus = NULL /\ cmdBus' = Command("REFRESH", NULL, TRUE)
      /\ UNCHANGED <<downBuffers, upBuffers, pcuPacket, pendingDataSize, queue, atomicLock, issuedBank,
                     writeDataToSend, readReturnDATA, atomicCMD, open>>
  BY DEF PopRefresh, MayPop, packetVars, dramVars
<1>2. cmdBus'.commandType = "REFRESH" /\ cmdBus'.lastCMD
  BY <1>1 DEF Command
<1>3. ~IsRead(cmdBus') /\ ~IsWrite(cmdBus')
  BY <1>2 DEF IsRead, IsWrite
<1>4. Proper(cmdBus')
  BY <1>2, <1>3 DEF Proper
<1>5. \A x \in Requests : OnBus(x)' <=> OnBus(x)
  BY <1>1, <1>3, QuietBus DEF OnBus
<1>6. issuedBank' \in Banks
  BY <1>1 DEF RInv, Typed
<1> QED BY <1>1, <1>4, <1>5, <1>6, QuietResponses

LEMMA RInvNext == VInv /\ RInv /\ [Next]_vars => RInv'
<1> SUFFICES ASSUME VInv, RInv, [Next]_vars PROVE RInv'
  OBVIOUS
<1>1. issuedBank \in Banks /\ (cmdBus # NULL => Proper(cmdBus))
  BY DEF RInv, Typed, Formed
<1>2. ASSUME issuedBank' \in Banks,
             UNCHANGED <<downBuffers, upBuffers, pcuPacket, pendingDataSize, queue, atomicLock,
                         writeDataToSend, readReturnDATA, atomicCMD, open, cmdBus>>
      PROVE  RInv'
  <2>1. \A x \in Requests : OnBus(x)' <=> OnBus(x)
    BY <1>2, Frames
  <2>2. cmdBus' # NULL => Proper(cmdBus')
    BY <1>1, <1>2
  <2> QED BY <1>2, <2>1, <2>2, QuietResponses
<1>3. ASSUME NEW b \in Banks, StopAtLock(b) \/ BankIdle(b) PROVE RInv'
  <2>1. /\ issuedBank' \in Banks
        /\ UNCHANGED <<downBuffers, upBuffers, pcuPacket, pendingDataSize, queue, atomicLock,
                       writeDataToSend, readReturnDATA, atomicCMD, open, cmdBus>>
    BY <1>1, <1>3 DEF StopAtLock, BankIdle, packetVars, queueVars, dramVars
  <2> QED BY <1>2, <2>1
<1>4. CASE RefreshDue \/ RefreshOver \/ PowerDown \/ PowerUp
  <2>1. /\ issuedBank' \in Banks
        /\ UNCHANGED <<downBuffers, upBuffers, pcuPacket, pendingDataSize, queue, atomicLock,
                       writeDataToSend, readReturnDATA, atomicCMD, open, cmdBus>>
    BY <1>1, <1>4 DEF RefreshDue, RefreshOver, PowerDown, PowerUp, packetVars, queueVars, dramVars
  <2> QED BY <1>2, <2>1
<1>5. CASE UNCHANGED vars
  <2>1. /\ issuedBank' \in Banks
        /\ UNCHANGED <<downBuffers, upBuffers, pcuPacket, pendingDataSize, queue, atomicLock,
                       writeDataToSend, readReturnDATA, atomicCMD, open, cmdBus>>
    BY <1>1, <1>5 DEF vars
  <2> QED BY <1>2, <2>1
<1> QED BY <1>3, <1>4, <1>5, ReceiveResponses, ConvResponses, SendUpResponses, PcuResponses,
          PopsResponses, RefreshResponses, DramResponses, WriteResponses, AtomicResponses,
          ReadResponses DEF Next

(* The invariant of the responses: every request in at most one place, the *)
(* lock of a bank with the request that owes it a write-back, room in its  *)
(* queue for that write-back, and room in upBuffers for what is kept.      *)
THEOREM ResponseInvariance == Spec => [](VInv /\ RInv)
BY VInvInit, VInvNext, RInvInit, RInvNext, PTL DEF Spec

(* Type correctness of the vault: no command queue outgrows its size,      *)
(* although the result of an atomic request is inserted without a look at  *)
(* it, no response buffer overflows and pendingDataSize never falls below  *)
(* 0 (AvailableSpace, Update, MakeRespondPacket).                          *)
THEOREM VaultTypeCorrect == Spec => []TypeOK
<1>1. ASSUME VInv, RInv PROVE TypeOK
  <2>1. /\ downBuffers \in Seq(Requests) /\ upBuffers \in Seq(Requests) /\ pcuPacket \in Seq(Requests)
    BY <1>1 DEF VInv, GoodCommands, RInv, Typed
  <2>2. ToSet(downBuffers \o upBuffers \o pcuPacket) \subseteq Requests
    <3>1. PICK s \in Seq(Requests) : s = downBuffers \o upBuffers \o pcuPacket
      <4>1. PICK d : d = downBuffers \o upBuffers
        OBVIOUS
      <4>2. d \in Seq(Requests)
        BY <2>1, <4>1, ConcatFacts
      <4>3. d \o pcuPacket \in Seq(Requests)
        BY <2>1, <4>2, ConcatFacts
      <4> QED BY <4>1, <4>3
    <3>2. ToSet(s) \subseteq Requests
      BY DEF ToSet
    <3> QED BY <3>1, <3>2
  <2>3. ASSUME NEW b \in Banks
        PROVE  /\ Len(queue[b]) <= MAX_CMD_QUE /\ atomicLock[b] \in Requests \cup {NULL}
               /\ bankStates[b].currentBankState \in BankStateTypes
    <3>1. bankStates[b] \in States
      BY <1>1 DEF VInv
    <3>2. bankStates[b].currentBankState \in BankStateTypes
      BY <3>1 DEF States
    <3> QED BY <1>1, <3>2 DEF RInv, Fits, Typed
  <2>4. open \subseteq Requests /\ issuedBank \in Banks /\ Used <= MAX_VLT_BUF /\ pendingDataSize \in Nat
    BY <1>1 DEF RInv, Typed, Used, UsedBy
  <2> QED BY <2>2, <2>3, <2>4 DEF TypeOK
<1> QED BY <1>1, ResponseInvariance, PTL

(* What a final command, or a write-back, says of its command.             *)
LEMMA FinalIs ==
  ASSUME NEW c \in Cmds
  PROVE  /\ Kind(c) = "final" <=> c.lastCMD /\ (IsRead(c) \/ (IsWrite(c) /\ ~atomic(c.packetTAG)))
         /\ Kind(c) = "back" <=> IsWrite(c) /\ atomic(c.packetTAG)
<1>1. c.commandType \in CommandTypes /\ c.lastCMD \in BOOLEAN
  BY DEF Cmds
<1>2. /\ c.commandType = "ACTIVATE" <=> ~IsRead(c) /\ ~IsWrite(c)
      /\ ~(IsRead(c) /\ IsWrite(c))
  BY <1>1 DEF CommandTypes, IsRead, IsWrite
<1> QED BY <1>2 DEF Kind

(* The requests whose last command has been popped and whose response has  *)
(* not been made are those ReservationExact counts.                        *)
LEMMA PendingIs ==
  ASSUME VInv, RInv,
         NEW reads, reads = {c \in ToSet(readReturnDATA) \cup ({cmdBus, atomicCMD} \ {NULL}) : IsRead(c)},
         NEW writes, writes = {c \in ToSet(writeDataToSend) : ~atomic(c.packetTAG)},
         NEW last, last = {c \in reads \cup writes : c.lastCMD /\ ~posted(c.packetTAG)}
  PROVE  {c.packetTAG : c \in last} = Pending
<1>1. PICK s \in Seq(Cmds), t \in Seq(Cmds) : s = readReturnDATA /\ t = writeDataToSend
  BY DEF VInv, GoodCommands, RInv, Typed
<1>2. /\ ToSet(readReturnDATA) = {s[i] : i \in 1..Len(s)}
      /\ ToSet(writeDataToSend) = {t[i] : i \in 1..Len(t)}
  BY <1>1 DEF ToSet
<1>3. /\ \A i \in 1..Len(s) : s[i] \in Cmds /\ IsRead(s[i])
      /\ \A i \in 1..Len(t) : t[i] \in Cmds /\ IsWrite(t[i])
  BY <1>1 DEF RInv, Formed
<1>4. /\ cmdBus # NULL /\ IsRead(cmdBus) => cmdBus \in Cmds
      /\ atomicCMD # NULL => atomicCMD \in Cmds /\ IsRead(atomicCMD) /\ atomicCMD.lastCMD
  <2>1. ~IsRead(RefreshCommand)
    BY DEF IsRead, RefreshCommand, Command
  <2> QED BY <2>1 DEF VInv, GoodCommands, RInv, Formed
<1>5. ASSUME NEW c \in last PROVE c.packetTAG \in Pending
  <2>1. c.lastCMD /\ ~posted(c.packetTAG)
    OBVIOUS
  <2>2. ASSUME NEW i \in 1..Len(s), c = s[i] PROVE c \in Cmds /\ Reading(c.packetTAG)
    <3>1. Kind(c) = "final" /\ c \in Cmds
      BY <1>3, <2>1, <2>2, FinalIs
    <3> QED BY <1>1, <2>2, <3>1 DEF Reading, Has, Is
  <2>3. ASSUME c = cmdBus, c # NULL, IsRead(c) PROVE c \in Cmds /\ OnBus(c.packetTAG)
    <3>1. Kind(c) = "final" /\ c \in Cmds
      BY <1>4, <2>1, <2>3, FinalIs
    <3> QED BY <2>3, <3>1 DEF OnBus, Is
  <2>4. ASSUME c = atomicCMD, c # NULL PROVE c \in Cmds /\ Operating(c.packetTAG)
    BY <1>4, <2>4 DEF Operating
  <2>5. ASSUME NEW i \in 1..Len(t), c = t[i], ~atomic(c.packetTAG) PROVE c \in Cmds /\ Writing(c.packetTAG)
    <3>1. Kind(c) = "final" /\ c \in Cmds
      BY <1>3, <2>1, <2>5, FinalIs
    <3> QED BY <1>1, <2>5, <3>1 DEF Writing, Has, Is
  <2>6. \/ \E i \in 1..Len(s) : c = s[i]
        \/ c = cmdBus /\ c # NULL /\ IsRead(c)
        \/ c = atomicCMD /\ c # NULL
        \/ ~atomic(c.packetTAG) /\ \E i \in 1..Len(t) : c = t[i]
    BY <1>2
  <2>7. c \in Cmds /\ Waits(c.packetTAG)
    BY <2>2, <2>3, <2>4, <2>5, <2>6 DEF Waits
  <2> QED BY <2>1, <2>7 DEF Pending, Cmds
<1>6. ASSUME NEW r \in Pending PROVE \E c \in last : c.packetTAG = r
  <2>1. r \in Requests /\ ~posted(r) /\ Waits(r)
    BY DEF Pending
  <2>2. ASSUME NEW c, c \in reads \cup writes, c.lastCMD, c.packetTAG = r PROVE \E x \in last : x.packetTAG = r
    BY <2>1, <2>2
  <2>3. CASE OnBus(r)
    <3>1. cmdBus # NULL /\ IsRead(cmdBus) /\ cmdBus.packetTAG = r /\ Kind(cmdBus) = "final"
      BY <2>3 DEF OnBus, Is
    <3>2. cmdBus.lastCMD
      BY <1>4, <3>1, FinalIs
    <3>3. cmdBus \in reads
      BY <3>1
    <3> QED BY <2>2, <3>1, <3>2, <3>3
  <2>4. CASE Reading(r)
    <3>1. PICK i \in 1..Len(s) : s[i].packetTAG = r /\ Kind(s[i]) = "final"
      BY <1>1, <2>4 DEF Reading, Has, Is
    <3>2. s[i].lastCMD /\ s[i] \in reads
      BY <1>2, <1>3, <3>1, FinalIs
    <3> QED BY <2>2, <3>1, <3>2
  <2>5. CASE Operating(r)
    <3>1. atomicCMD \in reads /\ atomicCMD.lastCMD /\ atomicCMD.packetTAG = r
      BY <1>4, <2>5 DEF Operating
    <3> QED BY <2>2, <3>1
  <2>6. CASE Writing(r)
    <3>1. PICK i \in 1..Len(t) : t[i].packetTAG = r /\ Kind(t[i]) = "final"
      BY <1>1, <2>6 DEF Writing, Has, Is
    <3>2. t[i].lastCMD /\ ~atomic(r)
      <4>1. t[i].lastCMD /\ (IsRead(t[i]) \/ ~atomic(r))
        BY <1>3, <3>1, FinalIs
      <4>2. ~IsRead(t[i])
        BY <1>3 DEF IsRead, IsWrite
      <4> QED BY <4>1, <4>2
    <3>3. t[i] \in writes
      BY <1>2, <3>1, <3>2
    <3> QED BY <2>2, <3>1, <3>2, <3>3
  <2> QED BY <2>1, <2>3, <2>4, <2>5, <2>6 DEF Waits
<1> QED BY <1>5, <1>6

(* The reservation is exact where every response takes no more than was    *)
(* kept for it: pendingDataSize is what is kept for the requests whose     *)
(* last command has been popped and whose response has not been made,      *)
(* however reads, writes and atomic requests overlap (isIssuable, Update,  *)
(* MakeRespondPacket).                                                     *)
THEOREM ReservationCorrect ==
  ASSUME Sound
  PROVE  Spec => []ReservationExact
<1>1. ASSUME VInv, RInv PROVE ReservationExact
  <2>1. PICK reads : reads = {c \in ToSet(readReturnDATA) \cup ({cmdBus, atomicCMD} \ {NULL}) : IsRead(c)}
    OBVIOUS
  <2>2. PICK writes : writes = {c \in ToSet(writeDataToSend) : ~atomic(c.packetTAG)}
    OBVIOUS
  <2>3. PICK last : last = {c \in reads \cup writes : c.lastCMD /\ ~posted(c.packetTAG)}
    OBVIOUS
  <2>4. {c.packetTAG : c \in last} = Pending
    BY <1>1, <2>1, <2>2, <2>3, PendingIs
  <2>5. pendingDataSize = MapThenSumSet(Reserved, Pending)
    BY <1>1 DEF RInv, Enough, Kept
  <2> QED BY <2>1, <2>2, <2>3, <2>4, <2>5 DEF ReservationExact
<1> QED BY <1>1, ResponseInvariance, PTL

(* No response is lost where every response takes no more than was kept    *)
(* for it: a write or an atomic response finds room in upBuffers the one   *)
(* time it is made, although nobody looks whether it did                   *)
(* (MakeRespondPacket as called from UpdateCountdown and Update).          *)
THEOREM ResponsesCorrect ==
  ASSUME Sound
  PROVE  Spec => []NoResponseLost
<1>1. ASSUME VInv, RInv PROVE NoResponseLost
  <2>1. PICK s \in Seq(Cmds), t \in Seq(Cmds) : s = readReturnDATA /\ t = writeDataToSend
    BY <1>1 DEF VInv, GoodCommands, RInv, Typed
  <2>2. /\ ToSet(readReturnDATA) = {s[i] : i \in 1..Len(s)}
        /\ ToSet(writeDataToSend) = {t[i] : i \in 1..Len(t)}
    BY <2>1 DEF ToSet
  <2>3. PICK d \in Seq(Requests), u \in Seq(Requests), p \in Seq(Requests) :
          d = downBuffers /\ u = upBuffers /\ p = pcuPacket
    BY <1>1 DEF VInv, GoodCommands, RInv, Typed
  <2>4. ASSUME NEW r, AsPacket(r) \/ AsResponse(r) PROVE r \in ToSet(downBuffers \o upBuffers \o pcuPacket)
    <3>1. PICK e : e = d \o u
      OBVIOUS
    <3>2. PICK m \in Nat, n \in Nat, l \in Nat : m = Len(d) /\ n = Len(u) /\ l = Len(p)
      OBVIOUS
    <3>3. e \in Seq(Requests) /\ Len(e) = m + n
          /\ \A i \in 1..(m + n) : e[i] = IF i <= m THEN d[i] ELSE u[i - m]
      BY <3>1, <3>2, ConcatFacts
    <3>4. \E i \in 1..(m + n) : e[i] = r
      <4>1. CASE AsPacket(r)
        <5>1. PICK i \in 1..m : d[i] = r
          BY <2>3, <3>2, <4>1 DEF AsPacket
        <5>2. i \in 1..(m + n) /\ i <= m
          OBVIOUS
        <5> QED BY <3>3, <5>1, <5>2
      <4>2. CASE AsResponse(r)
        <5>1. PICK i \in 1..n : u[i] = r
          BY <2>3, <3>2, <4>2 DEF AsResponse
        <5>2. m + i \in 1..(m + n) /\ ~(m + i <= m) /\ (m + i) - m = i
          OBVIOUS
        <5> QED BY <3>3, <5>1, <5>2
      <4> QED BY <2>4, <4>1, <4>2
    <3>5. PICK f : f = e \o p
      OBVIOUS
    <3>6. f \in Seq(Requests) /\ Len(f) = (m + n) + l
          /\ \A i \in 1..((m + n) + l) : f[i] = IF i <= m + n THEN e[i] ELSE p[i - (m + n)]
      <4>1. /\ e \o p \in Seq(Requests) /\ Len(e \o p) = Len(e) + Len(p)
            /\ \A i \in 1..(Len(e) + Len(p)) : (e \o p)[i] = IF i <= Len(e) THEN e[i] ELSE p[i - Len(e)]
        BY <3>3, ConcatFacts
      <4> QED BY <3>2, <3>3, <3>5, <4>1
    <3>7. PICK i \in 1..(m + n) : e[i] = r
      BY <3>4
    <3>8. i \in 1..((m + n) + l) /\ i <= m + n
      OBVIOUS
    <3>9. f[i] = r /\ i \in DOMAIN f
      BY <3>6, <3>7, <3>8
    <3>10. r \in ToSet(f)
      BY <3>9 DEF ToSet
    <3> QED BY <2>3, <3>1, <3>5, <3>10
  <2>5. ASSUME NEW c \in Remaining, Finishes(c)
        PROVE  c.packetTAG \in {x.packetTAG : x \in {y \in Remaining : Finishes(y)}}
    BY <2>5
  <2>6. ASSUME NEW r \in Requests, Queued(r) \/ (posted(r) /\ Returning(r))
        PROVE  \E c \in Remaining : Finishes(c) /\ c.packetTAG = r
    <3>1. PICK b \in Banks, q \in Seq(Cmds) : b = Bank[r] /\ q = queue[b]
      <4>1. Bank[r] \in Banks
        BY VaultAssumption
      <4> QED BY <1>1, <4>1 DEF VInv, GoodQueues, GoodQueue
    <3>2. PICK i \in 1..Len(q) : /\ q[i].packetTAG = r
                                 /\ Kind(q[i]) = "final" \/ (posted(r) /\ Kind(q[i]) = "back")
      BY <2>6, <3>1 DEF Queued, Returning, Has, Is
    <3>3. q[i] \in Cmds /\ Proper(q[i])
      BY <1>1, <3>1 DEF RInv, Ordered, AllProper
    <3>4. Finishes(q[i])
      BY <3>2, <3>3, FinalIs DEF Finishes, Proper
    <3>5. q[i] \in ToSet(queue[b])
      BY <3>1 DEF ToSet
    <3>6. q[i] \in Remaining
      BY <3>5 DEF Remaining
    <3> QED BY <3>2, <3>4, <3>6
  <2>7. ASSUME NEW r \in Requests, OnBus(r) \/ Operating(r)
        PROVE  \E c \in Remaining : Finishes(c) /\ c.packetTAG = r
    <3>1. ~IsRead(RefreshCommand)
      BY DEF IsRead, RefreshCommand, Command
    <3>2. PICK c : /\ c \in {cmdBus, atomicCMD} \ {NULL} /\ IsRead(c) /\ c.packetTAG = r
                   /\ c \in Cmds /\ (Kind(c) = "final" \/ c.lastCMD)
      BY <1>1, <2>7, <3>1 DEF OnBus, Operating, Is, VInv, GoodCommands, RInv, Formed
    <3>3. Finishes(c)
      BY <3>2, FinalIs DEF Finishes
    <3>4. c \in Remaining
      BY <3>2 DEF Remaining
    <3> QED BY <3>2, <3>3, <3>4
  <2>8. ASSUME NEW r \in Requests, Reading(r)
        PROVE  \E c \in Remaining : Finishes(c) /\ c.packetTAG = r
    <3>1. PICK i \in 1..Len(s) : s[i].packetTAG = r /\ Kind(s[i]) = "final" /\ s[i] \in Cmds
      BY <2>1, <2>8 DEF Reading, Has, Is
    <3>2. Finishes(s[i])
      BY <3>1, FinalIs DEF Finishes
    <3>3. s[i] \in Remaining
      <4>1. s[i] \in ToSet(readReturnDATA)
        BY <2>2
      <4> QED BY <4>1 DEF Remaining
    <3> QED BY <3>1, <3>2, <3>3
  <2>9. ASSUME NEW r \in Requests, Writing(r) \/ (posted(r) /\ Stored(r))
        PROVE  \E c \in Remaining : Finishes(c) /\ c.packetTAG = r
    <3>1. PICK i \in 1..Len(t) : /\ t[i].packetTAG = r /\ t[i] \in Cmds
                                 /\ Kind(t[i]) = "final" \/ (posted(r) /\ Kind(t[i]) = "back")
      BY <2>1, <2>9 DEF Writing, Stored, Has, Is
    <3>2. Proper(t[i])
      BY <1>1, <2>1 DEF RInv, Formed, AllProper
    <3>3. Finishes(t[i])
      BY <3>1, <3>2, FinalIs DEF Finishes, Proper
    <3>4. t[i] \in Remaining
      <4>1. t[i] \in ToSet(writeDataToSend)
        BY <2>2
      <4> QED BY <4>1 DEF Remaining
    <3> QED BY <3>1, <3>3, <3>4
  <2>10. ASSUME NEW r \in open
         PROVE  \/ r \in ToSet(downBuffers \o upBuffers \o pcuPacket)
                \/ \E c \in Remaining : Finishes(c) /\ c.packetTAG = r
    <3>1. r \in Requests
      BY <1>1 DEF RInv, Typed
    <3>2. \/ AsPacket(r) \/ Queued(r) \/ Waits(r) \/ AsResponse(r)
          \/ posted(r) /\ (Returning(r) \/ Stored(r))
      BY <1>1 DEF RInv, Answerable
    <3> QED BY <2>4, <2>6, <2>7, <2>8, <2>9, <3>1, <3>2 DEF Waits
  <2> QED BY <2>10 DEF NoResponseLost
<1> QED BY <1>1, ResponseInvariance, PTL
=============================================================================
