------------------------- MODULE ActiveRoutingTree --------------------------
(***************************************************************************)
(* The entries of a flow form a tree that the gather closes, for every     *)
(* network whose routes are as TreeAssumption says, and every number of    *)
(* flows, operand buffers and lines of an update.                          *)
(***************************************************************************)
EXTENDS ActiveRoutingOnce

-----------------------------------------------------------------------------
(* Sequences of packets.                                                   *)

Has(s, A) == \E i \in DOMAIN s : s[i] \in A

(* Nothing of B is behind something of A.                                  *)
Ends(s, A, B) == \A i, j \in DOMAIN s : i < j /\ s[i] \in A => s[j] \notin B

-----------------------------------------------------------------------------
(* The packets of flow f: updates that some cube has still to count, all   *)
(* updates that a gather must not overtake, gathers for cube c.            *)

Wholes(f) ==
  {q \in Request : /\ q.flow = f /\ q.cmd \in {"ADD", "MULT"}
                   /\ q.half = 0 \/ q.lines > 1}

Updates(f) ==
  {q \in Request : /\ q.flow = f /\ q.cmd \in {"ADD", "MULT"}
                   /\ q.half = 0 \/ q.lines > 1 \/ MaxLines = 1}

Splits(f) == {q \in Wholes(f) : q.half # 0}

Calls(f, c) == {q \in Request : q.flow = f /\ q.cmd = "GET" /\ q.dest = c}

Fence(f, c) == Updates(f) \cup Calls(f, c)

-----------------------------------------------------------------------------
(* The tree of flow f.  All its requests come to cube c by one link.       *)

Lane(f, c) == ParentLink[c][Root[f]]
Above(f, c) == neighborCubeID[c][Lane(f, c)]
Branch(f, c) == PeerLink[c][Lane(f, c)]

TreeLink(f, c, n) ==
  neighborCubeID[c][n] # c /\ Lane(f, neighborCubeID[c][n]) = PeerLink[c][n]

Closed(f, d, V) ==
  Root[f] \in V /\ \A c \in V : c = d \/ neighborCubeID[c][NextLink[c][d]] \in V

OnWay(f, c, d) == \A V \in SUBSET Cubes : Closed(f, d, V) => c \in V

Headed(f, c, q) ==
  /\ {q.dest1, q.dest2} \subseteq OperandCubes /\ q.dest \in {q.dest1, q.dest2}
  /\ OnWay(f, c, q.dest)
  /\ q \in Wholes(f) => q.src = Root[f] /\ OnWay(f, c, q.dest1) /\ OnWay(f, c, q.dest2)
  /\ MaxLines = 1 /\ q.half = 0 => q.dest = q.dest1
  /\ q.cmd = "ADD" => q.dest1 = q.dest2

InDown(f, c, l) ==
  {q \in Request :
     /\ q \in Updates(f) => l = Lane(f, c) /\ Headed(f, c, q)
     /\ q.flow = f /\ q.cmd = "GET" =>
          /\ l = Lane(f, c)
          /\ q.dest = c \/ \E n \in Links : TreeLink(f, c, n) /\ q.dest = neighborCubeID[c][n]}

OnLink(f, c, l) ==
  {q \in InDown(f, c, l) :
     q \notin Splits(f) /\ (q.flow = f /\ q.cmd = "GET" => q.dest = c)}

Answer(f, c) ==
  [cmd |-> "GET", flow |-> f, src |-> c, dest |-> Above(f, c), home |-> c, op |-> 0,
   buf |-> NoBuf]

IsAnswer(f, r) == r.cmd = "GET" /\ r.flow = f

UpTo(f, c, p) ==
  {r \in Response : IsAnswer(f, r) =>
     /\ p \in Links /\ TreeLink(f, c, p) /\ r = Answer(f, neighborCubeID[c][p])}

Packets(f) ==
  /\ \A c \in Cubes, l \in Links : link[c][l] \in Seq(OnLink(f, c, l))
  /\ \A c \in Cubes, l \in Links : downBuffers[c][l] \in Seq(InDown(f, c, l))
  /\ \A c \in Cubes, p \in Ports : upBuffers[c][p] \subseteq UpTo(f, c, p)
  /\ \A c \in Cubes : \A r \in vault[c] : ~IsAnswer(f, r)
  /\ \A r \in responseQ : IsAnswer(f, r) => r = Answer(f, Root[f])

-----------------------------------------------------------------------------
(* Lanes.                                                                  *)

OnLane(f, c) == link[c][Lane(f, c)]
InLane(f, c) == downBuffers[c][Lane(f, c)]

InOrderLane(f, c) ==
  /\ Ends(InLane(f, c), Calls(f, c), Fence(f, c))
  /\ Ends(OnLane(f, c), Calls(f, c), Fence(f, c))
  /\ Has(InLane(f, c), Calls(f, c)) => ~Has(OnLane(f, c), Fence(f, c))
  /\ \A e \in Cubes : Ends(InLane(f, c), Calls(f, e), Calls(f, e))

Entry(f, c) ==
  /\ flowTable[c][f].valid => flowTable[c][f].parent = Above(f, c)
  /\ Has(InLane(f, c), Splits(f)) => flowTable[c][f].valid
  /\ \A n \in Links : flowTable[c][f].children_count[n] > 0 => TreeLink(f, c, n)

Coming(f, c, A) == Has(InLane(f, c), A) \/ Has(OnLane(f, c), A)

Live(f, c) == flowTable[c][f].valid \/ Coming(f, c, Wholes(f))

Idle(f, c) == ~Live(f, c) /\ ~Coming(f, c, Calls(f, c))

Grows(f, c) ==
  /\ ~Coming(f, c, Calls(f, c))
  /\ ~flowTable[c][f].g_flag
  /\ \A n \in Links : ~flowTable[c][f].children_gflag[n]

Called(f, c) ==
  /\ Coming(f, c, Calls(f, c))
  /\ ~flowTable[c][f].g_flag
  /\ (\E n \in Links : flowTable[c][f].children_gflag[n]) => ~Coming(f, c, Updates(f))

Marked(f, c) ==
  /\ ~Coming(f, c, Calls(f, c)) /\ ~Coming(f, c, Updates(f))
  /\ flowTable[c][f].g_flag
  /\ \A n \in Links : flowTable[c][f].children_count[n] > 0 => flowTable[c][f].children_gflag[n]

(* What the cube above c knows of it.                                      *)
Sent(f, c) == flowTable[Above(f, c)][f].children_count[Branch(f, c)] > 0
Told(f, c) == flowTable[Above(f, c)][f].children_gflag[Branch(f, c)]
Asked(f, c) == Has(InLane(f, Above(f, c)), Calls(f, c))
Replied(f, c) == Answer(f, c) \in upBuffers[Above(f, c)][Branch(f, c)]

Edge(f, c) ==
  /\ Replied(f, c) => Sent(f, c) /\ Told(f, c) /\ Idle(f, c) /\ ~Asked(f, c)
  /\ Asked(f, c) => Sent(f, c) /\ Told(f, c) /\ Grows(f, c)
  /\ ~Sent(f, c) => Idle(f, c)
  /\ Sent(f, c) /\ ~Told(f, c) => Grows(f, c)
  /\ Sent(f, c) /\ ~Replied(f, c) => Live(f, c)
  /\ Sent(f, c) /\ Told(f, c) /\ ~Asked(f, c) /\ ~Replied(f, c) => Called(f, c) \/ Marked(f, c)

HostEdge(f) ==
  LET r == Root[f]
  IN  /\ Answered(f) => host[f].phase = "gather" /\ Idle(f, r)
      /\ host[f].phase = "update" => Grows(f, r) /\ (host[f].issued > 0 => Live(f, r))
      /\ host[f].phase = "gather" /\ ~Answered(f) => Live(f, r) /\ (Called(f, r) \/ Marked(f, r))

FlowTree(f) ==
  /\ Packets(f)
  /\ \A c \in Cubes : InOrderLane(f, c) /\ Entry(f, c)
  /\ \A c \in Cubes \ {Root[f]} : Edge(f, c)
  /\ HostEdge(f)

-----------------------------------------------------------------------------
(* What the operations on a sequence do to Has and Ends.                   *)

LEMMA SeqAppend ==
  ASSUME NEW S, NEW s \in Seq(S), NEW e \in S, NEW A, NEW B
  PROVE  /\ Has(Append(s, e), A) <=> Has(s, A) \/ e \in A
         /\ Ends(s, A, B) /\ (e \in B => ~Has(s, A)) => Ends(Append(s, e), A, B)
<1>1. /\ DOMAIN s = 1..Len(s) /\ DOMAIN Append(s, e) = 1..(Len(s) + 1) /\ Len(s) \in Nat
      /\ \A i \in 1..Len(s) : Append(s, e)[i] = s[i]
      /\ Append(s, e)[Len(s) + 1] = e
  BY AppendProperties, LenProperties
<1> DEFINE t == Append(s, e)
<1> HIDE DEF t
<1>2. /\ DOMAIN t = 1..(Len(s) + 1)
      /\ \A i \in 1..Len(s) : t[i] = s[i]
      /\ t[Len(s) + 1] = e
  BY <1>1 DEF t
<1>3. Has(t, A) <=> Has(s, A) \/ e \in A
  BY <1>1, <1>2 DEF Has
<1>4. ASSUME Ends(s, A, B), e \in B => ~Has(s, A) PROVE Ends(t, A, B)
  BY <1>1, <1>2, <1>4 DEF Has, Ends
<1> QED BY <1>3, <1>4 DEF t

LEMMA SeqTail ==
  ASSUME NEW S, NEW s \in Seq(S), s # <<>>, NEW A, NEW B
  PROVE  /\ Has(s, A) <=> Head(s) \in A \/ Has(Tail(s), A)
         /\ Ends(s, A, B) => Ends(Tail(s), A, B) /\ (Head(s) \in A => ~Has(Tail(s), B))
<1> DEFINE t == Tail(s)
<1>1. /\ DOMAIN s = 1..Len(s) /\ Len(s) \in Nat /\ Len(s) >= 1
      /\ DOMAIN t = 1..(Len(s) - 1)
      /\ \A i \in 1..(Len(s) - 1) : t[i] = s[i + 1]
      /\ Head(s) = s[1]
  BY HeadTailProperties, LenProperties, EmptySeq
<1> HIDE DEF t
<1>2. \A i \in DOMAIN t : i + 1 \in DOMAIN s /\ i \in Nat /\ 1 <= i /\ t[i] = s[i + 1]
  BY <1>1
<1>3. \A i \in DOMAIN s : i # 1 => i - 1 \in DOMAIN t /\ t[i - 1] = s[i]
  BY <1>1
<1>4. Has(s, A) <=> Head(s) \in A \/ Has(t, A)
  BY <1>1, <1>2, <1>3 DEF Has
<1>5. ASSUME Ends(s, A, B) PROVE Ends(t, A, B) /\ (Head(s) \in A => ~Has(t, B))
  <2>1. Ends(t, A, B)
    BY <1>2, <1>5 DEF Ends
  <2>2. ASSUME Head(s) \in A, NEW i \in DOMAIN t PROVE t[i] \notin B
    <3>1. 1 \in DOMAIN s /\ i + 1 \in DOMAIN s /\ 1 < i + 1 /\ s[1] \in A /\ t[i] = s[i + 1]
      BY <1>1, <1>2, <2>2
    <3> QED BY <1>5, <3>1 DEF Ends
  <2> QED BY <2>1, <2>2 DEF Has
<1> QED BY <1>4, <1>5 DEF t

(* The packet at place i leaves, or another takes its place.               *)
Turns(s, i, K, t) ==
  \/ K = {} /\ t = RemoveAt(s, i)
  \/ \E e : K = {e} /\ t = ReplaceAt(s, i, e)

LEMMA TurnsType ==
  ASSUME NEW S, NEW s \in Seq(S), NEW i \in 1..Len(s), NEW K \in SUBSET S, NEW t,
         Turns(s, i, K, t)
  PROVE  t \in Seq(S)
<1>1. CASE K = {} /\ t = RemoveAt(s, i)
  BY <1>1, RemoveAtType
<1>2. ASSUME NEW e, K = {e}, t = ReplaceAt(s, i, e) PROVE t \in Seq(S)
  <2>1. e \in S
    BY <1>2
  <2> QED BY <1>2, <2>1, ReplaceAtType
<1> QED BY <1>1, <1>2 DEF Turns

(* Every other packet keeps its place in the order.                        *)
LEMMA RemovedShape ==
  ASSUME NEW S, NEW s \in Seq(S), NEW i \in 1..Len(s), NEW t, t = RemoveAt(s, i)
  PROVE  /\ DOMAIN s = 1..Len(s) /\ Len(s) \in Nat
         /\ \A j \in DOMAIN t : /\ j \in Nat /\ (IF j < i THEN j ELSE j + 1) \in DOMAIN s
                                /\ t[j] = s[IF j < i THEN j ELSE j + 1]
                                /\ (IF j < i THEN j ELSE j + 1) # i
         /\ \A j \in DOMAIN s : j # i => /\ (IF j < i THEN j ELSE j - 1) \in DOMAIN t
                                         /\ t[IF j < i THEN j ELSE j - 1] = s[j]
<1>1. DOMAIN s = 1..Len(s) /\ Len(s) \in Nat
  BY LenProperties
<1>2. /\ DOMAIN t = 1..(Len(s) - 1)
      /\ \A j \in 1..(Len(s) - 1) : t[j] = IF j < i THEN s[j] ELSE s[j + 1]
  BY RemoveAtShape
<1> QED BY <1>1, <1>2

LEMMA ReplacedShape ==
  ASSUME NEW S, NEW s \in Seq(S), NEW i \in 1..Len(s), NEW e \in S, NEW t,
         t = ReplaceAt(s, i, e)
  PROVE  /\ DOMAIN s = 1..Len(s) /\ Len(s) \in Nat /\ DOMAIN t = DOMAIN s
         /\ \A j \in DOMAIN s : t[j] = IF j = i THEN e ELSE s[j]
BY ExceptSeq, LenProperties DEF ReplaceAt

LEMMA SeqTurns ==
  ASSUME NEW S, NEW s \in Seq(S), NEW i \in 1..Len(s), NEW K \in SUBSET S, NEW t,
         Turns(s, i, K, t), NEW A
  PROVE  /\ Has(t, A) => Has(s, A) \/ K \cap A # {}
         /\ s[i] \notin A /\ Has(s, A) => Has(t, A)
         /\ K \cap A # {} => Has(t, A)
         /\ s[i] \in A => Has(s, A)
         /\ s[i] \in A /\ Ends(s, A, A) /\ K \cap A = {} => ~Has(t, A)
<1>1. CASE K = {} /\ t = RemoveAt(s, i)
  <2>1. DOMAIN s = 1..Len(s) /\ Len(s) \in Nat
    BY LenProperties
  <2>2. \A j \in DOMAIN t : /\ j \in Nat /\ (IF j < i THEN j ELSE j + 1) \in DOMAIN s
                            /\ t[j] = s[IF j < i THEN j ELSE j + 1]
                            /\ (IF j < i THEN j ELSE j + 1) # i
    BY <1>1, RemovedShape
  <2>3. \A j \in DOMAIN s : j # i => /\ (IF j < i THEN j ELSE j - 1) \in DOMAIN t
                                     /\ t[IF j < i THEN j ELSE j - 1] = s[j]
    BY <1>1, RemovedShape
  <2>4. Has(t, A) => Has(s, A)
    BY <2>2 DEF Has
  <2>5. s[i] \notin A /\ Has(s, A) => Has(t, A)
    BY <2>3 DEF Has
  <2>6. s[i] \in A => Has(s, A)
    BY <2>1 DEF Has
  <2>7. ASSUME s[i] \in A, Ends(s, A, A), NEW j \in DOMAIN t PROVE t[j] \notin A
    BY <2>1, <2>2, <2>7 DEF Ends
  <2> QED BY <1>1, <2>4, <2>5, <2>6, <2>7 DEF Has
<1>2. ASSUME NEW e \in S, K = {e}, t = ReplaceAt(s, i, e)
      PROVE  /\ Has(t, A) => Has(s, A) \/ e \in A
             /\ s[i] \notin A /\ Has(s, A) => Has(t, A)
             /\ e \in A => Has(t, A)
             /\ s[i] \in A => Has(s, A)
             /\ s[i] \in A /\ Ends(s, A, A) /\ e \notin A => ~Has(t, A)
  <2>1. /\ DOMAIN s = 1..Len(s) /\ Len(s) \in Nat /\ DOMAIN t = DOMAIN s
        /\ \A j \in DOMAIN s : t[j] = IF j = i THEN e ELSE s[j]
    BY <1>2, ReplacedShape
  <2>2. (Has(t, A) => Has(s, A) \/ e \in A) /\ (s[i] \notin A /\ Has(s, A) => Has(t, A))
    BY <2>1 DEF Has
  <2>3. (e \in A => Has(t, A)) /\ (s[i] \in A => Has(s, A))
    BY <2>1 DEF Has
  <2>4. s[i] \in A /\ Ends(s, A, A) /\ e \notin A => ~Has(t, A)
    BY <2>1 DEF Has, Ends
  <2> QED BY <2>2, <2>3, <2>4
<1>3. ASSUME NEW e, K = {e}, t = ReplaceAt(s, i, e)
      PROVE  e \in S /\ (K \cap A = {} <=> e \notin A)
  BY <1>3
<1> QED BY <1>1, <1>2, <1>3 DEF Turns

LEMMA TurnsEnds ==
  ASSUME NEW S, NEW s \in Seq(S), NEW i \in 1..Len(s), NEW K \in SUBSET S, NEW t,
         Turns(s, i, K, t), NEW A, NEW B, Ends(s, A, B),
         K \cap A = {}, K \cap B = {} \/ s[i] \in B
  PROVE  Ends(t, A, B)
<1>1. CASE K = {} /\ t = RemoveAt(s, i)
  <2>1. \A j \in DOMAIN t : /\ j \in Nat /\ (IF j < i THEN j ELSE j + 1) \in DOMAIN s
                            /\ t[j] = s[IF j < i THEN j ELSE j + 1]
                            /\ (IF j < i THEN j ELSE j + 1) # i
    BY <1>1, RemovedShape
  <2> QED BY <2>1 DEF Ends
<1>2. ASSUME NEW e, K = {e}, t = ReplaceAt(s, i, e)
      PROVE  Ends(t, A, B)
  <2>1. e \in S /\ e \notin A /\ (e \notin B \/ s[i] \in B)
    BY <1>2
  <2>2. /\ DOMAIN s = 1..Len(s) /\ Len(s) \in Nat /\ DOMAIN t = DOMAIN s
        /\ \A j \in DOMAIN s : t[j] = IF j = i THEN e ELSE s[j]
    BY <1>2, <2>1, ReplacedShape
  <2> QED BY <2>1, <2>2 DEF Ends
<1> QED BY <1>1, <1>2 DEF Turns

(* A packet leaves.                                                        *)
LEMMA SeqTaken ==
  ASSUME NEW S, NEW s \in Seq(S), NEW i \in 1..Len(s), NEW t, Turns(s, i, {}, t)
  PROVE  /\ \A A : /\ Has(t, A) => Has(s, A)
                   /\ s[i] \notin A /\ Has(s, A) => Has(t, A)
                   /\ s[i] \in A /\ Ends(s, A, A) => ~Has(t, A)
         /\ \A A, B : Ends(s, A, B) => Ends(t, A, B)
<1>1. PICK K \in SUBSET S : K = {}
  OBVIOUS
<1>2. Turns(s, i, K, t) /\ \A A : K \cap A = {}
  BY <1>1
<1>3. ASSUME NEW A
      PROVE  /\ Has(t, A) => Has(s, A)
             /\ s[i] \notin A /\ Has(s, A) => Has(t, A)
             /\ s[i] \in A /\ Ends(s, A, A) => ~Has(t, A)
  <2>1. K \cap A = {}
    BY <1>2
  <2> QED BY <1>2, <2>1, SeqTurns, ZenonT(60)
<1>4. ASSUME NEW A, NEW B, Ends(s, A, B) PROVE Ends(t, A, B)
  <2>1. K \cap A = {} /\ K \cap B = {}
    BY <1>2
  <2> QED BY <1>2, <1>4, <2>1, TurnsEnds
<1> QED BY <1>3, <1>4

-----------------------------------------------------------------------------
(* Routes.                                                                 *)

LEMMA LaneType ==
  ASSUME NEW f \in Flows, NEW c \in Cubes
  PROVE  /\ Root[f] \in Cubes /\ Lane(f, c) \in Links
         /\ Above(f, c) \in Cubes /\ Branch(f, c) \in Links
<1>1. Root[f] \in Cubes
  BY HostType DEF Tags
<1>2. Lane(f, c) \in Links
  BY <1>1, RouteType DEF Lane
<1> QED BY <1>1, <1>2, WireType DEF Above, Branch

LEMMA AtRoot ==
  ASSUME NEW f \in Flows
  PROVE  /\ Lane(f, Root[f]) = NextLink[Root[f]][Root[f]]
         /\ Above(f, Root[f]) = Root[f]
BY TreeAssumption DEF Lane, Above

LEMMA Child ==
  ASSUME NEW f \in Flows, NEW c \in Cubes, NEW n \in Links, TreeLink(f, c, n)
  PROVE  LET e == neighborCubeID[c][n]
         IN  /\ e \in Cubes /\ e # c /\ e # Root[f]
             /\ Above(f, e) = c /\ Branch(f, e) = n /\ Lane(f, e) = PeerLink[c][n]
             /\ NextLink[c][e] = n /\ NextLink[e][c] = Lane(f, e)
<1>1. PICK e \in Cubes : e = neighborCubeID[c][n]
  BY WireType
<1>2. PICK q \in Links : q = PeerLink[c][n]
  BY WireType
<1>3. e # c /\ Lane(f, e) = q
  BY <1>1, <1>2 DEF TreeLink
<1>4. neighborCubeID[e][q] = c /\ PeerLink[e][q] = n /\ NextLink[c][e] = n
  BY <1>1, <1>2, <1>3, TreeAssumption
<1>5. NextLink[e][c] = q
  BY <1>2, <1>3, <1>4, TreeAssumption
<1>6. e # Root[f]
  BY <1>3, <1>4, AtRoot DEF Above
<1> QED BY <1>1, <1>2, <1>3, <1>4, <1>5, <1>6 DEF Above, Branch

LEMMA Parent ==
  ASSUME NEW f \in Flows, NEW c \in Cubes, c # Root[f]
  PROVE  /\ Above(f, c) # c /\ neighborCubeID[Above(f, c)][Branch(f, c)] = c
         /\ PeerLink[Above(f, c)][Branch(f, c)] = Lane(f, c)
         /\ TreeLink(f, Above(f, c), Branch(f, c))
<1>1. Root[f] \in Cubes /\ Lane(f, c) \in Links
  BY LaneType
<1>2. Above(f, c) # c
  BY <1>1, TreeAssumption DEF Above, Lane
<1>3. /\ neighborCubeID[Above(f, c)][Branch(f, c)] = c
      /\ PeerLink[Above(f, c)][Branch(f, c)] = Lane(f, c)
  BY <1>1, <1>2, TreeAssumption DEF Above, Branch
<1> QED BY <1>2, <1>3 DEF TreeLink

LEMMA WayStart ==
  ASSUME NEW f, NEW d
  PROVE  OnWay(f, Root[f], d)
BY DEF OnWay, Closed

LEMMA WayOn ==
  ASSUME NEW f \in Flows, NEW c \in Cubes, NEW d \in OperandCubes, OnWay(f, c, d), c # d
  PROVE  /\ TreeLink(f, c, NextLink[c][d])
         /\ OnWay(f, neighborCubeID[c][NextLink[c][d]], d)
<1>1. PICK V \in SUBSET Cubes :
        /\ Root[f] \in V
        /\ \A x \in V \ {d} :
             /\ neighborCubeID[x][NextLink[x][d]] \in V
             /\ ParentLink[neighborCubeID[x][NextLink[x][d]]][Root[f]] = PeerLink[x][NextLink[x][d]]
  BY TreeAssumption
<1>2. Closed(f, d, V)
  BY <1>1 DEF Closed
<1>3. c \in V
  BY <1>2 DEF OnWay
<1>4. neighborCubeID[c][NextLink[c][d]] # c
  BY ARTAssumption, RouteAssumption
<1>5. TreeLink(f, c, NextLink[c][d])
  BY <1>1, <1>3, <1>4 DEF TreeLink, Lane
<1>6. OnWay(f, neighborCubeID[c][NextLink[c][d]], d)
  BY DEF OnWay, Closed
<1> QED BY <1>5, <1>6

-----------------------------------------------------------------------------
(* Lanes after a step.                                                     *)

LEMMA PrimedLane ==
  ASSUME NEW f \in Flows, NEW c \in Cubes, NEW A
  PROVE  /\ Coming(f, c, A)' <=> Has(InLane(f, c)', A) \/ Has(OnLane(f, c)', A)
         /\ InLane(f, c)' = downBuffers'[c][Lane(f, c)]
         /\ OnLane(f, c)' = link'[c][Lane(f, c)]
BY DEF Coming, InLane, OnLane

LEMMA PrimedOrder ==
  ASSUME NEW f \in Flows, NEW c \in Cubes
  PROVE  InOrderLane(f, c)' <=>
           /\ Ends(InLane(f, c)', Calls(f, c), Fence(f, c))
           /\ Ends(OnLane(f, c)', Calls(f, c), Fence(f, c))
           /\ Has(InLane(f, c)', Calls(f, c)) => ~Has(OnLane(f, c)', Fence(f, c))
           /\ \A e \in Cubes : Ends(InLane(f, c)', Calls(f, e), Calls(f, e))
BY DEF InOrderLane

LEMMA LaneTurns ==
  ASSUME TypeOK, NEW f \in Flows, Packets(f), NEW c \in Cubes, NEW l \in Links,
         NEW i \in DOMAIN downBuffers[c][l], NEW K \in SUBSET InDown(f, c, l),
         Becomes(c, l, i, K)
  PROVE  /\ \A x \in Cubes, m \in Links : downBuffers'[x][m] \in Seq(InDown(f, x, m))
         /\ \A x \in Cubes : x # c => InLane(f, x)' = InLane(f, x)
         /\ l # Lane(f, c) => InLane(f, c)' = InLane(f, c)
         /\ l = Lane(f, c) => /\ InLane(f, c) = downBuffers[c][l]
                              /\ InLane(f, c) \in Seq(InDown(f, c, l))
                              /\ i \in 1..Len(InLane(f, c))
                              /\ Turns(InLane(f, c), i, K, InLane(f, c)')
<1> DEFINE s == downBuffers[c][l]
           t == downBuffers'[c][l]
<1>1. /\ downBuffers \in [Cubes -> [Links -> Seq(Request)]] /\ i \in 1..Len(s)
      /\ s \in Seq(InDown(f, c, l))
  BY BufferedRequest DEF TypeOK, Packets
<1>2. /\ \A x \in Cubes, m \in Links : ~(x = c /\ m = l) => downBuffers'[x][m] = downBuffers[x][m]
      /\ Turns(s, i, K, t)
  <2>1. CASE K = {} /\ Take(c, l, i)
    BY <1>1, <2>1 DEF Take, Turns
  <2>2. ASSUME NEW e \in Request, K = {e}, Keep(c, l, i, e)
        PROVE  /\ \A x \in Cubes, m \in Links :
                    ~(x = c /\ m = l) => downBuffers'[x][m] = downBuffers[x][m]
               /\ Turns(s, i, K, t)
    BY <1>1, <2>2 DEF Keep, Turns
  <2> QED BY <2>1, <2>2 DEF Becomes
<1>3. t \in Seq(InDown(f, c, l))
  <2> HIDE DEF s, t
  <2> QED BY <1>1, <1>2, TurnsType
<1>4. \A x \in Cubes, m \in Links : downBuffers'[x][m] \in Seq(InDown(f, x, m))
  <2> SUFFICES ASSUME NEW x \in Cubes, NEW m \in Links
               PROVE  downBuffers'[x][m] \in Seq(InDown(f, x, m))
    OBVIOUS
  <2>1. CASE x = c /\ m = l
    BY <1>3, <2>1
  <2>2. CASE ~(x = c /\ m = l)
    <3>1. downBuffers'[x][m] = downBuffers[x][m] /\ downBuffers[x][m] \in Seq(InDown(f, x, m))
      BY <1>2, <2>2 DEF Packets
    <3> QED BY <3>1
  <2> QED BY <2>1, <2>2
<1>5. \A x \in Cubes : Lane(f, x) \in Links
  BY LaneType
<1> QED BY <1>1, <1>2, <1>4, <1>5, PrimedLane DEF InLane

(* A request that is no gather of f leaves its buffer or is rewritten.     *)
LEMMA TurnUpdate ==
  ASSUME TypeOK, NEW f \in Flows, Packets(f), NEW c \in Cubes, InOrderLane(f, c),
         NEW l \in Links, NEW i \in DOMAIN downBuffers[c][l], NEW p,
         p = downBuffers[c][l][i], NEW K \in SUBSET InDown(f, c, l), Becomes(c, l, i, K),
         ~(p.flow = f /\ p.cmd = "GET"), \A q \in K : ~(q.flow = f /\ q.cmd = "GET"),
         K \cap Updates(f) # {} => p \in Updates(f), K \cap Wholes(f) # {} => p \in Wholes(f)
  PROVE  /\ Has(InLane(f, c)', Wholes(f)) => Has(InLane(f, c), Wholes(f))
         /\ p \notin Wholes(f) \/ K \cap Wholes(f) # {} =>
              (Has(InLane(f, c), Wholes(f)) => Has(InLane(f, c)', Wholes(f)))
         /\ Has(InLane(f, c)', Updates(f)) => Has(InLane(f, c), Updates(f))
         /\ \A e \in Cubes : Has(InLane(f, c)', Calls(f, e)) <=> Has(InLane(f, c), Calls(f, e))
         /\ Has(InLane(f, c)', Splits(f)) => Has(InLane(f, c), Splits(f)) \/ K \cap Splits(f) # {}
         /\ Ends(InLane(f, c)', Calls(f, c), Fence(f, c))
         /\ \A e \in Cubes : Ends(InLane(f, c)', Calls(f, e), Calls(f, e))
<1>1. CASE l # Lane(f, c)
  <2>1. InLane(f, c)' = InLane(f, c)
    BY <1>1, LaneTurns
  <2>2. p \in InDown(f, c, l) /\ Wholes(f) \subseteq Updates(f)
    BY DEF Packets, Wholes, Updates
  <2>3. p \notin Wholes(f)
    BY <1>1, <2>2 DEF InDown
  <2> QED BY <2>1, <2>3 DEF InOrderLane
<1>2. CASE l = Lane(f, c)
  <2>1. PICK s : s = InLane(f, c)
    OBVIOUS
  <2>2. PICK t : t = InLane(f, c)'
    OBVIOUS
  <2>3. /\ s \in Seq(InDown(f, c, l)) /\ i \in 1..Len(s) /\ Turns(s, i, K, t) /\ s[i] = p
    BY <1>2, <2>1, <2>2, LaneTurns
  <2>4. \A A : /\ Has(t, A) => Has(s, A) \/ K \cap A # {}
               /\ s[i] \notin A /\ Has(s, A) => Has(t, A)
               /\ K \cap A # {} => Has(t, A)
               /\ s[i] \in A => Has(s, A)
    BY <2>3, SeqTurns
  <2>5. \A A, B : Ends(s, A, B) /\ K \cap A = {} /\ (K \cap B = {} \/ s[i] \in B) => Ends(t, A, B)
    BY <2>3, TurnsEnds
  <2>6. \A e \in Cubes : p \notin Calls(f, e) /\ K \cap Calls(f, e) = {}
    BY DEF Calls
  <2>7. K \cap Fence(f, c) = {} \/ p \in Fence(f, c)
    BY <2>6 DEF Fence
  <2>8. /\ Ends(s, Calls(f, c), Fence(f, c))
        /\ \A e \in Cubes : Ends(s, Calls(f, e), Calls(f, e))
    BY <2>1 DEF InOrderLane
  <2>9. Ends(t, Calls(f, c), Fence(f, c)) /\ \A e \in Cubes : Ends(t, Calls(f, e), Calls(f, e))
    BY <2>3, <2>5, <2>6, <2>7, <2>8
  <2>10. \A e \in Cubes : Has(t, Calls(f, e)) <=> Has(s, Calls(f, e))
    BY <2>3, <2>4, <2>6
  <2>11. /\ Has(t, Wholes(f)) => Has(s, Wholes(f))
         /\ p \notin Wholes(f) \/ K \cap Wholes(f) # {} => (Has(s, Wholes(f)) => Has(t, Wholes(f)))
         /\ Has(t, Updates(f)) => Has(s, Updates(f))
         /\ Has(t, Splits(f)) => Has(s, Splits(f)) \/ K \cap Splits(f) # {}
    BY <2>3, <2>4
  <2> QED BY <2>1, <2>2, <2>9, <2>10, <2>11
<1> QED BY <1>1, <1>2

LEMMA LaneSends ==
  ASSUME TypeOK, NEW f \in Flows, Packets(f), NEW d \in Cubes, NEW q \in Links,
         NEW e \in OnLink(f, d, q), link' = [link EXCEPT ![d][q] = Append(@, e)]
  PROVE  /\ \A x \in Cubes, m \in Links : link'[x][m] \in Seq(OnLink(f, x, m))
         /\ \A x \in Cubes : x # d => OnLane(f, x)' = OnLane(f, x)
         /\ q # Lane(f, d) => OnLane(f, d)' = OnLane(f, d)
         /\ q = Lane(f, d) => /\ OnLane(f, d) \in Seq(OnLink(f, d, q))
                              /\ OnLane(f, d)' = Append(OnLane(f, d), e)
<1>1. link \in [Cubes -> [Links -> Seq(Request)]] /\ link[d][q] \in Seq(OnLink(f, d, q))
  BY DEF TypeOK, Packets
<1>2. /\ \A x \in Cubes, m \in Links : ~(x = d /\ m = q) => link'[x][m] = link[x][m]
      /\ link'[d][q] = Append(link[d][q], e)
  BY <1>1
<1>3. Append(link[d][q], e) \in Seq(OnLink(f, d, q))
  BY <1>1, AppendType
<1>4. \A x \in Cubes, m \in Links : link'[x][m] \in Seq(OnLink(f, x, m))
  <2> SUFFICES ASSUME NEW x \in Cubes, NEW m \in Links
               PROVE  link'[x][m] \in Seq(OnLink(f, x, m))
    OBVIOUS
  <2>1. CASE x = d /\ m = q
    BY <1>2, <1>3, <2>1
  <2>2. CASE ~(x = d /\ m = q)
    <3>1. link'[x][m] = link[x][m] /\ link[x][m] \in Seq(OnLink(f, x, m))
      BY <1>2, <2>2 DEF Packets
    <3> QED BY <3>1
  <2> QED BY <2>1, <2>2
<1>5. \A x \in Cubes : Lane(f, x) \in Links
  BY LaneType
<1> QED BY <1>1, <1>2, <1>4, <1>5, PrimedLane DEF OnLane

(* A packet is sent to cube d: e may be of any flow.                       *)
LEMMA SendsAny ==
  ASSUME TypeOK, NEW f \in Flows, Packets(f), NEW d \in Cubes, InOrderLane(f, d),
         NEW q \in Links, NEW e \in OnLink(f, d, q),
         link' = [link EXCEPT ![d][q] = Append(@, e)],
         e \in Fence(f, d) => ~Coming(f, d, Calls(f, d))
  PROVE  /\ \A A : Has(OnLane(f, d), A) => Has(OnLane(f, d)', A)
         /\ \A A : Has(OnLane(f, d)', A) => Has(OnLane(f, d), A) \/ e \in A
         /\ q = Lane(f, d) => \A A : e \in A => Has(OnLane(f, d)', A)
         /\ Ends(OnLane(f, d)', Calls(f, d), Fence(f, d))
         /\ Has(InLane(f, d), Calls(f, d)) => ~Has(OnLane(f, d)', Fence(f, d))
<1>0. /\ Ends(OnLane(f, d), Calls(f, d), Fence(f, d))
      /\ Has(InLane(f, d), Calls(f, d)) => ~Has(OnLane(f, d), Fence(f, d))
      /\ e \in Fence(f, d) => ~Has(InLane(f, d), Calls(f, d)) /\ ~Has(OnLane(f, d), Calls(f, d))
  BY DEF InOrderLane, Coming
<1>1. CASE q # Lane(f, d)
  <2>1. OnLane(f, d)' = OnLane(f, d)
    BY <1>1, LaneSends
  <2> QED BY <1>0, <1>1, <2>1
<1>2. CASE q = Lane(f, d)
  <2>1. PICK s : s = OnLane(f, d)
    OBVIOUS
  <2>2. PICK t : t = OnLane(f, d)'
    OBVIOUS
  <2>3. s \in Seq(OnLink(f, d, q)) /\ t = Append(s, e)
    BY <1>2, <2>1, <2>2, LaneSends
  <2>4. \A A : Has(t, A) <=> Has(s, A) \/ e \in A
    BY <2>3, SeqAppend
  <2>5. Ends(t, Calls(f, d), Fence(f, d))
    BY <1>0, <2>1, <2>3, SeqAppend
  <2> QED BY <1>0, <2>1, <2>2, <2>4, <2>5
<1> QED BY <1>1, <1>2

-----------------------------------------------------------------------------
(* A cube in the tree, and what a step leaves as it was.                   *)

NodeKept(f, c) ==
  /\ Live(f, c) => Live(f, c)'
  /\ Idle(f, c) => Idle(f, c)'
  /\ Grows(f, c) => Grows(f, c)'
  /\ Called(f, c) \/ Marked(f, c) => Called(f, c)' \/ Marked(f, c)'

AboveKept(f, c) ==
  /\ Sent(f, c)' <=> Sent(f, c)
  /\ Told(f, c)' <=> Told(f, c)
  /\ Asked(f, c)' <=> Asked(f, c)
  /\ Replied(f, c)' <=> Replied(f, c)

HostKept(f) == host'[f] = host[f] /\ (Answered(f)' <=> Answered(f))

LEMMA EdgeKept ==
  ASSUME NEW f, NEW c, Edge(f, c), NodeKept(f, c), AboveKept(f, c)
  PROVE  Edge(f, c)'
BY DEF Edge, NodeKept, AboveKept

LEMMA HostEdgeKept ==
  ASSUME NEW f \in Flows, HostEdge(f), NodeKept(f, Root[f]), HostKept(f)
  PROVE  HostEdge(f)'
BY DEF HostEdge, NodeKept, HostKept

LEMMA TreeKept ==
  ASSUME NEW f \in Flows, FlowTree(f), Packets(f)',
         \A c \in Cubes : InOrderLane(f, c)' /\ Entry(f, c)',
         \A c \in Cubes \ {Root[f]} : (NodeKept(f, c) /\ AboveKept(f, c)) \/ Edge(f, c)',
         (NodeKept(f, Root[f]) /\ HostKept(f)) \/ HostEdge(f)'
  PROVE  FlowTree(f)'
<1>1. \A c \in Cubes \ {Root[f]} : Edge(f, c)'
  BY EdgeKept DEF FlowTree
<1>2. HostEdge(f)'
  BY HostEdgeKept DEF FlowTree
<1> QED BY <1>1, <1>2 DEF FlowTree

LEMMA NoEntryFields ==
  ASSUME NEW c \in Cubes
  PROVE  /\ ~NoEntry(c).valid /\ ~NoEntry(c).g_flag
         /\ \A n \in Links : NoEntry(c).children_count[n] = 0 /\ ~NoEntry(c).children_gflag[n]
BY DEF NoEntry

LEMMA NotValid ==
  ASSUME IInv, NEW f \in Flows, NEW c \in Cubes, ~flowTable[c][f].valid
  PROVE  /\ ~flowTable[c][f].g_flag /\ flowTable[c][f] = NoEntry(c)
         /\ \A n \in Links : /\ flowTable[c][f].children_count[n] = 0
                             /\ ~flowTable[c][f].children_gflag[n]
<1>1. flowTable[c][f] = NoEntry(c)
  BY DEF IInv, CubeSound, EntriesOf
<1> QED BY <1>1, NoEntryFields

LEMMA IdleGrows ==
  ASSUME IInv, NEW f \in Flows, NEW c \in Cubes, Idle(f, c)
  PROVE  Grows(f, c)
BY NotValid DEF Idle, Live, Grows

LEMMA States ==
  ASSUME IInv, NEW f \in Flows, FlowTree(f), NEW c \in Cubes
  PROVE  Grows(f, c) \/ Called(f, c) \/ Marked(f, c)
<1>1. CASE c = Root[f]
  BY <1>1, IdleGrows DEF FlowTree, HostEdge, IInv, TypeOK
<1>2. CASE c # Root[f]
  BY <1>2, IdleGrows DEF FlowTree, Edge
<1> QED BY <1>1, <1>2

(* While updates come to a cube, it has told no child to gather, ...       *)
LEMMA NoneTold ==
  ASSUME IInv, NEW f \in Flows, FlowTree(f), NEW c \in Cubes, Coming(f, c, Updates(f))
  PROVE  ~flowTable[c][f].g_flag /\ \A n \in Links : ~flowTable[c][f].children_gflag[n]
BY States DEF Grows, Called, Marked

(* ... so its children grow too.                                           *)
LEMMA ChildGrows ==
  ASSUME IInv, NEW f \in Flows, FlowTree(f), NEW c \in Cubes, Coming(f, c, Updates(f)),
         NEW e \in Cubes, e # Root[f], Above(f, e) = c
  PROVE  /\ Grows(f, e) /\ ~Told(f, e) /\ ~Asked(f, e) /\ ~Replied(f, e)
         /\ ~Called(f, e) /\ ~Marked(f, e) /\ ~Coming(f, e, Calls(f, e))
<1>1. ~Told(f, e)
  BY NoneTold, LaneType DEF Told
<1>2. ~Asked(f, e) /\ ~Replied(f, e) /\ Grows(f, e)
  BY <1>1, IdleGrows DEF FlowTree, Edge
<1> QED BY <1>1, <1>2 DEF Grows, Called, Marked

LEMMA Classes ==
  ASSUME NEW f
  PROVE  /\ Wholes(f) \subseteq Updates(f) /\ Splits(f) \subseteq Wholes(f)
         /\ \A c : Updates(f) \cap Calls(f, c) = {}
         /\ \A c : Fence(f, c) = Updates(f) \cup Calls(f, c)
         /\ \A c, d : c # d => Calls(f, c) \cap Calls(f, d) = {}
BY DEF Wholes, Splits, Updates, Calls, Fence

(* What most steps do to the input buffer, the link and the entry of a     *)
(* cube: updates are counted and leave, nothing of a gather changes.       *)
InSame(f, c) ==
  /\ Has(InLane(f, c)', Wholes(f)) => Has(InLane(f, c), Wholes(f))
  /\ Has(InLane(f, c), Wholes(f)) => Has(InLane(f, c)', Wholes(f)) \/ flowTable'[c][f].valid
  /\ Has(InLane(f, c)', Updates(f)) => Has(InLane(f, c), Updates(f))
  /\ \A e \in Cubes : Has(InLane(f, c)', Calls(f, e)) <=> Has(InLane(f, c), Calls(f, e))
  /\ Has(InLane(f, c)', Splits(f)) => Has(InLane(f, c), Splits(f)) \/ flowTable'[c][f].valid
  /\ Ends(InLane(f, c)', Calls(f, c), Fence(f, c))
  /\ \A e \in Cubes : Ends(InLane(f, c)', Calls(f, e), Calls(f, e))

OnSame(f, c) ==
  /\ Has(OnLane(f, c)', Wholes(f)) <=> Has(OnLane(f, c), Wholes(f))
  /\ Has(OnLane(f, c)', Calls(f, c)) <=> Has(OnLane(f, c), Calls(f, c))
  /\ \/ Has(OnLane(f, c)', Updates(f)) => Has(OnLane(f, c), Updates(f))
     \/ ~Called(f, c) /\ ~Marked(f, c)
  /\ Ends(OnLane(f, c)', Calls(f, c), Fence(f, c))
  /\ Has(InLane(f, c), Calls(f, c)) => ~Has(OnLane(f, c)', Fence(f, c))

EntrySame(f, c) ==
  /\ flowTable[c][f].valid => flowTable'[c][f].valid
  /\ flowTable'[c][f].valid => /\ flowTable'[c][f].parent = Above(f, c)
                               /\ Live(f, c)
  /\ flowTable'[c][f].g_flag <=> flowTable[c][f].g_flag
  /\ \A n \in Links : /\ flowTable'[c][f].children_gflag[n] <=> flowTable[c][f].children_gflag[n]
                      /\ flowTable'[c][f].children_count[n] = flowTable[c][f].children_count[n]

LEMMA SameIn ==
  ASSUME NEW f \in Flows, NEW c \in Cubes, InOrderLane(f, c), InLane(f, c)' = InLane(f, c)
  PROVE  InSame(f, c)
BY DEF InOrderLane, InSame

LEMMA SameOn ==
  ASSUME NEW f \in Flows, NEW c \in Cubes, InOrderLane(f, c), OnLane(f, c)' = OnLane(f, c)
  PROVE  OnSame(f, c)
BY DEF InOrderLane, OnSame

LEMMA SameEntry ==
  ASSUME NEW f \in Flows, NEW c \in Cubes, Entry(f, c), flowTable'[c][f] = flowTable[c][f]
  PROVE  EntrySame(f, c)
BY DEF Entry, EntrySame, Live

LEMMA NodeFrame ==
  ASSUME NEW f \in Flows, NEW c \in Cubes, InOrderLane(f, c), Entry(f, c),
         InSame(f, c), OnSame(f, c), EntrySame(f, c)
  PROVE  InOrderLane(f, c)' /\ Entry(f, c)' /\ NodeKept(f, c)
<1>1. InOrderLane(f, c)'
  BY PrimedOrder DEF InSame, OnSame
<1>2. Entry(f, c)'
  BY DEF Entry, InSame, EntrySame
<1>3. /\ Coming(f, c, Calls(f, c))' <=> Coming(f, c, Calls(f, c))
      /\ Coming(f, c, Wholes(f)) => Coming(f, c, Wholes(f))' \/ flowTable'[c][f].valid
      /\ Coming(f, c, Wholes(f))' => Coming(f, c, Wholes(f))
      /\ Called(f, c) \/ Marked(f, c) =>
           (Coming(f, c, Updates(f))' => Coming(f, c, Updates(f)))
  BY PrimedLane DEF InSame, OnSame, Coming
<1>4. Live(f, c) => Live(f, c)'
  BY <1>3 DEF Live, EntrySame
<1>5. Idle(f, c) => Idle(f, c)'
  BY <1>3 DEF Idle, Live, EntrySame
<1>6. Grows(f, c) => Grows(f, c)'
  BY <1>3 DEF Grows, EntrySame
<1>7. Called(f, c) => Called(f, c)'
  BY <1>3 DEF Called, EntrySame
<1>8. Marked(f, c) => Marked(f, c)'
  BY <1>3 DEF Marked, EntrySame
<1> QED BY <1>1, <1>2, <1>4, <1>5, <1>6, <1>7, <1>8 DEF NodeKept

LEMMA AboveFrame ==
  ASSUME NEW f \in Flows, NEW c \in Cubes,
         \A e \in Cubes : Has(InLane(f, Above(f, c))', Calls(f, e)) <=> Has(InLane(f, Above(f, c)), Calls(f, e)),
         EntrySame(f, Above(f, c)), Replied(f, c)' <=> Replied(f, c)
  PROVE  AboveKept(f, c)
<1>1. Branch(f, c) \in Links
  BY LaneType
<1>2. Sent(f, c)' <=> Sent(f, c)
  BY <1>1 DEF Sent, EntrySame
<1>3. Told(f, c)' <=> Told(f, c)
  BY <1>1 DEF Told, EntrySame
<1>4. Asked(f, c)' <=> Asked(f, c)
  BY DEF Asked
<1> QED BY <1>2, <1>3, <1>4 DEF AboveKept

LEMMA TreeFrame ==
  ASSUME NEW f \in Flows, FlowTree(f), Packets(f)', HostKept(f),
         \A c \in Cubes : InSame(f, c) /\ OnSame(f, c) /\ EntrySame(f, c),
         \A c \in Cubes : Replied(f, c)' <=> Replied(f, c)
  PROVE  FlowTree(f)'
<1>1. \A c \in Cubes : InOrderLane(f, c)' /\ Entry(f, c)' /\ NodeKept(f, c)
  BY NodeFrame DEF FlowTree
<1>2. ASSUME NEW c \in Cubes PROVE AboveKept(f, c)
  <2>1. Above(f, c) \in Cubes
    BY LaneType
  <2>2. InSame(f, Above(f, c)) /\ EntrySame(f, Above(f, c))
    BY <2>1
  <2> QED BY <2>2, AboveFrame DEF InSame
<1>3. Root[f] \in Cubes
  BY HostType DEF Tags
<1> QED BY <1>1, <1>2, <1>3, TreeKept

-----------------------------------------------------------------------------
(* Steps of requests that are no gathers of f.                             *)

LEMMA CountedFields ==
  ASSUME IInv, NEW c \in Cubes, NEW p \in Request, p.cmd \in {"ADD", "MULT"}
  PROVE  LET e == Counted(c, p)
             o == flowTable[c][p.flow]
         IN  /\ p.flow \in Flows /\ e \in FlowEntry /\ o \in FlowEntry /\ e.valid
             /\ e.parent = (IF o.valid THEN o.parent ELSE neighborCubeID[c][ParentLink[c][p.src]])
             /\ e.g_flag = o.g_flag
             /\ e.children_gflag = o.children_gflag /\ e.children_count = o.children_count
<1>1. /\ p.flow \in Flows /\ Counted(c, p) \in FlowEntry /\ flowTable[c][p.flow] \in FlowEntry
  BY CountedType, EntryType DEF IInv
<1>2. CASE flowTable[c][p.flow].valid
  BY <1>1, <1>2 DEF Counted, FlowEntry
<1>3. CASE ~flowTable[c][p.flow].valid
  <2>1. flowTable[c][p.flow] = NoEntry(c)
    BY <1>1, <1>3, NotValid
  <2> QED BY <1>1, <1>3, <2>1 DEF Counted, NoEntry
<1> QED BY <1>1, <1>2, <1>3

(* An update of f in an input buffer of cube c is in the lane.             *)
LEMMA InLaneHas ==
  ASSUME NEW f \in Flows, Packets(f), NEW c \in Cubes, NEW l \in Links,
         NEW i \in DOMAIN downBuffers[c][l], NEW p, p = downBuffers[c][l][i]
  PROVE  /\ p \in InDown(f, c, l)
         /\ p \in Updates(f) \/ (p.flow = f /\ p.cmd = "GET") =>
              l = Lane(f, c) /\ \A A : p \in A => Has(InLane(f, c), A) /\ Coming(f, c, A)
<1>1. p \in InDown(f, c, l)
  BY DEF Packets
<1>2. p \in Updates(f) \/ (p.flow = f /\ p.cmd = "GET") => l = Lane(f, c)
  BY <1>1 DEF InDown
<1>3. l = Lane(f, c) => \A A : p \in A => Has(InLane(f, c), A)
  BY DEF Has, InLane
<1> QED BY <1>1, <1>2, <1>3 DEF Coming

LEMMA CountHereSame ==
  ASSUME IInv, NEW f \in Flows, FlowTree(f), NEW c \in Cubes, NEW l \in Links,
         NEW i \in DOMAIN downBuffers[c][l], NEW p \in Request, p = downBuffers[c][l][i],
         p.cmd \in {"ADD", "MULT"}, p.half = 0, CountHere(c, p)
  PROVE  /\ \A x \in Cubes : EntrySame(f, x)
         /\ p.flow = f => flowTable'[c][f].valid
<1>1. /\ flowTable \in [Cubes -> [Flows -> FlowEntry]] /\ p.flow \in Flows
      /\ flowTable' = [flowTable EXCEPT ![c][p.flow] = Counted(c, p)]
  BY CountedFields DEF IInv, TypeOK, CountHere
<1>2. ASSUME NEW x \in Cubes, x # c \/ p.flow # f PROVE EntrySame(f, x)
  <2>1. flowTable'[x][f] = flowTable[x][f]
    BY <1>1, <1>2
  <2> QED BY <2>1, SameEntry DEF FlowTree
<1>3. ASSUME p.flow = f PROVE EntrySame(f, c) /\ flowTable'[c][f].valid
  <2>1. flowTable'[c][f] = Counted(c, p)
    BY <1>1, <1>3
  <2>2. p \in Wholes(f) /\ p \in Updates(f)
    BY <1>3 DEF Wholes, Updates
  <2>3. Live(f, c) /\ p.src = Root[f]
    BY <2>2, InLaneHas DEF FlowTree, Live, InDown, Headed
  <2>4. flowTable'[c][f].parent = Above(f, c)
    BY <1>3, <2>1, <2>3, CountedFields DEF FlowTree, Entry, Above, Lane
  <2>5. /\ flowTable'[c][f].valid
        /\ flowTable'[c][f].g_flag <=> flowTable[c][f].g_flag
        /\ flowTable'[c][f].children_gflag = flowTable[c][f].children_gflag
        /\ flowTable'[c][f].children_count = flowTable[c][f].children_count
    BY <1>3, <2>1, CountedFields
  <2> QED BY <2>3, <2>4, <2>5 DEF EntrySame
<1> QED BY <1>2, <1>3

LEMMA UpdateMoves ==
  ASSUME IInv, NEW f \in Flows, FlowTree(f), NEW c \in Cubes, NEW l \in Links,
         NEW i \in DOMAIN downBuffers[c][l], NEW p, p = downBuffers[c][l][i],
         NEW K \in SUBSET InDown(f, c, l), Becomes(c, l, i, K),
         ~(p.flow = f /\ p.cmd = "GET"), \A q \in K : ~(q.flow = f /\ q.cmd = "GET"),
         K \cap Updates(f) # {} => p \in Updates(f), K \cap Wholes(f) # {} => p \in Wholes(f),
         p \in Wholes(f) /\ K \cap Wholes(f) = {} => flowTable'[c][f].valid,
         K \cap Splits(f) # {} => flowTable'[c][f].valid
  PROVE  /\ \A x \in Cubes : InSame(f, x)
         /\ \A x \in Cubes, m \in Links : downBuffers'[x][m] \in Seq(InDown(f, x, m))
<1>1. TypeOK /\ Packets(f) /\ \A x \in Cubes : InOrderLane(f, x)
  BY DEF IInv, FlowTree
<1>2. /\ \A x \in Cubes : x # c => InLane(f, x)' = InLane(f, x)
      /\ \A x \in Cubes, m \in Links : downBuffers'[x][m] \in Seq(InDown(f, x, m))
  BY <1>1, LaneTurns
<1>3. \A x \in Cubes : x # c => InSame(f, x)
  BY <1>1, <1>2, SameIn
<1>4. InSame(f, c)
  BY <1>1, TurnUpdate DEF InSame
<1> QED BY <1>2, <1>3, <1>4

(* A packet that no cube has to count is sent on.                          *)
LEMMA HalfMoves ==
  ASSUME IInv, NEW f \in Flows, FlowTree(f), NEW c \in Cubes, NEW n \in Links,
         NEW e \in OnLink(f, neighborCubeID[c][n], PeerLink[c][n]), SendDown(c, n, e),
         ~(e.flow = f /\ e.cmd = "GET"), e \notin Wholes(f),
         e \in Updates(f) => Coming(f, c, Updates(f)) /\ TreeLink(f, c, n)
  PROVE  /\ \A x \in Cubes : OnSame(f, x)
         /\ \A x \in Cubes, m \in Links : link'[x][m] \in Seq(OnLink(f, x, m))
<1>1. TypeOK /\ Packets(f) /\ \A x \in Cubes : InOrderLane(f, x)
  BY DEF IInv, FlowTree
<1>2. PICK d \in Cubes, q \in Links : d = neighborCubeID[c][n] /\ q = PeerLink[c][n]
  BY WireType
<1>3. link' = [link EXCEPT ![d][q] = Append(@, e)] /\ e \in OnLink(f, d, q)
  BY <1>2 DEF SendDown
<1>4. /\ \A x \in Cubes, m \in Links : link'[x][m] \in Seq(OnLink(f, x, m))
      /\ \A x \in Cubes : x # d => OnLane(f, x)' = OnLane(f, x)
  BY <1>1, <1>3, LaneSends
<1>5. \A x \in Cubes : x # d => OnSame(f, x)
  BY <1>1, <1>4, SameOn
<1>6. e \notin Calls(f, d)
  BY DEF Calls
<1>7. e \in Updates(f) => ~Coming(f, d, Calls(f, d)) /\ ~Called(f, d) /\ ~Marked(f, d)
  <2>1. e \in Updates(f) => d # Root[f] /\ Above(f, d) = c
    BY <1>2, Child
  <2> QED BY <2>1, ChildGrows
<1>8. e \in Fence(f, d) => ~Coming(f, d, Calls(f, d))
  BY <1>6, <1>7 DEF Fence
<1>9. /\ \A A : Has(OnLane(f, d), A) => Has(OnLane(f, d)', A)
      /\ \A A : Has(OnLane(f, d)', A) => Has(OnLane(f, d), A) \/ e \in A
      /\ Ends(OnLane(f, d)', Calls(f, d), Fence(f, d))
      /\ Has(InLane(f, d), Calls(f, d)) => ~Has(OnLane(f, d)', Fence(f, d))
  BY <1>1, <1>3, <1>8, SendsAny
<1>10. OnSame(f, d)
  BY <1>6, <1>7, <1>9 DEF OnSame
<1> QED BY <1>4, <1>5, <1>10

(* The packets that requests turn into are where they may be.              *)
LEMMA KeptIn ==
  ASSUME NEW f \in Flows, NEW c \in Cubes, NEW l \in Links, NEW p \in InDown(f, c, l),
         ~(p.flow = f /\ p.cmd = "GET"), NEW q \in Request,
         q.flow = p.flow, q.cmd = p.cmd, q.dest1 = p.dest1, q.dest2 = p.dest2,
         p.flow = f => /\ q \in Updates(f) => p \in Updates(f)
                       /\ q \in Wholes(f) => p \in Wholes(f) /\ q.src = p.src
                       /\ q.dest = p.dest \/ (p \in Wholes(f) /\ q.dest \in {p.dest1, p.dest2})
                       /\ MaxLines = 1 /\ q.half = 0 => q.dest = q.dest1
  PROVE  q \in InDown(f, c, l)
<1>1. ~(q.flow = f /\ q.cmd = "GET")
  OBVIOUS
<1>2. CASE q \notin Updates(f)
  BY <1>1, <1>2 DEF InDown
<1>3. CASE q \in Updates(f)
  <2>1. p.flow = f /\ p \in Updates(f)
    BY <1>3 DEF Updates
  <2>2. l = Lane(f, c) /\ Headed(f, c, p)
    BY <2>1 DEF InDown
  <2>3. OnWay(f, c, q.dest) /\ q.dest \in {q.dest1, q.dest2} /\ {q.dest1, q.dest2} \subseteq OperandCubes
    BY <2>1, <2>2 DEF Headed
  <2>4. q \in Wholes(f) => q.src = Root[f] /\ OnWay(f, c, q.dest1) /\ OnWay(f, c, q.dest2)
    BY <2>1, <2>2 DEF Headed
  <2>5. /\ MaxLines = 1 /\ q.half = 0 => q.dest = q.dest1
        /\ q.cmd = "ADD" => q.dest1 = q.dest2
    BY <2>1, <2>2 DEF Headed
  <2>6. Headed(f, c, q)
    BY <2>3, <2>4, <2>5 DEF Headed
  <2> QED BY <1>1, <2>2, <2>6 DEF InDown
<1> QED BY <1>2, <1>3

LEMMA HeadedOn ==
  ASSUME NEW f \in Flows, NEW c \in Cubes, NEW q \in Request, q \in Updates(f), q \notin Wholes(f),
         q.cmd = "MULT", {q.dest1, q.dest2} \subseteq OperandCubes, q.dest \in {q.dest1, q.dest2},
         OnWay(f, c, q.dest), c # q.dest, NEW n \in Links, n = NextLink[c][q.dest]
  PROVE  /\ TreeLink(f, c, n)
         /\ q \in OnLink(f, neighborCubeID[c][n], PeerLink[c][n])
<1>1. TreeLink(f, c, n) /\ OnWay(f, neighborCubeID[c][n], q.dest)
  BY WayOn
<1>2. q.half # 0 /\ q.cmd # "GET" /\ q \notin Splits(f)
  BY DEF Updates, Wholes, Splits
<1>3. Headed(f, neighborCubeID[c][n], q)
  BY <1>1, <1>2 DEF Headed
<1>4. PeerLink[c][n] = Lane(f, neighborCubeID[c][n])
  BY <1>1 DEF TreeLink
<1> QED BY <1>1, <1>2, <1>3, <1>4 DEF OnLink, InDown

(* A packet that is not of f may be anywhere.                              *)
LEMMA Foreign ==
  ASSUME NEW f, NEW q \in Request, q \notin Updates(f), ~(q.flow = f /\ q.cmd = "GET")
  PROVE  /\ \A c, l : q \in InDown(f, c, l) /\ q \in OnLink(f, c, l)
         /\ q \notin Wholes(f) /\ q \notin Splits(f)
<1>1. q \notin Wholes(f) /\ q \notin Splits(f)
  BY Classes
<1> QED BY <1>1 DEF InDown, OnLink

LEMMA ReadAnswer ==
  ASSUME NEW f, NEW c, NEW p \in Request, p.cmd # "GET", NEW k, NEW b, NEW to
  PROVE  ~IsAnswer(f, OperandRead(c, p, k, b, to))
BY DEF OperandRead, IsAnswer

(* Responses and hosts as they were.                                       *)
LEMMA UpKept ==
  ASSUME NEW f \in Flows, Packets(f), UNCHANGED <<upBuffers, responseQ>>, host'[f] = host[f],
         \A x \in Cubes, m \in Links : link'[x][m] \in Seq(OnLink(f, x, m)),
         \A x \in Cubes, m \in Links : downBuffers'[x][m] \in Seq(InDown(f, x, m)),
         \A x \in Cubes : \A r \in vault'[x] : ~IsAnswer(f, r)
  PROVE  /\ Packets(f)' /\ HostKept(f)
         /\ \A x \in Cubes : Replied(f, x)' <=> Replied(f, x)
<1>1. Packets(f)'
  BY DEF Packets
<1>2. HostKept(f)
  BY DEF HostKept, Answered
<1>3. \A x \in Cubes : Replied(f, x)' <=> Replied(f, x)
  BY DEF Replied
<1> QED BY <1>1, <1>2, <1>3

LEMMA LinkKept ==
  ASSUME NEW f \in Flows, FlowTree(f), link' = link
  PROVE  /\ \A x \in Cubes, m \in Links : link'[x][m] \in Seq(OnLink(f, x, m))
         /\ \A x \in Cubes : OnSame(f, x)
<1>1. \A x \in Cubes : OnLane(f, x)' = OnLane(f, x)
  BY DEF OnLane
<1> QED BY <1>1, SameOn DEF FlowTree, Packets

LEMMA DownKept ==
  ASSUME NEW f \in Flows, FlowTree(f), downBuffers' = downBuffers
  PROVE  /\ \A x \in Cubes, m \in Links : downBuffers'[x][m] \in Seq(InDown(f, x, m))
         /\ \A x \in Cubes : InSame(f, x)
<1>1. \A x \in Cubes : InLane(f, x)' = InLane(f, x)
  BY DEF InLane
<1> QED BY <1>1, SameIn DEF FlowTree, Packets

LEMMA EntriesKept ==
  ASSUME NEW f \in Flows, FlowTree(f), flowTable' = flowTable
  PROVE  \A x \in Cubes : EntrySame(f, x)
BY SameEntry DEF FlowTree

LEMMA VaultKept ==
  ASSUME NEW f \in Flows, TypeOK, Packets(f), NEW c \in Cubes, NEW r, ~IsAnswer(f, r), VaultAccepts(c, r)
  PROVE  \A x \in Cubes : \A a \in vault'[x] : ~IsAnswer(f, a)
<1>1. \A x \in Cubes : vault'[x] = IF x = c THEN vault[x] \cup {r} ELSE vault[x]
  BY DEF VaultAccepts, TypeOK
<1> QED BY <1>1 DEF Packets

(* What an update becomes in its buffer.                                   *)
Turned(f, c, l, p, K) ==
  /\ K \subseteq InDown(f, c, l)
  /\ ~(p.flow = f /\ p.cmd = "GET") /\ \A q \in K : ~(q.flow = f /\ q.cmd = "GET")
  /\ K \cap Updates(f) # {} => p \in Updates(f)
  /\ K \cap Wholes(f) # {} => p \in Wholes(f)
  /\ p \in Wholes(f) /\ K \cap Wholes(f) = {} => flowTable'[c][f].valid
  /\ K \cap Splits(f) # {} => flowTable'[c][f].valid

LEMMA TurnedMoves ==
  ASSUME IInv, NEW f \in Flows, FlowTree(f), NEW c \in Cubes, NEW l \in Links,
         NEW i \in DOMAIN downBuffers[c][l], NEW p, p = downBuffers[c][l][i],
         NEW K, Turned(f, c, l, p, K), Becomes(c, l, i, K)
  PROVE  /\ \A x \in Cubes : InSame(f, x)
         /\ \A x \in Cubes, m \in Links : downBuffers'[x][m] \in Seq(InDown(f, x, m))
BY UpdateMoves DEF Turned

LEMMA VaultTree ==
  ASSUME IInv, NEW f \in Flows, FlowTree(f), NEW c \in Cubes, NEW l \in Links,
         NEW i \in DOMAIN downBuffers[c][l], NEW p, p = downBuffers[c][l][i],
         NEW K, Turned(f, c, l, p, K), NEW r, ~IsAnswer(f, r), ToVault(c, l, i, K, r),
         UNCHANGED host, \A x \in Cubes : EntrySame(f, x)
  PROVE  FlowTree(f)'
<1>1. TypeOK /\ Packets(f) /\ UNCHANGED <<link, upBuffers, responseQ>> /\ VaultAccepts(c, r) /\ Becomes(c, l, i, K)
  BY DEF IInv, FlowTree, ToVault
<1>2. /\ \A x \in Cubes : InSame(f, x)
      /\ \A x \in Cubes, m \in Links : downBuffers'[x][m] \in Seq(InDown(f, x, m))
  BY <1>1, TurnedMoves
<1>3. /\ \A x \in Cubes : OnSame(f, x)
      /\ \A x \in Cubes, m \in Links : link'[x][m] \in Seq(OnLink(f, x, m))
  BY <1>1, LinkKept
<1>4. \A x \in Cubes : \A a \in vault'[x] : ~IsAnswer(f, a)
  BY <1>1, VaultKept
<1>5. host'[f] = host[f]
  OBVIOUS
<1>6. /\ Packets(f)' /\ HostKept(f)
      /\ \A x \in Cubes : Replied(f, x)' <=> Replied(f, x)
  BY <1>1, <1>2, <1>3, <1>4, <1>5, UpKept
<1> QED BY <1>2, <1>3, <1>6, TreeFrame

LEMMA LinkTree ==
  ASSUME IInv, NEW f \in Flows, FlowTree(f), NEW c \in Cubes, NEW l \in Links,
         NEW i \in DOMAIN downBuffers[c][l], NEW p, p = downBuffers[c][l][i],
         NEW K, Turned(f, c, l, p, K), NEW n \in Links,
         NEW e \in OnLink(f, neighborCubeID[c][n], PeerLink[c][n]), ToLink(c, l, i, K, n, e),
         ~(e.flow = f /\ e.cmd = "GET"), e \notin Wholes(f),
         e \in Updates(f) => Coming(f, c, Updates(f)) /\ TreeLink(f, c, n),
         UNCHANGED host, \A x \in Cubes : EntrySame(f, x)
  PROVE  FlowTree(f)'
<1>1. /\ TypeOK /\ Packets(f) /\ UNCHANGED <<vault, upBuffers, responseQ>> /\ SendDown(c, n, e)
      /\ Becomes(c, l, i, K)
  BY DEF IInv, FlowTree, ToLink
<1>2. /\ \A x \in Cubes : InSame(f, x)
      /\ \A x \in Cubes, m \in Links : downBuffers'[x][m] \in Seq(InDown(f, x, m))
  BY <1>1, TurnedMoves
<1>3. /\ \A x \in Cubes : OnSame(f, x)
      /\ \A x \in Cubes, m \in Links : link'[x][m] \in Seq(OnLink(f, x, m))
  BY <1>1, HalfMoves
<1>4. \A x \in Cubes : \A a \in vault'[x] : ~IsAnswer(f, a)
  BY <1>1 DEF Packets
<1>5. host'[f] = host[f]
  OBVIOUS
<1>6. /\ Packets(f)' /\ HostKept(f)
      /\ \A x \in Cubes : Replied(f, x)' <=> Replied(f, x)
  BY <1>1, <1>2, <1>3, <1>4, <1>5, UpKept
<1> QED BY <1>2, <1>3, <1>6, TreeFrame

LEMMA NextKeeps ==
  ASSUME NEW p \in Request, p.lines # 1
  PROVE  /\ NextOf(p).dest = p.dest /\ NextOf(p).dest1 = p.dest1 /\ NextOf(p).dest2 = p.dest2
         /\ NextOf(p).src = p.src
BY DEF NextOf, Request

(* The rest of an update that covers more lines.                           *)
LEMMA TurnedRest ==
  ASSUME NEW f \in Flows, NEW c \in Cubes, NEW l \in Links, NEW p \in Request,
         p \in InDown(f, c, l), p.cmd \in {"ADD", "MULT"},
         p \in Wholes(f) => flowTable'[c][f].valid
  PROVE  Turned(f, c, l, p, Rest(p))
<1>1. CASE p.lines = 1
  BY <1>1 DEF Turned, Rest
<1>2. CASE p.lines # 1
  <2>1. PICK q : q = NextOf(p)
    OBVIOUS
  <2>2. /\ q \in Request /\ MaxLines # 1 /\ q.half = 0 /\ q.flow = p.flow /\ q.cmd = p.cmd
        /\ q.dest = p.dest /\ q.dest1 = p.dest1 /\ q.dest2 = p.dest2 /\ q.src = p.src
    BY <1>2, <2>1, NextFields, NextKeeps
  <2>3. p.lines > 1
    BY <1>2 DEF Request
  <2>4. /\ p.flow = f => p \in Updates(f) /\ p \in Wholes(f)
        /\ p.flow # f => q \notin Updates(f) /\ q \notin Wholes(f)
    BY <2>2, <2>3 DEF Updates, Wholes
  <2>5. q \in InDown(f, c, l)
    BY <2>2, <2>4, KeptIn
  <2>6. q \notin Splits(f)
    BY <2>2 DEF Splits
  <2>7. Rest(p) = {q}
    BY <1>2, <2>1 DEF Rest
  <2> QED BY <2>2, <2>4, <2>5, <2>6, <2>7 DEF Turned
<1> QED BY <1>1, <1>2

(* A split MULT asks for its other operand.                                *)
LEMMA TurnedOther ==
  ASSUME NEW f \in Flows, NEW c \in Cubes, NEW l \in Links, NEW p \in Request,
         p \in InDown(f, c, l), p.cmd = "MULT", p.half = 0, NEW k \in 1..2, NEW b \in Bufs,
         p.flow = f => flowTable'[c][f].valid
  PROVE  Turned(f, c, l, p, {OtherHalf(c, p, k, b)})
<1>1. PICK q : q = OtherHalf(c, p, k, b)
  OBVIOUS
<1>2. /\ q \in Request /\ q.half = k /\ q.flow = p.flow /\ q.cmd = p.cmd
      /\ q.lines = p.lines /\ q.src = (IF p.lines = 1 THEN c ELSE p.src)
      /\ q.dest1 = p.dest1 /\ q.dest2 = p.dest2
      /\ q.dest = IF k = 1 THEN p.dest1 ELSE p.dest2
  BY <1>1, OtherFields
<1>3. /\ p.flow = f => p \in Updates(f) /\ p \in Wholes(f)
      /\ p.flow # f => q \notin Updates(f) /\ q \notin Wholes(f) /\ q \notin Splits(f) /\ p \notin Wholes(f)
  BY <1>2 DEF Updates, Wholes, Splits
<1>4. q \in Wholes(f) => q.src = p.src
  BY <1>2 DEF Wholes, Request
<1>5. q.half # 0 /\ q.dest \in {p.dest1, p.dest2}
  BY <1>2
<1>6. q \in InDown(f, c, l)
  BY <1>2, <1>3, <1>4, <1>5, KeptIn
<1> QED BY <1>1, <1>2, <1>3, <1>6 DEF Turned

LEMMA TurnedForeign ==
  ASSUME NEW f \in Flows, NEW c \in Cubes, NEW l \in Links, NEW p \in Request,
         p \notin Wholes(f), ~(p.flow = f /\ p.cmd = "GET")
  PROVE  Turned(f, c, l, p, {})
BY DEF Turned

(* The packet of a request step.                                           *)
LEMMA RequestAt ==
  ASSUME FInv, NEW f \in Flows, FlowTree(f), NEW c \in Cubes, NEW l \in Links,
         NEW i \in DOMAIN downBuffers[c][l], NEW p, p = downBuffers[c][l][i]
  PROVE  /\ IInv /\ TypeOK /\ p \in Request /\ p \in GoodRequest /\ p \in InDown(f, c, l)
         /\ p.cmd = "ADD" => p.half = 0
<1>1. IInv /\ TypeOK /\ PacketsGood
  BY DEF FInv, IInv
<1>2. p \in Request /\ p \in GoodRequest
  BY <1>1, BufferedRequest DEF PacketsGood, RequestsGood, TypeOK
<1>3. p \in InDown(f, c, l)
  BY InLaneHas DEF FlowTree
<1> QED BY <1>1, <1>2, <1>3 DEF GoodRequest

LEMMA AddLocalTree ==
  ASSUME FInv, NEW f \in Flows, FlowTree(f), NEW c \in Cubes, NEW l \in Links,
         NEW i \in DOMAIN downBuffers[c][l], NEW p, p = downBuffers[c][l][i],
         AddLocal(c, l, i, p)
  PROVE  FlowTree(f)'
<1>1. /\ IInv /\ TypeOK /\ p \in Request /\ p \in InDown(f, c, l) /\ p.cmd = "ADD" /\ p.half = 0
      /\ CountHere(c, p) /\ host' = host
  BY RequestAt DEF AddLocal
<1>2. PICK b \in Bufs : ToVault(c, l, i, Rest(p), OperandRead(c, p, 1, b, c))
  BY <1>1, AddLocalShape
<1>3. /\ \A x \in Cubes : EntrySame(f, x)
      /\ p.flow = f => flowTable'[c][f].valid
  BY <1>1, CountHereSame
<1>4. p \in Wholes(f) => p.flow = f
  BY DEF Wholes
<1>5. Turned(f, c, l, p, Rest(p))
  BY <1>1, <1>3, <1>4, TurnedRest
<1>6. ~IsAnswer(f, OperandRead(c, p, 1, b, c))
  BY <1>1, ReadAnswer
<1> QED BY <1>1, <1>2, <1>3, <1>5, <1>6, VaultTree

LEMMA MultLocalTree ==
  ASSUME FInv, NEW f \in Flows, FlowTree(f), NEW c \in Cubes, NEW l \in Links,
         NEW i \in DOMAIN downBuffers[c][l], NEW p, p = downBuffers[c][l][i],
         MultLocal(c, l, i, p)
  PROVE  FlowTree(f)'
<1>1. /\ IInv /\ TypeOK /\ p \in Request /\ p \in InDown(f, c, l) /\ p.cmd = "MULT" /\ p.half = 0
      /\ CountHere(c, p) /\ host' = host
  BY RequestAt DEF MultLocal
<1>2. PICK b \in Bufs, k \in 1..2 :
        ToVault(c, l, i, {OtherHalf(c, p, 3 - k, b)}, OperandRead(c, p, k, b, c))
  BY <1>1, MultLocalShape
<1>3. /\ \A x \in Cubes : EntrySame(f, x)
      /\ p.flow = f => flowTable'[c][f].valid
  BY <1>1, CountHereSame
<1>4. 3 - k \in 1..2
  OBVIOUS
<1>5. Turned(f, c, l, p, {OtherHalf(c, p, 3 - k, b)})
  BY <1>1, <1>3, <1>4, TurnedOther
<1>6. ~IsAnswer(f, OperandRead(c, p, k, b, c))
  BY <1>1, ReadAnswer
<1> QED BY <1>1, <1>2, <1>3, <1>5, <1>6, VaultTree

LEMMA HalfSplit ==
  ASSUME FInv, NEW f \in Flows, FlowTree(f), NEW c \in Cubes, NEW l \in Links,
         NEW i \in DOMAIN downBuffers[c][l], NEW p, p = downBuffers[c][l][i],
         p.half # 0, p \in Wholes(f)
  PROVE  flowTable[c][f].valid
<1>1. p \in Splits(f) /\ p \in Updates(f)
  BY DEF Splits, Wholes, Updates
<1>2. Has(InLane(f, c), Splits(f))
  BY <1>1, InLaneHas DEF FlowTree
<1> QED BY <1>2 DEF FlowTree, Entry

LEMMA MultHalfLocalTree ==
  ASSUME FInv, NEW f \in Flows, FlowTree(f), NEW c \in Cubes, NEW l \in Links,
         NEW i \in DOMAIN downBuffers[c][l], NEW p, p = downBuffers[c][l][i],
         MultHalfLocal(c, l, i, p)
  PROVE  FlowTree(f)'
<1>1. /\ IInv /\ TypeOK /\ p \in Request /\ p \in InDown(f, c, l) /\ p.cmd = "MULT" /\ p.half # 0
      /\ flowTable' = flowTable /\ host' = host
  BY RequestAt DEF MultHalfLocal
<1>2. ToVault(c, l, i, Rest(p), OperandRead(c, p, p.half, p.buf, Owner(c, p)))
  BY <1>1, MultHalfLocalShape
<1>3. \A x \in Cubes : EntrySame(f, x)
  BY <1>1, EntriesKept
<1>4. p \in Wholes(f) => flowTable'[c][f].valid
  BY <1>1, HalfSplit
<1>5. Turned(f, c, l, p, Rest(p))
  BY <1>1, <1>4, TurnedRest
<1>6. ~IsAnswer(f, OperandRead(c, p, p.half, p.buf, Owner(c, p)))
  BY <1>1, ReadAnswer
<1> QED BY <1>1, <1>2, <1>3, <1>5, <1>6, VaultTree

LEMMA ReadLocalTree ==
  ASSUME FInv, NEW f \in Flows, FlowTree(f), NEW c \in Cubes, NEW l \in Links,
         NEW i \in DOMAIN downBuffers[c][l], NEW p, p = downBuffers[c][l][i],
         ReadLocal(c, l, i, p)
  PROVE  FlowTree(f)'
<1>1. /\ IInv /\ TypeOK /\ p \in Request /\ p.cmd = "RD"
      /\ flowTable' = flowTable /\ host' = host
  BY RequestAt DEF ReadLocal
<1>2. ToVault(c, l, i, {}, OperandRead(c, p, 0, NoBuf, p.src))
  BY ReadLocalShape
<1>3. \A x \in Cubes : EntrySame(f, x)
  BY <1>1, EntriesKept
<1>4. Turned(f, c, l, p, {})
  BY <1>1, TurnedForeign DEF Wholes
<1>5. ~IsAnswer(f, OperandRead(c, p, 0, NoBuf, p.src))
  BY <1>1, ReadAnswer
<1> QED BY <1>1, <1>2, <1>3, <1>4, <1>5, VaultTree

LEMMA MultSplitTree ==
  ASSUME FInv, NEW f \in Flows, FlowTree(f), NEW c \in Cubes, NEW l \in Links,
         NEW i \in DOMAIN downBuffers[c][l], NEW p, p = downBuffers[c][l][i],
         MultSplit(c, l, i, p)
  PROVE  FlowTree(f)'
<1>1. /\ IInv /\ TypeOK /\ p \in Request /\ p \in InDown(f, c, l) /\ p.cmd = "MULT" /\ p.half = 0
      /\ CountHere(c, p) /\ host' = host /\ ~IsHere(c, p)
  BY RequestAt DEF MultSplit
<1>2. PICK b \in Bufs, k \in 1..2, n \in Links :
        /\ n = NextLink[c][IF k = 1 THEN p.dest1 ELSE p.dest2]
        /\ ToLink(c, l, i, {OtherHalf(c, p, 3 - k, b)}, n, HalfOf(c, p, k, b))
  BY <1>1, MultSplitShape, ZenonT(60)
<1>3. /\ \A x \in Cubes : EntrySame(f, x)
      /\ p.flow = f => flowTable'[c][f].valid
  BY <1>1, CountHereSame
<1>4. 3 - k \in 1..2
  OBVIOUS
<1>5. Turned(f, c, l, p, {OtherHalf(c, p, 3 - k, b)})
  BY <1>1, <1>3, <1>4, TurnedOther
<1>6. PICK e : e = HalfOf(c, p, k, b)
  OBVIOUS
<1>7. /\ e \in Request /\ e.half = k /\ e.flow = p.flow /\ e.cmd = "MULT"
      /\ e.lines = 1 /\ e.dest1 = p.dest1 /\ e.dest2 = p.dest2
      /\ e.dest = IF k = 1 THEN p.dest ELSE p.dest2
  BY <1>1, <1>6, HalfFields
<1>8. e \notin Wholes(f) /\ ~(e.flow = f /\ e.cmd = "GET")
  BY <1>7 DEF Wholes
<1>9. CASE e \notin Updates(f)
  <2>1. e \in OnLink(f, neighborCubeID[c][n], PeerLink[c][n])
    BY <1>7, <1>8, <1>9, Foreign
  <2> QED BY <1>1, <1>2, <1>3, <1>5, <1>6, <1>8, <1>9, <2>1, LinkTree
<1>10. CASE e \in Updates(f)
  <2>1. e.flow = f /\ MaxLines = 1
    BY <1>7, <1>10 DEF Updates
  <2>2. p \in Updates(f) /\ p \in Wholes(f)
    BY <1>1, <1>7, <2>1 DEF Updates, Wholes
  <2>3. Headed(f, c, p) /\ Coming(f, c, Updates(f))
    BY <1>1, <2>2, InLaneHas DEF InDown, FlowTree
  <2>4. /\ {e.dest1, e.dest2} \subseteq OperandCubes /\ e.dest \in {e.dest1, e.dest2}
        /\ OnWay(f, c, e.dest) /\ n = NextLink[c][e.dest] /\ c # e.dest
    <3>1. c # p.dest1 /\ c # p.dest2
      BY <1>1 DEF IsHere
    <3>2. e.dest = IF k = 1 THEN p.dest1 ELSE p.dest2
      BY <1>1, <1>7, <2>1, <2>3 DEF Headed
    <3>3. /\ {p.dest1, p.dest2} \subseteq OperandCubes
          /\ OnWay(f, c, p.dest1) /\ OnWay(f, c, p.dest2)
      BY <2>2, <2>3 DEF Headed
    <3> QED BY <1>2, <1>7, <3>1, <3>2, <3>3
  <2>5. TreeLink(f, c, n) /\ e \in OnLink(f, neighborCubeID[c][n], PeerLink[c][n])
    BY <1>7, <1>8, <1>10, <2>4, HeadedOn
  <2> QED BY <1>1, <1>2, <1>3, <1>5, <1>6, <1>8, <2>3, <2>5, LinkTree
<1> QED BY <1>9, <1>10

LEMMA MultHalfForwardTree ==
  ASSUME FInv, NEW f \in Flows, FlowTree(f), NEW c \in Cubes, NEW l \in Links,
         NEW i \in DOMAIN downBuffers[c][l], NEW p, p = downBuffers[c][l][i],
         MultHalfForward(c, l, i, p)
  PROVE  FlowTree(f)'
<1>1. /\ IInv /\ TypeOK /\ p \in Request /\ p \in InDown(f, c, l) /\ p.cmd = "MULT" /\ p.half # 0
      /\ flowTable' = flowTable /\ host' = host /\ c # p.dest
  BY RequestAt DEF MultHalfForward, IsHere
<1>2. PICK n \in Links : n = NextLink[c][p.dest] /\ ToLink(c, l, i, Rest(p), n, LineOf(c, p))
  BY <1>1, MultHalfForwardShape
<1>3. \A x \in Cubes : EntrySame(f, x)
  BY <1>1, EntriesKept
<1>4. p \in Wholes(f) => flowTable'[c][f].valid
  BY <1>1, HalfSplit
<1>5. Turned(f, c, l, p, Rest(p))
  BY <1>1, <1>4, TurnedRest
<1>6. PICK e : e = LineOf(c, p)
  OBVIOUS
<1>7. /\ e \in Request /\ e.half = p.half /\ e.flow = p.flow /\ e.cmd = "MULT" /\ e.lines = 1
  BY <1>1, <1>6, LineFields
<1>8. e \notin Wholes(f) /\ ~(e.flow = f /\ e.cmd = "GET")
  BY <1>1, <1>7 DEF Wholes
<1>9. CASE e \notin Updates(f)
  <2>1. e \in OnLink(f, neighborCubeID[c][n], PeerLink[c][n])
    BY <1>7, <1>8, <1>9, Foreign
  <2> QED BY <1>1, <1>2, <1>3, <1>5, <1>6, <1>8, <1>9, <2>1, LinkTree
<1>10. CASE e \in Updates(f)
  <2>1. e.flow = f /\ MaxLines = 1
    BY <1>1, <1>7, <1>10 DEF Updates
  <2>2. p.lines = 1 /\ e = p
    BY <1>1, <1>6, <2>1 DEF Request, LineOf
  <2>3. p \in Updates(f)
    BY <1>10, <2>2
  <2>4. Headed(f, c, p) /\ Coming(f, c, Updates(f))
    BY <1>1, <2>3, InLaneHas DEF InDown, FlowTree
  <2>5. /\ {e.dest1, e.dest2} \subseteq OperandCubes /\ e.dest \in {e.dest1, e.dest2}
        /\ OnWay(f, c, e.dest) /\ n = NextLink[c][e.dest] /\ c # e.dest
    BY <1>1, <1>2, <2>2, <2>4 DEF Headed
  <2>6. TreeLink(f, c, n) /\ e \in OnLink(f, neighborCubeID[c][n], PeerLink[c][n])
    BY <1>7, <1>8, <1>10, <2>5, HeadedOn
  <2> QED BY <1>1, <1>2, <1>3, <1>5, <1>6, <1>8, <2>4, <2>6, LinkTree
<1> QED BY <1>9, <1>10

(* Counting an update that is passed on.                                   *)
LEMMA CountChildEntry ==
  ASSUME IInv, NEW f \in Flows, FlowTree(f), NEW c \in Cubes, NEW l \in Links,
         NEW i \in DOMAIN downBuffers[c][l], NEW p \in Request, p = downBuffers[c][l][i],
         p.cmd \in {"ADD", "MULT"}, p.half = 0, NEW n \in Links, CountChild(c, p, n)
  PROVE  /\ \A x \in Cubes : x # c \/ p.flow # f => flowTable'[x][f] = flowTable[x][f]
         /\ p.flow = f => /\ flowTable'[c][f].valid /\ flowTable'[c][f].parent = Above(f, c)
                          /\ flowTable'[c][f].g_flag = flowTable[c][f].g_flag
                          /\ flowTable'[c][f].children_gflag = flowTable[c][f].children_gflag
                          /\ \A m \in Links : flowTable'[c][f].children_count[m] =
                               IF m = n THEN flowTable[c][f].children_count[m] + 1
                               ELSE flowTable[c][f].children_count[m]
<1>1. PICK e : e = Counted(c, p)
  OBVIOUS
<1>2. PICK o : o = [e EXCEPT !.children_count[n] = @ + 1]
  OBVIOUS
<1>3. /\ flowTable \in [Cubes -> [Flows -> FlowEntry]] /\ p.flow \in Flows
      /\ flowTable' = [flowTable EXCEPT ![c][p.flow] = o]
  BY <1>1, <1>2, CountedFields DEF IInv, TypeOK, CountChild
<1>4. \A x \in Cubes : x # c \/ p.flow # f => flowTable'[x][f] = flowTable[x][f]
  BY <1>3
<1>5. ASSUME p.flow = f
      PROVE  /\ flowTable'[c][f].valid /\ flowTable'[c][f].parent = Above(f, c)
             /\ flowTable'[c][f].g_flag = flowTable[c][f].g_flag
             /\ flowTable'[c][f].children_gflag = flowTable[c][f].children_gflag
             /\ \A m \in Links : flowTable'[c][f].children_count[m] =
                  IF m = n THEN flowTable[c][f].children_count[m] + 1
                  ELSE flowTable[c][f].children_count[m]
  <2>1. flowTable'[c][f] = o
    BY <1>3, <1>5
  <2>2. p \in Wholes(f) /\ p \in Updates(f)
    BY <1>5 DEF Wholes, Updates
  <2>3. p.src = Root[f]
    BY <2>2, InLaneHas DEF FlowTree, InDown, Headed
  <2>4. /\ e \in FlowEntry /\ e.valid
        /\ e.parent = (IF flowTable[c][f].valid THEN flowTable[c][f].parent
                       ELSE neighborCubeID[c][ParentLink[c][p.src]])
        /\ e.g_flag = flowTable[c][f].g_flag
        /\ e.children_gflag = flowTable[c][f].children_gflag
        /\ e.children_count = flowTable[c][f].children_count
    BY <1>1, <1>5, CountedFields
  <2>5. e.parent = Above(f, c)
    BY <2>3, <2>4 DEF FlowTree, Entry, Above, Lane
  <2>6. /\ o.valid = e.valid /\ o.parent = e.parent /\ o.g_flag = e.g_flag
        /\ o.children_gflag = e.children_gflag
        /\ o.children_count = [e.children_count EXCEPT ![n] = @ + 1]
        /\ e.children_count \in [Links -> Nat]
    BY <1>2, <2>4 DEF FlowEntry
  <2>7. \A m \in Links : o.children_count[m] =
          IF m = n THEN e.children_count[m] + 1 ELSE e.children_count[m]
    BY <2>6
  <2>8. \A m \in Links : flowTable'[c][f].children_count[m] =
          IF m = n THEN flowTable[c][f].children_count[m] + 1
          ELSE flowTable[c][f].children_count[m]
    BY <2>1, <2>4, <2>7
  <2>9. /\ flowTable'[c][f].valid /\ flowTable'[c][f].parent = Above(f, c)
        /\ flowTable'[c][f].g_flag = flowTable[c][f].g_flag
        /\ flowTable'[c][f].children_gflag = flowTable[c][f].children_gflag
    BY <2>1, <2>4, <2>5, <2>6, Zenon
  <2> QED BY <2>8, <2>9
<1> QED BY <1>4, <1>5

-----------------------------------------------------------------------------
(* Steps of requests of other flows.                                       *)

LEMMA ForeignForwardTree ==
  ASSUME FInv, NEW f \in Flows, FlowTree(f), NEW c \in Cubes, NEW l \in Links,
         NEW i \in DOMAIN downBuffers[c][l], NEW p, p = downBuffers[c][l][i],
         AddForward(c, l, i, p) \/ MultForward(c, l, i, p) \/ Forward(c, l, i, p),
         p.flow # f \/ p.cmd = "RD"
  PROVE  FlowTree(f)'
<1>1. /\ IInv /\ TypeOK /\ p \in Request /\ p \in InDown(f, c, l) /\ (p.cmd = "ADD" => p.half = 0)
      /\ host' = host
  BY RequestAt DEF AddForward, MultForward, Forward
<1>2. p.flow # f /\ p \notin Updates(f) /\ ~(p.flow = f /\ p.cmd = "GET")
  BY <1>1, ARTAssumption DEF Request, Updates
<1>3. PICK n \in Links : n = NextLink[c][p.dest] /\ ToLink(c, l, i, {}, n, p)
  BY <1>1, ForwardShape
<1>4. p \in OnLink(f, neighborCubeID[c][n], PeerLink[c][n]) /\ p \notin Wholes(f)
  BY <1>1, <1>2, Foreign
<1>5. \A x \in Cubes : EntrySame(f, x)
  <2>1. CASE Forward(c, l, i, p)
    BY <2>1, EntriesKept DEF Forward
  <2>2. CASE AddForward(c, l, i, p) \/ MultForward(c, l, i, p)
    <3>1. p.cmd \in {"ADD", "MULT"} /\ p.half = 0 /\ \E m \in Links : CountChild(c, p, m)
      BY <1>1, <2>2, RouteType DEF AddForward, MultForward, Request
    <3>2. \A x \in Cubes : flowTable'[x][f] = flowTable[x][f]
      BY <1>1, <1>2, <3>1, CountChildEntry
    <3> QED BY <3>2, SameEntry DEF FlowTree
  <2> QED BY <2>1, <2>2
<1>6. Turned(f, c, l, p, {})
  BY <1>1, <1>2, <1>4, TurnedForeign
<1> QED BY <1>1, <1>2, <1>3, <1>4, <1>5, <1>6, LinkTree

LEMMA ForeignMarkTree ==
  ASSUME FInv, NEW f \in Flows, FlowTree(f), NEW c \in Cubes, NEW l \in Links,
         NEW i \in DOMAIN downBuffers[c][l], NEW p, p = downBuffers[c][l][i],
         GetMark(c, l, i, p), p.flow # f
  PROVE  FlowTree(f)'
<1>1. /\ IInv /\ TypeOK /\ p \in Request /\ host'[f] = host[f] /\ Packets(f)
  BY RequestAt DEF GetMark, FlowTree
<1>2. Becomes(c, l, i, {}) /\ UNCHANGED <<link, vault, upBuffers, responseQ>>
  BY GetMarkShape
<1>3. p \notin Wholes(f) /\ ~(p.flow = f /\ p.cmd = "GET")
  BY DEF Wholes
<1>4. Turned(f, c, l, p, {})
  BY <1>1, <1>3, TurnedForeign
<1>5. \A x \in Cubes : EntrySame(f, x)
  <2>1. flowTable' = [flowTable EXCEPT ![c][p.flow].g_flag = TRUE]
    BY DEF GetMark
  <2>2. \A x \in Cubes : flowTable'[x][f] = flowTable[x][f]
    BY <1>1, <2>1 DEF TypeOK
  <2> QED BY <2>2, SameEntry DEF FlowTree
<1>6. /\ \A x \in Cubes : InSame(f, x)
      /\ \A x \in Cubes, m \in Links : downBuffers'[x][m] \in Seq(InDown(f, x, m))
  BY <1>1, <1>2, <1>4, TurnedMoves
<1>7. /\ \A x \in Cubes : OnSame(f, x)
      /\ \A x \in Cubes, m \in Links : link'[x][m] \in Seq(OnLink(f, x, m))
  BY <1>2, LinkKept
<1>8. \A x \in Cubes : \A a \in vault'[x] : ~IsAnswer(f, a)
  BY <1>1, <1>2 DEF Packets
<1>9. /\ Packets(f)' /\ HostKept(f)
      /\ \A x \in Cubes : Replied(f, x)' <=> Replied(f, x)
  BY <1>1, <1>2, <1>6, <1>7, <1>8, UpKept
<1> QED BY <1>5, <1>6, <1>7, <1>9, TreeFrame

LEMMA LaneGets ==
  ASSUME TypeOK, NEW f \in Flows, Packets(f), NEW c \in Cubes, NEW l \in Links,
         NEW e \in InDown(f, c, l), downBuffers' = [downBuffers EXCEPT ![c][l] = Append(@, e)]
  PROVE  /\ \A x \in Cubes, m \in Links : downBuffers'[x][m] \in Seq(InDown(f, x, m))
         /\ \A x \in Cubes : x # c => InLane(f, x)' = InLane(f, x)
         /\ l # Lane(f, c) => InLane(f, c)' = InLane(f, c)
         /\ l = Lane(f, c) => /\ InLane(f, c) \in Seq(InDown(f, c, l))
                              /\ InLane(f, c)' = Append(InLane(f, c), e)
<1>1. /\ downBuffers \in [Cubes -> [Links -> Seq(Request)]]
      /\ downBuffers[c][l] \in Seq(InDown(f, c, l))
  BY DEF TypeOK, Packets
<1>2. /\ \A x \in Cubes, m \in Links : ~(x = c /\ m = l) => downBuffers'[x][m] = downBuffers[x][m]
      /\ downBuffers'[c][l] = Append(downBuffers[c][l], e)
  BY <1>1
<1>3. Append(downBuffers[c][l], e) \in Seq(InDown(f, c, l))
  BY <1>1, AppendType
<1>4. \A x \in Cubes, m \in Links : downBuffers'[x][m] \in Seq(InDown(f, x, m))
  <2> SUFFICES ASSUME NEW x \in Cubes, NEW m \in Links
               PROVE  downBuffers'[x][m] \in Seq(InDown(f, x, m))
    OBVIOUS
  <2>1. CASE x = c /\ m = l
    BY <1>2, <1>3, <2>1
  <2>2. CASE ~(x = c /\ m = l)
    <3>1. downBuffers'[x][m] = downBuffers[x][m] /\ downBuffers[x][m] \in Seq(InDown(f, x, m))
      BY <1>2, <2>2 DEF Packets
    <3> QED BY <3>1
  <2> QED BY <2>1, <2>2
<1>5. \A x \in Cubes : Lane(f, x) \in Links
  BY LaneType
<1> QED BY <1>1, <1>2, <1>4, <1>5, PrimedLane DEF InLane

LEMMA ForeignReplicateTree ==
  ASSUME FInv, NEW f \in Flows, FlowTree(f), NEW c \in Cubes, NEW l \in Links,
         NEW i \in DOMAIN downBuffers[c][l], NEW p, p = downBuffers[c][l][i],
         GetReplicate(c, l, i, p), p.flow # f
  PROVE  FlowTree(f)'
<1>1. /\ IInv /\ TypeOK /\ p \in Request /\ host'[f] = host[f] /\ Packets(f)
  BY RequestAt DEF GetReplicate, FlowTree
<1>2. PICK e \in Request :
        /\ downBuffers' = [downBuffers EXCEPT ![c][l] = Append(@, e)]
        /\ e.flow = p.flow /\ UNCHANGED <<link, vault, upBuffers, responseQ>>
  BY <1>1, GetReplicateShape
<1>3. /\ e \in InDown(f, c, l) /\ e \notin Updates(f)
      /\ e \notin Wholes(f) /\ e \notin Splits(f) /\ \A x : e \notin Calls(f, x) /\ e \notin Fence(f, x)
  BY <1>2, Foreign DEF Updates, Calls, Fence
<1>4. \A x \in Cubes : EntrySame(f, x)
  <2>1. PICK n \in Links : flowTable' = [flowTable EXCEPT ![c][p.flow].children_gflag[n] = TRUE]
    BY DEF GetReplicate, PendingChildren
  <2>2. \A x \in Cubes : flowTable'[x][f] = flowTable[x][f]
    BY <1>1, <2>1 DEF TypeOK
  <2> QED BY <2>2, SameEntry DEF FlowTree
<1>5. /\ \A x \in Cubes, m \in Links : downBuffers'[x][m] \in Seq(InDown(f, x, m))
      /\ \A x \in Cubes : x # c => InLane(f, x)' = InLane(f, x)
      /\ l # Lane(f, c) => InLane(f, c)' = InLane(f, c)
      /\ l = Lane(f, c) => /\ InLane(f, c) \in Seq(InDown(f, c, l))
                           /\ InLane(f, c)' = Append(InLane(f, c), e)
  BY <1>1, <1>2, <1>3, LaneGets
<1>6. \A x \in Cubes : InOrderLane(f, x)
  BY DEF FlowTree
<1>7. \A x \in Cubes : x # c \/ l # Lane(f, c) => InSame(f, x)
  BY <1>5, <1>6, SameIn
<1>8. ASSUME l = Lane(f, c) PROVE InSame(f, c)
  <2>1. PICK s : s = InLane(f, c)
    OBVIOUS
  <2>2. PICK t : t = InLane(f, c)'
    OBVIOUS
  <2>3. s \in Seq(InDown(f, c, l)) /\ t = Append(s, e)
    BY <1>5, <1>8, <2>1, <2>2
  <2>4. \A A : e \notin A => (Has(t, A) <=> Has(s, A))
    BY <1>3, <2>3, SeqAppend
  <2>5. \A A, B : Ends(s, A, B) /\ e \notin B => Ends(t, A, B)
    BY <1>3, <2>3, SeqAppend
  <2>6. /\ Ends(s, Calls(f, c), Fence(f, c))
        /\ \A x \in Cubes : Ends(s, Calls(f, x), Calls(f, x))
    BY <1>6, <2>1 DEF InOrderLane
  <2> QED BY <1>3, <2>1, <2>2, <2>4, <2>5, <2>6 DEF InSame
<1>9. \A x \in Cubes : InSame(f, x)
  BY <1>7, <1>8
<1>10. /\ \A x \in Cubes : OnSame(f, x)
       /\ \A x \in Cubes, m \in Links : link'[x][m] \in Seq(OnLink(f, x, m))
  BY <1>2, LinkKept
<1>11. \A x \in Cubes : \A a \in vault'[x] : ~IsAnswer(f, a)
  BY <1>1, <1>2 DEF Packets
<1>12. /\ Packets(f)' /\ HostKept(f)
       /\ \A x \in Cubes : Replied(f, x)' <=> Replied(f, x)
  BY <1>1, <1>2, <1>5, <1>10, <1>11, UpKept
<1> QED BY <1>4, <1>9, <1>10, <1>12, TreeFrame

-----------------------------------------------------------------------------
(* An update goes on to a child.                                           *)

LEMMA NodeCount ==
  ASSUME NEW f \in Flows, NEW c \in Cubes, InOrderLane(f, c), Entry(f, c),
         InSame(f, c), OnSame(f, c), ~Marked(f, c),
         flowTable[c][f].valid => flowTable'[c][f].valid,
         flowTable'[c][f].valid => flowTable'[c][f].parent = Above(f, c) /\ Live(f, c),
         flowTable'[c][f].g_flag <=> flowTable[c][f].g_flag,
         \A n \in Links : flowTable'[c][f].children_gflag[n] <=> flowTable[c][f].children_gflag[n],
         \A n \in Links : flowTable'[c][f].children_count[n] > 0 => TreeLink(f, c, n)
  PROVE  InOrderLane(f, c)' /\ Entry(f, c)' /\ NodeKept(f, c)
<1>1. InOrderLane(f, c)'
  BY PrimedOrder DEF InSame, OnSame
<1>2. Entry(f, c)'
  BY DEF Entry, InSame
<1>3. /\ Coming(f, c, Calls(f, c))' <=> Coming(f, c, Calls(f, c))
      /\ Coming(f, c, Wholes(f)) => Coming(f, c, Wholes(f))' \/ flowTable'[c][f].valid
      /\ Coming(f, c, Wholes(f))' => Coming(f, c, Wholes(f))
      /\ Called(f, c) => (Coming(f, c, Updates(f))' => Coming(f, c, Updates(f)))
  BY PrimedLane DEF InSame, OnSame, Coming
<1>4. Live(f, c) => Live(f, c)'
  BY <1>3 DEF Live
<1>5. Idle(f, c) => Idle(f, c)'
  BY <1>3 DEF Idle, Live
<1>6. Grows(f, c) => Grows(f, c)'
  BY <1>3 DEF Grows
<1>7. Called(f, c) => Called(f, c)'
  BY <1>3 DEF Called
<1> QED BY <1>1, <1>2, <1>4, <1>5, <1>6, <1>7 DEF NodeKept

LEMMA WholeOn ==
  ASSUME NEW f \in Flows, NEW c \in Cubes, NEW p \in Request, p \in Wholes(f), p.half = 0,
         Headed(f, c, p), c # p.dest, c # p.dest1, c # p.dest2, NEW n \in Links,
         n = NextLink[c][p.dest], n = NextLink[c][p.dest1], n = NextLink[c][p.dest2]
  PROVE  /\ TreeLink(f, c, n)
         /\ p \in OnLink(f, neighborCubeID[c][n], PeerLink[c][n])
<1>1. /\ {p.dest1, p.dest2} \subseteq OperandCubes /\ p.dest \in {p.dest1, p.dest2}
      /\ OnWay(f, c, p.dest1) /\ OnWay(f, c, p.dest2) /\ p.src = Root[f]
  BY DEF Headed
<1>2. TreeLink(f, c, n) /\ OnWay(f, neighborCubeID[c][n], p.dest1)
  BY <1>1, WayOn
<1>3. OnWay(f, neighborCubeID[c][n], p.dest2)
  BY <1>1, WayOn
<1>4. OnWay(f, neighborCubeID[c][n], p.dest)
  BY <1>1, <1>2, <1>3
<1>5. Headed(f, neighborCubeID[c][n], p)
  BY <1>1, <1>2, <1>3, <1>4 DEF Headed
<1>6. p \notin Splits(f) /\ ~(p.flow = f /\ p.cmd = "GET")
  BY DEF Wholes, Splits
<1>7. PeerLink[c][n] = Lane(f, neighborCubeID[c][n])
  BY <1>2 DEF TreeLink
<1> QED BY <1>2, <1>5, <1>6, <1>7 DEF OnLink, InDown

(* The child to which the update goes.                                     *)
LEMMA ChildOf ==
  ASSUME NEW f \in Flows, NEW c \in Cubes, NEW n \in Links, TreeLink(f, c, n),
         NEW e \in Cubes, e # Root[f], Above(f, e) = c
  PROVE  (Branch(f, e) = n) <=> (e = neighborCubeID[c][n])
<1>1. neighborCubeID[Above(f, e)][Branch(f, e)] = e
  BY Parent
<1> QED BY <1>1, Child

LEMMA CountForwardTree ==
  ASSUME FInv, NEW f \in Flows, FlowTree(f), NEW c \in Cubes, NEW l \in Links,
         NEW i \in DOMAIN downBuffers[c][l], NEW p, p = downBuffers[c][l][i],
         AddForward(c, l, i, p) \/ MultForward(c, l, i, p), p.flow = f
  PROVE  FlowTree(f)'
<1>1. /\ IInv /\ TypeOK /\ p \in Request /\ p \in InDown(f, c, l) /\ p.half = 0
      /\ host'[f] = host[f] /\ p.cmd \in {"ADD", "MULT"} /\ Packets(f)
  BY RequestAt DEF AddForward, MultForward, FlowTree
<1>2. PICK n \in Links : n = NextLink[c][p.dest] /\ ToLink(c, l, i, {}, n, p)
  BY <1>1, ForwardShape
<1>3. CountChild(c, p, n)
  BY <1>2 DEF AddForward, MultForward
<1>4. p \in Wholes(f) /\ p \in Updates(f)
  BY <1>1 DEF Wholes, Updates
<1>5. l = Lane(f, c) /\ Headed(f, c, p) /\ Coming(f, c, Updates(f)) /\ Live(f, c)
  BY <1>1, <1>4, InLaneHas DEF InDown, FlowTree, Live
<1>6. c # p.dest /\ c # p.dest1 /\ c # p.dest2 /\ n = NextLink[c][p.dest1] /\ n = NextLink[c][p.dest2]
  <2>1. CASE MultForward(c, l, i, p)
    <3>1. /\ c # p.dest /\ c # p.dest1 /\ c # p.dest2
          /\ NextLink[c][p.dest1] = NextLink[c][p.dest2]
      BY <1>1, <2>1, SMTT(60) DEF MultForward, IsHere
    <3>2. p.dest = p.dest1 \/ p.dest = p.dest2
      BY <1>5 DEF Headed
    <3> QED BY <1>2, <3>1, <3>2
  <2>2. CASE AddForward(c, l, i, p)
    BY <1>1, <1>2, <1>5, <2>2 DEF AddForward, IsHere, Headed
  <2> QED BY <2>1, <2>2
<1>7. TreeLink(f, c, n) /\ p \in OnLink(f, neighborCubeID[c][n], PeerLink[c][n])
  BY <1>1, <1>2, <1>4, <1>5, <1>6, WholeOn
<1>8. PICK d \in Cubes, q \in Links : d = neighborCubeID[c][n] /\ q = PeerLink[c][n]
  BY WireType
<1>9. d # c /\ d # Root[f] /\ Above(f, d) = c /\ Branch(f, d) = n /\ q = Lane(f, d)
  BY <1>7, <1>8, Child
<1>10. /\ Grows(f, d) /\ ~Told(f, d) /\ ~Asked(f, d) /\ ~Replied(f, d)
       /\ ~Called(f, d) /\ ~Marked(f, d) /\ ~Coming(f, d, Calls(f, d))
  BY <1>1, <1>5, <1>9, ChildGrows
<1>11. /\ \A x \in Cubes : x # c => flowTable'[x][f] = flowTable[x][f]
       /\ flowTable'[c][f].valid /\ flowTable'[c][f].parent = Above(f, c)
       /\ flowTable'[c][f].g_flag = flowTable[c][f].g_flag
       /\ flowTable'[c][f].children_gflag = flowTable[c][f].children_gflag
       /\ \A m \in Links : flowTable'[c][f].children_count[m] =
            IF m = n THEN flowTable[c][f].children_count[m] + 1
            ELSE flowTable[c][f].children_count[m]
  BY <1>1, <1>3, CountChildEntry
<1>12. Turned(f, c, l, p, {})
  BY <1>1, <1>11 DEF Turned
<1>13. /\ Becomes(c, l, i, {}) /\ UNCHANGED <<vault, upBuffers, responseQ>>
       /\ link' = [link EXCEPT ![d][q] = Append(@, p)] /\ p \in OnLink(f, d, q)
  BY <1>2, <1>7, <1>8 DEF ToLink, SendDown
<1>14. /\ \A x \in Cubes : InSame(f, x)
       /\ \A x \in Cubes, m \in Links : downBuffers'[x][m] \in Seq(InDown(f, x, m))
  BY <1>1, <1>12, <1>13, TurnedMoves
<1>15. /\ \A x \in Cubes, m \in Links : link'[x][m] \in Seq(OnLink(f, x, m))
       /\ \A x \in Cubes : x # d => OnLane(f, x)' = OnLane(f, x)
  BY <1>1, <1>13, LaneSends
<1>16. \A x \in Cubes : InOrderLane(f, x) /\ Entry(f, x)
  BY DEF FlowTree
<1>17. \A x \in Cubes : x # d => OnSame(f, x)
  BY <1>15, <1>16, SameOn
<1>18. /\ \A A : Has(OnLane(f, d), A) => Has(OnLane(f, d)', A)
       /\ \A A : Has(OnLane(f, d)', A) => Has(OnLane(f, d), A) \/ p \in A
       /\ q = Lane(f, d) => \A A : p \in A => Has(OnLane(f, d)', A)
       /\ Ends(OnLane(f, d)', Calls(f, d), Fence(f, d))
       /\ Has(InLane(f, d), Calls(f, d)) => ~Has(OnLane(f, d)', Fence(f, d))
  <2>1. PICK e \in OnLink(f, d, q) : e = p
    BY <1>13
  <2>2. /\ InOrderLane(f, d) /\ TypeOK /\ Packets(f)
        /\ link' = [link EXCEPT ![d][q] = Append(@, e)]
        /\ e \in Fence(f, d) => ~Coming(f, d, Calls(f, d))
    BY <1>1, <1>10, <1>13, <1>16, <2>1
  <2>3. /\ \A A : Has(OnLane(f, d), A) => Has(OnLane(f, d)', A)
        /\ \A A : Has(OnLane(f, d)', A) => Has(OnLane(f, d), A) \/ e \in A
        /\ q = Lane(f, d) => \A A : e \in A => Has(OnLane(f, d)', A)
        /\ Ends(OnLane(f, d)', Calls(f, d), Fence(f, d))
        /\ Has(InLane(f, d), Calls(f, d)) => ~Has(OnLane(f, d)', Fence(f, d))
    BY <2>2, SendsAny
  <2> QED BY <2>1, <2>3
<1>19. \A x \in Cubes : x # c => EntrySame(f, x)
  BY <1>11, <1>16, SameEntry
<1>20. \A x \in Cubes : x # c /\ x # d => InOrderLane(f, x)' /\ Entry(f, x)' /\ NodeKept(f, x)
  BY <1>14, <1>16, <1>17, <1>19, NodeFrame
<1>21. InOrderLane(f, c)' /\ Entry(f, c)' /\ NodeKept(f, c)
  <2>1. InSame(f, c) /\ OnSame(f, c) /\ InOrderLane(f, c) /\ Entry(f, c)
    BY <1>9, <1>14, <1>16, <1>17
  <2>2. ~Marked(f, c)
    BY <1>5 DEF Marked
  <2>3. \A m \in Links : flowTable'[c][f].children_count[m] > 0 => TreeLink(f, c, m)
    BY <1>7, <1>11, <2>1 DEF Entry
  <2>4. \A m \in Links : flowTable'[c][f].children_gflag[m] <=> flowTable[c][f].children_gflag[m]
    BY <1>11
  <2> QED BY <1>5, <1>11, <2>1, <2>2, <2>3, <2>4, NodeCount
<1>22. InOrderLane(f, d)' /\ Entry(f, d)'
  <2>1. InSame(f, d) /\ EntrySame(f, d) /\ Entry(f, d)
    BY <1>9, <1>14, <1>16, <1>19
  <2>2. InOrderLane(f, d)'
    BY <1>18, <2>1, PrimedOrder DEF InSame
  <2>3. Entry(f, d)'
    BY <2>1 DEF Entry, InSame, EntrySame
  <2> QED BY <2>2, <2>3
<1>23. \A x \in Cubes : \A a \in vault'[x] : ~IsAnswer(f, a)
  BY <1>1, <1>13 DEF Packets
<1>24. /\ Packets(f)' /\ HostKept(f)
       /\ \A x \in Cubes : Replied(f, x)' <=> Replied(f, x)
  BY <1>1, <1>13, <1>14, <1>15, <1>23, UpKept
<1>25. Edge(f, d)'
  <2>1. flowTable'[d][f] = flowTable[d][f] /\ InSame(f, d) /\ InSame(f, c)
    BY <1>9, <1>11, <1>14
  <2>2. ~Replied(f, d)'
    BY <1>10, <1>24
  <2>3. ~Told(f, d)'
    BY <1>9, <1>10, <1>11 DEF Told
  <2>4. ~Asked(f, d)'
    BY <1>9, <1>10, <2>1 DEF Asked, InSame
  <2>5. Sent(f, d)'
    <3>1. flowTable[c][f].children_count[n] \in Nat
      BY <1>1, EntryType, OutstandingType
    <3>2. flowTable'[c][f].children_count[n] > 0
      BY <1>11, <3>1
    <3> QED BY <1>9, <3>2 DEF Sent
  <2>6. Grows(f, d)'
    <3>1. ~Coming(f, d, Calls(f, d))'
      <4>1. p \notin Calls(f, d) /\ ~Has(InLane(f, d), Calls(f, d)) /\ ~Has(OnLane(f, d), Calls(f, d))
        BY <1>1, <1>10 DEF Calls, Coming
      <4>2. ~Has(InLane(f, d)', Calls(f, d)) /\ ~Has(OnLane(f, d)', Calls(f, d))
        BY <1>18, <2>1, <4>1 DEF InSame
      <4> QED BY <4>2, PrimedLane
    <3> QED BY <1>10, <2>1, <3>1 DEF Grows
  <2>7. Live(f, d)'
    <3>1. Has(OnLane(f, d)', Wholes(f))
      BY <1>4, <1>9, <1>18
    <3> QED BY <3>1, PrimedLane DEF Live
  <2> QED BY <2>2, <2>3, <2>4, <2>5, <2>6, <2>7 DEF Edge
<1>26. ASSUME NEW e \in Cubes \ {Root[f]}, e # d PROVE NodeKept(f, e) /\ AboveKept(f, e)
  <2>1. NodeKept(f, e)
    BY <1>20, <1>21, <1>26
  <2>2. Above(f, e) \in Cubes /\ Branch(f, e) \in Links
    BY LaneType
  <2>3. InSame(f, Above(f, e)) /\ (Replied(f, e)' <=> Replied(f, e))
    BY <1>14, <1>24, <2>2
  <2>4. CASE Above(f, e) # c
    <3>1. EntrySame(f, Above(f, e))
      BY <1>19, <2>2, <2>4
    <3> QED BY <2>1, <2>3, <3>1, AboveFrame DEF InSame
  <2>5. CASE Above(f, e) = c
    <3>1. Branch(f, e) # n
      BY <1>7, <1>8, <1>26, <2>5, ChildOf
    <3>2. Sent(f, e)' <=> Sent(f, e)
      BY <1>11, <2>2, <2>5, <3>1 DEF Sent
    <3>3. Told(f, e)' <=> Told(f, e)
      BY <1>11, <2>5 DEF Told
    <3>4. Asked(f, e)' <=> Asked(f, e)
      BY <2>3 DEF Asked, InSame
    <3> QED BY <2>1, <2>3, <3>2, <3>3, <3>4 DEF AboveKept
  <2> QED BY <2>4, <2>5
<1>27. NodeKept(f, Root[f])
  <2>1. Root[f] \in Cubes
    BY LaneType
  <2> QED BY <1>9, <1>20, <1>21, <2>1
<1>28. \A x \in Cubes : InOrderLane(f, x)' /\ Entry(f, x)'
  BY <1>20, <1>21, <1>22
<1>29. \A e \in Cubes \ {Root[f]} : (NodeKept(f, e) /\ AboveKept(f, e)) \/ Edge(f, e)'
  BY <1>25, <1>26
<1> QED BY <1>24, <1>27, <1>28, <1>29, TreeKept

-----------------------------------------------------------------------------
(* Steps of a gather of f.                                                 *)

LEMMA StandsStill ==
  ASSUME NEW f \in Flows, FlowTree(f), NEW c \in Cubes, InLane(f, c)' = InLane(f, c),
         OnLane(f, c)' = OnLane(f, c), flowTable'[c][f] = flowTable[c][f]
  PROVE  InOrderLane(f, c)' /\ Entry(f, c)' /\ NodeKept(f, c) /\ EntrySame(f, c) /\ InSame(f, c)
<1>1. InOrderLane(f, c) /\ Entry(f, c)
  BY DEF FlowTree
<1>2. InSame(f, c) /\ OnSame(f, c) /\ EntrySame(f, c)
  BY <1>1, SameIn, SameOn, SameEntry
<1> QED BY <1>1, <1>2, NodeFrame

(* A gather in order comes when all updates have been counted.             *)
LEMMA CallInOrder ==
  ASSUME FInv, NEW f \in Flows, FlowTree(f), NEW c \in Cubes, NEW l \in Links,
         NEW i \in DOMAIN downBuffers[c][l], NEW p, p = downBuffers[c][l][i],
         p.cmd = "GET", p.flow = f, IsHere(c, p), InOrder(c, l, i, p)
  PROVE  /\ l = Lane(f, c) /\ p \in Calls(f, c) /\ p.dest = c
         /\ Coming(f, c, Calls(f, c)) /\ Has(InLane(f, c), Calls(f, c))
         /\ ~Coming(f, c, Updates(f)) /\ ~Has(OnLane(f, c), Fence(f, c))
         /\ Called(f, c) /\ ~flowTable[c][f].g_flag
<1>1. /\ IInv /\ TypeOK /\ p \in Request /\ p.dest = c /\ Packets(f) /\ InOrderLane(f, c)
  BY RequestAt DEF IsHere, FlowTree
<1>2. p \in Calls(f, c)
  BY <1>1 DEF Calls
<1>3. l = Lane(f, c) /\ Coming(f, c, Calls(f, c)) /\ Has(InLane(f, c), Calls(f, c))
  BY <1>1, <1>2, InLaneHas
<1>4. ~Has(OnLane(f, c), Fence(f, c)) /\ Ends(InLane(f, c), Calls(f, c), Fence(f, c))
  BY <1>1, <1>3 DEF InOrderLane
<1>5. ~Has(InLane(f, c), Updates(f))
  <2>1. PICK s : s = InLane(f, c)
    OBVIOUS
  <2>2. s = downBuffers[c][l] /\ s \in Seq(Request) /\ i \in DOMAIN s /\ s[i] = p
    BY <1>1, <1>3, <2>1 DEF InLane, TypeOK
  <2>3. DOMAIN s = 1..Len(s) /\ Len(s) \in Nat
    BY <2>2, LenProperties
  <2>4. ASSUME NEW j \in DOMAIN s, s[j] \in Updates(f) PROVE FALSE
    <3>1. s[j].cmd \in {"ADD", "MULT"} /\ s[j].flow = f /\ s[j] \in Fence(f, c)
      BY <2>4 DEF Updates, Fence
    <3>2. CASE j < i
      <4>1. j \in 1..(i - 1)
        BY <2>2, <2>3, <3>2
      <4> QED BY <2>2, <3>1, <4>1 DEF InOrder
    <3>3. CASE i < j
      BY <1>2, <1>4, <2>1, <2>2, <3>1, <3>3 DEF Ends
    <3>4. j # i
      BY <2>2, <3>1
    <3> QED BY <2>2, <2>3, <3>2, <3>3, <3>4
  <2> QED BY <2>1, <2>4 DEF Has
<1>6. ~Has(OnLane(f, c), Updates(f))
  BY <1>4 DEF Has, Fence
<1>7. ~Coming(f, c, Updates(f))
  BY <1>5, <1>6 DEF Coming
<1>8. Called(f, c) /\ ~flowTable[c][f].g_flag
  BY <1>1, <1>3, States DEF Grows, Called, Marked
<1> QED BY <1>1, <1>2, <1>3, <1>4, <1>7, <1>8

LEMMA GFlagEntry ==
  ASSUME TypeOK, NEW f \in Flows, NEW c \in Cubes, NEW n \in Links,
         flowTable' = [flowTable EXCEPT ![c][f].children_gflag[n] = TRUE]
  PROVE  /\ \A x \in Cubes : x # c => flowTable'[x][f] = flowTable[x][f]
         /\ flowTable'[c][f].valid = flowTable[c][f].valid
         /\ flowTable'[c][f].parent = flowTable[c][f].parent
         /\ flowTable'[c][f].g_flag = flowTable[c][f].g_flag
         /\ flowTable'[c][f].children_count = flowTable[c][f].children_count
         /\ flowTable'[c][f].children_gflag[n]
         /\ \A m \in Links : m # n =>
              (flowTable'[c][f].children_gflag[m] <=> flowTable[c][f].children_gflag[m])
<1>1. PICK e : e = flowTable[c][f]
  OBVIOUS
<1>2. PICK o : o = [e EXCEPT !.children_gflag[n] = TRUE]
  OBVIOUS
<1>3. e \in FlowEntry
  BY <1>1, EntryType
<1>4. /\ \A x \in Cubes : x # c => flowTable'[x][f] = flowTable[x][f]
      /\ flowTable'[c][f] = o
  BY <1>1, <1>2 DEF TypeOK
<1>5. /\ o.valid = e.valid /\ o.parent = e.parent /\ o.g_flag = e.g_flag
      /\ o.children_count = e.children_count
      /\ o.children_gflag = [e.children_gflag EXCEPT ![n] = TRUE]
      /\ e.children_gflag \in [Links -> BOOLEAN]
  BY <1>2, <1>3 DEF FlowEntry
<1>6. o.children_gflag[n] /\ \A m \in Links : m # n => o.children_gflag[m] = e.children_gflag[m]
  BY <1>5
<1> QED BY <1>1, <1>4, <1>5, <1>6

PacketOf(f) == {q \in Request : q.flow = f}

LEMMA ReplicateTree ==
  ASSUME FInv, NEW f \in Flows, FlowTree(f), NEW c \in Cubes, NEW l \in Links,
         NEW i \in DOMAIN downBuffers[c][l], NEW p, p = downBuffers[c][l][i],
         GetReplicate(c, l, i, p), p \in PacketOf(f)
  PROVE  FlowTree(f)'
<1>1. /\ IInv /\ TypeOK /\ p \in Request /\ host'[f] = host[f] /\ Packets(f) /\ p.cmd = "GET"
      /\ flowTable[c][f].valid /\ p.flow = f
  <2>1. IInv /\ TypeOK /\ Packets(f)
    BY DEF FInv, IInv, FlowTree
  <2>2. p \in Request /\ p.flow = f
    BY DEF PacketOf
  <2> QED BY <2>1, <2>2 DEF GetReplicate
<1>2. /\ l = Lane(f, c) /\ p.dest = c /\ p \in Calls(f, c) /\ Coming(f, c, Calls(f, c))
      /\ Has(InLane(f, c), Calls(f, c)) /\ ~Coming(f, c, Updates(f))
      /\ ~Has(OnLane(f, c), Fence(f, c)) /\ Called(f, c) /\ ~flowTable[c][f].g_flag
  BY <1>1, CallInOrder DEF GetReplicate
<1>3. PICK n \in PendingChildren(c, f) :
        /\ downBuffers' = [downBuffers EXCEPT ![c][l] =
             Append(@, [p EXCEPT !.src = c, !.dest = neighborCubeID[c][n]])]
        /\ flowTable' = [flowTable EXCEPT ![c][f].children_gflag[n] = TRUE]
  BY <1>1 DEF GetReplicate
<1>4. /\ n \in Links /\ flowTable[c][f].children_count[n] > 0 /\ ~flowTable[c][f].children_gflag[n]
      /\ UNCHANGED <<link, vault, upBuffers, responseQ>>
  BY DEF PendingChildren, GetReplicate
<1>5. PICK d \in Cubes : d = neighborCubeID[c][n]
  BY <1>4, WireType
<1>6. PICK e : e = [p EXCEPT !.src = c, !.dest = d]
  OBVIOUS
<1>7. e \in Request /\ e.cmd = "GET" /\ e.flow = f /\ e.dest = d
  <2>1. e \in Request
    BY <1>1, <1>6, ChildRequest
  <2> QED BY <1>1, <1>6, <2>1 DEF Request
<1>8. TreeLink(f, c, n)
  BY <1>4 DEF FlowTree, Entry
<1>9. d # c /\ d # Root[f] /\ Above(f, d) = c /\ Branch(f, d) = n
  BY <1>4, <1>5, <1>8, Child
<1>10. e \in InDown(f, c, l) /\ e \in Calls(f, d) /\ e \notin Updates(f) /\ e \notin Splits(f)
       /\ e \notin Wholes(f) /\ \A x \in Cubes : x # d => e \notin Calls(f, x)
  BY <1>2, <1>4, <1>5, <1>7, <1>8 DEF InDown, Calls, Updates, Splits, Wholes
<1>11. Sent(f, d) /\ ~Told(f, d) /\ ~Asked(f, d) /\ ~Replied(f, d) /\ Grows(f, d) /\ Live(f, d)
  <2>1. Edge(f, d)
    BY <1>9 DEF FlowTree
  <2>2. Sent(f, d) /\ ~Told(f, d)
    BY <1>4, <1>9 DEF Sent, Told
  <2> QED BY <2>1, <2>2 DEF Edge
<1>12. /\ \A x \in Cubes : x # c => flowTable'[x][f] = flowTable[x][f]
       /\ flowTable'[c][f].valid = flowTable[c][f].valid
       /\ flowTable'[c][f].parent = flowTable[c][f].parent
       /\ flowTable'[c][f].g_flag = flowTable[c][f].g_flag
       /\ flowTable'[c][f].children_count = flowTable[c][f].children_count
       /\ flowTable'[c][f].children_gflag[n]
       /\ \A m \in Links : m # n =>
            (flowTable'[c][f].children_gflag[m] <=> flowTable[c][f].children_gflag[m])
  BY <1>1, <1>3, <1>4, GFlagEntry
<1>13. /\ \A x \in Cubes, m \in Links : downBuffers'[x][m] \in Seq(InDown(f, x, m))
       /\ \A x \in Cubes : x # c => InLane(f, x)' = InLane(f, x)
       /\ InLane(f, c) \in Seq(InDown(f, c, l))
       /\ InLane(f, c)' = Append(InLane(f, c), e)
  <2>1. downBuffers' = [downBuffers EXCEPT ![c][l] = Append(@, e)]
    BY <1>3, <1>5, <1>6
  <2>2. TypeOK /\ Packets(f) /\ e \in InDown(f, c, l)
    BY <1>1, <1>10
  <2>3. /\ \A x \in Cubes, m \in Links : downBuffers'[x][m] \in Seq(InDown(f, x, m))
        /\ \A x \in Cubes : x # c => InLane(f, x)' = InLane(f, x)
        /\ l = Lane(f, c) => /\ InLane(f, c) \in Seq(InDown(f, c, l))
                             /\ InLane(f, c)' = Append(InLane(f, c), e)
    BY <2>1, <2>2, LaneGets
  <2> QED BY <1>2, <2>3
<1>14. /\ \A x \in Cubes, m \in Links : link'[x][m] \in Seq(OnLink(f, x, m))
       /\ \A x \in Cubes : OnLane(f, x)' = OnLane(f, x)
  BY <1>4, LinkKept DEF OnLane
<1>15. \A x \in Cubes : x # c => /\ InOrderLane(f, x)' /\ Entry(f, x)' /\ NodeKept(f, x)
                                 /\ EntrySame(f, x) /\ InSame(f, x)
  BY <1>12, <1>13, <1>14, StandsStill
<1>16. PICK s : s = InLane(f, c)
  OBVIOUS
<1>17. PICK t : t = InLane(f, c)'
  OBVIOUS
<1>18. /\ \A A : Has(t, A) <=> Has(s, A) \/ e \in A
       /\ \A A, B : Ends(s, A, B) /\ (e \in B => ~Has(s, A)) => Ends(t, A, B)
  BY <1>10, <1>13, <1>16, <1>17, SeqAppend
<1>19. InOrderLane(f, c) /\ Entry(f, c)
  BY DEF FlowTree
<1>20. InOrderLane(f, c)'
  <2>1. e \notin Fence(f, c)
    BY <1>9, <1>10 DEF Fence
  <2>2. Ends(t, Calls(f, c), Fence(f, c))
    BY <1>16, <1>18, <1>19, <2>1 DEF InOrderLane
  <2>3. ASSUME NEW x \in Cubes PROVE Ends(t, Calls(f, x), Calls(f, x))
    <3>1. Ends(s, Calls(f, x), Calls(f, x)) /\ (e \in Calls(f, x) => ~Has(s, Calls(f, x)))
      BY <1>9, <1>10, <1>11, <1>16, <1>19 DEF InOrderLane, Asked
    <3> QED BY <1>18, <3>1
  <2>4. Ends(OnLane(f, c)', Calls(f, c), Fence(f, c)) /\ ~Has(OnLane(f, c)', Fence(f, c))
    BY <1>2, <1>14, <1>19 DEF InOrderLane
  <2> QED BY <1>17, <2>2, <2>3, <2>4, PrimedOrder
<1>21. Entry(f, c)'
  BY <1>1, <1>12, <1>19 DEF Entry
<1>22. Called(f, c)' /\ Live(f, c)'
  <2>1. Coming(f, c, Calls(f, c))'
    BY <1>2, <1>16, <1>17, <1>18, PrimedLane
  <2>2. ~Coming(f, c, Updates(f))'
    <3>1. ~Has(s, Updates(f)) /\ ~Has(OnLane(f, c), Updates(f))
      BY <1>2, <1>16 DEF Coming
    <3>2. ~Has(t, Updates(f)) /\ ~Has(OnLane(f, c)', Updates(f))
      BY <1>10, <1>14, <1>18, <3>1
    <3> QED BY <1>17, <3>2, PrimedLane
  <2> QED BY <1>1, <1>2, <1>12, <2>1, <2>2 DEF Called, Live
<1>23. NodeKept(f, c)
  BY <1>1, <1>2, <1>22 DEF NodeKept, Idle, Live, Grows
<1>24. \A x \in Cubes : \A a \in vault'[x] : ~IsAnswer(f, a)
  BY <1>1, <1>4 DEF Packets
<1>25. /\ Packets(f)' /\ HostKept(f)
       /\ \A x \in Cubes : Replied(f, x)' <=> Replied(f, x)
  BY <1>1, <1>4, <1>13, <1>14, <1>24, UpKept
<1>26. Edge(f, d)'
  <2>1. Sent(f, d)'
    BY <1>9, <1>11, <1>12 DEF Sent
  <2>2. Told(f, d)'
    BY <1>9, <1>12 DEF Told
  <2>3. Grows(f, d)' /\ Live(f, d)'
    BY <1>9, <1>11, <1>15 DEF NodeKept
  <2>4. ~Replied(f, d)'
    BY <1>11, <1>25
  <2>5. Asked(f, d)'
    BY <1>9, <1>10, <1>17, <1>18 DEF Asked
  <2> QED BY <2>1, <2>2, <2>3, <2>4, <2>5 DEF Edge
<1>27. ASSUME NEW x \in Cubes \ {Root[f]}, x # d PROVE NodeKept(f, x) /\ AboveKept(f, x)
  <2>1. NodeKept(f, x)
    BY <1>15, <1>23
  <2>2. Above(f, x) \in Cubes /\ Branch(f, x) \in Links /\ (Replied(f, x)' <=> Replied(f, x))
    BY <1>25, LaneType
  <2>3. CASE Above(f, x) # c
    <3>1. EntrySame(f, Above(f, x)) /\ InSame(f, Above(f, x))
      BY <1>15, <2>2, <2>3
    <3> QED BY <2>1, <2>2, <3>1, AboveFrame DEF InSame
  <2>4. CASE Above(f, x) = c
    <3>1. Branch(f, x) # n
      BY <1>4, <1>5, <1>8, <1>27, <2>4, ChildOf
    <3>2. Sent(f, x)' <=> Sent(f, x)
      BY <1>12, <2>4 DEF Sent
    <3>3. Told(f, x)' <=> Told(f, x)
      BY <1>12, <2>2, <2>4, <3>1 DEF Told
    <3>4. Asked(f, x)' <=> Asked(f, x)
      BY <1>10, <1>16, <1>17, <1>18, <1>27, <2>4 DEF Asked
    <3> QED BY <2>1, <2>2, <3>2, <3>3, <3>4 DEF AboveKept
  <2> QED BY <2>3, <2>4
<1>28. NodeKept(f, Root[f])
  <2>1. Root[f] \in Cubes
    BY LaneType
  <2> QED BY <1>15, <1>23, <2>1
<1>29. \A x \in Cubes : InOrderLane(f, x)' /\ Entry(f, x)'
  BY <1>15, <1>20, <1>21
<1>30. \A x \in Cubes \ {Root[f]} : (NodeKept(f, x) /\ AboveKept(f, x)) \/ Edge(f, x)'
  BY <1>26, <1>27
<1> QED BY <1>25, <1>28, <1>29, <1>30, TreeKept

LEMMA MarkEntry ==
  ASSUME TypeOK, NEW f \in Flows, NEW c \in Cubes,
         flowTable' = [flowTable EXCEPT ![c][f].g_flag = TRUE]
  PROVE  /\ \A x \in Cubes : x # c => flowTable'[x][f] = flowTable[x][f]
         /\ flowTable'[c][f].valid = flowTable[c][f].valid
         /\ flowTable'[c][f].parent = flowTable[c][f].parent
         /\ flowTable'[c][f].g_flag
         /\ flowTable'[c][f].children_count = flowTable[c][f].children_count
         /\ flowTable'[c][f].children_gflag = flowTable[c][f].children_gflag
<1>1. PICK e : e = flowTable[c][f]
  OBVIOUS
<1>2. PICK o : o = [e EXCEPT !.g_flag = TRUE]
  OBVIOUS
<1>3. e \in FlowEntry
  BY <1>1, EntryType
<1>4. /\ \A x \in Cubes : x # c => flowTable'[x][f] = flowTable[x][f]
      /\ flowTable'[c][f] = o
  BY <1>1, <1>2 DEF TypeOK
<1>5. /\ o.valid = e.valid /\ o.parent = e.parent /\ o.g_flag
      /\ o.children_count = e.children_count /\ o.children_gflag = e.children_gflag
  BY <1>2, <1>3 DEF FlowEntry
<1> QED BY <1>1, <1>4, <1>5

LEMMA MarkTree ==
  ASSUME FInv, NEW f \in Flows, FlowTree(f), NEW c \in Cubes, NEW l \in Links,
         NEW i \in DOMAIN downBuffers[c][l], NEW p, p = downBuffers[c][l][i],
         GetMark(c, l, i, p), p \in PacketOf(f)
  PROVE  FlowTree(f)'
<1>1. /\ IInv /\ TypeOK /\ p \in Request /\ host'[f] = host[f] /\ Packets(f) /\ p.cmd = "GET"
      /\ flowTable[c][f].valid /\ p.flow = f
  <2>1. IInv /\ TypeOK /\ Packets(f)
    BY DEF FInv, IInv, FlowTree
  <2>2. p \in Request /\ p.flow = f
    BY DEF PacketOf
  <2> QED BY <2>1, <2>2 DEF GetMark
<1>2. /\ l = Lane(f, c) /\ p.dest = c /\ p \in Calls(f, c) /\ Coming(f, c, Calls(f, c))
      /\ Has(InLane(f, c), Calls(f, c)) /\ ~Coming(f, c, Updates(f))
      /\ ~Has(OnLane(f, c), Fence(f, c)) /\ Called(f, c) /\ ~flowTable[c][f].g_flag
  BY <1>1, CallInOrder DEF GetMark
<1>3. /\ flowTable' = [flowTable EXCEPT ![c][f].g_flag = TRUE]
      /\ Becomes(c, l, i, {}) /\ UNCHANGED <<link, vault, upBuffers, responseQ>>
      /\ PendingChildren(c, f) = {}
  BY <1>1, GetMarkShape DEF GetMark
<1>4. /\ \A x \in Cubes : x # c => flowTable'[x][f] = flowTable[x][f]
      /\ flowTable'[c][f].valid = flowTable[c][f].valid
      /\ flowTable'[c][f].parent = flowTable[c][f].parent
      /\ flowTable'[c][f].g_flag
      /\ flowTable'[c][f].children_count = flowTable[c][f].children_count
      /\ flowTable'[c][f].children_gflag = flowTable[c][f].children_gflag
  <2>1. TypeOK /\ flowTable' = [flowTable EXCEPT ![c][f].g_flag = TRUE]
    BY <1>1, <1>3
  <2> QED BY <2>1, MarkEntry
<1>5. /\ \A x \in Cubes, m \in Links : downBuffers'[x][m] \in Seq(InDown(f, x, m))
      /\ \A x \in Cubes : x # c => InLane(f, x)' = InLane(f, x)
      /\ l = Lane(f, c) => /\ InLane(f, c) = downBuffers[c][l]
                           /\ InLane(f, c) \in Seq(InDown(f, c, l))
                           /\ i \in 1..Len(InLane(f, c))
                           /\ Turns(InLane(f, c), i, {}, InLane(f, c)')
  <2>1. {} \in SUBSET InDown(f, c, l) /\ TypeOK /\ Packets(f) /\ Becomes(c, l, i, {})
    BY <1>1, <1>3
  <2> QED BY <2>1, LaneTurns
<1>6. PICK s : s = InLane(f, c)
  OBVIOUS
<1>7. PICK t : t = InLane(f, c)'
  OBVIOUS
<1>8. s \in Seq(InDown(f, c, l)) /\ i \in 1..Len(s) /\ Turns(s, i, {}, t) /\ s[i] = p
  BY <1>2, <1>5, <1>6, <1>7
<1>9. \A A : /\ Has(t, A) => Has(s, A)
             /\ p \notin A /\ Has(s, A) => Has(t, A)
             /\ p \in A /\ Ends(s, A, A) => ~Has(t, A)
  BY <1>8, SeqTaken
<1>10. \A A, B : Ends(s, A, B) => Ends(t, A, B)
  BY <1>8, SeqTaken
<1>11. InOrderLane(f, c) /\ Entry(f, c)
  BY DEF FlowTree
<1>12. /\ \A x \in Cubes, m \in Links : link'[x][m] \in Seq(OnLink(f, x, m))
       /\ \A x \in Cubes : OnLane(f, x)' = OnLane(f, x)
  BY <1>3, LinkKept DEF OnLane
<1>13. \A x \in Cubes : x # c => /\ InOrderLane(f, x)' /\ Entry(f, x)' /\ NodeKept(f, x)
                                 /\ EntrySame(f, x) /\ InSame(f, x)
  BY <1>4, <1>5, <1>12, StandsStill
<1>14. InOrderLane(f, c)'
  <2>1. Ends(t, Calls(f, c), Fence(f, c)) /\ \A x \in Cubes : Ends(t, Calls(f, x), Calls(f, x))
    BY <1>6, <1>10, <1>11 DEF InOrderLane
  <2>2. Ends(OnLane(f, c)', Calls(f, c), Fence(f, c)) /\ ~Has(OnLane(f, c)', Fence(f, c))
    BY <1>2, <1>11, <1>12 DEF InOrderLane
  <2> QED BY <1>7, <2>1, <2>2, PrimedOrder
<1>15. Entry(f, c)'
  BY <1>1, <1>4, <1>11 DEF Entry
<1>16. Marked(f, c)' /\ Live(f, c)'
  <2>1. ~Coming(f, c, Calls(f, c))'
    <3>1. ~Has(t, Calls(f, c))
      BY <1>2, <1>6, <1>9, <1>11 DEF InOrderLane
    <3>2. ~Has(OnLane(f, c), Calls(f, c))
      BY <1>2 DEF Has, Fence
    <3> QED BY <1>7, <1>12, <3>1, <3>2, PrimedLane
  <2>2. ~Coming(f, c, Updates(f))'
    <3>1. ~Has(s, Updates(f)) /\ ~Has(OnLane(f, c), Updates(f))
      BY <1>2, <1>6 DEF Coming
    <3>2. ~Has(t, Updates(f)) /\ ~Has(OnLane(f, c)', Updates(f))
      BY <1>9, <1>12, <3>1
    <3> QED BY <1>7, <3>2, PrimedLane
  <2>3. \A n \in Links : flowTable'[c][f].children_count[n] > 0 => flowTable'[c][f].children_gflag[n]
    BY <1>3, <1>4 DEF PendingChildren
  <2> QED BY <1>1, <1>4, <2>1, <2>2, <2>3 DEF Marked, Live
<1>17. NodeKept(f, c)
  BY <1>1, <1>2, <1>16 DEF NodeKept, Idle, Live, Grows
<1>18. \A x \in Cubes : \A a \in vault'[x] : ~IsAnswer(f, a)
  BY <1>1, <1>3 DEF Packets
<1>19. /\ Packets(f)' /\ HostKept(f)
       /\ \A x \in Cubes : Replied(f, x)' <=> Replied(f, x)
  BY <1>1, <1>3, <1>5, <1>12, <1>18, UpKept
<1>20. ASSUME NEW x \in Cubes \ {Root[f]} PROVE NodeKept(f, x) /\ AboveKept(f, x)
  <2>1. NodeKept(f, x)
    BY <1>13, <1>17
  <2>2. Above(f, x) \in Cubes /\ Branch(f, x) \in Links /\ (Replied(f, x)' <=> Replied(f, x))
    BY <1>19, LaneType
  <2>3. CASE Above(f, x) # c
    <3>1. EntrySame(f, Above(f, x)) /\ InSame(f, Above(f, x))
      BY <1>13, <2>2, <2>3
    <3> QED BY <2>1, <2>2, <3>1, AboveFrame DEF InSame
  <2>4. CASE Above(f, x) = c
    <3>1. x # c
      BY <1>20, <2>4, Parent
    <3>2. Sent(f, x)' <=> Sent(f, x)
      BY <1>4, <2>4 DEF Sent
    <3>3. Told(f, x)' <=> Told(f, x)
      BY <1>4, <2>2, <2>4 DEF Told
    <3>4. p \notin Calls(f, x)
      BY <1>2, <3>1, Classes
    <3>5. Asked(f, x)' <=> Asked(f, x)
      BY <1>6, <1>7, <1>9, <2>4, <3>4 DEF Asked
    <3> QED BY <2>1, <2>2, <3>2, <3>3, <3>5 DEF AboveKept
  <2> QED BY <2>3, <2>4
<1>21. NodeKept(f, Root[f])
  <2>1. Root[f] \in Cubes
    BY LaneType
  <2> QED BY <1>13, <1>17, <2>1
<1>22. \A x \in Cubes : InOrderLane(f, x)' /\ Entry(f, x)'
  BY <1>13, <1>14, <1>15
<1> QED BY <1>19, <1>20, <1>21, <1>22, TreeKept

(* The copy of a gather goes on to the child it is for.                    *)
LEMMA CallForwardTree ==
  ASSUME FInv, NEW f \in Flows, FlowTree(f), NEW c \in Cubes, NEW l \in Links,
         NEW i \in DOMAIN downBuffers[c][l], NEW p, p = downBuffers[c][l][i],
         Forward(c, l, i, p), p \in PacketOf(f), p.cmd = "GET"
  PROVE  FlowTree(f)'
<1>1. /\ IInv /\ TypeOK /\ p \in Request /\ host'[f] = host[f] /\ Packets(f)
      /\ p.flow = f /\ flowTable' = flowTable /\ p.dest # c
  <2>1. IInv /\ TypeOK /\ Packets(f)
    BY DEF FInv, IInv, FlowTree
  <2>2. p \in Request /\ p.flow = f
    BY DEF PacketOf
  <2> QED BY <2>1, <2>2 DEF Forward, IsHere
<1>2. p \in InDown(f, c, l)
  BY <1>1, InLaneHas
<1>3. l = Lane(f, c) /\ \E n \in Links : TreeLink(f, c, n) /\ p.dest = neighborCubeID[c][n]
  BY <1>1, <1>2 DEF InDown
<1>4. PICK n \in Links : TreeLink(f, c, n) /\ p.dest = neighborCubeID[c][n]
  BY <1>3
<1>5. PICK d \in Cubes, q \in Links : d = neighborCubeID[c][n] /\ q = PeerLink[c][n]
  BY WireType
<1>6. /\ d # c /\ d # Root[f] /\ Above(f, d) = c /\ Branch(f, d) = n /\ q = Lane(f, d)
      /\ NextLink[c][d] = n
  BY <1>4, <1>5, Child
<1>7. /\ Becomes(c, l, i, {}) /\ link' = [link EXCEPT ![d][q] = Append(@, p)]
      /\ UNCHANGED <<vault, upBuffers, responseQ>>
  <2>1. Take(c, l, i) /\ SendDown(c, n, p) /\ UNCHANGED <<vault, upBuffers, responseQ>>
    BY <1>4, <1>5, <1>6 DEF Forward
  <2> QED BY <1>5, <2>1 DEF Becomes, SendDown
<1>8. /\ p \in Calls(f, d) /\ \A x \in Cubes : x # d => p \notin Calls(f, x)
  BY <1>1, <1>4, <1>5 DEF Calls
<1>9. p \notin Updates(f) /\ p \notin Wholes(f) /\ p \notin Splits(f)
  BY DEF Updates, Wholes, Splits
<1>10. p \in OnLink(f, d, q)
  BY <1>1, <1>4, <1>5, <1>6, <1>9 DEF OnLink, InDown
<1>11. /\ Sent(f, d) /\ Told(f, d) /\ ~Replied(f, d) /\ Grows(f, d) /\ Live(f, d)
  <2>1. Asked(f, d)
    BY <1>1, <1>6, <1>8, InLaneHas DEF Asked
  <2>2. Edge(f, d)
    BY <1>6 DEF FlowTree
  <2> QED BY <2>1, <2>2 DEF Edge
<1>12. /\ \A x \in Cubes, m \in Links : downBuffers'[x][m] \in Seq(InDown(f, x, m))
       /\ \A x \in Cubes : x # c => InLane(f, x)' = InLane(f, x)
       /\ l = Lane(f, c) => /\ InLane(f, c) = downBuffers[c][l]
                            /\ InLane(f, c) \in Seq(InDown(f, c, l))
                            /\ i \in 1..Len(InLane(f, c))
                            /\ Turns(InLane(f, c), i, {}, InLane(f, c)')
  <2>1. {} \in SUBSET InDown(f, c, l) /\ TypeOK /\ Packets(f) /\ Becomes(c, l, i, {})
    BY <1>1, <1>7
  <2> QED BY <2>1, LaneTurns
<1>13. PICK s : s = InLane(f, c)
  OBVIOUS
<1>14. PICK t : t = InLane(f, c)'
  OBVIOUS
<1>15. s \in Seq(InDown(f, c, l)) /\ i \in 1..Len(s) /\ Turns(s, i, {}, t) /\ s[i] = p
  BY <1>3, <1>12, <1>13, <1>14
<1>16. /\ \A A : /\ Has(t, A) => Has(s, A)
                 /\ p \notin A /\ Has(s, A) => Has(t, A)
                 /\ p \in A /\ Ends(s, A, A) => ~Has(t, A)
       /\ \A A, B : Ends(s, A, B) => Ends(t, A, B)
  BY <1>15, SeqTaken
<1>17. \A x \in Cubes : InOrderLane(f, x) /\ Entry(f, x)
  BY DEF FlowTree
<1>18. /\ \A x \in Cubes, m \in Links : link'[x][m] \in Seq(OnLink(f, x, m))
       /\ \A x \in Cubes : x # d => OnLane(f, x)' = OnLane(f, x)
  <2>1. PICK e \in OnLink(f, d, q) : e = p
    BY <1>10
  <2>2. TypeOK /\ Packets(f) /\ link' = [link EXCEPT ![d][q] = Append(@, e)]
    BY <1>1, <1>7, <2>1
  <2> QED BY <2>2, LaneSends
<1>19. /\ \A A : Has(OnLane(f, d), A) => Has(OnLane(f, d)', A)
       /\ \A A : Has(OnLane(f, d)', A) => Has(OnLane(f, d), A) \/ p \in A
       /\ q = Lane(f, d) => \A A : p \in A => Has(OnLane(f, d)', A)
       /\ Ends(OnLane(f, d)', Calls(f, d), Fence(f, d))
       /\ Has(InLane(f, d), Calls(f, d)) => ~Has(OnLane(f, d)', Fence(f, d))
  <2>1. PICK e \in OnLink(f, d, q) : e = p
    BY <1>10
  <2>2. /\ InOrderLane(f, d) /\ TypeOK /\ Packets(f)
        /\ link' = [link EXCEPT ![d][q] = Append(@, e)]
        /\ e \in Fence(f, d) => ~Coming(f, d, Calls(f, d))
    BY <1>1, <1>7, <1>11, <1>17, <2>1 DEF Grows
  <2>3. /\ \A A : Has(OnLane(f, d), A) => Has(OnLane(f, d)', A)
        /\ \A A : Has(OnLane(f, d)', A) => Has(OnLane(f, d), A) \/ e \in A
        /\ q = Lane(f, d) => \A A : e \in A => Has(OnLane(f, d)', A)
        /\ Ends(OnLane(f, d)', Calls(f, d), Fence(f, d))
        /\ Has(InLane(f, d), Calls(f, d)) => ~Has(OnLane(f, d)', Fence(f, d))
    BY <2>2, SendsAny
  <2> QED BY <2>1, <2>3
<1>20. \A x \in Cubes : x # c /\ x # d => InOrderLane(f, x)' /\ Entry(f, x)' /\ NodeKept(f, x)
  BY <1>1, <1>12, <1>18, StandsStill
<1>21. /\ \A x \in Cubes : EntrySame(f, x)
       /\ \A x \in Cubes : x # c => InSame(f, x)
  BY <1>1, <1>12, <1>17, EntriesKept, SameIn
<1>22. InOrderLane(f, c)' /\ Entry(f, c)' /\ NodeKept(f, c)
  <2>1. OnLane(f, c)' = OnLane(f, c) /\ flowTable'[c][f] = flowTable[c][f]
    BY <1>1, <1>6, <1>18
  <2>2. p \notin Calls(f, c)
    BY <1>6, <1>8
  <2>3. /\ Has(t, Wholes(f)) <=> Has(s, Wholes(f))
        /\ Has(t, Updates(f)) <=> Has(s, Updates(f))
        /\ Has(t, Splits(f)) <=> Has(s, Splits(f))
        /\ Has(t, Calls(f, c)) <=> Has(s, Calls(f, c))
    BY <1>9, <1>16, <2>2
  <2>4. Ends(t, Calls(f, c), Fence(f, c)) /\ \A x \in Cubes : Ends(t, Calls(f, x), Calls(f, x))
    BY <1>13, <1>16, <1>17 DEF InOrderLane
  <2>5. Ends(OnLane(f, c)', Calls(f, c), Fence(f, c))
        /\ (Has(t, Calls(f, c)) => ~Has(OnLane(f, c)', Fence(f, c)))
    BY <1>13, <1>17, <2>1, <2>3 DEF InOrderLane
  <2>6. InOrderLane(f, c)'
    BY <1>14, <2>4, <2>5, PrimedOrder
  <2>7. Entry(f, c)'
    BY <1>13, <1>14, <1>17, <2>1, <2>3 DEF Entry
  <2>8. /\ Coming(f, c, Wholes(f))' <=> Coming(f, c, Wholes(f))
        /\ Coming(f, c, Updates(f))' <=> Coming(f, c, Updates(f))
        /\ Coming(f, c, Calls(f, c))' <=> Coming(f, c, Calls(f, c))
    BY <1>13, <1>14, <2>1, <2>3, PrimedLane DEF Coming
  <2>9. NodeKept(f, c)
    BY <2>1, <2>8 DEF NodeKept, Live, Idle, Grows, Called, Marked
  <2> QED BY <2>6, <2>7, <2>9
<1>23. InOrderLane(f, d)' /\ Entry(f, d)'
  <2>1. InSame(f, d) /\ EntrySame(f, d) /\ Entry(f, d)
    BY <1>6, <1>17, <1>21
  <2>2. InOrderLane(f, d)'
    BY <1>19, <2>1, PrimedOrder DEF InSame
  <2>3. Entry(f, d)'
    BY <2>1 DEF Entry, InSame, EntrySame
  <2> QED BY <2>2, <2>3
<1>24. \A x \in Cubes : \A a \in vault'[x] : ~IsAnswer(f, a)
  BY <1>1, <1>7 DEF Packets
<1>25. /\ Packets(f)' /\ HostKept(f)
       /\ \A x \in Cubes : Replied(f, x)' <=> Replied(f, x)
  BY <1>1, <1>7, <1>12, <1>18, <1>24, UpKept
<1>26. Edge(f, d)'
  <2>1. ~Replied(f, d)' /\ flowTable'[d][f] = flowTable[d][f] /\ flowTable'[c][f] = flowTable[c][f]
    BY <1>1, <1>11, <1>25
  <2>2. Sent(f, d)' /\ Told(f, d)'
    BY <1>6, <1>11, <2>1 DEF Sent, Told
  <2>3. ~Asked(f, d)'
    <3>1. Ends(s, Calls(f, d), Calls(f, d))
      BY <1>13, <1>17 DEF InOrderLane
    <3> QED BY <1>6, <1>8, <1>14, <1>16, <3>1 DEF Asked
  <2>4. Called(f, d)'
    <3>1. Coming(f, d, Calls(f, d))'
      BY <1>6, <1>8, <1>19, PrimedLane
    <3> QED BY <1>11, <2>1, <3>1 DEF Called, Grows
  <2>5. Live(f, d)'
    <3>1. Coming(f, d, Wholes(f)) => Coming(f, d, Wholes(f))'
      BY <1>6, <1>12, <1>19, PrimedLane DEF Coming
    <3> QED BY <1>11, <2>1, <3>1 DEF Live
  <2> QED BY <2>1, <2>2, <2>3, <2>4, <2>5 DEF Edge
<1>27. ASSUME NEW x \in Cubes \ {Root[f]}, x # d PROVE NodeKept(f, x) /\ AboveKept(f, x)
  <2>1. NodeKept(f, x)
    BY <1>20, <1>22, <1>27
  <2>2. Above(f, x) \in Cubes /\ Branch(f, x) \in Links /\ (Replied(f, x)' <=> Replied(f, x))
    BY <1>25, LaneType
  <2>3. EntrySame(f, Above(f, x))
    BY <1>21, <2>2
  <2>4. CASE Above(f, x) # c
    BY <1>21, <2>1, <2>2, <2>3, <2>4, AboveFrame DEF InSame
  <2>5. CASE Above(f, x) = c
    <3>1. Sent(f, x)' <=> Sent(f, x)
      BY <1>1 DEF Sent
    <3>2. Told(f, x)' <=> Told(f, x)
      BY <1>1 DEF Told
    <3>3. Asked(f, x)' <=> Asked(f, x)
      BY <1>8, <1>13, <1>14, <1>16, <1>27, <2>5 DEF Asked
    <3> QED BY <2>1, <2>2, <3>1, <3>2, <3>3 DEF AboveKept
  <2> QED BY <2>4, <2>5
<1>28. NodeKept(f, Root[f])
  <2>1. Root[f] \in Cubes
    BY LaneType
  <2> QED BY <1>6, <1>20, <1>22, <2>1
<1>29. \A x \in Cubes : InOrderLane(f, x)' /\ Entry(f, x)'
  BY <1>20, <1>22, <1>23
<1>30. \A x \in Cubes \ {Root[f]} : (NodeKept(f, x) /\ AboveKept(f, x)) \/ Edge(f, x)'
  BY <1>26, <1>27
<1> QED BY <1>25, <1>28, <1>29, <1>30, TreeKept

LEMMA RequestTree ==
  ASSUME FInv, NEW f \in Flows, FlowTree(f), NEW c \in Cubes, NEW l \in Links,
         NEW i \in DOMAIN downBuffers[c][l], RequestStep(c, l, i, downBuffers[c][l][i])
  PROVE  FlowTree(f)'
<1>1. PICK p : p = downBuffers[c][l][i]
  OBVIOUS
<1>2. RequestStep(c, l, i, p) /\ p \in Request /\ (p.flow = f => p \in PacketOf(f))
  BY <1>1, RequestAt DEF PacketOf
<1>3. CASE AddLocal(c, l, i, p) \/ MultLocal(c, l, i, p)
  BY <1>1, <1>3, AddLocalTree, MultLocalTree
<1>4. CASE MultHalfLocal(c, l, i, p) \/ ReadLocal(c, l, i, p)
  BY <1>1, <1>4, MultHalfLocalTree, ReadLocalTree
<1>5. CASE MultSplit(c, l, i, p) \/ MultHalfForward(c, l, i, p)
  BY <1>1, <1>5, MultSplitTree, MultHalfForwardTree
<1>6. CASE AddForward(c, l, i, p) \/ MultForward(c, l, i, p)
  BY <1>1, <1>6, CountForwardTree, ForeignForwardTree
<1>7. CASE Forward(c, l, i, p)
  <2>1. p.cmd = "RD" \/ p.cmd = "GET"
    BY <1>7 DEF Forward
  <2> QED BY <1>1, <1>2, <1>7, <2>1, CallForwardTree, ForeignForwardTree
<1>8. CASE GetReplicate(c, l, i, p)
  BY <1>1, <1>2, <1>8, ReplicateTree, ForeignReplicateTree
<1>9. CASE GetMark(c, l, i, p)
  BY <1>1, <1>2, <1>9, MarkTree, ForeignMarkTree
<1> QED BY <1>2, <1>3, <1>4, <1>5, <1>6, <1>7, <1>8, <1>9 DEF RequestStep

-----------------------------------------------------------------------------
(* Steps of responses.                                                     *)

(* No answer of f moves.                                                   *)
AnswersStay(f) ==
  /\ \A x \in Cubes, m \in Ports :
       /\ upBuffers'[x][m] \subseteq Response
       /\ \A r \in Response : IsAnswer(f, r) => (r \in upBuffers'[x][m] <=> r \in upBuffers[x][m])
  /\ responseQ' \subseteq Response
  /\ \A r \in Response : IsAnswer(f, r) => (r \in responseQ' <=> r \in responseQ)

LEMMA AnswerType ==
  ASSUME NEW f \in Flows, NEW c \in Cubes
  PROVE  Answer(f, c) \in Response /\ IsAnswer(f, Answer(f, c)) /\ Answer(f, c).src = c
<1>1. f \in Tags /\ f \notin Reads /\ Above(f, c) \in Cubes
  BY LaneType, ARTAssumption DEF Tags
<1> QED BY <1>1 DEF Answer, Response, IsAnswer

LEMMA StayKept ==
  ASSUME TypeOK, NEW f \in Flows, Packets(f), AnswersStay(f), host'[f] = host[f]
  PROVE  /\ \A x \in Cubes, m \in Ports : upBuffers'[x][m] \subseteq UpTo(f, x, m)
         /\ \A r \in responseQ' : IsAnswer(f, r) => r = Answer(f, Root[f])
         /\ HostKept(f) /\ \A x \in Cubes : Replied(f, x)' <=> Replied(f, x)
<1>1. ASSUME NEW x \in Cubes, NEW m \in Ports, NEW r \in upBuffers'[x][m] PROVE r \in UpTo(f, x, m)
  <2>1. r \in Response /\ (IsAnswer(f, r) => r \in upBuffers[x][m])
    BY <1>1 DEF AnswersStay
  <2> QED BY <2>1 DEF Packets, UpTo
<1>2. \A r \in responseQ' : IsAnswer(f, r) => r = Answer(f, Root[f])
  BY DEF AnswersStay, Packets
<1>3. Answered(f)' <=> Answered(f)
  <2>1. \A r \in Response : IsAnswer(f, r) <=> r.cmd = "GET" /\ r.flow = f
    BY DEF IsAnswer
  <2>2. responseQ \subseteq Response /\ responseQ' \subseteq Response
    BY DEF AnswersStay, TypeOK
  <2> QED BY <2>1, <2>2 DEF AnswersStay, Answered
<1>4. ASSUME NEW x \in Cubes PROVE Replied(f, x)' <=> Replied(f, x)
  <2>1. Above(f, x) \in Cubes /\ Branch(f, x) \in Ports
    BY LaneType DEF Ports
  <2> QED BY <2>1, AnswerType DEF AnswersStay, Replied
<1> QED BY <1>1, <1>2, <1>3, <1>4 DEF HostKept

(* Requests stay where they are, and no answer of f moves.                 *)
LEMMA UpTree ==
  ASSUME FInv, NEW f \in Flows, FlowTree(f), AnswersStay(f), host'[f] = host[f],
         UNCHANGED <<link, downBuffers>>, \A x \in Cubes : EntrySame(f, x),
         \A x \in Cubes : \A r \in vault'[x] : ~IsAnswer(f, r)
  PROVE  FlowTree(f)'
<1>1. TypeOK /\ Packets(f)
  BY DEF FInv, IInv, FlowTree
<1>2. /\ \A x \in Cubes : OnSame(f, x)
      /\ \A x \in Cubes, m \in Links : link'[x][m] \in Seq(OnLink(f, x, m))
  BY LinkKept
<1>3. /\ \A x \in Cubes : InSame(f, x)
      /\ \A x \in Cubes, m \in Links : downBuffers'[x][m] \in Seq(InDown(f, x, m))
  BY DownKept
<1>4. /\ \A x \in Cubes, m \in Ports : upBuffers'[x][m] \subseteq UpTo(f, x, m)
      /\ \A r \in responseQ' : IsAnswer(f, r) => r = Answer(f, Root[f])
      /\ HostKept(f) /\ \A x \in Cubes : Replied(f, x)' <=> Replied(f, x)
  BY <1>1, StayKept
<1>5. Packets(f)'
  BY <1>2, <1>3, <1>4 DEF Packets
<1> QED BY <1>2, <1>3, <1>4, <1>5, TreeFrame

LEMMA SameStay ==
  ASSUME TypeOK, NEW f \in Flows, UNCHANGED <<upBuffers, responseQ>>
  PROVE  AnswersStay(f)
<1>1. (\A x \in Cubes, m \in Ports : upBuffers[x][m] \subseteq Response) /\ responseQ \subseteq Response
  BY DEF TypeOK
<1> QED BY <1>1 DEF AnswersStay

LEMMA DropStay ==
  ASSUME TypeOK, NEW f \in Flows, NEW c \in Cubes, NEW m \in Ports, NEW r, ~IsAnswer(f, r),
         upBuffers' = Dropped(c, m, r), UNCHANGED responseQ
  PROVE  AnswersStay(f)
<1>1. \A x \in Cubes, n \in Ports :
        upBuffers'[x][n] = IF x = c /\ n = m THEN upBuffers[x][n] \ {r} ELSE upBuffers[x][n]
  BY DEF TypeOK, Dropped
<1>2. (\A x \in Cubes, n \in Ports : upBuffers[x][n] \subseteq Response) /\ responseQ \subseteq Response
  BY DEF TypeOK
<1> QED BY <1>1, <1>2 DEF AnswersStay

LEMMA SendStay ==
  ASSUME TypeOK, NEW f \in Flows, NEW c \in Cubes, NEW n \in Links, NEW r \in Response,
         ~IsAnswer(f, r), NEW ups \in [Cubes -> [Ports -> SUBSET Response]],
         \A x \in Cubes, m \in Ports : \A a \in Response :
           IsAnswer(f, a) => (a \in ups[x][m] <=> a \in upBuffers[x][m]),
         SendUp(c, n, r, ups)
  PROVE  AnswersStay(f)
<1>1. responseQ \subseteq Response
  BY DEF TypeOK
<1>2. PICK d \in Cubes, q \in Ports : d = neighborCubeID[c][n] /\ q = PeerLink[c][n]
  BY WireType DEF Ports
<1>3. CASE d = c
  BY <1>1, <1>2, <1>3 DEF SendUp, AnswersStay
<1>4. CASE d # c
  <2>1. upBuffers' = [ups EXCEPT ![d][q] = @ \cup {r}] /\ responseQ' = responseQ
    BY <1>2, <1>4 DEF SendUp
  <2>2. \A x \in Cubes, m \in Ports :
          upBuffers'[x][m] = IF x = d /\ m = q THEN ups[x][m] \cup {r} ELSE ups[x][m]
    BY <2>1
  <2>3. \A x \in Cubes, m \in Ports : ups[x][m] \subseteq Response
    OBVIOUS
  <2> QED BY <1>1, <2>1, <2>2, <2>3 DEF AnswersStay
<1> QED BY <1>3, <1>4

LEMMA VaultReturnTree ==
  ASSUME FInv, NEW f \in Flows, FlowTree(f), NEW c \in Cubes, VaultReturn(c)
  PROVE  FlowTree(f)'
<1>1. /\ TypeOK /\ Packets(f) /\ UNCHANGED <<link, downBuffers, responseQ>> /\ host'[f] = host[f]
      /\ flowTable' = flowTable
  BY DEF FInv, IInv, FlowTree, VaultReturn
<1>2. PICK r \in vault[c] : /\ vault' = [vault EXCEPT ![c] = @ \ {r}]
                            /\ upBuffers' = [upBuffers EXCEPT ![c][VaultPort] = @ \cup {r}]
  BY DEF VaultReturn
<1>3. r \in Response /\ ~IsAnswer(f, r)
  BY <1>1 DEF TypeOK, Packets
<1>4. \A x \in Cubes : vault'[x] \subseteq vault[x]
  BY <1>1, <1>2 DEF TypeOK
<1>5. \A x \in Cubes, n \in Ports :
        upBuffers'[x][n] = IF x = c /\ n = VaultPort THEN upBuffers[x][n] \cup {r} ELSE upBuffers[x][n]
  BY <1>1, <1>2 DEF TypeOK
<1>6. (\A x \in Cubes, n \in Ports : upBuffers[x][n] \subseteq Response) /\ responseQ \subseteq Response
  BY <1>1 DEF TypeOK
<1>7. AnswersStay(f)
  <2>1. ASSUME NEW x \in Cubes, NEW n \in Ports
        PROVE  /\ upBuffers'[x][n] \subseteq Response
               /\ \A a \in Response :
                    IsAnswer(f, a) => (a \in upBuffers'[x][n] <=> a \in upBuffers[x][n])
    <3>1. upBuffers'[x][n] = upBuffers[x][n] \/ upBuffers'[x][n] = upBuffers[x][n] \cup {r}
      BY <1>5
    <3> QED BY <1>3, <1>6, <3>1
  <2> QED BY <1>1, <1>6, <2>1 DEF AnswersStay
<1>8. \A x \in Cubes : \A a \in vault'[x] : ~IsAnswer(f, a)
  BY <1>1, <1>4 DEF Packets
<1>9. \A x \in Cubes : EntrySame(f, x)
  BY <1>1, EntriesKept
<1> QED BY <1>1, <1>7, <1>8, <1>9, UpTree

LEMMA OperandReturnTree ==
  ASSUME FInv, NEW f \in Flows, FlowTree(f), NEW c \in Cubes, NEW p \in Ports,
         NEW r \in upBuffers[c][p], OperandReturn(c, p, r)
  PROVE  FlowTree(f)'
<1>1. /\ TypeOK /\ Packets(f) /\ UNCHANGED <<link, downBuffers, responseQ>> /\ host'[f] = host[f]
      /\ flowTable' = flowTable /\ vault' = vault /\ upBuffers' = Dropped(c, p, r)
  BY DEF FInv, IInv, FlowTree, OperandReturn
<1>2. ~IsAnswer(f, r)
  BY DEF OperandReturn, IsOperand, IsAnswer
<1>3. AnswersStay(f)
  BY <1>1, <1>2, DropStay
<1>4. \A x \in Cubes : \A a \in vault'[x] : ~IsAnswer(f, a)
  BY <1>1 DEF Packets
<1>5. \A x \in Cubes : EntrySame(f, x)
  BY <1>1, EntriesKept
<1> QED BY <1>1, <1>3, <1>4, <1>5, UpTree

(* An answer of f at a cube is that of a child of the cube.                *)
LEMMA AnswerAt ==
  ASSUME FInv, NEW f \in Flows, FlowTree(f), NEW c \in Cubes, NEW p \in Ports,
         NEW r \in upBuffers[c][p], IsAnswer(f, r)
  PROVE  /\ p \in Links /\ TreeLink(f, c, p) /\ r = Answer(f, neighborCubeID[c][p])
         /\ IsChildReply(c, r)
<1>1. p \in Links /\ TreeLink(f, c, p) /\ r = Answer(f, neighborCubeID[c][p])
  BY DEF FlowTree, Packets, UpTo
<1>2. /\ neighborCubeID[c][p] # c /\ Above(f, neighborCubeID[c][p]) = c
  BY <1>1, Child
<1>3. r.cmd = "GET" /\ r.dest = Above(f, neighborCubeID[c][p]) /\ r.src = neighborCubeID[c][p]
  BY <1>1 DEF Answer
<1> QED BY <1>1, <1>2, <1>3 DEF IsChildReply

LEMMA DroppedOthers ==
  ASSUME TypeOK, NEW f \in Flows, NEW c \in Cubes, NEW p \in Ports, NEW r, ~IsAnswer(f, r)
  PROVE  /\ Dropped(c, p, r) \in [Cubes -> [Ports -> SUBSET Response]]
         /\ \A x \in Cubes, m \in Ports : \A a \in Response :
              IsAnswer(f, a) => (a \in Dropped(c, p, r)[x][m] <=> a \in upBuffers[x][m])
<1>1. upBuffers \in [Cubes -> [Ports -> SUBSET Response]]
  BY DEF TypeOK
<1>2. Dropped(c, p, r) \in [Cubes -> [Ports -> SUBSET Response]]
  BY <1>1 DEF Dropped
<1>3. \A x \in Cubes, n \in Ports :
        Dropped(c, p, r)[x][n] = IF x = c /\ n = p THEN upBuffers[x][n] \ {r} ELSE upBuffers[x][n]
  BY <1>1 DEF Dropped
<1> QED BY <1>2, <1>3

LEMMA ForwardResponseTree ==
  ASSUME FInv, NEW f \in Flows, FlowTree(f), NEW c \in Cubes, NEW p \in Ports,
         NEW r \in upBuffers[c][p], ForwardResponse(c, p, r)
  PROVE  FlowTree(f)'
<1>1. /\ TypeOK /\ Packets(f) /\ UNCHANGED <<link, downBuffers>> /\ host'[f] = host[f]
      /\ flowTable' = flowTable /\ vault' = vault
      /\ SendUp(c, NextLink[c][r.dest], r, Dropped(c, p, r)) /\ ~IsChildReply(c, r)
  BY DEF FInv, IInv, FlowTree, ForwardResponse
<1>2. ~IsAnswer(f, r)
  BY <1>1, AnswerAt
<1>3. r \in Response
  BY <1>1 DEF TypeOK
<1>4. NextLink[c][r.dest] \in Links
  BY <1>3, RouteType DEF Response
<1>5. AnswersStay(f)
  <2>1. PICK ups \in [Cubes -> [Ports -> SUBSET Response]] : ups = Dropped(c, p, r)
    BY <1>1, <1>2, DroppedOthers
  <2>2. /\ SendUp(c, NextLink[c][r.dest], r, ups)
        /\ \A x \in Cubes, m \in Ports : \A a \in Response :
             IsAnswer(f, a) => (a \in ups[x][m] <=> a \in upBuffers[x][m])
    BY <1>1, <1>2, <2>1, DroppedOthers
  <2> QED BY <1>1, <1>2, <1>3, <1>4, <2>2, SendStay
<1>6. \A x \in Cubes : \A a \in vault'[x] : ~IsAnswer(f, a)
  BY <1>1 DEF Packets
<1>7. \A x \in Cubes : EntrySame(f, x)
  BY <1>1, EntriesKept
<1> QED BY <1>1, <1>5, <1>6, <1>7, UpTree

LEMMA ForeignReplyTree ==
  ASSUME FInv, NEW f \in Flows, FlowTree(f), NEW c \in Cubes, NEW p \in Ports,
         NEW r \in upBuffers[c][p], ChildReply(c, p, r), ~IsAnswer(f, r)
  PROVE  FlowTree(f)'
<1>1. /\ TypeOK /\ Packets(f) /\ UNCHANGED <<link, downBuffers, responseQ>> /\ host'[f] = host[f]
      /\ vault' = vault /\ upBuffers' = Dropped(c, p, r) /\ r.cmd = "GET"
      /\ flowTable' = [flowTable EXCEPT ![c][r.flow] = ChildDone(@, NextLink[c][r.src])]
  BY DEF FInv, IInv, FlowTree, ChildReply, IsChildReply
<1>2. r.flow # f
  BY <1>1 DEF IsAnswer
<1>3. AnswersStay(f)
  BY <1>1, DropStay
<1>4. \A x \in Cubes : \A a \in vault'[x] : ~IsAnswer(f, a)
  BY <1>1 DEF Packets
<1>5. \A x \in Cubes : flowTable'[x][f] = flowTable[x][f]
  BY <1>1, <1>2 DEF TypeOK
<1>6. \A x \in Cubes : EntrySame(f, x)
  BY <1>5, SameEntry DEF FlowTree
<1> QED BY <1>1, <1>3, <1>4, <1>6, UpTree

LEMMA ForeignGatherTree ==
  ASSUME FInv, NEW f \in Flows, FlowTree(f), NEW c \in Cubes, NEW g \in Flows, g # f,
         GatherReply(c, g)
  PROVE  FlowTree(f)'
<1>1. PICK r : r = [cmd |-> "GET", flow |-> g, src |-> c, dest |-> flowTable[c][g].parent,
                    home |-> c, op |-> 0, buf |-> NoBuf]
  OBVIOUS
<1>2. /\ TypeOK /\ Packets(f) /\ UNCHANGED <<link, downBuffers>> /\ host'[f] = host[f]
      /\ vault' = vault /\ flowTable' = [flowTable EXCEPT ![c][g] = NoEntry(c)]
      /\ SendUp(c, NextLink[c][flowTable[c][g].parent], r, upBuffers)
  BY <1>1 DEF FInv, IInv, FlowTree, GatherReply, Commit
<1>3. flowTable[c][g].parent \in Cubes
  BY <1>2, EntryType DEF FlowEntry
<1>4. r \in Response /\ ~IsAnswer(f, r)
  <2>1. g \in Tags /\ g \notin Reads
    BY ARTAssumption DEF Tags
  <2> QED BY <1>1, <1>3, <2>1 DEF Response, IsAnswer
<1>5. NextLink[c][flowTable[c][g].parent] \in Links
  BY <1>3, RouteType
<1>6. AnswersStay(f)
  <2>1. upBuffers \in [Cubes -> [Ports -> SUBSET Response]]
    BY <1>2 DEF TypeOK
  <2>2. \A x \in Cubes, m \in Ports : \A a \in Response :
          IsAnswer(f, a) => (a \in upBuffers[x][m] <=> a \in upBuffers[x][m])
    OBVIOUS
  <2> QED BY <1>2, <1>4, <1>5, <2>1, <2>2, SendStay
<1>7. \A x \in Cubes : \A a \in vault'[x] : ~IsAnswer(f, a)
  BY <1>2 DEF Packets
<1>8. \A x \in Cubes : flowTable'[x][f] = flowTable[x][f]
  BY <1>2 DEF TypeOK
<1>9. \A x \in Cubes : EntrySame(f, x)
  BY <1>8, SameEntry DEF FlowTree
<1> QED BY <1>2, <1>6, <1>7, <1>9, UpTree

LEMMA ComputeTree ==
  ASSUME FInv, NEW f \in Flows, FlowTree(f), NEW c \in Cubes, NEW b \in Bufs, ComputeStep(c, b)
  PROVE  FlowTree(f)'
<1>1. /\ TypeOK /\ Packets(f) /\ UNCHANGED <<link, downBuffers, upBuffers, responseQ>>
      /\ host'[f] = host[f] /\ vault' = vault
  BY DEF FInv, IInv, FlowTree, ComputeStep, AddFinish, MultStart, MultStep
<1>2. flowTable' = flowTable \/ flowTable' = [flowTable EXCEPT ![c][operandBuffers[c][b].flowID] = AddResult(@)]
  BY DEF ComputeStep, AddFinish, MultStart, MultStep, Reduce
<1>3. ASSUME NEW x \in Cubes PROVE EntrySame(f, x)
  <2>1. flowTable'[x][f] = flowTable[x][f] \/ flowTable'[x][f] = AddResult(flowTable[x][f])
    <3>1. PICK g : g = operandBuffers[c][b].flowID
      OBVIOUS
    <3>2. flowTable \in [Cubes -> [Flows -> FlowEntry]]
      BY <1>1 DEF TypeOK
    <3>3. CASE flowTable' = [flowTable EXCEPT ![c][g] = AddResult(@)]
      BY <3>2, <3>3
    <3> QED BY <1>2, <3>1, <3>3
  <2>2. PICK e : e = flowTable[x][f]
    OBVIOUS
  <2>3. e \in FlowEntry
    BY <1>1, <2>2, EntryType
  <2>4. /\ AddResult(e).valid = e.valid /\ AddResult(e).parent = e.parent
        /\ AddResult(e).g_flag = e.g_flag /\ AddResult(e).children_gflag = e.children_gflag
        /\ AddResult(e).children_count = e.children_count
    BY <2>3 DEF AddResult, FlowEntry
  <2>5. /\ flowTable'[x][f].valid = e.valid /\ flowTable'[x][f].parent = e.parent
        /\ flowTable'[x][f].g_flag = e.g_flag /\ flowTable'[x][f].children_gflag = e.children_gflag
        /\ flowTable'[x][f].children_count = e.children_count
    BY <2>1, <2>2, <2>4
  <2>6. Entry(f, x)
    BY DEF FlowTree
  <2> QED BY <2>2, <2>5, <2>6 DEF Entry, EntrySame, Live
<1>4. AnswersStay(f)
  BY <1>1, SameStay
<1>5. \A x \in Cubes : \A a \in vault'[x] : ~IsAnswer(f, a)
  BY <1>1 DEF Packets
<1> QED BY <1>1, <1>3, <1>4, <1>5, UpTree

LEMMA ForeignReceiveTree ==
  ASSUME FInv, NEW f \in Flows, FlowTree(f), NEW r \in responseQ, ~IsAnswer(f, r),
         responseQ' = responseQ \ {r},
         r.cmd = "GET" => host' = [host EXCEPT ![r.flow] = [phase |-> "update", issued |-> 0]],
         r.cmd # "GET" => host' = host,
         UNCHANGED <<link, downBuffers, upBuffers, vault, flowTable>>
  PROVE  FlowTree(f)'
<1>1. TypeOK /\ Packets(f)
  BY DEF FInv, IInv, FlowTree
<1>2. host'[f] = host[f]
  BY <1>1 DEF TypeOK, IsAnswer
<1>3. (\A x \in Cubes, n \in Ports : upBuffers[x][n] \subseteq Response) /\ responseQ \subseteq Response
  BY <1>1 DEF TypeOK
<1>4. AnswersStay(f)
  BY <1>3 DEF AnswersStay
<1>5. \A x \in Cubes : \A a \in vault'[x] : ~IsAnswer(f, a)
  BY <1>1 DEF Packets
<1>6. \A x \in Cubes : EntrySame(f, x)
  BY EntriesKept
<1> QED BY <1>2, <1>4, <1>5, <1>6, UpTree

(* A cube of which only children_count changes, and only to 0.             *)
LEMMA NodeFewer ==
  ASSUME NEW f \in Flows, FlowTree(f), NEW c \in Cubes, InLane(f, c)' = InLane(f, c),
         OnLane(f, c)' = OnLane(f, c), flowTable'[c][f].valid = flowTable[c][f].valid,
         flowTable'[c][f].parent = flowTable[c][f].parent,
         flowTable'[c][f].g_flag = flowTable[c][f].g_flag,
         flowTable'[c][f].children_gflag = flowTable[c][f].children_gflag,
         \A n \in Links :
           flowTable'[c][f].children_count[n] > 0 => flowTable[c][f].children_count[n] > 0
  PROVE  InOrderLane(f, c)' /\ Entry(f, c)' /\ NodeKept(f, c)
<1>1. InOrderLane(f, c) /\ Entry(f, c)
  BY DEF FlowTree
<1>2. InOrderLane(f, c)'
  BY <1>1, PrimedOrder DEF InOrderLane
<1>3. Entry(f, c)'
  BY <1>1 DEF Entry
<1>4. \A A : Coming(f, c, A)' <=> Coming(f, c, A)
  BY DEF Coming
<1>5. (Live(f, c)' <=> Live(f, c)) /\ (Idle(f, c)' <=> Idle(f, c))
  BY <1>4 DEF Live, Idle
<1>6. (Grows(f, c) => Grows(f, c)') /\ (Called(f, c) => Called(f, c)')
  BY <1>4 DEF Grows, Called
<1>7. Marked(f, c) => Marked(f, c)'
  BY <1>4 DEF Marked
<1> QED BY <1>2, <1>3, <1>5, <1>6, <1>7 DEF NodeKept

LEMMA ChildDoneFields ==
  ASSUME NEW e \in FlowEntry, NEW n \in Links
  PROVE  /\ ChildDone(e, n).valid = e.valid /\ ChildDone(e, n).parent = e.parent
         /\ ChildDone(e, n).g_flag = e.g_flag
         /\ ChildDone(e, n).children_gflag = e.children_gflag
         /\ \A m \in Links : ChildDone(e, n).children_count[m] =
                               IF m = n THEN 0 ELSE e.children_count[m]
<1>1. PICK o : o = [e EXCEPT !.rep_count = @ + e.children_count[n]]
  OBVIOUS
<1>2. /\ o.valid = e.valid /\ o.parent = e.parent /\ o.g_flag = e.g_flag
      /\ o.children_gflag = e.children_gflag /\ o.children_count = e.children_count
      /\ o \in [valid : BOOLEAN, opcode : {"ADD", "MAC"}, result : Nat, req_count : Nat,
                rep_count : Nat, parent : Cubes, children_count : [Links -> Nat],
                children_gflag : [Links -> BOOLEAN], g_flag : BOOLEAN]
  BY <1>1 DEF FlowEntry
<1>3. ChildDone(e, n) = [o EXCEPT !.children_count[n] = 0]
  BY <1>1 DEF ChildDone
<1> QED BY <1>2, <1>3

(* The answer of a child of c.                                             *)
LEMMA ReplyTree ==
  ASSUME FInv, NEW f \in Flows, FlowTree(f), NEW c \in Cubes, NEW p \in Ports,
         NEW r \in upBuffers[c][p], ChildReply(c, p, r), IsAnswer(f, r)
  PROVE  FlowTree(f)'
<1>1. /\ IInv /\ TypeOK /\ Packets(f) /\ UNCHANGED <<link, downBuffers, responseQ>>
      /\ host'[f] = host[f] /\ vault' = vault /\ upBuffers' = Dropped(c, p, r)
      /\ flowTable' = [flowTable EXCEPT ![c][f] = ChildDone(@, NextLink[c][r.src])]
  BY DEF FInv, IInv, FlowTree, ChildReply, IsAnswer
<1>2. p \in Links /\ TreeLink(f, c, p) /\ r = Answer(f, neighborCubeID[c][p])
  BY AnswerAt
<1>3. PICK d \in Cubes : d = neighborCubeID[c][p]
  BY <1>2, WireType
<1>4. /\ d # c /\ d # Root[f] /\ Above(f, d) = c /\ Branch(f, d) = p /\ NextLink[c][d] = p
  BY <1>2, <1>3, Child
<1>5. r.src = d /\ r = Answer(f, d)
  BY <1>2, <1>3, AnswerType
<1>6. /\ Replied(f, d) /\ Idle(f, d) /\ ~Asked(f, d)
  <2>1. Replied(f, d)
    BY <1>4, <1>5 DEF Replied
  <2>2. Edge(f, d)
    BY <1>4 DEF FlowTree
  <2> QED BY <2>1, <2>2 DEF Edge
<1>7. /\ \A x \in Cubes : x # c => flowTable'[x][f] = flowTable[x][f]
      /\ flowTable'[c][f].valid = flowTable[c][f].valid
      /\ flowTable'[c][f].parent = flowTable[c][f].parent
      /\ flowTable'[c][f].g_flag = flowTable[c][f].g_flag
      /\ flowTable'[c][f].children_gflag = flowTable[c][f].children_gflag
      /\ \A m \in Links : flowTable'[c][f].children_count[m] =
                            IF m = p THEN 0 ELSE flowTable[c][f].children_count[m]
  <2>1. flowTable' = [flowTable EXCEPT ![c][f] = ChildDone(@, p)]
    BY <1>1, <1>4, <1>5
  <2>2. flowTable \in [Cubes -> [Flows -> FlowEntry]] /\ flowTable[c][f] \in FlowEntry
    BY <1>1 DEF TypeOK
  <2>3. /\ \A x \in Cubes : x # c => flowTable'[x][f] = flowTable[x][f]
        /\ flowTable'[c][f] = ChildDone(flowTable[c][f], p)
    BY <2>1, <2>2
  <2> QED BY <1>2, <2>2, <2>3, ChildDoneFields
<1>8. \A x \in Cubes : InLane(f, x)' = InLane(f, x) /\ OnLane(f, x)' = OnLane(f, x)
  BY <1>1 DEF InLane, OnLane
<1>9. \A x \in Cubes : x # c => InOrderLane(f, x)' /\ Entry(f, x)' /\ NodeKept(f, x)
  BY <1>7, <1>8, StandsStill
<1>10. InOrderLane(f, c)' /\ Entry(f, c)' /\ NodeKept(f, c)
  <2>1. \A n \in Links :
           flowTable'[c][f].children_count[n] > 0 => flowTable[c][f].children_count[n] > 0
    BY <1>7
  <2> QED BY <1>7, <1>8, <2>1, NodeFewer
<1>11. \A x \in Cubes, m \in Ports :
         upBuffers'[x][m] = IF x = c /\ m = p THEN upBuffers[x][m] \ {r} ELSE upBuffers[x][m]
  BY <1>1 DEF TypeOK, Dropped
<1>12. Packets(f)'
  <2>1. \A x \in Cubes, m \in Ports : upBuffers'[x][m] \subseteq UpTo(f, x, m)
    BY <1>1, <1>11 DEF Packets
  <2> QED BY <1>1, <2>1 DEF Packets
<1>13. HostKept(f)
  BY <1>1 DEF HostKept, Answered
<1>14. Edge(f, d)'
  <2>1. ~Replied(f, d)'
    BY <1>4, <1>5, <1>11 DEF Replied
  <2>2. ~Sent(f, d)'
    BY <1>2, <1>4, <1>7 DEF Sent
  <2>3. ~Asked(f, d)'
    BY <1>4, <1>6, <1>8 DEF Asked
  <2>4. Idle(f, d)'
    BY <1>4, <1>6, <1>9 DEF NodeKept
  <2> QED BY <2>1, <2>2, <2>3, <2>4 DEF Edge
<1>15. ASSUME NEW x \in Cubes \ {Root[f]}, x # d PROVE NodeKept(f, x) /\ AboveKept(f, x)
  <2>1. NodeKept(f, x)
    BY <1>9, <1>10
  <2>2. Above(f, x) \in Cubes /\ Branch(f, x) \in Links /\ Branch(f, x) \in Ports
    BY LaneType DEF Ports
  <2>3. Answer(f, x) # r
    BY <1>5, <1>15, AnswerType
  <2>4. Replied(f, x)' <=> Replied(f, x)
    BY <1>11, <2>2, <2>3 DEF Replied
  <2>5. Asked(f, x)' <=> Asked(f, x)
    BY <1>8, <2>2 DEF Asked
  <2>6. Told(f, x)' <=> Told(f, x)
    BY <1>7, <2>2 DEF Told
  <2>7. Sent(f, x)' <=> Sent(f, x)
    <3>1. CASE Above(f, x) # c
      BY <1>7, <2>2, <3>1 DEF Sent
    <3>2. CASE Above(f, x) = c
      <4>1. Branch(f, x) # p
        BY <1>2, <1>3, <1>15, <3>2, ChildOf
      <4> QED BY <1>7, <2>2, <3>2, <4>1 DEF Sent
    <3> QED BY <3>1, <3>2
  <2> QED BY <2>1, <2>4, <2>5, <2>6, <2>7 DEF AboveKept
<1>16. NodeKept(f, Root[f])
  <2>1. Root[f] \in Cubes
    BY LaneType
  <2> QED BY <1>9, <1>10, <2>1
<1>17. \A x \in Cubes : InOrderLane(f, x)' /\ Entry(f, x)'
  BY <1>9, <1>10
<1>18. \A x \in Cubes \ {Root[f]} : (NodeKept(f, x) /\ AboveKept(f, x)) \/ Edge(f, x)'
  BY <1>14, <1>15
<1> QED BY <1>12, <1>13, <1>16, <1>17, <1>18, TreeKept

(* A cube answers for f.                                                   *)
LEMMA GatherTree ==
  ASSUME FInv, NEW f \in Flows, FlowTree(f), NEW c \in Cubes, GatherReply(c, f)
  PROVE  FlowTree(f)'
<1>1. /\ IInv /\ TypeOK /\ Packets(f) /\ UNCHANGED <<link, downBuffers>> /\ host'[f] = host[f]
      /\ vault' = vault /\ flowTable' = [flowTable EXCEPT ![c][f] = NoEntry(c)]
      /\ flowTable[c][f].valid /\ flowTable[c][f].g_flag
      /\ flowTable[c][f].req_count = flowTable[c][f].rep_count
  BY DEF FInv, IInv, FlowTree, GatherReply, Commit
<1>2. Marked(f, c)
  BY <1>1, States DEF Grows, Called
<1>3. \A n \in Links : flowTable[c][f].children_count[n] = 0
  BY <1>1, AllReduced DEF IInv
<1>4. flowTable[c][f].parent = Above(f, c) /\ Above(f, c) \in Cubes /\ Lane(f, c) \in Links
  BY <1>1, LaneType DEF FlowTree, Entry
<1>5. NextLink[c][Above(f, c)] = Lane(f, c)
  <2>1. CASE c = Root[f]
    BY <2>1, AtRoot
  <2>2. CASE c # Root[f]
    <3>1. PICK a \in Cubes, b \in Links : a = Above(f, c) /\ b = Branch(f, c)
      BY LaneType
    <3>2. TreeLink(f, a, b) /\ neighborCubeID[a][b] = c
      BY <2>2, <3>1, Parent
    <3> QED BY <3>1, <3>2, Child
  <2> QED BY <2>1, <2>2
<1>6. SendUp(c, Lane(f, c), Answer(f, c), upBuffers)
  BY <1>4, <1>5 DEF GatherReply, Commit, Answer
<1>7. /\ \A x \in Cubes : x # c => flowTable'[x][f] = flowTable[x][f]
      /\ flowTable'[c][f] = NoEntry(c)
  BY <1>1 DEF TypeOK
<1>8. \A x \in Cubes : InLane(f, x)' = InLane(f, x) /\ OnLane(f, x)' = OnLane(f, x)
  BY <1>1 DEF InLane, OnLane
<1>9. \A x \in Cubes : x # c => InOrderLane(f, x)' /\ Entry(f, x)' /\ NodeKept(f, x)
  BY <1>7, <1>8, StandsStill
<1>10. InOrderLane(f, c)' /\ Entry(f, c)' /\ Idle(f, c)'
  <2>1. InOrderLane(f, c)
    BY DEF FlowTree
  <2>2. InOrderLane(f, c)'
    BY <1>8, <2>1, PrimedOrder DEF InOrderLane
  <2>3. ~Coming(f, c, Calls(f, c)) /\ ~Coming(f, c, Updates(f))
    BY <1>2 DEF Marked
  <2>4. ~Has(InLane(f, c), Splits(f)) /\ ~Coming(f, c, Wholes(f))
    BY <2>3, Classes DEF Coming, Has
  <2>5. Entry(f, c)'
    BY <1>7, <1>8, <2>4, NoEntryFields DEF Entry
  <2>6. ~Coming(f, c, Calls(f, c))' /\ ~Coming(f, c, Wholes(f))'
    BY <1>8, <2>3, <2>4 DEF Coming
  <2>7. Idle(f, c)'
    BY <1>7, <2>6, NoEntryFields DEF Idle, Live
  <2> QED BY <2>2, <2>5, <2>7
<1>11. /\ \A x \in Cubes : x # c => (Replied(f, x)' <=> Replied(f, x))
       /\ c # Root[f] => Replied(f, c)'
       /\ \A x \in Cubes, m \in Ports : upBuffers'[x][m] \subseteq UpTo(f, x, m)
       /\ c # Root[f] => responseQ' = responseQ
       /\ c = Root[f] => responseQ' = responseQ \cup {Answer(f, c)}
  <2>1. CASE c = Root[f]
    <3>1. neighborCubeID[c][Lane(f, c)] = c
      BY <2>1, AtRoot DEF Above
    <3>2. upBuffers' = upBuffers /\ responseQ' = responseQ \cup {Answer(f, c)}
      BY <1>6, <3>1 DEF SendUp
    <3> QED BY <1>1, <2>1, <3>2 DEF Replied, Packets
  <2>2. CASE c # Root[f]
    <3>1. PICK a \in Cubes, b \in Links : a = Above(f, c) /\ b = Branch(f, c)
      BY LaneType
    <3>2. TreeLink(f, a, b) /\ neighborCubeID[a][b] = c /\ a # c
      BY <2>2, <3>1, Parent
    <3>3. neighborCubeID[c][Lane(f, c)] = a /\ PeerLink[c][Lane(f, c)] = b /\ b \in Ports
      BY <3>1 DEF Above, Branch, Ports
    <3>4. upBuffers' = [upBuffers EXCEPT ![a][b] = @ \cup {Answer(f, c)}] /\ responseQ' = responseQ
      BY <1>6, <3>2, <3>3 DEF SendUp
    <3>5. \A x \in Cubes, m \in Ports :
            upBuffers'[x][m] = IF x = a /\ m = b THEN upBuffers[x][m] \cup {Answer(f, c)}
                               ELSE upBuffers[x][m]
      BY <1>1, <3>4 DEF TypeOK
    <3>6. ASSUME NEW x \in Cubes, x # c PROVE Replied(f, x)' <=> Replied(f, x)
      <4>1. Above(f, x) \in Cubes /\ Branch(f, x) \in Ports
        BY LaneType DEF Ports
      <4>2. Answer(f, x) # Answer(f, c)
        BY <3>6, AnswerType
      <4> QED BY <3>5, <4>1, <4>2 DEF Replied
    <3>7. Replied(f, c)'
      BY <3>1, <3>3, <3>5 DEF Replied
    <3>8. Answer(f, c) \in UpTo(f, a, b)
      BY <3>2, AnswerType DEF UpTo
    <3>9. \A x \in Cubes, m \in Ports : upBuffers'[x][m] \subseteq UpTo(f, x, m)
      BY <1>1, <3>5, <3>8, ZenonT(60) DEF Packets
    <3> QED BY <2>2, <3>4, <3>6, <3>7, <3>9
  <2> QED BY <2>1, <2>2
<1>12. Packets(f)'
  <2>1. \A r \in responseQ' : IsAnswer(f, r) => r = Answer(f, Root[f])
    BY <1>1, <1>11 DEF Packets
  <2>2. \A x \in Cubes, m \in Ports : upBuffers'[x][m] \subseteq UpTo(f, x, m)
    BY <1>11
  <2> QED BY <1>1, <2>1, <2>2 DEF Packets
<1>13. ASSUME NEW x \in Cubes \ {Root[f]}, x # c
       PROVE  (NodeKept(f, x) /\ AboveKept(f, x)) \/ Edge(f, x)'
  <2>1. NodeKept(f, x)
    BY <1>9, <1>13
  <2>2. Above(f, x) \in Cubes /\ Branch(f, x) \in Links
    BY LaneType
  <2>3. Replied(f, x)' <=> Replied(f, x)
    BY <1>11, <1>13
  <2>4. Asked(f, x)' <=> Asked(f, x)
    BY <1>8, <2>2 DEF Asked
  <2>5. CASE Above(f, x) # c
    <3>1. (Sent(f, x)' <=> Sent(f, x)) /\ (Told(f, x)' <=> Told(f, x))
      BY <1>7, <2>2, <2>5 DEF Sent, Told
    <3> QED BY <2>1, <2>3, <2>4, <3>1 DEF AboveKept
  <2>6. CASE Above(f, x) = c
    <3>1. ~Sent(f, x)
      BY <1>3, <2>2, <2>6 DEF Sent
    <3>2. Idle(f, x) /\ ~Replied(f, x) /\ ~Asked(f, x)
      BY <3>1 DEF FlowTree, Edge
    <3>3. ~Sent(f, x)'
      BY <1>7, <2>2, <2>6, NoEntryFields DEF Sent
    <3>4. Idle(f, x)'
      BY <2>1, <3>2 DEF NodeKept
    <3> QED BY <2>3, <2>4, <3>2, <3>3, <3>4 DEF Edge
  <2> QED BY <2>5, <2>6
<1>14. ASSUME c # Root[f] PROVE Edge(f, c)'
  <2>1. /\ Above(f, c) # c
    BY <1>14, Parent
  <2>2. Edge(f, c) /\ ~Idle(f, c) /\ ~Grows(f, c)
    BY <1>1, <1>14 DEF FlowTree, Idle, Live, Grows
  <2>3. Sent(f, c) /\ Told(f, c) /\ ~Asked(f, c)
    BY <2>2 DEF Edge
  <2>4. Sent(f, c)' /\ Told(f, c)'
    BY <1>4, <1>7, <2>1, <2>3 DEF Sent, Told
  <2>5. ~Asked(f, c)'
    BY <1>4, <1>8, <2>3 DEF Asked
  <2> QED BY <1>10, <1>11, <1>14, <2>4, <2>5 DEF Edge
<1>15. (NodeKept(f, Root[f]) /\ HostKept(f)) \/ HostEdge(f)'
  <2>0. Root[f] \in Cubes
    BY LaneType
  <2>1. CASE c # Root[f]
    <3>1. NodeKept(f, Root[f])
      BY <1>9, <2>0, <2>1
    <3>2. HostKept(f)
      BY <1>1, <1>11, <2>1 DEF HostKept, Answered
    <3> QED BY <3>1, <3>2
  <2>2. CASE c = Root[f]
    <3>1. HostEdge(f) /\ ~Idle(f, c) /\ ~Grows(f, c)
      BY <1>1 DEF FlowTree, Idle, Live, Grows
    <3>2. host[f].phase = "gather"
      BY <1>1, <2>2, <3>1 DEF HostEdge, TypeOK
    <3>3. Answered(f)'
      BY <1>11, <2>2, AnswerType DEF Answered, IsAnswer
    <3>4. HostEdge(f)' <=>
             /\ Answered(f)' => host'[f].phase = "gather" /\ Idle(f, Root[f])'
             /\ host'[f].phase = "update" => Grows(f, Root[f])' /\ (host'[f].issued > 0 => Live(f, Root[f])')
             /\ host'[f].phase = "gather" /\ ~Answered(f)' =>
                  Live(f, Root[f])' /\ (Called(f, Root[f])' \/ Marked(f, Root[f])')
      BY DEF HostEdge
    <3> QED BY <1>1, <1>10, <2>2, <3>2, <3>3, <3>4
  <2> QED BY <2>1, <2>2
<1>16. \A x \in Cubes : InOrderLane(f, x)' /\ Entry(f, x)'
  BY <1>9, <1>10
<1>17. \A x \in Cubes \ {Root[f]} : (NodeKept(f, x) /\ AboveKept(f, x)) \/ Edge(f, x)'
  BY <1>13, <1>14
<1> QED BY <1>12, <1>15, <1>16, <1>17, TreeKept

(* The host takes the answer.                                              *)
LEMMA ReceiveTree ==
  ASSUME FInv, NEW f \in Flows, FlowTree(f), NEW r \in responseQ, IsAnswer(f, r),
         responseQ' = responseQ \ {r},
         host' = [host EXCEPT ![f] = [phase |-> "update", issued |-> 0]],
         UNCHANGED <<link, downBuffers, upBuffers, vault, flowTable>>
  PROVE  FlowTree(f)'
<1>1. IInv /\ TypeOK /\ Packets(f) /\ Root[f] \in Cubes
  BY HostType DEF FInv, IInv, FlowTree, Tags
<1>2. host'[f].phase = "update" /\ host'[f].issued = 0
  BY <1>1 DEF TypeOK
<1>3. Packets(f)'
  BY <1>1 DEF Packets
<1>4. \A x \in Cubes : InLane(f, x)' = InLane(f, x) /\ OnLane(f, x)' = OnLane(f, x)
  BY DEF InLane, OnLane
<1>5. \A x \in Cubes : InOrderLane(f, x)' /\ Entry(f, x)' /\ NodeKept(f, x) /\ EntrySame(f, x) /\ InSame(f, x)
  BY <1>4, StandsStill
<1>6. ASSUME NEW x \in Cubes PROVE AboveKept(f, x)
  BY DEF AboveKept, Sent, Told, Asked, Replied, InLane
<1>7. ~Answered(f)'
  <2>1. \A a \in responseQ : IsAnswer(f, a) => a = r
    BY <1>1 DEF Packets
  <2> QED BY <2>1 DEF Answered, IsAnswer
<1>8. Grows(f, Root[f])'
  <2>1. Answered(f)
    BY DEF Answered, IsAnswer
  <2>2. Idle(f, Root[f])
    BY <2>1 DEF FlowTree, HostEdge
  <2>3. Grows(f, Root[f])
    BY <1>1, <2>2, IdleGrows
  <2> QED BY <1>1, <1>5, <2>3 DEF NodeKept
<1>9. HostEdge(f)'
  BY <1>2, <1>7, <1>8 DEF HostEdge
<1> QED BY <1>3, <1>5, <1>6, <1>9, TreeKept

-----------------------------------------------------------------------------
(* Steps of the hosts.                                                     *)

LEMMA RootSends ==
  ASSUME FInv, NEW f \in Flows, FlowTree(f), NEW r \in Cubes, r = Root[f], Grows(f, r),
         NEW l \in Links, l = Lane(f, r), NEW e \in OnLink(f, r, l),
         link' = [link EXCEPT ![r][l] = Append(@, e)],
         UNCHANGED <<downBuffers, upBuffers, vault, flowTable, responseQ>>
  PROVE  /\ Packets(f)'
         /\ \A x \in Cubes : InOrderLane(f, x)' /\ Entry(f, x)'
         /\ \A x \in Cubes \ {r} : NodeKept(f, x) /\ AboveKept(f, x)
         /\ \A A : Coming(f, r, A)' <=> Coming(f, r, A) \/ e \in A
<1>1. /\ TypeOK /\ Packets(f) /\ \A x \in Cubes : InOrderLane(f, x) /\ Entry(f, x)
  BY DEF FInv, IInv, FlowTree
<1>2. /\ \A x \in Cubes, m \in Links : link'[x][m] \in Seq(OnLink(f, x, m))
      /\ \A x \in Cubes : x # r => OnLane(f, x)' = OnLane(f, x)
  BY <1>1, LaneSends
<1>3. /\ \A A : Has(OnLane(f, r), A) => Has(OnLane(f, r)', A)
      /\ \A A : Has(OnLane(f, r)', A) => Has(OnLane(f, r), A) \/ e \in A
      /\ l = Lane(f, r) => \A A : e \in A => Has(OnLane(f, r)', A)
      /\ Ends(OnLane(f, r)', Calls(f, r), Fence(f, r))
      /\ Has(InLane(f, r), Calls(f, r)) => ~Has(OnLane(f, r)', Fence(f, r))
  <2>1. e \in Fence(f, r) => ~Coming(f, r, Calls(f, r))
    BY DEF Grows
  <2> QED BY <1>1, <2>1, SendsAny
<1>4. Packets(f)'
  BY <1>1, <1>2 DEF Packets
<1>5. \A x \in Cubes : InLane(f, x)' = InLane(f, x)
  BY DEF InLane
<1>6. \A x \in Cubes \ {r} : InOrderLane(f, x)' /\ Entry(f, x)' /\ NodeKept(f, x)
  BY <1>2, <1>5, StandsStill
<1>7. InOrderLane(f, r)'
  BY <1>1, <1>3, <1>5, PrimedOrder DEF InOrderLane
<1>8. Entry(f, r)'
  BY <1>1, <1>5 DEF Entry
<1>9. \A x \in Cubes : AboveKept(f, x)
  BY DEF AboveKept, Sent, Told, Asked, Replied, InLane
<1>10. \A A : Coming(f, r, A)' <=> Coming(f, r, A) \/ e \in A
  BY <1>3, <1>5 DEF Coming
<1> QED BY <1>4, <1>6, <1>7, <1>8, <1>9, <1>10

LEMMA HostUpdateTree ==
  ASSUME FInv, NEW f \in Flows, FlowTree(f), HostUpdate(f)
  PROVE  FlowTree(f)'
<1>1. /\ TypeOK /\ UNCHANGED <<downBuffers, upBuffers, vault, flowTable, responseQ>>
      /\ host[f].phase = "update" /\ HostEdge(f)
  BY DEF FInv, IInv, FlowTree, HostUpdate
<1>2. PICK r \in Cubes, l \in Links : r = Root[f] /\ l = Lane(f, r)
  <2>1. Root[f] \in Cubes
    BY HostType DEF Tags
  <2> QED BY <2>1, LaneType
<1>3. l = NextLink[r][r]
  BY <1>2, AtRoot
<1>4. PICK n \in 1..MaxLines, d1 \in OperandCubes, d2 \in OperandCubes :
        /\ FlowOp[f] = "ADD" => d1 = d2
        /\ HostSend(f, HostPacket(IF FlowOp[f] = "ADD" THEN "ADD" ELSE "MULT", f, d1, d2, n))
        /\ host' = [host EXCEPT ![f].issued = @ + n]
  BY DEF HostUpdate
<1>5. PICK p : p = HostPacket(IF FlowOp[f] = "ADD" THEN "ADD" ELSE "MULT", f, d1, d2, n)
  OBVIOUS
<1>6. link' = [link EXCEPT ![r][l] = Append(@, p)]
  BY <1>2, <1>3, <1>4, <1>5 DEF HostSend
<1>7. /\ p \in Request /\ p.flow = f /\ p.cmd \in {"ADD", "MULT"} /\ p.half = 0
      /\ p.src = r /\ p.dest = d1 /\ p.dest1 = d1 /\ p.dest2 = d2
      /\ p.cmd = "ADD" => d1 = d2
  <2>1. f \in Tags /\ f \notin Reads /\ d1 \in Cubes /\ d2 \in Cubes /\ Root[f] \in Cubes
    BY <1>2, ARTAssumption DEF Tags
  <2>2. /\ p.flow = f /\ p.cmd \in {"ADD", "MULT"} /\ p.half = 0
        /\ p.src = r /\ p.dest = d1 /\ p.dest1 = d1 /\ p.dest2 = d2
        /\ p.cmd = "ADD" => d1 = d2
    BY <1>2, <1>4, <1>5 DEF HostPacket
  <2>3. p \in Request
    BY <1>5, <2>1 DEF HostPacket, Request
  <2> QED BY <2>2, <2>3
<1>8. p \in Wholes(f) /\ p \notin Splits(f) /\ p \in Updates(f)
  BY <1>7 DEF Wholes, Splits, Updates
<1>9. Headed(f, r, p)
  <2>1. OnWay(f, r, d1) /\ OnWay(f, r, d2)
    BY <1>2, WayStart
  <2> QED BY <1>2, <1>7, <2>1 DEF Headed
<1>10. p \in OnLink(f, r, l)
  BY <1>2, <1>7, <1>8, <1>9 DEF OnLink, InDown
<1>11. Grows(f, r) /\ ~Answered(f)
  BY <1>1, <1>2 DEF HostEdge
<1>12. PICK e \in OnLink(f, r, l) : e = p
  BY <1>10
<1>13. link' = [link EXCEPT ![r][l] = Append(@, e)]
  BY <1>6, <1>12
<1>14. /\ Packets(f)'
       /\ \A x \in Cubes : InOrderLane(f, x)' /\ Entry(f, x)'
       /\ \A x \in Cubes \ {r} : NodeKept(f, x) /\ AboveKept(f, x)
       /\ \A A : Coming(f, r, A)' <=> Coming(f, r, A) \/ e \in A
  BY <1>1, <1>2, <1>11, <1>13, RootSends
<1>15. e \notin Calls(f, r) /\ e \in Wholes(f)
  BY <1>7, <1>8, <1>12 DEF Calls
<1>16. Grows(f, r)'
  BY <1>1, <1>11, <1>14, <1>15 DEF Grows
<1>17. Live(f, r)'
  BY <1>14, <1>15 DEF Live
<1>18. ~Answered(f)' /\ host'[f].phase = "update"
  BY <1>1, <1>4, <1>11 DEF Answered, TypeOK
<1>19. HostEdge(f)'
  BY <1>2, <1>16, <1>17, <1>18 DEF HostEdge
<1> QED BY <1>2, <1>14, <1>19, TreeKept

LEMMA HostGatherTree ==
  ASSUME FInv, NEW f \in Flows, FlowTree(f), HostGather(f)
  PROVE  FlowTree(f)'
<1>1. /\ TypeOK /\ UNCHANGED <<downBuffers, upBuffers, vault, flowTable, responseQ>>
      /\ host[f].phase = "update" /\ host[f].issued > 0 /\ HostEdge(f)
      /\ host' = [host EXCEPT ![f].phase = "gather"]
  BY DEF FInv, IInv, FlowTree, HostGather
<1>2. PICK r \in Cubes, l \in Links : r = Root[f] /\ l = Lane(f, r)
  <2>1. Root[f] \in Cubes
    BY HostType DEF Tags
  <2> QED BY <2>1, LaneType
<1>3. l = NextLink[r][r]
  BY <1>2, AtRoot
<1>4. PICK p : p = HostPacket("GET", f, r, r, 1)
  OBVIOUS
<1>5. link' = [link EXCEPT ![r][l] = Append(@, p)]
  BY <1>2, <1>3, <1>4 DEF HostSend, HostGather
<1>6. p \in Request /\ p.flow = f /\ p.cmd = "GET" /\ p.dest = r
  <2>1. f \in Tags /\ f \notin Reads /\ 1 \in 1..MaxLines
    BY ARTAssumption DEF Tags
  <2>2. p.flow = f /\ p.cmd = "GET" /\ p.dest = r
    BY <1>4 DEF HostPacket
  <2>3. p \in Request
    BY <1>2, <1>4, <2>1 DEF HostPacket, Request
  <2> QED BY <2>2, <2>3
<1>7. p \notin Wholes(f) /\ p \notin Splits(f) /\ p \notin Updates(f) /\ p \in Calls(f, r)
  BY <1>6 DEF Wholes, Splits, Updates, Calls
<1>8. p \in OnLink(f, r, l)
  BY <1>2, <1>6, <1>7 DEF OnLink, InDown
<1>9. Grows(f, r) /\ ~Answered(f) /\ Live(f, r)
  BY <1>1, <1>2 DEF HostEdge
<1>10. PICK e \in OnLink(f, r, l) : e = p
  BY <1>8
<1>11. link' = [link EXCEPT ![r][l] = Append(@, e)]
  BY <1>5, <1>10
<1>12. /\ Packets(f)'
       /\ \A x \in Cubes : InOrderLane(f, x)' /\ Entry(f, x)'
       /\ \A x \in Cubes \ {r} : NodeKept(f, x) /\ AboveKept(f, x)
       /\ \A A : Coming(f, r, A)' <=> Coming(f, r, A) \/ e \in A
  BY <1>1, <1>2, <1>9, <1>11, RootSends
<1>13. e \in Calls(f, r)
  BY <1>7, <1>10
<1>14. Called(f, r)'
  BY <1>1, <1>9, <1>12, <1>13 DEF Grows, Called
<1>15. Live(f, r)'
  BY <1>1, <1>9, <1>12 DEF Live
<1>16. ~Answered(f)' /\ host'[f].phase = "gather"
  BY <1>1, <1>9 DEF Answered, TypeOK
<1>17. HostEdge(f)'
  BY <1>2, <1>14, <1>15, <1>16 DEF HostEdge
<1> QED BY <1>2, <1>12, <1>17, TreeKept

(* A host sends a packet that is not of f.                                 *)
LEMMA ForeignHostTree ==
  ASSUME FInv, NEW f \in Flows, FlowTree(f), NEW x \in Tags, x # f, NEW p \in Request,
         p.flow = x, HostSend(x, p), host'[f] = host[f],
         UNCHANGED <<downBuffers, upBuffers, vault, flowTable, responseQ>>
  PROVE  FlowTree(f)'
<1>1. /\ TypeOK /\ Packets(f) /\ \A y \in Cubes : InOrderLane(f, y)
  BY DEF FInv, IInv, FlowTree
<1>2. PICK d \in Cubes, q \in Links : d = Root[x] /\ q = NextLink[d][d]
  BY HostType, RouteType
<1>3. link' = [link EXCEPT ![d][q] = Append(@, p)]
  BY <1>2 DEF HostSend
<1>4. p \notin Updates(f) /\ p \notin Wholes(f) /\ \A y : p \notin Calls(f, y) /\ p \notin Fence(f, y)
  BY DEF Updates, Wholes, Calls, Fence
<1>5. p \in OnLink(f, d, q)
  BY <1>4, Foreign
<1>6. PICK e \in OnLink(f, d, q) : e = p
  BY <1>5
<1>7. /\ \A y \in Cubes, m \in Links : link'[y][m] \in Seq(OnLink(f, y, m))
      /\ \A y \in Cubes : y # d => OnLane(f, y)' = OnLane(f, y)
  BY <1>1, <1>3, <1>6, LaneSends
<1>8. /\ \A A : Has(OnLane(f, d), A) => Has(OnLane(f, d)', A)
      /\ \A A : Has(OnLane(f, d)', A) => Has(OnLane(f, d), A) \/ e \in A
      /\ Ends(OnLane(f, d)', Calls(f, d), Fence(f, d))
      /\ Has(InLane(f, d), Calls(f, d)) => ~Has(OnLane(f, d)', Fence(f, d))
  <2>1. e \notin Fence(f, d) /\ link' = [link EXCEPT ![d][q] = Append(@, e)]
    BY <1>3, <1>4, <1>6
  <2> QED BY <1>1, <2>1, SendsAny
<1>9. OnSame(f, d)
  BY <1>4, <1>6, <1>8 DEF OnSame
<1>10. \A y \in Cubes : OnSame(f, y)
  BY <1>1, <1>7, <1>9, SameOn
<1>11. /\ \A y \in Cubes : InSame(f, y)
       /\ \A y \in Cubes, m \in Links : downBuffers'[y][m] \in Seq(InDown(f, y, m))
  BY DownKept
<1>12. \A y \in Cubes : EntrySame(f, y)
  BY EntriesKept
<1>13. \A y \in Cubes : \A a \in vault'[y] : ~IsAnswer(f, a)
  BY <1>1 DEF Packets
<1>14. /\ Packets(f)' /\ HostKept(f)
       /\ \A y \in Cubes : Replied(f, y)' <=> Replied(f, y)
  BY <1>1, <1>7, <1>11, <1>13, UpKept
<1> QED BY <1>10, <1>11, <1>12, <1>14, TreeFrame

-----------------------------------------------------------------------------
(* A link hands its oldest request to the input buffer.                    *)

LEMMA DeliverTree ==
  ASSUME FInv, NEW f \in Flows, FlowTree(f), NEW c \in Cubes, NEW l \in Links, Deliver(c, l)
  PROVE  FlowTree(f)'
<1>1. /\ TypeOK /\ Packets(f) /\ \A x \in Cubes : InOrderLane(f, x) /\ Entry(f, x)
      /\ UNCHANGED <<upBuffers, vault, flowTable, responseQ>> /\ host'[f] = host[f]
      /\ link[c][l] # <<>>
  BY DEF FInv, IInv, FlowTree, Deliver
<1>2. PICK e : e = Head(link[c][l])
  OBVIOUS
<1>3. link[c][l] \in Seq(OnLink(f, c, l)) /\ e \in OnLink(f, c, l) /\ Tail(link[c][l]) \in Seq(OnLink(f, c, l))
  BY <1>1, <1>2, HeadTailProperties DEF Packets
<1>4. /\ e \in InDown(f, c, l) /\ e \notin Splits(f)
      /\ \A x : e \in Calls(f, x) => x = c
  BY <1>3 DEF OnLink, Calls
<1>5. /\ \A x \in Cubes, m \in Links : downBuffers'[x][m] \in Seq(InDown(f, x, m))
      /\ \A x \in Cubes : x # c => InLane(f, x)' = InLane(f, x)
      /\ l # Lane(f, c) => InLane(f, c)' = InLane(f, c)
      /\ l = Lane(f, c) => /\ InLane(f, c) \in Seq(InDown(f, c, l))
                           /\ InLane(f, c)' = Append(InLane(f, c), e)
  <2>1. PICK q \in InDown(f, c, l) : q = e
    BY <1>4
  <2>2. downBuffers' = [downBuffers EXCEPT ![c][l] = Append(@, q)]
    BY <1>2, <2>1 DEF Deliver
  <2> QED BY <1>1, <2>1, <2>2, LaneGets
<1>6. \A x \in Cubes, m \in Links : link'[x][m] = IF x = c /\ m = l THEN Tail(link[x][m]) ELSE link[x][m]
  BY <1>1 DEF TypeOK, Deliver
<1>7. ASSUME NEW x \in Cubes, NEW m \in Links PROVE link'[x][m] \in Seq(OnLink(f, x, m))
  <2>1. CASE x = c /\ m = l
    BY <1>3, <1>6, <2>1
  <2>2. CASE ~(x = c /\ m = l)
    <3>1. link'[x][m] = link[x][m] /\ link[x][m] \in Seq(OnLink(f, x, m))
      BY <1>1, <1>6, <2>2 DEF Packets
    <3> QED BY <3>1
  <2> QED BY <2>1, <2>2
<1>8. /\ \A x \in Cubes : x # c => OnLane(f, x)' = OnLane(f, x)
      /\ l # Lane(f, c) => OnLane(f, c)' = OnLane(f, c)
      /\ l = Lane(f, c) => OnLane(f, c) = link[c][l] /\ OnLane(f, c)' = Tail(link[c][l])
  <2>1. \A x \in Cubes : Lane(f, x) \in Links
    BY LaneType
  <2> QED BY <1>6, <2>1, PrimedLane DEF OnLane
<1>9. \A x \in Cubes : \A a \in vault'[x] : ~IsAnswer(f, a)
  BY <1>1 DEF Packets
<1>10. /\ Packets(f)' /\ HostKept(f)
       /\ \A x \in Cubes : Replied(f, x)' <=> Replied(f, x)
  BY <1>1, <1>5, <1>7, <1>9, UpKept
<1>11. \A x \in Cubes : x # c => InOrderLane(f, x)' /\ Entry(f, x)' /\ NodeKept(f, x)
  BY <1>1, <1>5, <1>8, StandsStill
<1>12. /\ InOrderLane(f, c)' /\ Entry(f, c)' /\ NodeKept(f, c)
       /\ \A x \in Cubes : x # c => (Has(InLane(f, c)', Calls(f, x)) <=> Has(InLane(f, c), Calls(f, x)))
  <2>1. CASE l # Lane(f, c)
    BY <1>1, <1>5, <1>8, <2>1, StandsStill
  <2>2. CASE l = Lane(f, c)
    <3>1. PICK s : s = InLane(f, c)
      OBVIOUS
    <3>2. PICK t : t = InLane(f, c)'
      OBVIOUS
    <3>3. PICK u : u = OnLane(f, c)
      OBVIOUS
    <3>4. PICK v : v = OnLane(f, c)'
      OBVIOUS
    <3>5. s \in Seq(InDown(f, c, l)) /\ t = Append(s, e)
      BY <1>5, <2>2, <3>1, <3>2
    <3>6. u \in Seq(OnLink(f, c, l)) /\ u # <<>> /\ e = Head(u) /\ v = Tail(u)
      BY <1>1, <1>2, <1>3, <1>8, <2>2, <3>3, <3>4
    <3>7. /\ \A A : Has(t, A) <=> Has(s, A) \/ e \in A
          /\ \A A, B : Ends(s, A, B) /\ (e \in B => ~Has(s, A)) => Ends(t, A, B)
      BY <1>4, <3>5, SeqAppend
    <3>8. /\ \A A : Has(u, A) <=> e \in A \/ Has(v, A)
          /\ \A A, B : Ends(u, A, B) => Ends(v, A, B) /\ (e \in A => ~Has(v, B))
      BY <3>6, SeqTail
    <3>9. /\ Ends(s, Calls(f, c), Fence(f, c)) /\ Ends(u, Calls(f, c), Fence(f, c))
          /\ Has(s, Calls(f, c)) => ~Has(u, Fence(f, c))
          /\ \A x \in Cubes : Ends(s, Calls(f, x), Calls(f, x))
      BY <1>1, <3>1, <3>3 DEF InOrderLane
    <3>10. e \in Fence(f, c) => ~Has(s, Calls(f, c))
      BY <3>8, <3>9
    <3>11. Ends(t, Calls(f, c), Fence(f, c)) /\ Ends(v, Calls(f, c), Fence(f, c))
      BY <3>7, <3>8, <3>9, <3>10
    <3>12. Has(t, Calls(f, c)) => ~Has(v, Fence(f, c))
      BY <3>7, <3>8, <3>9
    <3>13. ASSUME NEW x \in Cubes PROVE Ends(t, Calls(f, x), Calls(f, x))
      <4>1. e \in Calls(f, x) => ~Has(s, Calls(f, x))
        BY <1>4, <3>10 DEF Fence
      <4> QED BY <3>7, <3>9, <4>1
    <3>14. InOrderLane(f, c)'
      BY <3>2, <3>4, <3>11, <3>12, <3>13, PrimedOrder
    <3>15. Entry(f, c)'
      BY <1>1, <1>4, <3>1, <3>2, <3>7 DEF Entry
    <3>16. \A A : Coming(f, c, A)' <=> Coming(f, c, A)
      BY <3>1, <3>2, <3>3, <3>4, <3>7, <3>8 DEF Coming
    <3>17. NodeKept(f, c)
      BY <1>1, <3>16 DEF NodeKept, Live, Idle, Grows, Called, Marked
    <3>18. ASSUME NEW x \in Cubes, x # c PROVE Has(t, Calls(f, x)) <=> Has(s, Calls(f, x))
      BY <1>4, <3>7, <3>18
    <3> QED BY <3>1, <3>2, <3>14, <3>15, <3>17, <3>18
  <2> QED BY <2>1, <2>2
<1>13. ASSUME NEW x \in Cubes \ {Root[f]} PROVE AboveKept(f, x)
  <2>1. Above(f, x) \in Cubes /\ Above(f, x) # x
    BY LaneType, Parent
  <2>2. Asked(f, x)' <=> Asked(f, x)
    BY <1>5, <1>12, <2>1 DEF Asked
  <2>3. (Sent(f, x)' <=> Sent(f, x)) /\ (Told(f, x)' <=> Told(f, x))
    BY <1>1 DEF Sent, Told
  <2> QED BY <1>10, <2>2, <2>3 DEF AboveKept
<1>14. \A x \in Cubes : InOrderLane(f, x)' /\ Entry(f, x)' /\ NodeKept(f, x)
  BY <1>11, <1>12
<1>15. Root[f] \in Cubes
  BY LaneType
<1> QED BY <1>10, <1>13, <1>14, <1>15, TreeKept

-----------------------------------------------------------------------------
(* The inductive invariant.                                                *)

TInv == FInv /\ \A f \in Flows : FlowTree(f)

LEMMA TreeInit ==
  ASSUME Init, NEW f \in Flows
  PROVE  FlowTree(f)
<1>1. /\ \A c \in Cubes, l \in Links : link[c][l] = <<>> /\ downBuffers[c][l] = <<>>
      /\ \A c \in Cubes, p \in Ports : upBuffers[c][p] = {}
      /\ \A c \in Cubes : vault[c] = {} /\ flowTable[c][f] = NoEntry(c)
      /\ responseQ = {} /\ host[f].phase = "update" /\ host[f].issued = 0
  BY DEF Init
<1>2. \A S : <<>> \in Seq(S)
  OBVIOUS
<1>3. Packets(f)
  BY <1>1, <1>2 DEF Packets
<1>4. \A A, B : ~Has(<<>>, A) /\ Ends(<<>>, A, B)
  BY DEF Has, Ends
<1>5. \A c \in Cubes : InLane(f, c) = <<>> /\ OnLane(f, c) = <<>>
  BY <1>1, LaneType DEF InLane, OnLane
<1>6. \A c \in Cubes : /\ ~flowTable[c][f].valid /\ ~flowTable[c][f].g_flag
                       /\ \A n \in Links : /\ flowTable[c][f].children_count[n] = 0
                                           /\ ~flowTable[c][f].children_gflag[n]
  BY <1>1, NoEntryFields
<1>7. \A c \in Cubes : InOrderLane(f, c) /\ Entry(f, c)
  BY <1>4, <1>5, <1>6 DEF InOrderLane, Entry
<1>8. \A c \in Cubes : Idle(f, c) /\ Grows(f, c)
  BY <1>4, <1>5, <1>6 DEF Idle, Live, Grows, Coming
<1>9. ASSUME NEW c \in Cubes PROVE Edge(f, c)
  <2>1. Above(f, c) \in Cubes /\ Branch(f, c) \in Links /\ Branch(f, c) \in Ports
    BY LaneType DEF Ports
  <2>2. ~Sent(f, c) /\ ~Asked(f, c) /\ ~Replied(f, c)
    BY <1>1, <1>4, <1>5, <1>6, <2>1 DEF Sent, Asked, Replied
  <2> QED BY <1>8, <2>2 DEF Edge
<1>10. HostEdge(f)
  <2>1. Root[f] \in Cubes
    BY HostType DEF Tags
  <2>2. ~Answered(f)
    BY <1>1 DEF Answered
  <2> QED BY <1>1, <1>8, <2>1, <2>2 DEF HostEdge
<1> QED BY <1>3, <1>7, <1>9, <1>10 DEF FlowTree

LEMMA ReceiveAny ==
  ASSUME FInv, NEW f \in Flows, FlowTree(f), HostReceive
  PROVE  FlowTree(f)'
<1>1. PICK r \in responseQ :
        /\ responseQ' = responseQ \ {r}
        /\ IF r.cmd = "GET"
           THEN /\ host' = [host EXCEPT ![r.flow] = [phase |-> "update", issued |-> 0]]
                /\ memory' = [memory EXCEPT ![r.flow] = 0]
                /\ UNCHANGED reading
           ELSE reading' = reading \ {r.flow} /\ UNCHANGED <<host, memory>>
  BY DEF HostReceive
<1>2. UNCHANGED <<link, downBuffers, upBuffers, vault, flowTable>>
  BY DEF HostReceive
<1>3. CASE IsAnswer(f, r)
  <2>1. host' = [host EXCEPT ![f] = [phase |-> "update", issued |-> 0]]
    BY <1>1, <1>3 DEF IsAnswer
  <2> QED BY <1>1, <1>2, <1>3, <2>1, ReceiveTree
<1>4. CASE ~IsAnswer(f, r)
  BY <1>1, <1>2, <1>4, ForeignReceiveTree
<1> QED BY <1>3, <1>4

LEMMA HostRequest ==
  ASSUME NEW cmd \in {"ADD", "MULT", "GET", "RD"}, NEW x \in Tags, cmd = "RD" <=> x \in Reads,
         NEW d1 \in Cubes, NEW d2 \in Cubes, NEW n \in 1..MaxLines
  PROVE  /\ HostPacket(cmd, x, d1, d2, n) \in Request
         /\ HostPacket(cmd, x, d1, d2, n).flow = x
BY HostType DEF HostPacket, Request

LEMMA HostTree ==
  ASSUME FInv, NEW f \in Flows, FlowTree(f), Host
  PROVE  FlowTree(f)'
<1>1. CASE \E g \in Flows : g = f /\ (HostUpdate(g) \/ HostGather(g))
  BY <1>1, HostUpdateTree, HostGatherTree
<1>2. ASSUME NEW g \in Flows, g # f, HostUpdate(g) PROVE FlowTree(f)'
  <2>1. PICK n \in 1..MaxLines, d1 \in OperandCubes, d2 \in OperandCubes :
          /\ HostSend(g, HostPacket(IF FlowOp[g] = "ADD" THEN "ADD" ELSE "MULT", g, d1, d2, n))
          /\ host' = [host EXCEPT ![g].issued = @ + n]
    BY <1>2 DEF HostUpdate
  <2>2. PICK cmd \in {"ADD", "MULT", "GET", "RD"} :
          cmd = (IF FlowOp[g] = "ADD" THEN "ADD" ELSE "MULT") /\ cmd # "RD"
    OBVIOUS
  <2>3. g \in Tags /\ g \notin Reads /\ d1 \in Cubes /\ d2 \in Cubes
    BY ARTAssumption DEF Tags
  <2>4. PICK p \in Request : p = HostPacket(cmd, g, d1, d2, n) /\ p.flow = g
    BY <2>2, <2>3, HostRequest
  <2>5. HostSend(g, p) /\ UNCHANGED <<downBuffers, upBuffers, vault, flowTable, responseQ>>
    BY <1>2, <2>1, <2>2, <2>4 DEF HostUpdate
  <2>6. host'[f] = host[f]
    BY <1>2, <2>1 DEF FInv, IInv, TypeOK
  <2> QED BY <1>2, <2>3, <2>4, <2>5, <2>6, ForeignHostTree
<1>3. ASSUME NEW g \in Flows, g # f, HostGather(g) PROVE FlowTree(f)'
  <2>1. g \in Tags /\ g \notin Reads /\ Root[g] \in Cubes /\ 1 \in 1..MaxLines
    BY ARTAssumption DEF Tags
  <2>2. PICK p \in Request : p = HostPacket("GET", g, Root[g], Root[g], 1) /\ p.flow = g
    BY <2>1, HostRequest
  <2>3. HostSend(g, p) /\ UNCHANGED <<downBuffers, upBuffers, vault, flowTable, responseQ>>
    BY <1>3, <2>2 DEF HostGather
  <2>4. host'[f] = host[f]
    BY <1>3 DEF FInv, IInv, TypeOK, HostGather
  <2> QED BY <1>3, <2>1, <2>2, <2>3, <2>4, ForeignHostTree
<1>4. ASSUME NEW t \in Reads, HostRead(t) PROVE FlowTree(f)'
  <2>1. PICK d \in OperandCubes : HostSend(t, HostPacket("RD", t, d, d, 1))
    BY <1>4 DEF HostRead
  <2>2. t \in Tags /\ t # f /\ d \in Cubes /\ 1 \in 1..MaxLines
    BY ARTAssumption DEF Tags
  <2>3. PICK p \in Request : p = HostPacket("RD", t, d, d, 1) /\ p.flow = t
    BY <2>2, HostRequest
  <2>4. /\ HostSend(t, p) /\ UNCHANGED <<downBuffers, upBuffers, vault, flowTable, responseQ>>
        /\ host'[f] = host[f]
    BY <1>4, <2>1, <2>3 DEF HostRead
  <2> QED BY <2>2, <2>3, <2>4, ForeignHostTree
<1> QED BY <1>1, <1>2, <1>3, <1>4 DEF Host

LEMMA SameTree ==
  ASSUME FInv, NEW f \in Flows, FlowTree(f), UNCHANGED vars
  PROVE  FlowTree(f)'
<1>1. UNCHANGED <<link, downBuffers, upBuffers, vault, flowTable, responseQ, host>>
  BY DEF vars
<1>2. AnswersStay(f)
  BY <1>1, SameStay DEF FInv, IInv
<1>3. \A x \in Cubes : EntrySame(f, x)
  BY <1>1, EntriesKept
<1>4. \A x \in Cubes : \A a \in vault'[x] : ~IsAnswer(f, a)
  BY <1>1 DEF FlowTree, Packets
<1> QED BY <1>1, <1>2, <1>3, <1>4, UpTree

LEMMA TreeStep ==
  ASSUME FInv, NEW f \in Flows, FlowTree(f), [Next]_vars
  PROVE  FlowTree(f)'
<1>1. CASE \E c \in Cubes, l \in Links : Deliver(c, l)
  BY <1>1, DeliverTree
<1>2. CASE \E c \in Cubes, l \in Links : \E i \in DOMAIN downBuffers[c][l] :
             RequestStep(c, l, i, downBuffers[c][l][i])
  BY <1>2, RequestTree
<1>3. CASE \E c \in Cubes : VaultReturn(c)
  BY <1>3, VaultReturnTree
<1>4. CASE \E c \in Cubes, p \in Ports : \E r \in upBuffers[c][p] : ResponseStep(c, p, r)
  <2>1. PICK c \in Cubes, p \in Ports : \E r \in upBuffers[c][p] : ResponseStep(c, p, r)
    BY <1>4
  <2>2. PICK r \in upBuffers[c][p] : ResponseStep(c, p, r)
    BY <2>1
  <2> QED BY <2>2, OperandReturnTree, ReplyTree, ForeignReplyTree, ForwardResponseTree DEF ResponseStep
<1>5. CASE \E c \in Cubes, b \in Bufs : ComputeStep(c, b)
  BY <1>5, ComputeTree
<1>6. CASE \E c \in Cubes, g \in Flows : GatherReply(c, g)
  BY <1>6, GatherTree, ForeignGatherTree
<1>7. CASE HostReceive
  BY <1>7, ReceiveAny
<1>8. CASE Host
  BY <1>8, HostTree
<1>9. CASE UNCHANGED vars
  BY <1>9, SameTree
<1> QED BY <1>1, <1>2, <1>3, <1>4, <1>5, <1>6, <1>7, <1>8, <1>9 DEF Next, Network

(* In every behaviour the entries, updates and gathers of each flow form   *)
(* one tree: every cube is in the state its parent's entry says it is in,  *)
(* and the root in the state the host's phase says.                        *)
THEOREM TreeInvariance == Spec => []TInv
<1>1. Init => TInv
  BY FInvInit, TreeInit DEF TInv
<1>2. TInv /\ [Next]_vars => TInv'
  <2> SUFFICES ASSUME TInv, [Next]_vars PROVE TInv'
    OBVIOUS
  <2>1. FInv'
    BY FInvStep DEF TInv
  <2>2. ASSUME NEW f \in Flows PROVE FlowTree(f)'
    BY TreeStep DEF TInv
  <2> QED BY <2>1, <2>2 DEF TInv
<1> QED BY <1>1, <1>2, PTL DEF Spec

-----------------------------------------------------------------------------
(* The edges of the tree.                                                  *)

LEMMA LiveSent ==
  ASSUME TInv, NEW f \in Flows, NEW c \in Cubes, NEW n \in Links, NEW d \in Cubes,
         d = neighborCubeID[c][n], TreeLink(f, c, n), Live(f, d) \/ Replied(f, d)
  PROVE  flowTable[c][f].children_count[n] > 0
<1>1. d # Root[f] /\ Above(f, d) = c /\ Branch(f, d) = n
  BY Child
<1>2. Edge(f, d)
  BY <1>1 DEF TInv, FlowTree
<1>3. Sent(f, d)
  BY <1>2 DEF Edge, Idle
<1> QED BY <1>1, <1>3 DEF Sent

LEMMA WholeComing ==
  ASSUME TInv, NEW f \in Flows, NEW d \in Cubes, NEW q \in Links, q = Lane(f, d), UpdatesTo(d, q, f)
  PROVE  Live(f, d)
<1>1. PICK s \in {link[d][q], downBuffers[d][q]} : \E i \in DOMAIN s :
        s[i].cmd \in {"ADD", "MULT"} /\ s[i].half = 0 /\ s[i].flow = f
  BY DEF UpdatesTo
<1>2. PICK i \in DOMAIN s : s[i].cmd \in {"ADD", "MULT"} /\ s[i].half = 0 /\ s[i].flow = f
  BY <1>1
<1>3. s \in Seq(Request)
  BY <1>1 DEF TInv, FInv, IInv, TypeOK
<1>4. s[i] \in Request
  BY <1>3
<1>5. s[i] \in Wholes(f)
  BY <1>2, <1>4 DEF Wholes
<1>6. Has(s, Wholes(f))
  BY <1>5 DEF Has
<1>7. s = OnLane(f, d) \/ s = InLane(f, d)
  BY <1>1 DEF OnLane, InLane
<1> QED BY <1>6, <1>7 DEF Live, Coming

LEMMA ComingWhole ==
  ASSUME TInv, NEW f \in Flows, NEW d \in Cubes, NEW q \in Links, q = Lane(f, d), Live(f, d)
  PROVE  UpdatesTo(d, q, f) \/ flowTable[d][f].valid
<1>1. Packets(f) /\ Entry(f, d)
  BY DEF TInv, FlowTree
<1>2. ASSUME NEW s \in {link[d][q], downBuffers[d][q]}, NEW i \in DOMAIN s,
             s[i] \in Wholes(f), s[i].half = 0
      PROVE  UpdatesTo(d, q, f)
  BY <1>2 DEF UpdatesTo, Wholes
<1>3. CASE flowTable[d][f].valid
  BY <1>3
<1>4. CASE Has(InLane(f, d), Wholes(f))
  <2>1. PICK s : s = downBuffers[d][q]
    OBVIOUS
  <2>2. PICK i \in DOMAIN s : s[i] \in Wholes(f)
    BY <1>4, <2>1 DEF Has, InLane
  <2>3. CASE s[i].half = 0
    BY <1>2, <2>1, <2>2, <2>3
  <2>4. CASE s[i].half # 0
    <3>1. s[i] \in Splits(f)
      BY <2>2, <2>4 DEF Splits
    <3>2. Has(InLane(f, d), Splits(f))
      BY <2>1, <2>2, <3>1 DEF Has, InLane
    <3> QED BY <1>1, <3>2 DEF Entry
  <2> QED BY <2>3, <2>4
<1>5. CASE Has(OnLane(f, d), Wholes(f))
  <2>1. PICK s : s = link[d][q]
    OBVIOUS
  <2>2. PICK i \in DOMAIN s : s[i] \in Wholes(f)
    BY <1>5, <2>1 DEF Has, OnLane
  <2>3. s \in Seq(OnLink(f, d, q))
    BY <1>1, <2>1 DEF Packets
  <2>4. s[i] \in OnLink(f, d, q)
    BY <2>2, <2>3
  <2>5. s[i].half = 0
    BY <2>2, <2>4 DEF OnLink, Splits
  <2> QED BY <1>2, <2>1, <2>2, <2>5
<1> QED BY <1>3, <1>4, <1>5 DEF Live, Coming

(* A cube counts a child exactly while the child has something of the flow *)
(* to answer for (flowTable[..].children_count, CrossbarSwitch.cpp:356):   *)
(* an update on its way, an entry whose parent is the cube, or an answer   *)
(* under way.                                                              *)
THEOREM TreeCorrect == Spec => []TreeEdges
<1>1. ASSUME TInv, NEW c \in Cubes, NEW f \in Flows, NEW n \in Links, NEW d \in Cubes,
             NEW q \in Links, d = neighborCubeID[c][n], q = PeerLink[c][n], d # c
      PROVE  (flowTable[c][f].children_count[n] > 0) <=>
               \/ UpdatesTo(d, q, f) /\ ParentLink[d][Root[f]] = q
               \/ flowTable[d][f].valid /\ flowTable[d][f].parent = c
               \/ \E r \in upBuffers[c][n] : r.cmd = "GET" /\ r.flow = f /\ r.src = d
  <2>0. FInv /\ FlowTree(f) /\ Packets(f) /\ n \in Ports /\ \A x \in Cubes : Entry(f, x)
    BY <1>1 DEF TInv, FlowTree, Ports
  <2>1. ASSUME flowTable[c][f].children_count[n] > 0
        PROVE  \/ UpdatesTo(d, q, f) /\ ParentLink[d][Root[f]] = q
               \/ flowTable[d][f].valid /\ flowTable[d][f].parent = c
               \/ \E r \in upBuffers[c][n] : r.cmd = "GET" /\ r.flow = f /\ r.src = d
    <3>1. TreeLink(f, c, n)
      BY <2>0, <2>1 DEF Entry
    <3>2. d # Root[f] /\ Above(f, d) = c /\ Branch(f, d) = n /\ Lane(f, d) = q
      BY <1>1, <3>1, Child
    <3>3. Sent(f, d) /\ Edge(f, d)
      BY <2>0, <2>1, <3>2 DEF Sent, FlowTree
    <3>4. CASE Replied(f, d)
      <4>1. Answer(f, d) \in upBuffers[c][n]
        BY <3>2, <3>4 DEF Replied
      <4>2. Answer(f, d).cmd = "GET" /\ Answer(f, d).flow = f /\ Answer(f, d).src = d
        BY DEF Answer
      <4> QED BY <4>1, <4>2
    <3>5. CASE ~Replied(f, d)
      <4>1. Live(f, d)
        BY <3>3, <3>5 DEF Edge
      <4>2. UpdatesTo(d, q, f) \/ flowTable[d][f].valid
        BY <1>1, <3>2, <4>1, ComingWhole
      <4> QED BY <2>0, <3>2, <4>2 DEF Entry, Lane
    <3> QED BY <3>4, <3>5
  <2>2. ASSUME UpdatesTo(d, q, f), ParentLink[d][Root[f]] = q
        PROVE  flowTable[c][f].children_count[n] > 0
    <3>1. TreeLink(f, c, n) /\ q = Lane(f, d)
      BY <1>1, <2>2 DEF TreeLink, Lane
    <3>2. Live(f, d)
      BY <1>1, <2>2, <3>1, WholeComing
    <3> QED BY <1>1, <3>1, <3>2, LiveSent
  <2>3. ASSUME flowTable[d][f].valid, flowTable[d][f].parent = c
        PROVE  flowTable[c][f].children_count[n] > 0
    <3>1. Above(f, d) = c
      BY <2>0, <2>3 DEF Entry
    <3>2. d # Root[f]
      BY <1>1, <3>1, AtRoot
    <3>3. PICK b \in Links : b = Branch(f, d)
      BY LaneType
    <3>4. neighborCubeID[c][b] = d /\ TreeLink(f, c, b)
      BY <3>1, <3>2, <3>3, Parent
    <3>5. NextLink[c][d] = n /\ NextLink[c][d] = b
      BY <1>1, <3>4, TreeAssumption
    <3>6. TreeLink(f, c, n) /\ Live(f, d)
      BY <2>3, <3>4, <3>5 DEF Live
    <3> QED BY <1>1, <3>6, LiveSent
  <2>4. ASSUME NEW r \in upBuffers[c][n], r.cmd = "GET", r.flow = f, r.src = d
        PROVE  flowTable[c][f].children_count[n] > 0
    <3>1. IsAnswer(f, r)
      BY <2>4 DEF IsAnswer
    <3>2. TreeLink(f, c, n) /\ r = Answer(f, d)
      BY <1>1, <2>0, <3>1, AnswerAt
    <3>3. Above(f, d) = c /\ Branch(f, d) = n
      BY <1>1, <3>2, Child
    <3>4. Replied(f, d)
      BY <3>2, <3>3 DEF Replied
    <3> QED BY <1>1, <3>2, <3>4, LiveSent
  <2> QED BY <2>1, <2>2, <2>3, <2>4
<1>2. TInv => TreeEdges
  <2> SUFFICES ASSUME TInv, NEW c \in Cubes, NEW f \in Flows, NEW n \in Links,
                      neighborCubeID[c][n] # c
               PROVE  (flowTable[c][f].children_count[n] > 0) <=>
                        \/ UpdatesTo(neighborCubeID[c][n], PeerLink[c][n], f)
                             /\ ParentLink[neighborCubeID[c][n]][Root[f]] = PeerLink[c][n]
                        \/ flowTable[neighborCubeID[c][n]][f].valid
                             /\ flowTable[neighborCubeID[c][n]][f].parent = c
                        \/ \E r \in upBuffers[c][n] :
                             r.cmd = "GET" /\ r.flow = f /\ r.src = neighborCubeID[c][n]
    BY DEF TreeEdges
  <2>1. PICK d \in Cubes, q \in Links : d = neighborCubeID[c][n] /\ q = PeerLink[c][n]
    BY WireType
  <2>2. (flowTable[c][f].children_count[n] > 0) <=>
               \/ UpdatesTo(d, q, f) /\ ParentLink[d][Root[f]] = q
               \/ flowTable[d][f].valid /\ flowTable[d][f].parent = c
               \/ \E r \in upBuffers[c][n] : r.cmd = "GET" /\ r.flow = f /\ r.src = d
    BY <1>1, <2>1
  <2> QED BY <2>1, <2>2
<1> QED BY <1>2, TreeInvariance, PTL

-----------------------------------------------------------------------------
(* Assertions of the request path.                                         *)

LEMMA CalledValid ==
  ASSUME TInv, NEW f \in Flows, NEW c \in Cubes, Coming(f, c, Calls(f, c)),
         ~Coming(f, c, Updates(f))
  PROVE  flowTable[c][f].valid
<1>1. FlowTree(f) /\ TypeOK
  BY DEF TInv, FInv, IInv
<1>2. ~Grows(f, c) /\ ~Idle(f, c)
  BY DEF Grows, Idle
<1>3. Live(f, c)
  <2>1. CASE c = Root[f]
    <3>1. HostEdge(f)
      BY <1>1 DEF FlowTree
    <3>2. ~Answered(f) /\ host[f].phase = "gather"
      BY <1>1, <1>2, <2>1, <3>1 DEF HostEdge, TypeOK
    <3> QED BY <2>1, <3>1, <3>2 DEF HostEdge
  <2>2. CASE c # Root[f]
    <3>1. Edge(f, c)
      BY <1>1, <2>2 DEF FlowTree
    <3> QED BY <1>2, <3>1 DEF Edge
  <2> QED BY <2>1, <2>2
<1>4. ~Coming(f, c, Wholes(f))
  BY Classes DEF Coming, Has
<1> QED BY <1>3, <1>4 DEF Live

(* Every update of f is one that a gather of f may not overtake.           *)
LEMMA EveryUpdate ==
  ASSUME NEW f \in Flows, NEW p \in GoodRequest, p.flow = f, p.cmd \in {"ADD", "MULT"},
         MaxLines = 1 \/ \A g \in Flows : FlowOp[g] = "ADD"
  PROVE  p \in Updates(f)
<1>1. p \in Request /\ p.lines \in 1..MaxLines /\ MaxLines \in Nat
  BY ARTAssumption DEF GoodRequest, Request
<1>2. CASE MaxLines = 1
  BY <1>1, <1>2 DEF Updates
<1>3. CASE \A g \in Flows : FlowOp[g] = "ADD"
  <2>1. p.cmd # "MULT" /\ p.half = 0
    BY <1>3 DEF GoodRequest
  <2> QED BY <1>1, <2>1 DEF Updates
<1> QED BY <1>2, <1>3

LEMMA CallAsserts ==
  ASSUME TInv, MaxLines = 1 \/ \A g \in Flows : FlowOp[g] = "ADD",
         NEW c \in Cubes, NEW l \in Links, NEW s, s = downBuffers[c][l], NEW i \in DOMAIN s,
         s[i].cmd = "GET", s[i].dest = c
  PROVE  /\ (\A j \in 1..(i-1) : s[j].cmd \in {"GET", "RD"} \/ s[j].flow # s[i].flow)
              => flowTable[c][s[i].flow].valid
         /\ \A j \in (i+1)..Len(s) : s[j].cmd \in {"GET", "RD"} \/ s[j].flow # s[i].flow
<1>1. s \in Seq(GoodRequest) /\ DOMAIN s = 1..Len(s) /\ Len(s) \in Nat
  <2>1. s \in Seq(GoodRequest)
    BY DEF TInv, FInv, PacketsGood, RequestsGood
  <2> QED BY <2>1, LenProperties
<1>2. \A j \in DOMAIN s : s[j] \in GoodRequest /\ s[j] \in Request
  BY <1>1 DEF GoodRequest
<1>3. PICK f \in Flows : f = s[i].flow
  BY <1>2, ARTAssumption DEF Request, Tags
<1>4. FInv /\ FlowTree(f)
  BY DEF TInv
<1>5. PICK p : p = downBuffers[c][l][i]
  OBVIOUS
<1>6. p = s[i] /\ p.flow = f /\ p.cmd = "GET" /\ p.dest = c /\ p \in Request
  BY <1>2, <1>3, <1>5
<1>7. ASSUME \A j \in 1..(i-1) : s[j].cmd \in {"GET", "RD"} \/ s[j].flow # f
      PROVE  flowTable[c][f].valid
  <2>1. InOrder(c, l, i, p)
    BY <1>6, <1>7 DEF InOrder
  <2>2. IsHere(c, p)
    BY <1>6 DEF IsHere
  <2>3. Coming(f, c, Calls(f, c)) /\ ~Coming(f, c, Updates(f))
    BY <1>4, <1>5, <1>6, <2>1, <2>2, CallInOrder
  <2> QED BY <2>3, CalledValid
<1>8. ASSUME NEW j \in (i+1)..Len(s), s[j].cmd \notin {"GET", "RD"}, s[j].flow = f
      PROVE  FALSE
  <2>1. j \in DOMAIN s /\ i < j /\ s[j].cmd \in {"ADD", "MULT"}
    BY <1>1, <1>2, <1>8 DEF Request
  <2>2. s[j] \in Updates(f)
    BY <1>2, <1>8, <2>1, EveryUpdate
  <2>3. l = Lane(f, c) /\ p \in Calls(f, c)
    <3>1. p \in InDown(f, c, l)
      BY <1>4, <1>5, InLaneHas DEF FlowTree
    <3> QED BY <1>6, <3>1 DEF InDown, Calls
  <2>4. Ends(s, Calls(f, c), Fence(f, c))
    BY <1>4, <2>3 DEF FlowTree, InOrderLane, InLane
  <2> QED BY <1>6, <2>1, <2>2, <2>3, <2>4 DEF Ends, Fence
<1> QED BY <1>3, <1>7, <1>8

LEMMA UpdateAsserts ==
  ASSUME TInv, NEW c \in Cubes, NEW l \in Links, NEW s, s = downBuffers[c][l], NEW i \in DOMAIN s,
         s[i].cmd \in {"ADD", "MULT"}, s[i].half = 0, flowTable[c][s[i].flow].valid
  PROVE  flowTable[c][s[i].flow].parent = neighborCubeID[c][ParentLink[c][s[i].src]]
<1>1. s \in Seq(Request)
  BY DEF TInv, FInv, IInv, TypeOK
<1>2. s[i] \in Request
  BY <1>1
<1>3. PICK f \in Flows : f = s[i].flow
  BY <1>2 DEF Request, Tags
<1>4. FlowTree(f)
  BY DEF TInv
<1>5. s[i] \in Wholes(f) /\ s[i] \in Updates(f)
  BY <1>2, <1>3 DEF Wholes, Updates
<1>6. s[i] \in InDown(f, c, l)
  BY <1>4, InLaneHas DEF FlowTree
<1>7. s[i].src = Root[f]
  BY <1>5, <1>6 DEF InDown, Headed
<1>8. flowTable[c][f].parent = Above(f, c)
  BY <1>3, <1>4 DEF FlowTree, Entry
<1> QED BY <1>3, <1>7, <1>8 DEF Above, Lane

LEMMA ReplyAsserts ==
  ASSUME TInv, NEW c \in Cubes, NEW p \in Ports, NEW r \in upBuffers[c][p], IsChildReply(c, r)
  PROVE  flowTable[c][r.flow].valid
<1>1. r \in Response /\ r.cmd = "GET"
  BY DEF TInv, FInv, IInv, TypeOK, IsChildReply
<1>2. PICK f \in Flows : f = r.flow
  BY <1>1 DEF Response, Tags
<1>3. FInv /\ FlowTree(f) /\ IInv
  BY DEF TInv, FInv
<1>4. IsAnswer(f, r)
  BY <1>1, <1>2 DEF IsAnswer
<1>5. p \in Links /\ TreeLink(f, c, p) /\ r = Answer(f, neighborCubeID[c][p])
  BY <1>3, <1>4, AnswerAt
<1>6. PICK d \in Cubes : d = neighborCubeID[c][p]
  BY <1>5, WireType
<1>7. Above(f, d) = c /\ Branch(f, d) = p
  BY <1>5, <1>6, Child
<1>8. Replied(f, d)
  BY <1>5, <1>6, <1>7 DEF Replied
<1>9. flowTable[c][f].children_count[p] > 0
  BY <1>5, <1>6, <1>8, LiveSent
<1> QED BY <1>2, <1>3, <1>5, <1>9, NotValid

(* No assertion of CrossbarSwitch::Update fails in a network whose updates *)
(* cover one cache line, or where every update has one operand: a gather   *)
(* in order finds its entry and no update behind it, updates agree on the  *)
(* parent, and every response finds what it is for.                        *)
THEOREM AssertsCorrect ==
  ASSUME MaxLines = 1 \/ \A f \in Flows : FlowOp[f] = "ADD"
  PROVE  Spec => []AssertsHold
<1>1. ASSUME TInv, NEW c \in Cubes, NEW l \in Links PROVE RequestAsserts(c, downBuffers[c][l])
  <2>1. PICK s : s = downBuffers[c][l]
    OBVIOUS
  <2>2. ASSUME NEW i \in DOMAIN s, s[i].half # 0, s[i].lines > 1 PROVE FALSE
    <3>1. s \in Seq(GoodRequest)
      BY <1>1, <2>1 DEF TInv, FInv, PacketsGood, RequestsGood
    <3>2. PICK p \in GoodRequest : p = s[i]
      BY <3>1
    <3>3. p.cmd = "MULT" /\ p \in Request
      BY <2>2, <3>2 DEF GoodRequest
    <3>4. PICK f \in Flows : f = p.flow
      BY <3>3 DEF Request, Tags
    <3>5. p.half # 0 /\ p.lines > 1
      BY <2>2, <3>2
    <3>6. CASE MaxLines = 1
      BY <3>3, <3>5, <3>6 DEF Request
    <3>7. CASE \A g \in Flows : FlowOp[g] = "ADD"
      <4>1. FlowOp[p.flow] = "MAC"
        BY <3>2, <3>3 DEF GoodRequest
      <4> QED BY <3>4, <3>7, <4>1
    <3> QED BY <3>6, <3>7
  <2>3. RequestAsserts(c, s)
    <3>1. ASSUME NEW i \in DOMAIN s, s[i].cmd = "GET", s[i].dest = c
          PROVE  /\ (\A j \in 1..(i-1) : s[j].cmd \in {"GET", "RD"} \/ s[j].flow # s[i].flow)
                      => flowTable[c][s[i].flow].valid
                 /\ \A j \in (i+1)..Len(s) : s[j].cmd \in {"GET", "RD"} \/ s[j].flow # s[i].flow
      BY <1>1, <2>1, <3>1, CallAsserts
    <3>2. ASSUME NEW i \in DOMAIN s, s[i].cmd \in {"ADD", "MULT"}, s[i].half = 0,
                 flowTable[c][s[i].flow].valid
          PROVE  flowTable[c][s[i].flow].parent = neighborCubeID[c][ParentLink[c][s[i].src]]
      BY <1>1, <2>1, <3>2, UpdateAsserts
    <3> QED BY <2>2, <3>1, <3>2 DEF RequestAsserts
  <2> QED BY <2>1, <2>3
<1>2. TInv /\ OperandsExpected => AssertsHold
  BY <1>1, ReplyAsserts DEF AssertsHold
<1> QED BY <1>2, TreeInvariance, ResponseAsserts, PTL

-----------------------------------------------------------------------------
(* Nothing is counted after the gather.                                    *)

CountStays(c, f) == flowTable'[c][f].req_count = flowTable[c][f].req_count

LEMMA WriteStays ==
  ASSUME TypeOK, NEW c \in Cubes, NEW f \in Flows, NEW d \in Cubes, NEW g \in Flows, NEW e,
         flowTable' = [flowTable EXCEPT ![d][g] = e],
         d = c /\ g = f => e.req_count = flowTable[c][f].req_count
  PROVE  CountStays(c, f)
BY DEF TypeOK, CountStays

LEMMA RequestStays ==
  ASSUME TInv, NEW c \in Cubes, NEW f \in Flows, flowTable[c][f].g_flag,
         NEW d \in Cubes, NEW l \in Links, NEW i \in DOMAIN downBuffers[d][l],
         RequestStep(d, l, i, downBuffers[d][l][i])
  PROVE  CountStays(c, f)
<1>1. FInv /\ FlowTree(f) /\ TypeOK /\ IInv
  BY DEF TInv, FInv, IInv
<1>2. PICK p : p = downBuffers[d][l][i]
  OBVIOUS
<1>3. RequestStep(d, l, i, p) /\ p \in Request /\ (p.cmd = "ADD" => p.half = 0) /\ p.dest \in Cubes
  BY <1>1, <1>2, RequestAt DEF Request
<1>4. ASSUME p.cmd \in {"ADD", "MULT"}, p.half = 0 PROVE p.flow \in Flows /\ ~(d = c /\ p.flow = f)
  <2>1. p.flow \in Flows
    BY <1>3, <1>4 DEF Request, Tags
  <2>2. ASSUME d = c, p.flow = f PROVE FALSE
    <3>1. p \in Updates(f)
      BY <1>3, <1>4, <2>2 DEF Updates
    <3>2. Coming(f, c, Updates(f))
      BY <1>1, <1>2, <2>2, <3>1, InLaneHas DEF FlowTree
    <3> QED BY <1>1, <3>2, NoneTold
  <2> QED BY <2>1, <2>2
<1>5. CASE AddLocal(d, l, i, p) \/ MultLocal(d, l, i, p) \/ MultSplit(d, l, i, p)
  <2>1. /\ p.cmd \in {"ADD", "MULT"} /\ p.half = 0
        /\ flowTable' = [flowTable EXCEPT ![d][p.flow] = Counted(d, p)]
    BY <1>3, <1>5 DEF AddLocal, MultLocal, MultSplit, CountHere
  <2> QED BY <1>1, <1>4, <2>1, WriteStays
<1>6. CASE AddForward(d, l, i, p) \/ MultForward(d, l, i, p)
  <2>1. PICK n : n = NextLink[d][p.dest]
    OBVIOUS
  <2>2. p.cmd \in {"ADD", "MULT"} /\ p.half = 0 /\ CountChild(d, p, n)
    BY <1>3, <1>6, <2>1 DEF AddForward, MultForward
  <2>3. PICK e : flowTable' = [flowTable EXCEPT ![d][p.flow] = e]
    BY <2>2 DEF CountChild
  <2> QED BY <1>1, <1>4, <2>2, <2>3, WriteStays
<1>7. CASE GetReplicate(d, l, i, p)
  <2>1. p.flow \in Flows
    BY <1>3, <1>7 DEF GetReplicate, Request, Tags
  <2>2. PICK n \in Links : flowTable' = [flowTable EXCEPT ![d][p.flow].children_gflag[n] = TRUE]
    BY <1>7 DEF GetReplicate, PendingChildren
  <2>3. PICK g \in Flows, t \in FlowEntry : g = p.flow /\ t = flowTable[d][g]
    BY <1>1, <2>1, EntryType
  <2>4. PICK e : e = [t EXCEPT !.children_gflag[n] = TRUE]
    OBVIOUS
  <2>5. flowTable' = [flowTable EXCEPT ![d][g] = e]
    BY <2>2, <2>3, <2>4
  <2>6. e.req_count = t.req_count
    BY <2>4 DEF FlowEntry
  <2> QED BY <1>1, <2>3, <2>5, <2>6, WriteStays
<1>8. CASE GetMark(d, l, i, p)
  <2>1. p.flow \in Flows
    BY <1>3, <1>8 DEF GetMark, Request, Tags
  <2>2. PICK g \in Flows, t \in FlowEntry : g = p.flow /\ t = flowTable[d][g]
    BY <1>1, <2>1, EntryType
  <2>3. PICK e : e = [t EXCEPT !.g_flag = TRUE]
    OBVIOUS
  <2>4. flowTable' = [flowTable EXCEPT ![d][g] = e]
    BY <1>8, <2>2, <2>3 DEF GetMark
  <2>5. e.req_count = t.req_count
    BY <2>3 DEF FlowEntry
  <2> QED BY <1>1, <2>2, <2>4, <2>5, WriteStays
<1>9. CASE \/ MultHalfLocal(d, l, i, p) \/ MultHalfForward(d, l, i, p)
           \/ Forward(d, l, i, p) \/ ReadLocal(d, l, i, p)
  BY <1>9 DEF MultHalfLocal, MultHalfForward, Forward, ReadLocal, CountStays
<1> QED BY <1>3, <1>5, <1>6, <1>7, <1>8, <1>9 DEF RequestStep

LEMMA LateStep ==
  ASSUME TInv, [Next]_vars, NEW c \in Cubes, NEW f \in Flows, flowTable[c][f].g_flag,
         flowTable'[c][f].valid
  PROVE  CountStays(c, f)
<1>1. TypeOK /\ IInv
  BY DEF TInv, FInv, IInv
<1>2. CASE \E d \in Cubes, l \in Links : \E i \in DOMAIN downBuffers[d][l] :
             RequestStep(d, l, i, downBuffers[d][l][i])
  BY <1>2, RequestStays
<1>3. CASE \E d \in Cubes, p \in Ports : \E r \in upBuffers[d][p] : ResponseStep(d, p, r)
  <2>1. PICK d \in Cubes, p \in Ports : \E r \in upBuffers[d][p] : ResponseStep(d, p, r)
    BY <1>3
  <2>2. PICK r \in upBuffers[d][p] : ResponseStep(d, p, r)
    BY <2>1
  <2>3. CASE OperandReturn(d, p, r) \/ ForwardResponse(d, p, r)
    BY <2>3 DEF OperandReturn, ForwardResponse, CountStays
  <2>4. CASE ChildReply(d, p, r)
    <3>1. r \in Response
      BY <1>1 DEF TypeOK
    <3>2. r.flow \in Flows /\ r.src \in Cubes
      BY <2>4, <3>1 DEF ChildReply, IsChildReply, Response, Tags
    <3>3. PICK g \in Flows, t \in FlowEntry, n \in Links :
            g = r.flow /\ t = flowTable[d][g] /\ n = NextLink[d][r.src]
      BY <1>1, <3>2, EntryType, RouteType
    <3>4. PICK e : e = ChildDone(t, n)
      OBVIOUS
    <3>5. flowTable' = [flowTable EXCEPT ![d][g] = e]
      BY <2>4, <3>3, <3>4 DEF ChildReply
    <3>6. e.req_count = t.req_count
      BY <3>4, ChildAnswered
    <3> QED BY <1>1, <3>3, <3>5, <3>6, WriteStays
  <2> QED BY <2>2, <2>3, <2>4 DEF ResponseStep
<1>4. CASE \E d \in Cubes, b \in Bufs : ComputeStep(d, b)
  <2>1. PICK d \in Cubes, b \in Bufs : ComputeStep(d, b)
    BY <1>4
  <2>2. CASE flowTable' = flowTable
    BY <2>2 DEF CountStays
  <2>3. CASE operandBuffers[d][b].ready /\ Reduce(d, b)
    <3>1. PICK g \in Flows : g = operandBuffers[d][b].flowID
      BY <1>1, <2>3, HeldBuffer DEF IInv
    <3>2. PICK t \in FlowEntry : t = flowTable[d][g]
      BY <1>1, EntryType
    <3>3. PICK e : e = AddResult(t)
      OBVIOUS
    <3>4. flowTable' = [flowTable EXCEPT ![d][g] = e]
      BY <2>3, <3>1, <3>2, <3>3 DEF Reduce
    <3>5. e.req_count = t.req_count
      BY <3>3 DEF AddResult, FlowEntry
    <3> QED BY <1>1, <3>2, <3>4, <3>5, WriteStays
  <2> QED BY <2>1, <2>2, <2>3 DEF ComputeStep, AddFinish, MultStart, MultStep
<1>5. CASE \E d \in Cubes, g \in Flows : GatherReply(d, g)
  <2>1. PICK d \in Cubes, g \in Flows : GatherReply(d, g)
    BY <1>5
  <2>2. PICK e : e = NoEntry(d)
    OBVIOUS
  <2>3. flowTable' = [flowTable EXCEPT ![d][g] = e]
    BY <2>1, <2>2 DEF GatherReply, Commit
  <2>4. ~(d = c /\ g = f)
    BY <1>1, <2>2, <2>3, NoEntryFields DEF TypeOK
  <2> QED BY <1>1, <2>3, <2>4, WriteStays
<1>6. CASE \/ \E d \in Cubes, l \in Links : Deliver(d, l)
           \/ \E d \in Cubes : VaultReturn(d)
           \/ HostReceive \/ Host \/ UNCHANGED vars
  BY <1>6 DEF Deliver, VaultReturn, HostReceive, Host, HostUpdate, HostGather, HostRead, vars, CountStays
<1> QED BY <1>2, <1>3, <1>4, <1>5, <1>6 DEF Next, Network

(* Once a cube has told its subtree to gather, it counts no more updates   *)
(* of the flow until its entry is gone: nothing is answered for before it  *)
(* is reduced (CrossbarSwitch.cpp:237-239).                                *)
THEOREM LateCorrect == Spec => NoLateUpdate
<1>1. TInv /\ [Next]_vars =>
        [\A c \in Cubes, f \in Flows :
           flowTable[c][f].g_flag /\ flowTable'[c][f].valid
             => flowTable'[c][f].req_count = flowTable[c][f].req_count]_vars
  BY LateStep DEF CountStays
<1> QED BY <1>1, TreeInvariance, PTL DEF Spec, NoLateUpdate
=============================================================================
