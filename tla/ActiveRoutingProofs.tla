------------------------ MODULE ActiveRoutingProofs -------------------------
(***************************************************************************)
(* The state of the engine keeps its types, and the counters of the flow   *)
(* table are right, for every network, every number of flows, operand      *)
(* buffers and updates.                                                    *)
(***************************************************************************)
EXTENDS ActiveRouting, SequenceTheorems, FiniteSetTheorems, TLAPS

-----------------------------------------------------------------------------
(* Sequences stay sequences of their elements' set.                        *)

LEMMA RemoveAtType ==
  ASSUME NEW S, NEW s \in Seq(S), NEW i \in 1..Len(s)
  PROVE  RemoveAt(s, i) \in Seq(S)
<1>1. SubSeq(s, 1, i-1) \in Seq(S)
  BY SubSeqProperties
<1>2. SubSeq(s, i+1, Len(s)) \in Seq(S)
  BY SubSeqProperties
<1> QED BY <1>1, <1>2, ConcatProperties DEF RemoveAt

LEMMA ReplaceAtType ==
  ASSUME NEW S, NEW s \in Seq(S), NEW i \in 1..Len(s), NEW e \in S
  PROVE  ReplaceAt(s, i, e) \in Seq(S)
BY ExceptSeq DEF ReplaceAt

LEMMA AppendType ==
  ASSUME NEW S, NEW s \in Seq(S), NEW e \in S
  PROVE  Append(s, e) \in Seq(S)
BY AppendProperties

LEMMA HeadTailType ==
  ASSUME NEW S, NEW s \in Seq(S), s # << >>
  PROVE  Head(s) \in S /\ Tail(s) \in Seq(S)
BY HeadTailProperties

-----------------------------------------------------------------------------
(* What the assumption says of each constant.                              *)

LEMMA StagesType == numMultStages \in Nat \ {0}
BY ARTAssumption

LEMMA MaxLinesType == MaxLines \in Nat \ {0}
BY ARTAssumption

LEMMA NullValues == NoFlow \notin Flows /\ NoBuf \notin Bufs
BY ARTAssumption

LEMMA FiniteBufs == IsFiniteSet(Bufs)
BY ARTAssumption

LEMMA RouteType ==
  ASSUME NEW c \in Cubes, NEW d \in Cubes
  PROVE  NextLink[c][d] \in Links /\ ParentLink[c][d] \in Links
BY ARTAssumption

LEMMA WireType ==
  ASSUME NEW c \in Cubes, NEW l \in Links
  PROVE  neighborCubeID[c][l] \in Cubes /\ PeerLink[c][l] \in Links
BY ARTAssumption

LEMMA HostType ==
  ASSUME NEW x \in Tags
  PROVE  Root[x] \in Cubes
BY ARTAssumption DEF Tags

-----------------------------------------------------------------------------
(* Packets keep their types.                                               *)

LEMMA BufferedRequest ==
  ASSUME TypeOK, NEW c \in Cubes, NEW l \in Links, NEW i \in DOMAIN downBuffers[c][l]
  PROVE  downBuffers[c][l][i] \in Request /\ i \in 1..Len(downBuffers[c][l])
BY DEF TypeOK

LEMMA TakeType ==
  ASSUME TypeOK, NEW c \in Cubes, NEW l \in Links, NEW i \in DOMAIN downBuffers[c][l],
         Take(c, l, i)
  PROVE  downBuffers' \in [Cubes -> [Links -> Seq(Request)]]
<1>1. downBuffers[c][l] \in Seq(Request) /\ i \in 1..Len(downBuffers[c][l])
  BY DEF TypeOK
<1>2. RemoveAt(downBuffers[c][l], i) \in Seq(Request)
  BY <1>1, RemoveAtType
<1> QED BY <1>2 DEF Take, TypeOK

LEMMA KeepType ==
  ASSUME TypeOK, NEW c \in Cubes, NEW l \in Links, NEW i \in DOMAIN downBuffers[c][l],
         NEW q \in Request, Keep(c, l, i, q)
  PROVE  downBuffers' \in [Cubes -> [Links -> Seq(Request)]]
<1>1. downBuffers[c][l] \in Seq(Request) /\ i \in 1..Len(downBuffers[c][l])
  BY DEF TypeOK
<1>2. ReplaceAt(downBuffers[c][l], i, q) \in Seq(Request)
  BY <1>1, ReplaceAtType
<1> QED BY <1>2 DEF Keep, TypeOK

(* One lemma for each way the crossbar rewrites a request.                 *)
LEMMA NextLineRequest ==
  ASSUME NEW p \in Request, NEW n \in 1..MaxLines
  PROVE  [p EXCEPT !.lines = n, !.half = 0, !.buf = NoBuf] \in Request
<1>1. 0 \in 0..2
  OBVIOUS
<1> QED BY <1>1, Zenon DEF Request

LEMMA HalfRequest ==
  ASSUME NEW p \in Request, NEW h \in 0..2, NEW b \in Bufs, NEW d \in Cubes, NEW s \in Cubes
  PROVE  [p EXCEPT !.half = h, !.buf = b, !.dest = d, !.src = s] \in Request
BY Zenon DEF Request

LEMMA FirstHalfRequest ==
  ASSUME NEW p \in Request, NEW h \in 0..2, NEW b \in Bufs, NEW s \in Cubes,
         NEW n \in 1..MaxLines
  PROVE  [p EXCEPT !.half = h, !.buf = b, !.src = s, !.lines = n] \in Request
BY Zenon DEF Request

LEMMA SecondHalfRequest ==
  ASSUME NEW p \in Request, NEW h \in 0..2, NEW b \in Bufs, NEW s \in Cubes,
         NEW n \in 1..MaxLines, NEW d \in Cubes
  PROVE  [p EXCEPT !.half = h, !.buf = b, !.src = s, !.lines = n, !.dest = d] \in Request
BY Zenon DEF Request

LEMMA LineRequest ==
  ASSUME NEW p \in Request, NEW n \in 1..MaxLines, NEW s \in Cubes, NEW d \in Cubes
  PROVE  [p EXCEPT !.lines = n, !.src = s, !.dest = d] \in Request
BY Zenon DEF Request

LEMMA ChildRequest ==
  ASSUME NEW p \in Request, NEW s \in Cubes, NEW d \in Cubes
  PROVE  [p EXCEPT !.src = s, !.dest = d] \in Request
BY Zenon DEF Request

LEMMA NextLineType ==
  ASSUME TypeOK, NEW c \in Cubes, NEW l \in Links,
         NEW i \in DOMAIN downBuffers[c][l], NEW p \in Request, NextLine(c, l, i, p)
  PROVE  downBuffers' \in [Cubes -> [Links -> Seq(Request)]]
<1>1. CASE p.lines = 1
  BY <1>1, TakeType DEF NextLine
<1>2. CASE p.lines # 1
  <2>1. [p EXCEPT !.lines = @ - 1, !.half = 0, !.buf = NoBuf] \in Request
    <3>1. p.lines - 1 \in 1..MaxLines
      BY <1>2, MaxLinesType DEF Request
    <3> QED BY <3>1, NextLineRequest
  <2> QED BY <1>2, <2>1, KeepType DEF NextLine
<1> QED BY <1>1, <1>2

LEMMA SendDownType ==
  ASSUME TypeOK, NEW c \in Cubes, NEW l \in Links, NEW p \in Request,
         SendDown(c, l, p)
  PROVE  link' \in [Cubes -> [Links -> Seq(Request)]]
<1>1. neighborCubeID[c][l] \in Cubes /\ PeerLink[c][l] \in Links
  BY WireType
<1>2. Append(link[neighborCubeID[c][l]][PeerLink[c][l]], p) \in Seq(Request)
  BY <1>1, AppendType DEF TypeOK
<1> QED BY <1>1, <1>2 DEF SendDown, TypeOK

LEMMA SendUpType ==
  ASSUME TypeOK, NEW c \in Cubes, NEW l \in Links, NEW r \in Response,
         NEW ups \in [Cubes -> [Ports -> SUBSET Response]], SendUp(c, l, r, ups)
  PROVE  /\ upBuffers' \in [Cubes -> [Ports -> SUBSET Response]]
         /\ responseQ' \in SUBSET Response
<1>1. neighborCubeID[c][l] \in Cubes /\ PeerLink[c][l] \in Ports
  BY WireType DEF Ports
<1>2. CASE neighborCubeID[c][l] = c
  BY <1>2 DEF SendUp, TypeOK
<1>3. CASE neighborCubeID[c][l] # c
  <2>1. upBuffers' = [ups EXCEPT ![neighborCubeID[c][l]][PeerLink[c][l]] = @ \cup {r}]
    BY <1>3 DEF SendUp
  <2>2. ups[neighborCubeID[c][l]][PeerLink[c][l]] \cup {r} \in SUBSET Response
    BY <1>1
  <2>3. responseQ' \in SUBSET Response
    BY <1>3 DEF SendUp, TypeOK
  <2> QED BY <1>1, <2>1, <2>2, <2>3
<1> QED BY <1>2, <1>3

LEMMA DroppedType ==
  ASSUME TypeOK, NEW c \in Cubes, NEW p \in Ports, NEW r
  PROVE  Dropped(c, p, r) \in [Cubes -> [Ports -> SUBSET Response]]
BY DEF Dropped, TypeOK

LEMMA VaultType ==
  ASSUME TypeOK, NEW c \in Cubes, NEW r \in Response, VaultAccepts(c, r)
  PROVE  vault' \in [Cubes -> SUBSET Response]
BY DEF VaultAccepts, TypeOK

LEMMA OperandReadType ==
  ASSUME NEW c \in Cubes, NEW p \in Request, NEW op \in 0..2, NEW b \in Bufs \cup {NoBuf},
         NEW to \in Cubes
  PROVE  OperandRead(c, p, op, b, to) \in Response
BY DEF OperandRead, Request, Response, Tags

-----------------------------------------------------------------------------
(* Entries keep their types.                                               *)

LEMMA NoEntryType ==
  ASSUME NEW c \in Cubes
  PROVE  NoEntry(c) \in FlowEntry
BY DEF NoEntry, FlowEntry, Links

LEMMA FreshType ==
  ASSUME NEW e \in FlowEntry, NEW op \in {"ADD", "MAC"}, NEW n \in Cubes
  PROVE  [e EXCEPT !.valid = TRUE, !.req_count = 1, !.opcode = op, !.parent = n] \in FlowEntry
BY DEF FlowEntry

LEMMA CountedType ==
  ASSUME TypeOK, NEW c \in Cubes, NEW p \in Request, p.cmd \in {"ADD", "MULT"}
  PROVE  Counted(c, p) \in FlowEntry /\ p.flow \in Flows
<1>1. p.flow \in Flows /\ p.src \in Cubes
  BY DEF Request, Tags
<1>2. flowTable[c][p.flow] \in FlowEntry
  BY <1>1 DEF TypeOK
<1>3. neighborCubeID[c][ParentLink[c][p.src]] \in Cubes
  <2>1. ParentLink[c][p.src] \in Links
    BY <1>1, RouteType
  <2> QED BY <2>1, WireType
<1>4. CASE flowTable[c][p.flow].valid
  BY <1>1, <1>2, <1>4 DEF Counted, FlowEntry
<1>5. CASE ~flowTable[c][p.flow].valid
  BY <1>1, <1>3, <1>5, NoEntryType, FreshType DEF Counted
<1> QED BY <1>4, <1>5

LEMMA CountHereType ==
  ASSUME TypeOK, NEW c \in Cubes, NEW p \in Request, p.cmd \in {"ADD", "MULT"},
         CountHere(c, p)
  PROVE  flowTable' \in [Cubes -> [Flows -> FlowEntry]]
BY CountedType DEF CountHere, TypeOK

LEMMA CountChildType ==
  ASSUME TypeOK, NEW c \in Cubes, NEW p \in Request, p.cmd \in {"ADD", "MULT"},
         NEW l \in Links, CountChild(c, p, l)
  PROVE  flowTable' \in [Cubes -> [Flows -> FlowEntry]]
<1>1. Counted(c, p) \in FlowEntry /\ p.flow \in Flows
  BY CountedType
<1>2. [Counted(c, p) EXCEPT !.children_count[l] = @ + 1] \in FlowEntry
  BY <1>1 DEF FlowEntry
<1> QED BY <1>1, <1>2 DEF CountChild, TypeOK

LEMMA ReserveType ==
  ASSUME TypeOK, NEW c \in Cubes, NEW b \in Bufs, NEW f \in Flows, Reserve(c, b, f)
  PROVE  /\ operandBuffers' \in [Cubes -> [Bufs -> OperandEntry]]
         /\ freeOperandBufIDs' \in [Cubes -> SUBSET Bufs]
<1>1. operandBuffers \in [Cubes -> [Bufs -> OperandEntry]] /\ freeOperandBufIDs \in [Cubes -> SUBSET Bufs]
  BY DEF TypeOK
<1>2. [operandBuffers[c][b] EXCEPT !.flowID = f] \in OperandEntry
  <2>1. operandBuffers[c][b] \in OperandEntry
    BY <1>1
  <2> QED BY <2>1 DEF OperandEntry
<1> QED BY <1>1, <1>2 DEF Reserve

LEMMA FreeType == FreeOperand \in OperandEntry
BY StagesType DEF FreeOperand, OperandEntry

LEMMA ResultType ==
  ASSUME NEW e \in FlowEntry
  PROVE  AddResult(e) \in FlowEntry
<1>1. e.rep_count + 1 \in Nat /\ e.result + 1 \in Nat
  BY DEF FlowEntry
<1> QED BY <1>1, Zenon DEF FlowEntry, AddResult

LEMMA ChildDoneType ==
  ASSUME NEW e \in FlowEntry, NEW n \in Links
  PROVE  ChildDone(e, n) \in FlowEntry
<1>1. e.children_count \in [Links -> Nat] /\ e.rep_count \in Nat
  BY DEF FlowEntry
<1>2. /\ e.rep_count + e.children_count[n] \in Nat
      /\ [e.children_count EXCEPT ![n] = 0] \in [Links -> Nat]
  BY <1>1
<1> QED BY <1>2, Zenon DEF FlowEntry, ChildDone

LEMMA EntryType ==
  ASSUME TypeOK, NEW c \in Cubes, NEW f \in Flows
  PROVE  flowTable[c][f] \in FlowEntry
BY DEF TypeOK

LEMMA UpdateEntryType ==
  ASSUME TypeOK, NEW c \in Cubes, NEW f \in Flows, NEW e \in FlowEntry,
         flowTable' = [flowTable EXCEPT ![c][f] = e]
  PROVE  flowTable' \in [Cubes -> [Flows -> FlowEntry]]
BY DEF TypeOK

LEMMA ReduceType ==
  ASSUME TypeOK, NEW c \in Cubes, NEW b \in Bufs, Reduce(c, b)
  PROVE  /\ flowTable' \in [Cubes -> [Flows -> FlowEntry]]
         /\ operandBuffers' \in [Cubes -> [Bufs -> OperandEntry]]
         /\ freeOperandBufIDs' \in [Cubes -> SUBSET Bufs]
<1>1. /\ operandBuffers \in [Cubes -> [Bufs -> OperandEntry]]
      /\ freeOperandBufIDs \in [Cubes -> SUBSET Bufs]
      /\ flowTable \in [Cubes -> [Flows -> FlowEntry]]
  BY DEF TypeOK
<1>2. flowTable' \in [Cubes -> [Flows -> FlowEntry]]
  <2>1. PICK f : flowTable' = [flowTable EXCEPT ![c][f] = AddResult(@)]
    BY DEF Reduce
  <2>2. CASE f \in Flows
    BY <2>1, <2>2, EntryType, ResultType, UpdateEntryType
  <2>3. CASE f \notin Flows
    BY <1>1, <2>1, <2>3
  <2> QED BY <2>2, <2>3
<1>3. operandBuffers' \in [Cubes -> [Bufs -> OperandEntry]]
  BY <1>1, FreeType DEF Reduce
<1>4. freeOperandBufIDs' \in [Cubes -> SUBSET Bufs]
  BY <1>1 DEF Reduce
<1> QED BY <1>2, <1>3, <1>4

-----------------------------------------------------------------------------
(* Every action keeps the types.                                           *)

LEMMA DeliverType ==
  ASSUME TypeOK, NEW c \in Cubes, NEW l \in Links, Deliver(c, l)
  PROVE  TypeOK'
<1>1. link[c][l] \in Seq(Request) /\ downBuffers[c][l] \in Seq(Request) /\ link[c][l] # << >>
  BY DEF TypeOK, Deliver
<1>2. Head(link[c][l]) \in Request /\ Tail(link[c][l]) \in Seq(Request)
  BY <1>1, HeadTailType
<1>3. Append(downBuffers[c][l], Head(link[c][l])) \in Seq(Request)
  BY <1>1, <1>2, AppendType
<1> QED BY <1>2, <1>3 DEF Deliver, TypeOK

LEMMA VaultReturnType ==
  ASSUME TypeOK, NEW c \in Cubes, VaultReturn(c)
  PROVE  TypeOK'
<1>1. PICK r \in vault[c] : /\ vault' = [vault EXCEPT ![c] = @ \ {r}]
                            /\ upBuffers' = [upBuffers EXCEPT ![c][VaultPort] = @ \cup {r}]
  BY DEF VaultReturn
<1>2. r \in Response /\ VaultPort \in Ports
  BY DEF TypeOK, Ports
<1>3. vault' \in [Cubes -> SUBSET Response]
  BY <1>1 DEF TypeOK
<1>4. upBuffers' \in [Cubes -> [Ports -> SUBSET Response]]
  BY <1>1, <1>2 DEF TypeOK
<1> QED BY <1>3, <1>4 DEF VaultReturn, TypeOK

LEMMA AddLocalType ==
  ASSUME TypeOK, NEW c \in Cubes, NEW l \in Links, NEW i \in DOMAIN downBuffers[c][l],
         NEW p \in Request, AddLocal(c, l, i, p)
  PROVE  TypeOK'
<1>0. p.flow \in Flows /\ p.dest \in Cubes /\ p.dest1 \in Cubes /\ p.dest2 \in Cubes /\ p.src \in Cubes
  BY DEF AddLocal, Request, Tags
<1>1. PICK b \in Bufs : Reserve(c, b, p.flow) /\ VaultAccepts(c, OperandRead(c, p, 1, b, c))
  BY DEF AddLocal, TypeOK
<1>2. OperandRead(c, p, 1, b, c) \in Response
  BY OperandReadType
<1>3. vault' \in [Cubes -> SUBSET Response]
  BY <1>1, <1>2, VaultType
<1>4. /\ operandBuffers' \in [Cubes -> [Bufs -> OperandEntry]]
      /\ freeOperandBufIDs' \in [Cubes -> SUBSET Bufs]
  BY <1>0, <1>1, ReserveType
<1>5. flowTable' \in [Cubes -> [Flows -> FlowEntry]]
  BY CountHereType DEF AddLocal
<1>6. downBuffers' \in [Cubes -> [Links -> Seq(Request)]]
  BY NextLineType DEF AddLocal
<1> QED BY <1>3, <1>4, <1>5, <1>6 DEF AddLocal, TypeOK

LEMMA AddForwardType ==
  ASSUME TypeOK, NEW c \in Cubes, NEW l \in Links, NEW i \in DOMAIN downBuffers[c][l],
         NEW p \in Request, AddForward(c, l, i, p)
  PROVE  TypeOK'
<1>0. p.flow \in Flows /\ p.dest \in Cubes /\ p.dest1 \in Cubes /\ p.dest2 \in Cubes /\ p.src \in Cubes
  BY DEF AddForward, Request, Tags
<1> DEFINE n == NextLink[c][p.dest]
<1>1. n \in Links
  BY <1>0, RouteType
<1>2. link' \in [Cubes -> [Links -> Seq(Request)]]
  BY <1>1, SendDownType DEF AddForward
<1>3. flowTable' \in [Cubes -> [Flows -> FlowEntry]]
  BY <1>1, CountChildType DEF AddForward
<1>4. downBuffers' \in [Cubes -> [Links -> Seq(Request)]]
  BY TakeType DEF AddForward
<1> QED BY <1>2, <1>3, <1>4 DEF AddForward, TypeOK

LEMMA MultForwardType ==
  ASSUME TypeOK, NEW c \in Cubes, NEW l \in Links, NEW i \in DOMAIN downBuffers[c][l],
         NEW p \in Request, MultForward(c, l, i, p)
  PROVE  TypeOK'
<1>0. p.flow \in Flows /\ p.dest \in Cubes /\ p.dest1 \in Cubes /\ p.dest2 \in Cubes /\ p.src \in Cubes
  BY DEF MultForward, Request, Tags
<1> DEFINE n == NextLink[c][p.dest]
<1>1. n \in Links
  BY <1>0, RouteType
<1>2. link' \in [Cubes -> [Links -> Seq(Request)]]
  BY <1>1, SendDownType DEF MultForward
<1>3. flowTable' \in [Cubes -> [Flows -> FlowEntry]]
  BY <1>1, CountChildType DEF MultForward
<1>4. downBuffers' \in [Cubes -> [Links -> Seq(Request)]]
  BY TakeType DEF MultForward
<1> QED BY <1>2, <1>3, <1>4 DEF MultForward, TypeOK

LEMMA OtherHalfType ==
  ASSUME NEW c \in Cubes, NEW p \in Request, NEW k \in 0..2, NEW b \in Bufs
  PROVE  OtherHalf(c, p, k, b) \in Request
<1>1. p.dest1 \in Cubes /\ p.dest2 \in Cubes /\ p.src \in Cubes
  BY DEF Request
<1> QED BY <1>1, HalfRequest DEF OtherHalf

LEMMA MultLocalType ==
  ASSUME TypeOK, NEW c \in Cubes, NEW l \in Links, NEW i \in DOMAIN downBuffers[c][l],
         NEW p \in Request, MultLocal(c, l, i, p)
  PROVE  TypeOK'
<1>0. p.flow \in Flows /\ p.dest \in Cubes /\ p.dest1 \in Cubes /\ p.dest2 \in Cubes /\ p.src \in Cubes
  BY DEF MultLocal, Request, Tags
<1> DEFINE k == IF p.dest1 = c THEN 1 ELSE 2
<1>k. k \in 0..2 /\ 3 - k \in 0..2
  OBVIOUS
<1>1. PICK b \in Bufs : /\ Reserve(c, b, p.flow)
                        /\ VaultAccepts(c, OperandRead(c, p, k, b, c))
                        /\ Keep(c, l, i, OtherHalf(c, p, 3 - k, b))
  BY DEF MultLocal, TypeOK
<1> HIDE DEF k
<1>2. OperandRead(c, p, k, b, c) \in Response
  BY <1>k, OperandReadType
<1>3. vault' \in [Cubes -> SUBSET Response]
  BY <1>1, <1>2, VaultType
<1>4. /\ operandBuffers' \in [Cubes -> [Bufs -> OperandEntry]]
      /\ freeOperandBufIDs' \in [Cubes -> SUBSET Bufs]
  BY <1>0, <1>1, ReserveType
<1>5. flowTable' \in [Cubes -> [Flows -> FlowEntry]]
  BY CountHereType DEF MultLocal
<1>6. downBuffers' \in [Cubes -> [Links -> Seq(Request)]]
  BY <1>1, <1>k, OtherHalfType, KeepType
<1> QED BY <1>3, <1>4, <1>5, <1>6 DEF MultLocal, TypeOK

LEMMA MultHalfLocalType ==
  ASSUME TypeOK, NEW c \in Cubes, NEW l \in Links, NEW i \in DOMAIN downBuffers[c][l],
         NEW p \in Request, MultHalfLocal(c, l, i, p)
  PROVE  TypeOK'
<1>0. p.flow \in Tags /\ p.dest \in Cubes /\ p.dest1 \in Cubes /\ p.dest2 \in Cubes /\ p.src \in Cubes
  BY DEF Request
<1>1. p.half \in 0..2 /\ p.buf \in Bufs \cup {NoBuf}
  BY DEF Request
<1> DEFINE to == IF p.lines = 1 THEN p.src ELSE c
<1>2. to \in Cubes /\ VaultAccepts(c, OperandRead(c, p, p.half, p.buf, to))
  BY <1>0 DEF MultHalfLocal
<1> HIDE DEF to
<1>3. OperandRead(c, p, p.half, p.buf, to) \in Response
  BY <1>1, <1>2, OperandReadType
<1>4. vault' \in [Cubes -> SUBSET Response]
  BY <1>2, <1>3, VaultType
<1>5. downBuffers' \in [Cubes -> [Links -> Seq(Request)]]
  BY NextLineType DEF MultHalfLocal
<1> QED BY <1>4, <1>5 DEF MultHalfLocal, TypeOK

LEMMA MultSplitType ==
  ASSUME TypeOK, NEW c \in Cubes, NEW l \in Links, NEW i \in DOMAIN downBuffers[c][l],
         NEW p \in Request, MultSplit(c, l, i, p)
  PROVE  TypeOK'
<1>0. p.flow \in Flows /\ p.dest \in Cubes /\ p.dest1 \in Cubes /\ p.dest2 \in Cubes /\ p.src \in Cubes
  BY DEF MultSplit, Request, Tags
<1>1. /\ NextLink[c][p.dest1] \in Links /\ NextLink[c][p.dest2] \in Links
      /\ 1 \in 0..2 /\ 2 \in 0..2 /\ 1 \in 1..MaxLines
  BY <1>0, RouteType, MaxLinesType
<1>2. PICK b \in Bufs :
        /\ Reserve(c, b, p.flow)
        /\ \/ /\ SendDown(c, NextLink[c][p.dest1],
                   [p EXCEPT !.half = 1, !.buf = b, !.src = c, !.lines = 1])
              /\ Keep(c, l, i, OtherHalf(c, p, 2, b))
           \/ /\ SendDown(c, NextLink[c][p.dest2],
                   [p EXCEPT !.half = 2, !.buf = b, !.src = c, !.lines = 1, !.dest = p.dest2])
              /\ Keep(c, l, i, OtherHalf(c, p, 1, b))
  BY DEF MultSplit, TypeOK
<1>3. /\ operandBuffers' \in [Cubes -> [Bufs -> OperandEntry]]
      /\ freeOperandBufIDs' \in [Cubes -> SUBSET Bufs]
  BY <1>0, <1>2, ReserveType
<1>4. flowTable' \in [Cubes -> [Flows -> FlowEntry]]
  BY CountHereType DEF MultSplit
<1>5. link' \in [Cubes -> [Links -> Seq(Request)]]
  <2> DEFINE q1 == [p EXCEPT !.half = 1, !.buf = b, !.src = c, !.lines = 1]
             q2 == [p EXCEPT !.half = 2, !.buf = b, !.src = c, !.lines = 1, !.dest = p.dest2]
  <2>1. q1 \in Request
    BY <1>1, FirstHalfRequest
  <2>2. q2 \in Request
    BY <1>0, <1>1, SecondHalfRequest
  <2>3. SendDown(c, NextLink[c][p.dest1], q1) \/ SendDown(c, NextLink[c][p.dest2], q2)
    BY <1>2
  <2> HIDE DEF q1, q2
  <2> QED BY <1>1, <2>1, <2>2, <2>3, SendDownType
<1>6. downBuffers' \in [Cubes -> [Links -> Seq(Request)]]
  <2>1. Keep(c, l, i, OtherHalf(c, p, 2, b)) \/ Keep(c, l, i, OtherHalf(c, p, 1, b))
    BY <1>2
  <2> QED BY <1>1, <2>1, OtherHalfType, KeepType
<1> QED BY <1>3, <1>4, <1>5, <1>6 DEF MultSplit, TypeOK

LEMMA MultHalfForwardType ==
  ASSUME TypeOK, NEW c \in Cubes, NEW l \in Links, NEW i \in DOMAIN downBuffers[c][l],
         NEW p \in Request, MultHalfForward(c, l, i, p)
  PROVE  TypeOK'
<1>0. p.flow \in Tags /\ p.dest \in Cubes /\ p.dest1 \in Cubes /\ p.dest2 \in Cubes /\ p.src \in Cubes
  BY DEF Request
<1>1. NextLink[c][p.dest] \in Links /\ 1 \in 1..MaxLines
  BY <1>0, RouteType, MaxLinesType
<1> DEFINE d == IF p.half = 1 THEN p.dest1 ELSE p.dest2
           q == [p EXCEPT !.lines = 1, !.src = c, !.dest = d]
<1>2. q \in Request
  BY <1>0, <1>1, LineRequest
<1>3. SendDown(c, NextLink[c][p.dest], p) \/ SendDown(c, NextLink[c][p.dest], q)
  BY DEF MultHalfForward
<1> HIDE DEF q
<1>4. link' \in [Cubes -> [Links -> Seq(Request)]]
  BY <1>1, <1>2, <1>3, SendDownType
<1>5. downBuffers' \in [Cubes -> [Links -> Seq(Request)]]
  BY NextLineType DEF MultHalfForward
<1> QED BY <1>4, <1>5 DEF MultHalfForward, TypeOK

LEMMA GFlagType ==
  ASSUME NEW e \in FlowEntry, NEW n \in Links
  PROVE  /\ [e EXCEPT !.children_gflag[n] = TRUE] \in FlowEntry
         /\ [e EXCEPT !.g_flag = TRUE] \in FlowEntry
<1>1. [e.children_gflag EXCEPT ![n] = TRUE] \in [Links -> BOOLEAN]
  BY DEF FlowEntry
<1> QED BY <1>1, Zenon DEF FlowEntry

LEMMA GetReplicateType ==
  ASSUME TypeOK, NEW c \in Cubes, NEW l \in Links, NEW i \in DOMAIN downBuffers[c][l],
         NEW p \in Request, GetReplicate(c, l, i, p)
  PROVE  TypeOK'
<1>0. p.flow \in Flows
  BY DEF GetReplicate, Request, Tags
<1>1. PICK n \in Links :
        /\ downBuffers' = [downBuffers EXCEPT ![c][l] =
             Append(@, [p EXCEPT !.src = c, !.dest = neighborCubeID[c][n]])]
        /\ flowTable' = [flowTable EXCEPT ![c][p.flow].children_gflag[n] = TRUE]
  BY DEF GetReplicate, PendingChildren
<1> DEFINE q == [p EXCEPT !.src = c, !.dest = neighborCubeID[c][n]]
           e == [flowTable[c][p.flow] EXCEPT !.children_gflag[n] = TRUE]
<1>2. q \in Request
  BY WireType, ChildRequest
<1>3. e \in FlowEntry
  BY <1>0, EntryType, GFlagType
<1>4. /\ downBuffers' = [downBuffers EXCEPT ![c][l] = Append(@, q)]
      /\ flowTable' = [flowTable EXCEPT ![c][p.flow] = e]
  BY <1>1
<1> HIDE DEF q, e
<1>5. Append(downBuffers[c][l], q) \in Seq(Request)
  BY <1>2, AppendType DEF TypeOK
<1>6. downBuffers' \in [Cubes -> [Links -> Seq(Request)]]
  BY <1>4, <1>5 DEF TypeOK
<1>7. flowTable' \in [Cubes -> [Flows -> FlowEntry]]
  BY <1>0, <1>3, <1>4, UpdateEntryType
<1> QED BY <1>6, <1>7 DEF GetReplicate, TypeOK

LEMMA GetMarkType ==
  ASSUME TypeOK, NEW c \in Cubes, NEW l \in Links, NEW i \in DOMAIN downBuffers[c][l],
         NEW p \in Request, GetMark(c, l, i, p)
  PROVE  TypeOK'
<1>0. p.flow \in Flows /\ 0 \in Links
  BY DEF GetMark, Request, Tags, Links
<1> DEFINE e == [flowTable[c][p.flow] EXCEPT !.g_flag = TRUE]
<1>1. e \in FlowEntry
  BY <1>0, EntryType, GFlagType
<1>2. flowTable' = [flowTable EXCEPT ![c][p.flow] = e]
  BY DEF GetMark
<1> HIDE DEF e
<1>3. flowTable' \in [Cubes -> [Flows -> FlowEntry]]
  BY <1>0, <1>1, <1>2, UpdateEntryType
<1>4. downBuffers' \in [Cubes -> [Links -> Seq(Request)]]
  BY TakeType DEF GetMark
<1> QED BY <1>3, <1>4 DEF GetMark, TypeOK

LEMMA ForwardType ==
  ASSUME TypeOK, NEW c \in Cubes, NEW l \in Links, NEW i \in DOMAIN downBuffers[c][l],
         NEW p \in Request, Forward(c, l, i, p)
  PROVE  TypeOK'
<1>1. p.dest \in Cubes
  BY DEF Request
<1>2. link' \in [Cubes -> [Links -> Seq(Request)]]
  BY <1>1, RouteType, SendDownType DEF Forward
<1>3. downBuffers' \in [Cubes -> [Links -> Seq(Request)]]
  BY TakeType DEF Forward
<1> QED BY <1>2, <1>3 DEF Forward, TypeOK

LEMMA ReadLocalType ==
  ASSUME TypeOK, NEW c \in Cubes, NEW l \in Links, NEW i \in DOMAIN downBuffers[c][l],
         NEW p \in Request, ReadLocal(c, l, i, p)
  PROVE  TypeOK'
<1>1. p.src \in Cubes /\ 0 \in 0..2
  BY DEF Request
<1>2. OperandRead(c, p, 0, NoBuf, p.src) \in Response
  BY <1>1, OperandReadType
<1>3. vault' \in [Cubes -> SUBSET Response]
  BY <1>2, VaultType DEF ReadLocal
<1>4. downBuffers' \in [Cubes -> [Links -> Seq(Request)]]
  BY TakeType DEF ReadLocal
<1> QED BY <1>3, <1>4 DEF ReadLocal, TypeOK

LEMMA OperandFilledType ==
  ASSUME NEW o \in OperandEntry, NEW o1 \in BOOLEAN, NEW o2 \in BOOLEAN, NEW rd \in BOOLEAN
  PROVE  [o EXCEPT !.op1_ready = o1, !.op2_ready = o2, !.ready = rd] \in OperandEntry
BY Zenon DEF OperandEntry

LEMMA OperandReturnType ==
  ASSUME TypeOK, NEW c \in Cubes, NEW p \in Ports, NEW r \in Response, OperandReturn(c, p, r)
  PROVE  TypeOK'
<1>1. r.buf \in Bufs
  BY DEF OperandReturn, Expected
<1> DEFINE o  == operandBuffers[c][r.buf]
           o1 == o.op1_ready \/ r.op = 1
           o2 == o.op2_ready \/ r.op = 2
           rd == (r.cmd = "ADD") \/ (o1 /\ o2)
           q  == [o EXCEPT !.op1_ready = o1, !.op2_ready = o2, !.ready = rd]
<1>2. q \in OperandEntry
  <2>1. o \in OperandEntry
    BY <1>1 DEF TypeOK
  <2>2. o1 \in BOOLEAN /\ o2 \in BOOLEAN /\ rd \in BOOLEAN
    OBVIOUS
  <2> HIDE DEF o, o1, o2, rd
  <2> QED BY <2>1, <2>2, OperandFilledType
<1>3. operandBuffers' = [operandBuffers EXCEPT ![c][r.buf] = q]
  BY DEF OperandReturn
<1> HIDE DEF q
<1>4. operandBuffers' \in [Cubes -> [Bufs -> OperandEntry]]
  BY <1>1, <1>2, <1>3 DEF TypeOK
<1>5. upBuffers' \in [Cubes -> [Ports -> SUBSET Response]]
  BY DroppedType DEF OperandReturn
<1> QED BY <1>4, <1>5 DEF OperandReturn, TypeOK

LEMMA ChildReplyType ==
  ASSUME TypeOK, NEW c \in Cubes, NEW p \in Ports, NEW r \in Response, ChildReply(c, p, r)
  PROVE  TypeOK'
<1>0. r.flow \in Flows /\ r.src \in Cubes
  BY DEF ChildReply, IsChildReply, Response, Tags
<1>1. NextLink[c][r.src] \in Links
  BY <1>0, RouteType
<1>2. flowTable' \in [Cubes -> [Flows -> FlowEntry]]
  BY <1>0, <1>1, EntryType, ChildDoneType, UpdateEntryType DEF ChildReply
<1>3. upBuffers' \in [Cubes -> [Ports -> SUBSET Response]]
  BY DroppedType DEF ChildReply
<1> QED BY <1>2, <1>3 DEF ChildReply, TypeOK

LEMMA ForwardResponseType ==
  ASSUME TypeOK, NEW c \in Cubes, NEW p \in Ports, NEW r \in Response, ForwardResponse(c, p, r)
  PROVE  TypeOK'
<1>1. r.dest \in Cubes
  BY DEF Response
<1>2. /\ upBuffers' \in [Cubes -> [Ports -> SUBSET Response]]
      /\ responseQ' \in SUBSET Response
  BY <1>1, RouteType, DroppedType, SendUpType DEF ForwardResponse
<1> QED BY <1>2 DEF ForwardResponse, TypeOK

LEMMA AddFinishType ==
  ASSUME TypeOK, NEW c \in Cubes, NEW b \in Bufs, AddFinish(c, b)
  PROVE  TypeOK'
BY ReduceType DEF AddFinish, TypeOK

LEMMA UpdateOperandType ==
  ASSUME TypeOK, NEW c \in Cubes, NEW b \in Bufs, NEW o \in OperandEntry,
         operandBuffers' = [operandBuffers EXCEPT ![c][b] = o]
  PROVE  operandBuffers' \in [Cubes -> [Bufs -> OperandEntry]]
BY DEF TypeOK

LEMMA StageType ==
  ASSUME TypeOK, NEW c \in Cubes, NEW b \in Bufs,
         operandBuffers[c][b].multStageCounter > 0,
         operandBuffers' = [operandBuffers EXCEPT ![c][b].multStageCounter = @ - 1]
  PROVE  operandBuffers' \in [Cubes -> [Bufs -> OperandEntry]]
<1> DEFINE o == operandBuffers[c][b]
           q == [o EXCEPT !.multStageCounter = @ - 1]
<1>1. o \in OperandEntry
  BY DEF TypeOK
<1>2. q \in OperandEntry
  BY <1>1, StagesType DEF OperandEntry
<1>3. operandBuffers' = [operandBuffers EXCEPT ![c][b] = q]
  OBVIOUS
<1> HIDE DEF q
<1> QED BY <1>2, <1>3, UpdateOperandType

LEMMA MultStartType ==
  ASSUME TypeOK, NEW c \in Cubes, NEW b \in Bufs, MultStart(c, b)
  PROVE  TypeOK'
<1>1. operandBuffers' \in [Cubes -> [Bufs -> OperandEntry]]
  <2>1. operandBuffers[c][b].multStageCounter > 0
    BY StagesType DEF MultStart
  <2>2. operandBuffers' = [operandBuffers EXCEPT ![c][b].multStageCounter = @ - 1]
    BY DEF MultStart
  <2> QED BY <2>1, <2>2, StageType
<1>2. multPipeOccupancy' \in [Cubes -> Int]
  BY DEF MultStart, TypeOK
<1> QED BY <1>1, <1>2 DEF MultStart, TypeOK

LEMMA MultStepType ==
  ASSUME TypeOK, NEW c \in Cubes, NEW b \in Bufs, MultStep(c, b)
  PROVE  TypeOK'
<1>1. CASE operandBuffers[c][b].multStageCounter > 1
  <2>0. operandBuffers[c][b].multStageCounter \in 0..numMultStages
    BY DEF TypeOK, OperandEntry
  <2>1. operandBuffers' \in [Cubes -> [Bufs -> OperandEntry]]
    BY <1>1, <2>0, StageType, StagesType DEF MultStep
  <2> QED BY <1>1, <2>1 DEF MultStep, TypeOK
<1>2. CASE ~(operandBuffers[c][b].multStageCounter > 1)
  <2>1. Reduce(c, b) /\ multPipeOccupancy' \in [Cubes -> Int]
    BY <1>2 DEF MultStep, TypeOK
  <2> QED BY <1>2, <2>1, ReduceType DEF MultStep, TypeOK
<1> QED BY <1>1, <1>2

LEMMA GatherReplyType ==
  ASSUME TypeOK, NEW c \in Cubes, NEW f \in Flows, GatherReply(c, f)
  PROVE  TypeOK'
<1> DEFINE e  == flowTable[c][f]
           up == e.parent
           a  == [cmd |-> "GET", flow |-> f, src |-> c, dest |-> up, home |-> c,
                  op |-> 0, buf |-> NoBuf]
<1>1. e \in FlowEntry /\ up \in Cubes /\ e.result \in Nat
  BY EntryType DEF FlowEntry
<1>2. a \in Response
  <2>1. f \notin Reads
    BY ARTAssumption
  <2> QED BY <1>1, <2>1 DEF Response, Tags
<1>3. SendUp(c, NextLink[c][up], a, upBuffers)
  BY DEF GatherReply, Commit
<1>4. memory' = [memory EXCEPT ![f] = @ + e.result] /\ flowTable' = [flowTable EXCEPT ![c][f] = NoEntry(c)]
  BY DEF GatherReply, Commit
<1> HIDE DEF e, up, a
<1>5. /\ upBuffers' \in [Cubes -> [Ports -> SUBSET Response]]
      /\ responseQ' \in SUBSET Response
  BY <1>1, <1>2, <1>3, RouteType, SendUpType DEF TypeOK
<1>6. memory' \in [Flows -> Nat]
  BY <1>1, <1>4 DEF TypeOK
<1>7. flowTable' \in [Cubes -> [Flows -> FlowEntry]]
  BY <1>4, NoEntryType, UpdateEntryType
<1> QED BY <1>5, <1>6, <1>7 DEF GatherReply, Commit, TypeOK

LEMMA HostSendType ==
  ASSUME TypeOK, NEW x \in Tags, NEW p \in Request, HostSend(x, p)
  PROVE  link' \in [Cubes -> [Links -> Seq(Request)]]
<1> DEFINE r == Root[x]
           h == NextLink[r][r]
<1>1. r \in Cubes /\ h \in Links
  BY HostType, RouteType
<1>2. link' = [link EXCEPT ![r][h] = Append(@, p)]
  BY DEF HostSend
<1> HIDE DEF r, h
<1>3. Append(link[r][h], p) \in Seq(Request)
  BY <1>1, AppendType DEF TypeOK
<1> QED BY <1>1, <1>2, <1>3 DEF TypeOK

LEMMA HostPacketType ==
  ASSUME NEW x \in Tags, NEW cmd \in {"ADD", "MULT", "GET", "RD"}, cmd = "RD" <=> x \in Reads,
         NEW d1 \in Cubes, NEW d2 \in Cubes, NEW n \in 1..MaxLines
  PROVE  HostPacket(cmd, x, d1, d2, n) \in Request
BY HostType DEF HostPacket, Request

LEMMA HostUpdateType ==
  ASSUME TypeOK, NEW f \in Flows, HostUpdate(f)
  PROVE  TypeOK'
<1>0. f \in Tags /\ f \notin Reads /\ OperandCubes \subseteq Cubes
  BY ARTAssumption DEF Tags
<1> DEFINE cmd == IF FlowOp[f] = "ADD" THEN "ADD" ELSE "MULT"
<1>1. PICK n \in 1..MaxLines, d1 \in OperandCubes, d2 \in OperandCubes :
        /\ HostSend(f, HostPacket(cmd, f, d1, d2, n))
        /\ host' = [host EXCEPT ![f].issued = @ + n]
  BY DEF HostUpdate
<1>2. HostPacket(cmd, f, d1, d2, n) \in Request
  BY <1>0, HostPacketType
<1> HIDE DEF cmd
<1>3. link' \in [Cubes -> [Links -> Seq(Request)]]
  BY <1>0, <1>1, <1>2, HostSendType
<1>4. host' \in [Flows -> [phase : {"update", "gather"}, issued : Nat]]
  <2>1. n \in Nat
    BY MaxLinesType
  <2>2. host \in [Flows -> [phase : {"update", "gather"}, issued : Nat]]
    BY DEF TypeOK
  <2> QED BY <1>1, <2>1, <2>2
<1> QED BY <1>3, <1>4 DEF HostUpdate, TypeOK

LEMMA HostGatherType ==
  ASSUME TypeOK, NEW f \in Flows, HostGather(f)
  PROVE  TypeOK'
<1>0. f \in Tags /\ f \notin Reads /\ Root[f] \in Cubes /\ 1 \in 1..MaxLines
  BY ARTAssumption, HostType, MaxLinesType DEF Tags
<1>1. HostPacket("GET", f, Root[f], Root[f], 1) \in Request
  BY <1>0, HostPacketType
<1>2. link' \in [Cubes -> [Links -> Seq(Request)]]
  BY <1>0, <1>1, HostSendType DEF HostGather
<1>3. host' \in [Flows -> [phase : {"update", "gather"}, issued : Nat]]
  BY DEF HostGather, TypeOK
<1> QED BY <1>2, <1>3 DEF HostGather, TypeOK

LEMMA HostReadType ==
  ASSUME TypeOK, NEW t \in Reads, HostRead(t)
  PROVE  TypeOK'
<1>0. t \in Tags /\ OperandCubes \subseteq Cubes /\ 1 \in 1..MaxLines
  BY ARTAssumption, MaxLinesType DEF Tags
<1>1. PICK d \in OperandCubes : HostSend(t, HostPacket("RD", t, d, d, 1))
  BY DEF HostRead
<1>2. HostPacket("RD", t, d, d, 1) \in Request
  BY <1>0, HostPacketType
<1>3. link' \in [Cubes -> [Links -> Seq(Request)]]
  BY <1>0, <1>1, <1>2, HostSendType
<1>4. reading' \in SUBSET Reads
  BY DEF HostRead, TypeOK
<1> QED BY <1>3, <1>4 DEF HostRead, TypeOK

LEMMA HostReceiveType ==
  ASSUME TypeOK, HostReceive
  PROVE  TypeOK'
<1>1. PICK r \in responseQ :
        /\ responseQ' = responseQ \ {r}
        /\ IF r.cmd = "GET"
           THEN /\ host' = [host EXCEPT ![r.flow] = [phase |-> "update", issued |-> 0]]
                /\ memory' = [memory EXCEPT ![r.flow] = 0]
                /\ UNCHANGED reading
           ELSE reading' = reading \ {r.flow} /\ UNCHANGED <<host, memory>>
  BY DEF HostReceive
<1>2. responseQ' \in SUBSET Response
  BY <1>1 DEF TypeOK
<1>3. host' \in [Flows -> [phase : {"update", "gather"}, issued : Nat]]
  <2>1. [phase |-> "update", issued |-> 0] \in [phase : {"update", "gather"}, issued : Nat]
    OBVIOUS
  <2> QED BY <1>1, <2>1 DEF TypeOK
<1>4. memory' \in [Flows -> Nat] /\ reading' \in SUBSET Reads
  BY <1>1 DEF TypeOK
<1> QED BY <1>2, <1>3, <1>4 DEF HostReceive, TypeOK

LEMMA InitType == Init => TypeOK
<1> SUFFICES ASSUME Init PROVE TypeOK
  OBVIOUS
<1>1. << >> \in Seq(Request)
  OBVIOUS
<1>2. \A c \in Cubes : NoEntry(c) \in FlowEntry
  BY NoEntryType
<1>3. [phase |-> "update", issued |-> 0] \in [phase : {"update", "gather"}, issued : Nat]
  OBVIOUS
<1> QED BY <1>1, <1>2, <1>3, FreeType DEF Init, TypeOK

LEMMA TypeStep == TypeOK /\ [Next]_vars => TypeOK'
<1> SUFFICES ASSUME TypeOK, [Next]_vars PROVE TypeOK'
  OBVIOUS
<1>1. ASSUME NEW c \in Cubes, NEW l \in Links, Deliver(c, l) PROVE TypeOK'
  BY <1>1, DeliverType
<1>2. ASSUME NEW c \in Cubes, NEW l \in Links, NEW i \in DOMAIN downBuffers[c][l],
             RequestStep(c, l, i, downBuffers[c][l][i])
      PROVE  TypeOK'
  <2>1. downBuffers[c][l][i] \in Request
    BY BufferedRequest
  <2> QED BY <1>2, <2>1, AddLocalType, AddForwardType, MultLocalType, MultHalfLocalType,
             MultSplitType, MultForwardType, MultHalfForwardType, GetReplicateType, GetMarkType,
             ForwardType, ReadLocalType DEF RequestStep
<1>3. ASSUME NEW c \in Cubes, VaultReturn(c) PROVE TypeOK'
  BY <1>3, VaultReturnType
<1>4. ASSUME NEW c \in Cubes, NEW p \in Ports, NEW r \in upBuffers[c][p], ResponseStep(c, p, r)
      PROVE  TypeOK'
  <2>1. r \in Response
    BY DEF TypeOK
  <2> QED BY <1>4, <2>1, OperandReturnType, ChildReplyType, ForwardResponseType DEF ResponseStep
<1>5. ASSUME NEW c \in Cubes, NEW b \in Bufs, ComputeStep(c, b) PROVE TypeOK'
  BY <1>5, AddFinishType, MultStartType, MultStepType DEF ComputeStep
<1>6. ASSUME NEW c \in Cubes, NEW f \in Flows, GatherReply(c, f) PROVE TypeOK'
  BY <1>6, GatherReplyType
<1>7. CASE HostReceive
  BY <1>7, HostReceiveType
<1>8. CASE Host
  BY <1>8, HostUpdateType, HostGatherType, HostReadType DEF Host
<1>9. CASE UNCHANGED vars
  BY <1>9 DEF TypeOK, vars
<1> QED BY <1>1, <1>2, <1>3, <1>4, <1>5, <1>6, <1>7, <1>8, <1>9 DEF Next, Network

(* Type correctness: no sequence of packets, whatever the topology, leaves *)
(* a request, an entry or an operand buffer with a value outside its type; *)
(* in particular the line count of a page update never reaches zero and    *)
(* the stage counter of the multiplier never becomes negative.             *)
THEOREM TypeCorrect == Spec => []TypeOK
BY InitType, TypeStep, PTL DEF Spec

-----------------------------------------------------------------------------
(***************************************************************************)
(* The counters of the flow table.                                         *)
(*                                                                         *)
(* CountsBalance alone is not inductive: that releasing an operand buffer  *)
(* lowers the number of reserved ones needs BuffersSound (a ready buffer   *)
(* is a reserved one), that the multiplier releases what it counted needs  *)
(* EntriesSound (no operand of an ADD flow is in it), and that a new entry *)
(* starts balanced needs both (an entry not in the table owes nothing).    *)
(***************************************************************************)
Balanced(c, f) ==
  flowTable[c][f].req_count = flowTable[c][f].rep_count + Cardinality(Reserved(c, f))
                                + Outstanding(flowTable[c][f])

BuffersOf(c) ==
  /\ freeOperandBufIDs[c] = Reserved(c, NoFlow)
  /\ \A b \in freeOperandBufIDs[c] : operandBuffers[c][b] = FreeOperand
  /\ multPipeOccupancy[c] = Cardinality(InPipe(c))
  /\ multPipeOccupancy[c] <= numMultStages

EntriesOf(c) ==
  /\ \A f \in Flows : ~flowTable[c][f].valid => flowTable[c][f] = NoEntry(c)
  /\ \A b \in InPipe(c) : operandBuffers[c][b].flowID # NoFlow /\ Opcode(c, b) = "MAC"

CubeSound(c) == (\A f \in Flows : Balanced(c, f)) /\ BuffersOf(c) /\ EntriesOf(c)

IInv == TypeOK /\ \A c \in Cubes : CubeSound(c)

LEMMA IInvParts == IInv <=> TypeOK /\ CountsBalance /\ BuffersSound /\ EntriesSound
BY DEF IInv, CubeSound, Balanced, BuffersOf, EntriesOf, CountsBalance, BuffersSound, EntriesSound

-----------------------------------------------------------------------------
(* Sets of operand buffers.                                                *)

LEMMA BufferSets ==
  ASSUME NEW c, NEW f
  PROVE  /\ IsFiniteSet(Reserved(c, f)) /\ Cardinality(Reserved(c, f)) \in Nat
         /\ IsFiniteSet(InPipe(c)) /\ Cardinality(InPipe(c)) \in Nat
<1>1. Reserved(c, f) \subseteq Bufs /\ InPipe(c) \subseteq Bufs
  BY DEF Reserved, InPipe
<1> QED BY <1>1, FiniteBufs, FS_Subset, FS_CardinalityType

LEMMA SetReserved ==
  ASSUME NEW c \in Cubes, NEW b \in Bufs, NEW o, NEW g,
         \A x \in Bufs : operandBuffers'[c][x] = IF x = b THEN o ELSE operandBuffers[c][x]
  PROVE  Reserved(c, g)' = IF o.flowID = g THEN Reserved(c, g) \cup {b} ELSE Reserved(c, g) \ {b}
BY DEF Reserved

LEMMA SetInPipe ==
  ASSUME NEW c \in Cubes, NEW b \in Bufs, NEW o,
         \A x \in Bufs : operandBuffers'[c][x] = IF x = b THEN o ELSE operandBuffers[c][x]
  PROVE  InPipe(c)' = IF o.multStageCounter # numMultStages THEN InPipe(c) \cup {b}
                      ELSE InPipe(c) \ {b}
BY DEF InPipe

(* A cube no step touches stays sound.                                     *)
LEMMA OtherCube ==
  ASSUME NEW d, CubeSound(d), flowTable'[d] = flowTable[d],
         operandBuffers'[d] = operandBuffers[d],
         freeOperandBufIDs'[d] = freeOperandBufIDs[d],
         multPipeOccupancy'[d] = multPipeOccupancy[d]
  PROVE  CubeSound(d)'
BY DEF CubeSound, Balanced, BuffersOf, EntriesOf, Reserved, InPipe, Opcode

(* So a step of cube c needs to be looked at there only.                   *)
LEMMA OneCube ==
  ASSUME IInv, TypeOK', NEW c \in Cubes, CubeSound(c)',
         \A d \in Cubes \ {c} : /\ flowTable'[d] = flowTable[d]
                                /\ operandBuffers'[d] = operandBuffers[d]
                                /\ freeOperandBufIDs'[d] = freeOperandBufIDs[d]
                                /\ multPipeOccupancy'[d] = multPipeOccupancy[d]
  PROVE  IInv'
<1>1. \A d \in Cubes : CubeSound(d)'
  BY OtherCube DEF IInv
<1> QED BY <1>1 DEF IInv

LEMMA Untouched ==
  ASSUME IInv, TypeOK',
         UNCHANGED <<flowTable, operandBuffers, freeOperandBufIDs, multPipeOccupancy>>
  PROVE  IInv'
BY OtherCube DEF IInv

-----------------------------------------------------------------------------
(* What the invariant says of one cube, in the forms the steps use.        *)

(* An entry that is not in the table has no operand buffer.                *)
LEMMA NothingOwed ==
  ASSUME TypeOK, NEW c \in Cubes, CubeSound(c), NEW f \in Flows, ~flowTable[c][f].valid
  PROVE  Reserved(c, f) = {}
<1>1. flowTable[c][f] = NoEntry(c)
  BY DEF CubeSound, EntriesOf
<1>2. Cardinality(Reserved(c, f)) = 0
  BY <1>1, BufferSets DEF CubeSound, Balanced, Outstanding, NoEntry, Links
<1> QED BY <1>2, BufferSets, FS_EmptySet

LEMMA OutstandingType ==
  ASSUME NEW e \in FlowEntry
  PROVE  /\ Outstanding(e) \in Nat /\ e.req_count \in Nat /\ e.rep_count \in Nat
         /\ \A n \in Links : e.children_count[n] \in Nat /\ e.children_count[n] <= Outstanding(e)
BY DEF Outstanding, FlowEntry, Links

(* Nothing outstanding when everything counted is reduced.                 *)
LEMMA AllReduced ==
  ASSUME TypeOK, NEW c \in Cubes, CubeSound(c), NEW f \in Flows,
         flowTable[c][f].req_count = flowTable[c][f].rep_count
  PROVE  /\ Reserved(c, f) = {}
         /\ \A n \in Links : flowTable[c][f].children_count[n] = 0
<1>1. flowTable[c][f] \in FlowEntry /\ Cardinality(Reserved(c, f)) \in Nat
  BY EntryType, BufferSets
<1>2. Cardinality(Reserved(c, f)) = 0 /\ Outstanding(flowTable[c][f]) = 0
  BY <1>1, OutstandingType DEF CubeSound, Balanced
<1>3. Reserved(c, f) = {}
  BY <1>2, BufferSets, FS_EmptySet
<1>4. \A n \in Links : flowTable[c][f].children_count[n] = 0
  BY <1>1, <1>2, OutstandingType
<1> QED BY <1>3, <1>4

(* A free buffer is clean, and one that is not clean belongs to a flow.    *)
LEMMA FreeBuffer ==
  ASSUME TypeOK, NEW c \in Cubes, CubeSound(c), NEW b \in freeOperandBufIDs[c]
  PROVE  b \in Bufs /\ operandBuffers[c][b] = FreeOperand /\ b \notin InPipe(c)
<1>1. b \in Bufs /\ operandBuffers[c][b] = FreeOperand
  BY DEF TypeOK, CubeSound, BuffersOf
<1> QED BY <1>1 DEF InPipe, FreeOperand

LEMMA ReservedOperand ==
  ASSUME NEW f \in Flows
  PROVE  LET o == [FreeOperand EXCEPT !.flowID = f]
         IN  o \in OperandEntry /\ o.flowID = f /\ o.multStageCounter = numMultStages
<1> DEFINE o == [FreeOperand EXCEPT !.flowID = f]
<1>1. o \in OperandEntry
  BY FreeType DEF OperandEntry
<1>2. o.flowID = f /\ o.multStageCounter = numMultStages
  BY DEF FreeOperand
<1> QED BY <1>1, <1>2

LEMMA HeldBuffer ==
  ASSUME TypeOK, NEW c \in Cubes, CubeSound(c), NEW b \in Bufs,
         operandBuffers[c][b].ready
  PROVE  /\ operandBuffers[c][b].flowID \in Flows
         /\ b \in Reserved(c, operandBuffers[c][b].flowID)
         /\ b \notin freeOperandBufIDs[c]
<1>1. operandBuffers[c][b] \in OperandEntry
  BY DEF TypeOK
<1>2. b \notin freeOperandBufIDs[c]
  BY FreeBuffer DEF FreeOperand
<1>3. operandBuffers[c][b].flowID # NoFlow
  BY <1>2 DEF CubeSound, BuffersOf, Reserved
<1> QED BY <1>1, <1>2, <1>3 DEF OperandEntry, Reserved

(* Entries: what counting and answering does to the balance.               *)
LEMMA CountedBalance ==
  ASSUME TypeOK, NEW c \in Cubes, NEW p \in Request, p.flow \in Flows, CubeSound(c)
  PROVE  /\ Counted(c, p).req_count = flowTable[c][p.flow].req_count + 1
         /\ Counted(c, p).rep_count = flowTable[c][p.flow].rep_count
         /\ Counted(c, p).children_count = flowTable[c][p.flow].children_count
         /\ Counted(c, p).valid
         /\ flowTable[c][p.flow].valid => Counted(c, p).opcode = flowTable[c][p.flow].opcode
<1>1. flowTable[c][p.flow] \in FlowEntry
  BY EntryType
<1>2. CASE flowTable[c][p.flow].valid
  BY <1>1, <1>2 DEF Counted, FlowEntry
<1>3. CASE ~flowTable[c][p.flow].valid
  <2>1. flowTable[c][p.flow] = NoEntry(c)
    BY <1>3 DEF CubeSound, EntriesOf
  <2> QED BY <1>3, <2>1 DEF Counted, NoEntry
<1> QED BY <1>2, <1>3

LEMMA ChildCounted ==
  ASSUME NEW e \in FlowEntry, NEW n \in Links
  PROVE  Outstanding([e EXCEPT !.children_count[n] = @ + 1]) = Outstanding(e) + 1
BY DEF Outstanding, FlowEntry, Links

LEMMA ChildAnswered ==
  ASSUME NEW e \in FlowEntry, NEW n \in Links
  PROVE  /\ ChildDone(e, n).rep_count + Outstanding(ChildDone(e, n)) = e.rep_count + Outstanding(e)
         /\ ChildDone(e, n).req_count = e.req_count
         /\ ChildDone(e, n).valid = e.valid /\ ChildDone(e, n).opcode = e.opcode
         /\ Outstanding(ChildDone(e, n)) \in Nat
BY DEF ChildDone, Outstanding, FlowEntry, Links

-----------------------------------------------------------------------------
(* The steps that change the flow table or the operand buffers.            *)

(* The multiplier holds what it held, and flows with buffers keep their    *)
(* opcode.                                                                 *)
LEMMA SameEntries ==
  ASSUME TypeOK, NEW c \in Cubes, CubeSound(c),
         \A x \in InPipe(c)' : x \in InPipe(c)
                               /\ operandBuffers'[c][x].flowID = operandBuffers[c][x].flowID,
         \A g \in Flows : /\ ~flowTable'[c][g].valid => flowTable'[c][g] = NoEntry(c)
                          /\ Reserved(c, g) # {} =>
                               flowTable'[c][g].opcode = flowTable[c][g].opcode
  PROVE  EntriesOf(c)'
<1>1. ASSUME NEW x \in InPipe(c)'
      PROVE  operandBuffers'[c][x].flowID # NoFlow
             /\ flowTable'[c][operandBuffers'[c][x].flowID].opcode = "MAC"
  <2> DEFINE g == operandBuffers[c][x].flowID
  <2>1. x \in InPipe(c) /\ operandBuffers'[c][x].flowID = g
    BY <1>1
  <2>2. x \in Bufs /\ g # NoFlow /\ flowTable[c][g].opcode = "MAC"
    BY <2>1 DEF CubeSound, EntriesOf, Opcode, InPipe
  <2>3. operandBuffers[c][x] \in OperandEntry
    BY <2>2 DEF TypeOK
  <2>4. g \in Flows /\ x \in Reserved(c, g)
    BY <2>2, <2>3 DEF OperandEntry, Reserved
  <2>5. flowTable'[c][g].opcode = flowTable[c][g].opcode
    BY <2>4
  <2> QED BY <2>1, <2>2, <2>5
<1>2. (\A x \in InPipe(c) : operandBuffers[c][x].flowID # NoFlow /\ Opcode(c, x) = "MAC")'
  BY <1>1 DEF Opcode
<1> QED BY <1>2 DEF EntriesOf

(* An update is counted where it reserves an operand buffer.               *)
LEMMA ReserveSound ==
  ASSUME IInv, TypeOK', NEW c \in Cubes, NEW p \in Request, p.flow \in Flows,
         NEW b \in Bufs, Reserve(c, b, p.flow), CountHere(c, p), UNCHANGED multPipeOccupancy
  PROVE  IInv'
<1> DEFINE f == p.flow
           o == [operandBuffers[c][b] EXCEPT !.flowID = f]
<1>1. TypeOK /\ CubeSound(c) /\ b \in freeOperandBufIDs[c]
  BY DEF IInv, Reserve
<1>2. operandBuffers[c][b] = FreeOperand /\ b \notin InPipe(c) /\ f # NoFlow
  BY <1>1, FreeBuffer, NullValues
<1>3. o \in OperandEntry /\ o.flowID = f /\ o.multStageCounter = numMultStages
  BY <1>2, ReservedOperand
<1>4. operandBuffers' = [operandBuffers EXCEPT ![c][b] = o]
  BY DEF Reserve
<1> HIDE DEF o
<1>0. \A x \in Bufs : operandBuffers'[c][x] = IF x = b THEN o ELSE operandBuffers[c][x]
  BY <1>1, <1>4 DEF TypeOK
<1>5. ASSUME NEW g
      PROVE  Reserved(c, g)' = IF f = g THEN Reserved(c, g) \cup {b} ELSE Reserved(c, g) \ {b}
  BY <1>0, <1>3, SetReserved
<1>6. InPipe(c)' = InPipe(c)
  <2>1. InPipe(c)' = InPipe(c) \ {b}
    BY <1>0, <1>3, SetInPipe
  <2> QED BY <1>2, <2>1
<1>7. \A g \in Flows : b \notin Reserved(c, g)
  BY <1>2, NullValues DEF Reserved, FreeOperand
<1>8. flowTable' = [flowTable EXCEPT ![c][f] = Counted(c, p)]
  BY DEF CountHere
<1>9. \A g \in Flows : flowTable'[c][g] = IF g = f THEN Counted(c, p) ELSE flowTable[c][g]
  BY <1>1, <1>8 DEF TypeOK
<1>10. ASSUME NEW g \in Flows PROVE Balanced(c, g)'
  <2>1. CASE g = f
    <3>1. Cardinality(Reserved(c, f)') = Cardinality(Reserved(c, f)) + 1
      BY <1>5, <1>7, BufferSets, FS_AddElement, SMTT(60)
    <3>2. Outstanding(Counted(c, p)) = Outstanding(flowTable[c][f])
      BY <1>1, CountedBalance DEF Outstanding
    <3>3. flowTable[c][f] \in FlowEntry
      BY <1>1, EntryType
    <3> QED BY <1>1, <1>9, <2>1, <3>1, <3>2, <3>3, CountedBalance, OutstandingType, BufferSets
            DEF Balanced, CubeSound
  <2>2. CASE g # f
    <3>1. Reserved(c, g)' = Reserved(c, g)
      BY <1>5, <1>7, <2>2
    <3> QED BY <1>1, <1>9, <2>2, <3>1 DEF Balanced, CubeSound
  <2> QED BY <2>1, <2>2
<1>11. BuffersOf(c)'
  <2>1. freeOperandBufIDs'[c] = freeOperandBufIDs[c] \ {b}
    BY <1>1 DEF Reserve, TypeOK
  <2>2. Reserved(c, NoFlow)' = Reserved(c, NoFlow) \ {b}
    BY <1>2, <1>5
  <2>3. \A x \in Bufs : x # b => operandBuffers'[c][x] = operandBuffers[c][x]
    BY <1>1, <1>4 DEF TypeOK
  <2>4. \A x \in freeOperandBufIDs'[c] : operandBuffers'[c][x] = FreeOperand
    BY <1>1, <2>1, <2>3 DEF CubeSound, BuffersOf, TypeOK
  <2> QED BY <1>1, <1>6, <2>1, <2>2, <2>4 DEF CubeSound, BuffersOf
<1>12. EntriesOf(c)'
  <2>1. \A x \in InPipe(c)' : x \in InPipe(c)
                              /\ operandBuffers'[c][x].flowID = operandBuffers[c][x].flowID
    BY <1>1, <1>2, <1>4, <1>6 DEF TypeOK, InPipe
  <2>2. \A g \in Flows : /\ ~flowTable'[c][g].valid => flowTable'[c][g] = NoEntry(c)
                         /\ Reserved(c, g) # {} =>
                              flowTable'[c][g].opcode = flowTable[c][g].opcode
    BY <1>1, <1>9, CountedBalance, NothingOwed DEF CubeSound, EntriesOf
  <2> QED BY <1>1, <2>1, <2>2, SameEntries
<1>13. CubeSound(c)'
  BY <1>10, <1>11, <1>12 DEF CubeSound
<1> QED BY <1>1, <1>4, <1>8, <1>13, OneCube DEF Reserve, TypeOK

(* A step that writes one entry of the flow table and nothing else.        *)
LEMMA EntrySound ==
  ASSUME IInv, TypeOK', NEW c \in Cubes, NEW f \in Flows, NEW e \in FlowEntry,
         flowTable' = [flowTable EXCEPT ![c][f] = e],
         UNCHANGED <<operandBuffers, freeOperandBufIDs, multPipeOccupancy>>,
         ~e.valid => e = NoEntry(c),
         Reserved(c, f) # {} => e.opcode = flowTable[c][f].opcode,
         e.req_count = e.rep_count + Cardinality(Reserved(c, f)) + Outstanding(e)
  PROVE  IInv'
<1>1. TypeOK /\ CubeSound(c)
  BY DEF IInv
<1>2. \A g \in Flows : flowTable'[c][g] = IF g = f THEN e ELSE flowTable[c][g]
  BY <1>1 DEF TypeOK
<1>3. InPipe(c)' = InPipe(c) /\ \A g : Reserved(c, g)' = Reserved(c, g)
  BY DEF InPipe, Reserved
<1>4. ASSUME NEW g \in Flows PROVE Balanced(c, g)'
  <2>1. CASE g = f
    BY <1>2, <1>3, <2>1 DEF Balanced
  <2>2. CASE g # f
    BY <1>1, <1>2, <1>3, <2>2 DEF Balanced, CubeSound
  <2> QED BY <2>1, <2>2
<1>5. BuffersOf(c)'
  BY <1>1, <1>3 DEF CubeSound, BuffersOf
<1>6. EntriesOf(c)'
  <2>1. \A x \in InPipe(c)' : x \in InPipe(c)
                              /\ operandBuffers'[c][x].flowID = operandBuffers[c][x].flowID
    BY <1>3
  <2>2. \A g \in Flows : /\ ~flowTable'[c][g].valid => flowTable'[c][g] = NoEntry(c)
                         /\ Reserved(c, g) # {} =>
                              flowTable'[c][g].opcode = flowTable[c][g].opcode
    BY <1>1, <1>2 DEF CubeSound, EntriesOf
  <2> QED BY <1>1, <2>1, <2>2, SameEntries
<1>7. CubeSound(c)'
  BY <1>4, <1>5, <1>6 DEF CubeSound
<1>8. \A d \in Cubes \ {c} : flowTable'[d] = flowTable[d]
  BY <1>1 DEF TypeOK
<1> QED BY <1>7, <1>8, OneCube

(* A step that writes one reserved operand buffer and leaves it reserved.  *)
LEMMA OperandSound ==
  ASSUME IInv, TypeOK', NEW c \in Cubes, NEW b \in Bufs, NEW o \in OperandEntry,
         operandBuffers' = [operandBuffers EXCEPT ![c][b] = o],
         UNCHANGED <<flowTable, freeOperandBufIDs>>,
         o.flowID = operandBuffers[c][b].flowID, o.flowID \in Flows,
         o.multStageCounter # numMultStages => Opcode(c, b) = "MAC",
         multPipeOccupancy'[c] = Cardinality(InPipe(c)'),
         multPipeOccupancy'[c] <= numMultStages,
         \A d \in Cubes \ {c} : multPipeOccupancy'[d] = multPipeOccupancy[d]
  PROVE  IInv'
<1>1. TypeOK /\ CubeSound(c) /\ o.flowID # NoFlow
  BY NullValues DEF IInv
<1>2. \A x \in Bufs : operandBuffers'[c][x] = IF x = b THEN o ELSE operandBuffers[c][x]
  BY <1>1 DEF TypeOK
<1>3. ASSUME NEW g PROVE Reserved(c, g)' = Reserved(c, g)
  BY <1>2 DEF Reserved
<1>4. ASSUME NEW g \in Flows PROVE Balanced(c, g)'
  BY <1>1, <1>3 DEF Balanced, CubeSound
<1>5. BuffersOf(c)'
  <2>1. b \notin freeOperandBufIDs[c]
    BY <1>1 DEF CubeSound, BuffersOf, Reserved
  <2>2. \A x \in freeOperandBufIDs'[c] : operandBuffers'[c][x] = FreeOperand
    BY <1>1, <1>2, <2>1 DEF CubeSound, BuffersOf, TypeOK
  <2>3. freeOperandBufIDs'[c] = Reserved(c, NoFlow)'
    BY <1>1, <1>3 DEF CubeSound, BuffersOf
  <2> QED BY <2>2, <2>3 DEF BuffersOf
<1>6. EntriesOf(c)'
  <2>1. \A g \in Flows : ~flowTable'[c][g].valid => flowTable'[c][g] = NoEntry(c)
    BY <1>1 DEF CubeSound, EntriesOf
  <2>2. ASSUME NEW x \in InPipe(c)'
        PROVE  operandBuffers'[c][x].flowID # NoFlow
               /\ flowTable'[c][operandBuffers'[c][x].flowID].opcode = "MAC"
    <3>0. x \in Bufs
      BY <2>2 DEF InPipe
    <3>1. CASE x = b
      <4>1. operandBuffers'[c][x] = o
        BY <1>2, <3>1
      <4>2. o.multStageCounter # numMultStages
        BY <2>2, <4>1 DEF InPipe
      <4> QED BY <1>1, <4>1, <4>2 DEF Opcode
    <3>2. CASE x # b
      <4>1. operandBuffers'[c][x] = operandBuffers[c][x]
        BY <1>2, <3>0, <3>2
      <4>2. x \in InPipe(c)
        BY <2>2, <3>0, <4>1 DEF InPipe
      <4> QED BY <1>1, <4>1, <4>2 DEF CubeSound, EntriesOf, Opcode
    <3> QED BY <3>1, <3>2
  <2> QED BY <2>1, <2>2 DEF EntriesOf, Opcode
<1>7. CubeSound(c)'
  BY <1>4, <1>5, <1>6 DEF CubeSound
<1>8. \A d \in Cubes \ {c} : operandBuffers'[d] = operandBuffers[d]
  BY <1>1 DEF TypeOK
<1> QED BY <1>7, <1>8, OneCube

(* A result is added and its operand buffer released.                      *)
LEMMA ReduceSound ==
  ASSUME IInv, TypeOK', NEW c \in Cubes, NEW b \in Bufs, operandBuffers[c][b].ready,
         Reduce(c, b),
         multPipeOccupancy'[c] = Cardinality(InPipe(c) \ {b}),
         multPipeOccupancy'[c] <= numMultStages,
         \A d \in Cubes \ {c} : multPipeOccupancy'[d] = multPipeOccupancy[d]
  PROVE  IInv'
<1> DEFINE f == operandBuffers[c][b].flowID
<1>1. TypeOK /\ CubeSound(c)
  BY DEF IInv
<1>2. f \in Flows /\ f # NoFlow /\ b \in Reserved(c, f) /\ b \notin freeOperandBufIDs[c]
  BY <1>1, HeldBuffer, NullValues
<1>3. /\ flowTable' = [flowTable EXCEPT ![c][f] = AddResult(flowTable[c][f])]
      /\ operandBuffers' = [operandBuffers EXCEPT ![c][b] = FreeOperand]
      /\ freeOperandBufIDs' = [freeOperandBufIDs EXCEPT ![c] = @ \cup {b}]
  BY DEF Reduce
<1>4. \A x \in Bufs : operandBuffers'[c][x] = IF x = b THEN FreeOperand ELSE operandBuffers[c][x]
  BY <1>1, <1>3 DEF TypeOK
<1>5. FreeOperand.flowID = NoFlow /\ FreeOperand.multStageCounter = numMultStages
  BY DEF FreeOperand
<1>6. \A g \in Flows : flowTable'[c][g] = IF g = f THEN AddResult(flowTable[c][f])
                                          ELSE flowTable[c][g]
  BY <1>1, <1>3 DEF TypeOK
<1>7. InPipe(c)' = InPipe(c) \ {b}
  BY <1>4, <1>5, SetInPipe
<1>8. ASSUME NEW g
      PROVE  Reserved(c, g)' = IF NoFlow = g THEN Reserved(c, g) \cup {b} ELSE Reserved(c, g) \ {b}
  BY <1>4, <1>5, SetReserved
<1> DEFINE e == flowTable[c][f]
<1>9. e \in FlowEntry
  BY <1>1, <1>2, EntryType
<1>10. /\ AddResult(e).rep_count = e.rep_count + 1 /\ AddResult(e).req_count = e.req_count
       /\ AddResult(e).children_count = e.children_count
       /\ AddResult(e).valid = e.valid /\ AddResult(e).opcode = e.opcode
  BY <1>9 DEF AddResult, FlowEntry
<1>11. ASSUME NEW g \in Flows PROVE Balanced(c, g)'
  <2>1. CASE g = f
    <3>1. Cardinality(Reserved(c, g)') = Cardinality(Reserved(c, g)) - 1
      <4>1. Reserved(c, g)' = Reserved(c, g) \ {b} /\ b \in Reserved(c, g)
        BY <1>2, <1>8, <2>1
      <4>2. IsFiniteSet(Reserved(c, g))
        BY BufferSets
      <4>3. Cardinality(Reserved(c, g) \ {b}) = Cardinality(Reserved(c, g)) - 1
        BY <4>1, <4>2, FS_RemoveElement
      <4> QED BY <4>1, <4>3
    <3>2. Outstanding(AddResult(e)) = Outstanding(e)
      BY <1>10 DEF Outstanding
    <3>3. e.req_count = e.rep_count + Cardinality(Reserved(c, g)) + Outstanding(e)
      BY <1>1, <1>2, <2>1 DEF CubeSound, Balanced
    <3>4. flowTable'[c][g] = AddResult(e)
      BY <1>6, <2>1
    <3> HIDE DEF e, f
    <3> QED BY <1>9, <1>10, <3>1, <3>2, <3>3, <3>4, OutstandingType, BufferSets DEF Balanced
  <2>2. CASE g # f
    <3>1. Reserved(c, g)' = Reserved(c, g)
      <4>1. b \notin Reserved(c, g) /\ g # NoFlow
        BY <2>2, NullValues DEF Reserved
      <4> QED BY <1>8, <4>1
    <3> QED BY <1>1, <1>6, <2>2, <3>1 DEF Balanced, CubeSound
  <2> QED BY <2>1, <2>2
<1>12. BuffersOf(c)'
  <2>1. freeOperandBufIDs'[c] = freeOperandBufIDs[c] \cup {b}
    BY <1>1, <1>3 DEF TypeOK
  <2>2. Reserved(c, NoFlow)' = Reserved(c, NoFlow) \cup {b}
    BY <1>8
  <2>3. \A x \in freeOperandBufIDs'[c] : operandBuffers'[c][x] = FreeOperand
    BY <1>1, <1>4, <2>1 DEF CubeSound, BuffersOf, TypeOK
  <2> QED BY <1>1, <1>7, <2>1, <2>2, <2>3 DEF CubeSound, BuffersOf
<1>13. EntriesOf(c)'
  <2>1. \A x \in InPipe(c)' : x \in InPipe(c)
                              /\ operandBuffers'[c][x].flowID = operandBuffers[c][x].flowID
    BY <1>4, <1>7 DEF InPipe
  <2>2. e.valid
    BY <1>1, <1>2, NothingOwed
  <2>3. \A g \in Flows : /\ ~flowTable'[c][g].valid => flowTable'[c][g] = NoEntry(c)
                         /\ Reserved(c, g) # {} =>
                              flowTable'[c][g].opcode = flowTable[c][g].opcode
    BY <1>1, <1>6, <1>10, <2>2 DEF CubeSound, EntriesOf
  <2> QED BY <1>1, <2>1, <2>3, SameEntries
<1>14. CubeSound(c)'
  BY <1>11, <1>12, <1>13 DEF CubeSound
<1>15. \A d \in Cubes \ {c} : /\ flowTable'[d] = flowTable[d]
                              /\ operandBuffers'[d] = operandBuffers[d]
                              /\ freeOperandBufIDs'[d] = freeOperandBufIDs[d]
  BY <1>1, <1>3 DEF TypeOK
<1> QED BY <1>14, <1>15, OneCube

-----------------------------------------------------------------------------
(* Every action keeps the invariant.                                       *)

LEMMA ForwardSound ==
  ASSUME IInv, TypeOK', NEW c \in Cubes, NEW p \in Request, p.cmd \in {"ADD", "MULT"},
         NEW n \in Links, CountChild(c, p, n),
         UNCHANGED <<operandBuffers, freeOperandBufIDs, multPipeOccupancy>>
  PROVE  IInv'
<1> DEFINE k == Counted(c, p)
           e == [k EXCEPT !.children_count[n] = @ + 1]
<1>1. TypeOK /\ CubeSound(c)
  BY DEF IInv
<1>2. k \in FlowEntry /\ p.flow \in Flows
  BY <1>1, CountedType
<1>3. flowTable' = [flowTable EXCEPT ![c][p.flow] = e]
  BY DEF CountChild
<1>4. /\ k.req_count = flowTable[c][p.flow].req_count + 1
      /\ k.rep_count = flowTable[c][p.flow].rep_count
      /\ k.children_count = flowTable[c][p.flow].children_count
      /\ k.valid
      /\ flowTable[c][p.flow].valid => k.opcode = flowTable[c][p.flow].opcode
  BY <1>1, <1>2, CountedBalance
<1> HIDE DEF k
<1>5. e \in FlowEntry
  BY <1>2 DEF FlowEntry
<1>6. Outstanding(e) = Outstanding(k) + 1
  BY <1>2, ChildCounted
<1>7. e.req_count = k.req_count /\ e.rep_count = k.rep_count /\ e.valid = k.valid /\ e.opcode = k.opcode
  BY <1>2 DEF FlowEntry
<1> HIDE DEF e
<1>8. Outstanding(k) = Outstanding(flowTable[c][p.flow])
  BY <1>4 DEF Outstanding
<1>9. flowTable[c][p.flow] \in FlowEntry /\ Cardinality(Reserved(c, p.flow)) \in Nat
  BY <1>1, <1>2, EntryType, BufferSets
<1>10. flowTable[c][p.flow].req_count
         = flowTable[c][p.flow].rep_count + Cardinality(Reserved(c, p.flow))
             + Outstanding(flowTable[c][p.flow])
  BY <1>1, <1>2 DEF CubeSound, Balanced
<1>11. e.req_count = e.rep_count + Cardinality(Reserved(c, p.flow)) + Outstanding(e)
  BY <1>4, <1>6, <1>7, <1>8, <1>9, <1>10, OutstandingType
<1>12. Reserved(c, p.flow) # {} => e.opcode = flowTable[c][p.flow].opcode
  BY <1>1, <1>2, <1>4, <1>7, NothingOwed
<1> QED BY <1>2, <1>3, <1>4, <1>5, <1>7, <1>11, <1>12, EntrySound

LEMMA GatherFlagsSound ==
  ASSUME IInv, TypeOK', NEW c \in Cubes, NEW f \in Flows, NEW e \in FlowEntry,
         flowTable[c][f].valid, flowTable' = [flowTable EXCEPT ![c][f] = e],
         e.valid = flowTable[c][f].valid, e.opcode = flowTable[c][f].opcode,
         e.req_count = flowTable[c][f].req_count, e.rep_count = flowTable[c][f].rep_count,
         e.children_count = flowTable[c][f].children_count,
         UNCHANGED <<operandBuffers, freeOperandBufIDs, multPipeOccupancy>>
  PROVE  IInv'
<1>1. Outstanding(e) = Outstanding(flowTable[c][f])
  BY DEF Outstanding
<1>2. e.req_count = e.rep_count + Cardinality(Reserved(c, f)) + Outstanding(e)
  BY <1>1 DEF IInv, CubeSound, Balanced
<1> QED BY <1>2, EntrySound

LEMMA GetReplicateSound ==
  ASSUME IInv, TypeOK', NEW c \in Cubes, NEW l \in Links, NEW i, NEW p \in Request,
         GetReplicate(c, l, i, p)
  PROVE  IInv'
<1>0. TypeOK /\ p.flow \in Flows /\ flowTable[c][p.flow].valid
  BY DEF IInv, GetReplicate, Request, Tags
<1>1. PICK n \in Links : flowTable' = [flowTable EXCEPT ![c][p.flow].children_gflag[n] = TRUE]
  BY DEF GetReplicate, PendingChildren
<1> DEFINE t == flowTable[c][p.flow]
           e == [t EXCEPT !.children_gflag[n] = TRUE]
<1>2. t \in FlowEntry
  BY <1>0, EntryType
<1>3. flowTable' = [flowTable EXCEPT ![c][p.flow] = e]
  BY <1>1
<1> HIDE DEF t
<1>4. /\ e \in FlowEntry /\ e.valid = t.valid /\ e.opcode = t.opcode /\ e.req_count = t.req_count
      /\ e.rep_count = t.rep_count /\ e.children_count = t.children_count
  BY <1>2 DEF FlowEntry
<1> HIDE DEF e
<1>5. UNCHANGED <<operandBuffers, freeOperandBufIDs, multPipeOccupancy>>
  BY DEF GetReplicate
<1> QED BY <1>0, <1>3, <1>4, <1>5, GatherFlagsSound DEF t

LEMMA GetMarkSound ==
  ASSUME IInv, TypeOK', NEW c \in Cubes, NEW l \in Links, NEW i, NEW p \in Request,
         GetMark(c, l, i, p)
  PROVE  IInv'
<1>0. TypeOK /\ p.flow \in Flows /\ flowTable[c][p.flow].valid
  BY DEF IInv, GetMark, Request, Tags
<1> DEFINE t == flowTable[c][p.flow]
           e == [t EXCEPT !.g_flag = TRUE]
<1>2. t \in FlowEntry
  BY <1>0, EntryType
<1>3. flowTable' = [flowTable EXCEPT ![c][p.flow] = e]
  BY DEF GetMark
<1> HIDE DEF t
<1>4. /\ e \in FlowEntry /\ e.valid = t.valid /\ e.opcode = t.opcode /\ e.req_count = t.req_count
      /\ e.rep_count = t.rep_count /\ e.children_count = t.children_count
  BY <1>2 DEF FlowEntry
<1> HIDE DEF e
<1>5. UNCHANGED <<operandBuffers, freeOperandBufIDs, multPipeOccupancy>>
  BY DEF GetMark
<1> QED BY <1>0, <1>3, <1>4, <1>5, GatherFlagsSound DEF t

LEMMA RequestSound ==
  ASSUME IInv, TypeOK', NEW c \in Cubes, NEW l \in Links, NEW i, NEW p \in Request,
         RequestStep(c, l, i, p)
  PROVE  IInv'
<1>0. /\ TypeOK
      /\ p.cmd \in {"ADD", "MULT"} => p.flow \in Flows
      /\ p.dest \in Cubes
  BY DEF IInv, Request, Tags
<1>1. CASE AddLocal(c, l, i, p)
  <2>1. PICK b \in freeOperandBufIDs[c] : Reserve(c, b, p.flow)
    BY <1>1 DEF AddLocal
  <2>2. b \in Bufs
    BY <1>0 DEF TypeOK
  <2> QED BY <1>0, <1>1, <2>1, <2>2, ReserveSound DEF AddLocal
<1>2. CASE MultLocal(c, l, i, p)
  <2>1. PICK b \in freeOperandBufIDs[c] : Reserve(c, b, p.flow)
    BY <1>2 DEF MultLocal
  <2>2. b \in Bufs
    BY <1>0 DEF TypeOK
  <2> QED BY <1>0, <1>2, <2>1, <2>2, ReserveSound DEF MultLocal
<1>3. CASE MultSplit(c, l, i, p)
  <2>1. PICK b \in freeOperandBufIDs[c] : Reserve(c, b, p.flow)
    BY <1>3 DEF MultSplit
  <2>2. b \in Bufs
    BY <1>0 DEF TypeOK
  <2> QED BY <1>0, <1>3, <2>1, <2>2, ReserveSound DEF MultSplit
<1>4. CASE AddForward(c, l, i, p)
  BY <1>0, <1>4, RouteType, ForwardSound DEF AddForward
<1>5. CASE MultForward(c, l, i, p)
  BY <1>0, <1>5, RouteType, ForwardSound DEF MultForward
<1>6. CASE GetReplicate(c, l, i, p)
  BY <1>6, GetReplicateSound
<1>7. CASE GetMark(c, l, i, p)
  BY <1>7, GetMarkSound
<1>8. CASE MultHalfLocal(c, l, i, p) \/ MultHalfForward(c, l, i, p)
  BY <1>8, Untouched DEF MultHalfLocal, MultHalfForward
<1>9. CASE Forward(c, l, i, p) \/ ReadLocal(c, l, i, p)
  BY <1>9, Untouched DEF Forward, ReadLocal
<1> QED BY <1>1, <1>2, <1>3, <1>4, <1>5, <1>6, <1>7, <1>8, <1>9 DEF RequestStep

LEMMA OperandReturnSound ==
  ASSUME IInv, TypeOK', NEW c \in Cubes, NEW p \in Ports, NEW r \in Response,
         OperandReturn(c, p, r)
  PROVE  IInv'
<1>0. /\ TypeOK /\ CubeSound(c) /\ r.buf \in Bufs
      /\ operandBuffers[c][r.buf].flowID = r.flow /\ r.flow \in Flows
  BY DEF IInv, OperandReturn, IsOperand, Expected, Response, Tags
<1> DEFINE o  == operandBuffers[c][r.buf]
           o1 == o.op1_ready \/ r.op = 1
           o2 == o.op2_ready \/ r.op = 2
           rd == (r.cmd = "ADD") \/ (o1 /\ o2)
           q  == [o EXCEPT !.op1_ready = o1, !.op2_ready = o2, !.ready = rd]
<1>1. o \in OperandEntry /\ o1 \in BOOLEAN /\ o2 \in BOOLEAN /\ rd \in BOOLEAN
  BY <1>0 DEF TypeOK
<1>2. operandBuffers' = [operandBuffers EXCEPT ![c][r.buf] = q]
  BY DEF OperandReturn
<1> HIDE DEF o, o1, o2, rd
<1>3. q \in OperandEntry
  BY <1>1, OperandFilledType
<1>4. q.flowID = o.flowID /\ q.multStageCounter = o.multStageCounter
  BY <1>1 DEF OperandEntry
<1> HIDE DEF q
<1>5. \A x \in Bufs : operandBuffers'[c][x] = IF x = r.buf THEN q ELSE operandBuffers[c][x]
  BY <1>0, <1>2 DEF TypeOK
<1>6. InPipe(c)' = InPipe(c)
  BY <1>4, <1>5 DEF InPipe, o
<1>7. UNCHANGED <<flowTable, freeOperandBufIDs, multPipeOccupancy>>
  BY DEF OperandReturn
<1>8. q.multStageCounter # numMultStages => Opcode(c, r.buf) = "MAC"
  BY <1>0, <1>4 DEF CubeSound, EntriesOf, InPipe, o
<1>9. multPipeOccupancy'[c] = Cardinality(InPipe(c)') /\ multPipeOccupancy'[c] <= numMultStages
  BY <1>0, <1>6, <1>7 DEF CubeSound, BuffersOf
<1>10. q.flowID = operandBuffers[c][r.buf].flowID /\ q.flowID \in Flows
  BY <1>0, <1>4 DEF o
<1> QED BY <1>0, <1>2, <1>3, <1>7, <1>8, <1>9, <1>10, OperandSound

LEMMA ChildReplySound ==
  ASSUME IInv, TypeOK', NEW c \in Cubes, NEW p \in Ports, NEW r \in Response,
         ChildReply(c, p, r)
  PROVE  IInv'
<1> DEFINE f == r.flow
           n == NextLink[c][r.src]
           t == flowTable[c][f]
           e == ChildDone(t, n)
<1>0. TypeOK /\ CubeSound(c) /\ f \in Flows /\ r.src \in Cubes /\ t.valid
  BY DEF IInv, ChildReply, IsChildReply, Response, Tags
<1>1. n \in Links /\ t \in FlowEntry
  BY <1>0, RouteType, EntryType
<1>2. flowTable' = [flowTable EXCEPT ![c][f] = e]
        /\ UNCHANGED <<operandBuffers, freeOperandBufIDs, multPipeOccupancy>>
  BY DEF ChildReply
<1>3. t.req_count = t.rep_count + Cardinality(Reserved(c, f)) + Outstanding(t)
  BY <1>0 DEF CubeSound, Balanced
<1>4. Cardinality(Reserved(c, f)) \in Nat
  BY BufferSets
<1>5. e \in FlowEntry
  BY <1>1, ChildDoneType
<1>6. /\ e.rep_count + Outstanding(e) = t.rep_count + Outstanding(t)
      /\ e.req_count = t.req_count /\ e.valid = t.valid /\ e.opcode = t.opcode
  BY <1>1, ChildAnswered
<1>7. t \in FlowEntry /\ e.opcode = flowTable[c][f].opcode
  BY <1>1, <1>6
<1> HIDE DEF e, t, n, f
<1>8. e.req_count = e.rep_count + Cardinality(Reserved(c, f)) + Outstanding(e)
  BY <1>3, <1>4, <1>5, <1>6, <1>7, OutstandingType
<1> QED BY <1>0, <1>2, <1>5, <1>6, <1>7, <1>8, EntrySound

LEMMA AddFinishSound ==
  ASSUME IInv, TypeOK', NEW c \in Cubes, NEW b \in Bufs, AddFinish(c, b)
  PROVE  IInv'
<1>1. CubeSound(c) /\ operandBuffers[c][b].ready /\ Reduce(c, b) /\ UNCHANGED multPipeOccupancy
  BY DEF IInv, AddFinish
<1>2. b \notin InPipe(c)
  BY <1>1 DEF AddFinish, CubeSound, EntriesOf
<1>3. InPipe(c) \ {b} = InPipe(c)
  BY <1>2
<1>4. multPipeOccupancy'[c] = Cardinality(InPipe(c) \ {b}) /\ multPipeOccupancy'[c] <= numMultStages
  BY <1>1, <1>3 DEF CubeSound, BuffersOf
<1> QED BY <1>1, <1>4, ReduceSound

LEMMA StageEntry ==
  ASSUME TypeOK, NEW c \in Cubes, NEW b \in Bufs, operandBuffers[c][b].multStageCounter > 0
  PROVE  LET o == [operandBuffers[c][b] EXCEPT !.multStageCounter = @ - 1]
         IN  /\ o \in OperandEntry /\ o.flowID = operandBuffers[c][b].flowID
             /\ o.multStageCounter = operandBuffers[c][b].multStageCounter - 1
             /\ o.multStageCounter # numMultStages
<1> DEFINE q == operandBuffers[c][b]
<1>1. q \in OperandEntry /\ q.multStageCounter > 0
  BY DEF TypeOK
<1> HIDE DEF q
<1>2. q.multStageCounter - 1 \in 0..numMultStages /\ q.multStageCounter - 1 # numMultStages
  BY <1>1, StagesType DEF OperandEntry
<1>3. LET o == [q EXCEPT !.multStageCounter = @ - 1]
      IN  /\ o \in OperandEntry /\ o.flowID = q.flowID
          /\ o.multStageCounter = q.multStageCounter - 1
  BY <1>1, <1>2 DEF OperandEntry
<1> QED BY <1>2, <1>3 DEF q

LEMMA MultStartSound ==
  ASSUME IInv, TypeOK', NEW c \in Cubes, NEW b \in Bufs, MultStart(c, b)
  PROVE  IInv'
<1> DEFINE o == [operandBuffers[c][b] EXCEPT !.multStageCounter = @ - 1]
<1>0. /\ TypeOK /\ CubeSound(c) /\ operandBuffers[c][b].ready /\ Opcode(c, b) = "MAC"
      /\ operandBuffers[c][b].multStageCounter = numMultStages
      /\ multPipeOccupancy[c] < numMultStages
      /\ UNCHANGED <<flowTable, freeOperandBufIDs>>
      /\ operandBuffers' = [operandBuffers EXCEPT ![c][b] = o]
      /\ multPipeOccupancy' = [multPipeOccupancy EXCEPT ![c] = @ + 1]
  BY DEF IInv, MultStart
<1>1. /\ o \in OperandEntry /\ o.flowID = operandBuffers[c][b].flowID
      /\ o.multStageCounter # numMultStages
  BY <1>0, StageEntry, StagesType
<1>2. o.flowID \in Flows
  BY <1>0, <1>1, HeldBuffer
<1> HIDE DEF o
<1>3. \A x \in Bufs : operandBuffers'[c][x] = IF x = b THEN o ELSE operandBuffers[c][x]
  BY <1>0 DEF TypeOK
<1>4. InPipe(c)' = InPipe(c) \cup {b}
  BY <1>1, <1>3, SetInPipe
<1>5. b \notin InPipe(c)
  BY <1>0 DEF InPipe
<1>6. Cardinality(InPipe(c) \cup {b}) = Cardinality(InPipe(c)) + 1
  BY <1>5, BufferSets, FS_AddElement
<1>7. /\ multPipeOccupancy'[c] = multPipeOccupancy[c] + 1
      /\ \A d \in Cubes \ {c} : multPipeOccupancy'[d] = multPipeOccupancy[d]
      /\ multPipeOccupancy[c] \in Int
  BY <1>0 DEF TypeOK
<1>8. multPipeOccupancy'[c] = Cardinality(InPipe(c)')
  BY <1>0, <1>4, <1>6, <1>7 DEF CubeSound, BuffersOf
<1>9. multPipeOccupancy'[c] <= numMultStages
  BY <1>0, <1>7, StagesType
<1> QED BY <1>0, <1>1, <1>2, <1>7, <1>8, <1>9, OperandSound

LEMMA MultStepSound ==
  ASSUME IInv, TypeOK', NEW c \in Cubes, NEW b \in Bufs, MultStep(c, b)
  PROVE  IInv'
<1>0. /\ TypeOK /\ CubeSound(c) /\ operandBuffers[c][b].ready /\ Opcode(c, b) = "MAC"
      /\ operandBuffers[c][b].multStageCounter < numMultStages
  BY DEF IInv, MultStep
<1>1. b \in InPipe(c)
  <2>1. operandBuffers[c][b].multStageCounter # numMultStages
    BY <1>0, StagesType
  <2> QED BY <2>1 DEF InPipe
<1>2. CASE operandBuffers[c][b].multStageCounter > 1
  <2> DEFINE o == [operandBuffers[c][b] EXCEPT !.multStageCounter = @ - 1]
  <2>1. /\ operandBuffers' = [operandBuffers EXCEPT ![c][b] = o]
        /\ UNCHANGED <<flowTable, freeOperandBufIDs, multPipeOccupancy>>
    BY <1>2 DEF MultStep
  <2>2. operandBuffers[c][b].multStageCounter > 0
    <3>1. operandBuffers[c][b].multStageCounter \in 0..numMultStages
      BY <1>0 DEF TypeOK, OperandEntry
    <3> QED BY <1>2, <3>1, StagesType
  <2>3. /\ o \in OperandEntry /\ o.flowID = operandBuffers[c][b].flowID
        /\ o.multStageCounter # numMultStages
    BY <1>0, <2>2, StageEntry
  <2>4. o.flowID \in Flows
    BY <1>0, <2>3, HeldBuffer
  <2> HIDE DEF o
  <2>5. \A x \in Bufs : operandBuffers'[c][x] = IF x = b THEN o ELSE operandBuffers[c][x]
    BY <1>0, <2>1 DEF TypeOK
  <2>6. InPipe(c)' = InPipe(c) \cup {b}
    BY <2>3, <2>5, SetInPipe
  <2>7. InPipe(c)' = InPipe(c)
    BY <1>1, <2>6
  <2>8. multPipeOccupancy'[c] = Cardinality(InPipe(c)') /\ multPipeOccupancy'[c] <= numMultStages
    BY <1>0, <2>1, <2>7 DEF CubeSound, BuffersOf
  <2> QED BY <1>0, <2>1, <2>3, <2>4, <2>8, OperandSound
<1>3. CASE ~(operandBuffers[c][b].multStageCounter > 1)
  <2>1. Reduce(c, b) /\ multPipeOccupancy' = [multPipeOccupancy EXCEPT ![c] = @ - 1]
    BY <1>3 DEF MultStep
  <2>2. /\ multPipeOccupancy'[c] = multPipeOccupancy[c] - 1 /\ multPipeOccupancy[c] \in Int
        /\ \A d \in Cubes \ {c} : multPipeOccupancy'[d] = multPipeOccupancy[d]
    BY <1>0, <2>1 DEF TypeOK
  <2>3. Cardinality(InPipe(c) \ {b}) = Cardinality(InPipe(c)) - 1
    BY <1>1, BufferSets, FS_RemoveElement
  <2>4. /\ multPipeOccupancy[c] = Cardinality(InPipe(c)) /\ multPipeOccupancy[c] <= numMultStages
    BY <1>0 DEF CubeSound, BuffersOf
  <2>5. multPipeOccupancy'[c] = Cardinality(InPipe(c) \ {b}) /\ multPipeOccupancy'[c] <= numMultStages
    BY <2>2, <2>3, <2>4, StagesType
  <2> QED BY <1>0, <2>1, <2>2, <2>5, ReduceSound
<1> QED BY <1>2, <1>3

LEMMA GatherReplySound ==
  ASSUME IInv, TypeOK', NEW c \in Cubes, NEW f \in Flows, GatherReply(c, f)
  PROVE  IInv'
<1>0. TypeOK /\ CubeSound(c) /\ flowTable[c][f].req_count = flowTable[c][f].rep_count
  BY DEF IInv, GatherReply
<1>1. Reserved(c, f) = {}
  BY <1>0, AllReduced
<1>2. NoEntry(c) \in FlowEntry
  BY NoEntryType
<1>3. Cardinality(Reserved(c, f)) = 0
  BY <1>1, FS_EmptySet
<1>4. NoEntry(c).req_count = NoEntry(c).rep_count + Cardinality(Reserved(c, f)) + Outstanding(NoEntry(c))
  BY <1>3 DEF NoEntry, Outstanding, Links
<1>5. /\ flowTable' = [flowTable EXCEPT ![c][f] = NoEntry(c)]
      /\ UNCHANGED <<operandBuffers, freeOperandBufIDs, multPipeOccupancy>>
  BY DEF GatherReply, Commit
<1> QED BY <1>1, <1>2, <1>4, <1>5, EntrySound

LEMMA IInvInit == Init => IInv
<1> SUFFICES ASSUME Init PROVE IInv
  OBVIOUS
<1>1. TypeOK
  BY InitType
<1>2. ASSUME NEW c \in Cubes PROVE CubeSound(c)
  <2>1. /\ \A f \in Flows : flowTable[c][f] = NoEntry(c)
        /\ \A b \in Bufs : operandBuffers[c][b] = FreeOperand
        /\ freeOperandBufIDs[c] = Bufs /\ multPipeOccupancy[c] = 0
    BY DEF Init
  <2>2. InPipe(c) = {} /\ Reserved(c, NoFlow) = Bufs
    BY <2>1 DEF InPipe, Reserved, FreeOperand
  <2>3. ASSUME NEW f \in Flows PROVE Balanced(c, f)
    <3>1. Reserved(c, f) = {}
      BY <2>1, NullValues DEF Reserved, FreeOperand
    <3>2. Cardinality(Reserved(c, f)) = 0
      BY <3>1, FS_EmptySet
    <3> QED BY <2>1, <3>2 DEF Balanced, NoEntry, Outstanding, Links
  <2>4. BuffersOf(c)
    BY <2>1, <2>2, FS_EmptySet, StagesType DEF BuffersOf
  <2>5. EntriesOf(c)
    BY <2>1, <2>2 DEF EntriesOf
  <2> QED BY <2>3, <2>4, <2>5 DEF CubeSound
<1> QED BY <1>1, <1>2 DEF IInv

LEMMA IInvStep == IInv /\ [Next]_vars => IInv'
<1> SUFFICES ASSUME IInv, [Next]_vars PROVE IInv'
  OBVIOUS
<1>0. TypeOK /\ TypeOK'
  BY TypeStep DEF IInv
<1>1. ASSUME NEW c \in Cubes, NEW l \in Links, Deliver(c, l) PROVE IInv'
  BY <1>0, <1>1, Untouched DEF Deliver
<1>2. ASSUME NEW c \in Cubes, NEW l \in Links, NEW i \in DOMAIN downBuffers[c][l],
             RequestStep(c, l, i, downBuffers[c][l][i])
      PROVE  IInv'
  BY <1>0, <1>2, BufferedRequest, RequestSound
<1>3. ASSUME NEW c \in Cubes, VaultReturn(c) PROVE IInv'
  BY <1>0, <1>3, Untouched DEF VaultReturn
<1>4. ASSUME NEW c \in Cubes, NEW p \in Ports, NEW r \in upBuffers[c][p], ResponseStep(c, p, r)
      PROVE  IInv'
  <2>1. r \in Response
    BY <1>0 DEF TypeOK
  <2>2. CASE ForwardResponse(c, p, r)
    BY <1>0, <2>2, Untouched DEF ForwardResponse
  <2> QED BY <1>0, <1>4, <2>1, <2>2, OperandReturnSound, ChildReplySound DEF ResponseStep
<1>5. ASSUME NEW c \in Cubes, NEW b \in Bufs, ComputeStep(c, b) PROVE IInv'
  BY <1>0, <1>5, AddFinishSound, MultStartSound, MultStepSound DEF ComputeStep
<1>6. ASSUME NEW c \in Cubes, NEW f \in Flows, GatherReply(c, f) PROVE IInv'
  BY <1>0, <1>6, GatherReplySound
<1>7. CASE HostReceive
  BY <1>0, <1>7, Untouched DEF HostReceive
<1>8. CASE Host
  BY <1>0, <1>8, Untouched DEF Host, HostUpdate, HostGather, HostRead
<1>9. CASE UNCHANGED vars
  BY <1>0, <1>9, Untouched DEF vars
<1> QED BY <1>1, <1>2, <1>3, <1>4, <1>5, <1>6, <1>7, <1>8, <1>9 DEF Next, Network

(* The inductive invariant holds in every reachable state.                 *)
THEOREM Invariance == Spec => []IInv
BY IInvInit, IInvStep, PTL DEF Spec

(* The counters of every flow entry balance: req_count = rep_count, the    *)
(* condition of the gather response, means that no operand buffer of the   *)
(* flow is held at the cube and that every child has answered.             *)
THEOREM BalanceCorrect == Spec => []CountsBalance
<1>1. IInv => CountsBalance
  BY IInvParts
<1> QED BY <1>1, Invariance, PTL

(* The free list, the operand buffers and the occupancy of the multiplier  *)
(* agree: no buffer is leaked or handed out twice, and the pipeline never  *)
(* holds more operands than it has stages.                                 *)
THEOREM BuffersCorrect == Spec => []BuffersSound
<1>1. IInv => BuffersSound
  BY IInvParts
<1> QED BY <1>1, Invariance, PTL

(* An entry that is erased leaves nothing for the next round of its flow,  *)
(* and the opcode of a flow does not change while the multiplier holds one *)
(* of its operands.                                                        *)
THEOREM EntriesCorrect == Spec => []EntriesSound
<1>1. IInv => EntriesSound
  BY IInvParts
<1> QED BY <1>1, Invariance, PTL

-----------------------------------------------------------------------------
(* Only the gather response gives up an entry.                             *)
StaysValid == \A c \in Cubes, f \in Flows : flowTable[c][f].valid => flowTable'[c][f].valid

LEMMA WriteValid ==
  ASSUME TypeOK, NEW c \in Cubes, NEW f \in Flows, NEW e,
         flowTable' = [flowTable EXCEPT ![c][f] = e], flowTable[c][f].valid => e.valid
  PROVE  StaysValid
BY DEF TypeOK, StaysValid

LEMMA RequestKeeps ==
  ASSUME IInv, NEW c \in Cubes, NEW l \in Links, NEW i, NEW p \in Request,
         RequestStep(c, l, i, p)
  PROVE  StaysValid
<1>0. TypeOK /\ CubeSound(c) /\ (p.cmd # "RD" => p.flow \in Flows) /\ p.dest \in Cubes
  BY DEF IInv, Request, Tags
<1>1. CASE p.cmd \in {"ADD", "MULT"} /\ CountHere(c, p)
  BY <1>0, <1>1, CountedBalance, WriteValid DEF CountHere
<1>2. ASSUME p.cmd \in {"ADD", "MULT"}, NEW n \in Links, CountChild(c, p, n) PROVE StaysValid
  <2> DEFINE k == Counted(c, p)
             e == [k EXCEPT !.children_count[n] = @ + 1]
  <2>1. k \in FlowEntry /\ p.flow \in Flows /\ k.valid
    BY <1>0, <1>2, CountedType, CountedBalance
  <2>2. flowTable' = [flowTable EXCEPT ![c][p.flow] = e]
    BY <1>2 DEF CountChild
  <2> HIDE DEF k
  <2>3. e.valid
    BY <2>1 DEF FlowEntry
  <2> HIDE DEF e
  <2> QED BY <1>0, <2>1, <2>2, <2>3, WriteValid
<1>3. CASE GetReplicate(c, l, i, p)
  <2>1. PICK n \in Links : flowTable' = [flowTable EXCEPT ![c][p.flow].children_gflag[n] = TRUE]
    BY <1>3 DEF GetReplicate, PendingChildren
  <2> DEFINE t == flowTable[c][p.flow]
             e == [t EXCEPT !.children_gflag[n] = TRUE]
  <2>2. t \in FlowEntry /\ p.flow \in Flows
    BY <1>0, <1>3, EntryType DEF GetReplicate
  <2>3. e.valid = t.valid
    BY <2>2 DEF FlowEntry
  <2>4. flowTable' = [flowTable EXCEPT ![c][p.flow] = e]
    BY <2>1
  <2> HIDE DEF e
  <2> QED BY <1>0, <2>2, <2>3, <2>4, WriteValid
<1>4. CASE GetMark(c, l, i, p)
  <2> DEFINE t == flowTable[c][p.flow]
             e == [t EXCEPT !.g_flag = TRUE]
  <2>2. t \in FlowEntry /\ p.flow \in Flows
    BY <1>0, <1>4, EntryType DEF GetMark
  <2>3. e.valid = t.valid
    BY <2>2 DEF FlowEntry
  <2>4. flowTable' = [flowTable EXCEPT ![c][p.flow] = e]
    BY <1>4 DEF GetMark
  <2> HIDE DEF e
  <2> QED BY <1>0, <2>2, <2>3, <2>4, WriteValid
<1>5. CASE AddLocal(c, l, i, p) \/ MultLocal(c, l, i, p) \/ MultSplit(c, l, i, p)
  BY <1>1, <1>5 DEF AddLocal, MultLocal, MultSplit
<1>6. CASE AddForward(c, l, i, p) \/ MultForward(c, l, i, p)
  BY <1>0, <1>2, <1>6, RouteType DEF AddForward, MultForward
<1>7. CASE UNCHANGED flowTable
  BY <1>7 DEF StaysValid
<1>8. CASE MultHalfLocal(c, l, i, p) \/ MultHalfForward(c, l, i, p)
  BY <1>7, <1>8 DEF MultHalfLocal, MultHalfForward
<1>9. CASE Forward(c, l, i, p) \/ ReadLocal(c, l, i, p)
  BY <1>7, <1>9 DEF Forward, ReadLocal
<1> QED BY <1>3, <1>4, <1>5, <1>6, <1>8, <1>9 DEF RequestStep

LEMMA ReduceKeeps ==
  ASSUME IInv, NEW c \in Cubes, NEW b \in Bufs, operandBuffers[c][b].ready, Reduce(c, b)
  PROVE  StaysValid
<1> DEFINE f == operandBuffers[c][b].flowID
<1>1. TypeOK /\ f \in Flows
  BY HeldBuffer DEF IInv
<1>2. flowTable' = [flowTable EXCEPT ![c][f] = AddResult(flowTable[c][f])]
  BY DEF Reduce
<1>3. flowTable[c][f] \in FlowEntry
  BY <1>1, EntryType
<1>4. AddResult(flowTable[c][f]).valid = flowTable[c][f].valid
  BY <1>3 DEF AddResult, FlowEntry
<1> HIDE DEF f
<1> QED BY <1>1, <1>2, <1>4, WriteValid

LEMMA ResponseKeeps ==
  ASSUME IInv, NEW c \in Cubes, NEW p \in Ports, NEW r \in Response, ResponseStep(c, p, r)
  PROVE  StaysValid
<1>1. CASE UNCHANGED flowTable
  BY <1>1 DEF StaysValid
<1>2. CASE ChildReply(c, p, r)
  <2> DEFINE t == flowTable[c][r.flow]
             n == NextLink[c][r.src]
  <2>1. TypeOK /\ r.flow \in Flows /\ r.src \in Cubes
    BY <1>2 DEF IInv, ChildReply, IsChildReply, Response, Tags
  <2>2. t \in FlowEntry /\ n \in Links
    BY <2>1, EntryType, RouteType
  <2>3. flowTable' = [flowTable EXCEPT ![c][r.flow] = ChildDone(t, n)]
    BY <1>2 DEF ChildReply
  <2>4. ChildDone(t, n).valid = t.valid
    BY <2>2, ChildAnswered
  <2> QED BY <2>1, <2>3, <2>4, WriteValid
<1> QED BY <1>1, <1>2 DEF ResponseStep, OperandReturn, ForwardResponse

LEMMA ReplyStep ==
  IInv /\ [Next]_vars =>
    \A c \in Cubes, f \in Flows :
      flowTable[c][f].valid /\ ~flowTable'[c][f].valid
        => Reserved(c, f) = {} /\ \A n \in Links : flowTable[c][f].children_count[n] = 0
<1> SUFFICES ASSUME IInv, [Next]_vars, NEW c \in Cubes, NEW f \in Flows,
                    flowTable[c][f].valid, ~flowTable'[c][f].valid
             PROVE  Reserved(c, f) = {} /\ \A n \in Links : flowTable[c][f].children_count[n] = 0
  OBVIOUS
<1>0. TypeOK /\ ~StaysValid
  BY DEF IInv, StaysValid
<1>1. \A d \in Cubes, l \in Links : ~Deliver(d, l)
  BY <1>0 DEF Deliver, StaysValid
<1>2. \A d \in Cubes, l \in Links : \A i \in DOMAIN downBuffers[d][l] :
        ~RequestStep(d, l, i, downBuffers[d][l][i])
  BY <1>0, BufferedRequest, RequestKeeps
<1>3. \A d \in Cubes : ~VaultReturn(d)
  BY <1>0 DEF VaultReturn, StaysValid
<1>4. \A d \in Cubes, p \in Ports : \A r \in upBuffers[d][p] : ~ResponseStep(d, p, r)
  BY <1>0, ResponseKeeps DEF TypeOK
<1>5. \A d \in Cubes, b \in Bufs : ~ComputeStep(d, b)
  <2> SUFFICES ASSUME NEW d \in Cubes, NEW b \in Bufs, ComputeStep(d, b) PROVE StaysValid
    BY <1>0
  <2>1. CASE UNCHANGED flowTable
    BY <2>1 DEF StaysValid
  <2>2. CASE operandBuffers[d][b].ready /\ Reduce(d, b)
    BY <2>2, ReduceKeeps
  <2> QED BY <2>1, <2>2 DEF ComputeStep, AddFinish, MultStart, MultStep
<1>6. ~HostReceive /\ ~Host /\ ~UNCHANGED vars
  BY <1>0 DEF HostReceive, Host, HostUpdate, HostGather, HostRead, vars, StaysValid
<1>7. PICK d \in Cubes, g \in Flows : GatherReply(d, g)
  BY <1>1, <1>2, <1>3, <1>4, <1>5, <1>6 DEF Next, Network
<1>8. d = c /\ g = f
  BY <1>0, <1>7 DEF GatherReply, Commit, TypeOK
<1>9. flowTable[c][f].req_count = flowTable[c][f].rep_count
  BY <1>7, <1>8 DEF GatherReply
<1> QED BY <1>9, AllReduced DEF IInv

(* A cube gives up the entry of a flow only when it holds no operand of it *)
(* and no child owes an answer, so no partial result is left behind.       *)
THEOREM ReplyCorrect == Spec => ReplyComplete
<1>1. IInv /\ [Next]_vars =>
        [\A c \in Cubes, f \in Flows :
           flowTable[c][f].valid /\ ~flowTable'[c][f].valid
             => /\ Reserved(c, f) = {}
                /\ \A n \in Links : flowTable[c][f].children_count[n] = 0]_vars
  BY ReplyStep
<1> QED BY <1>1, Invariance, PTL DEF Spec, ReplyComplete
=============================================================================
