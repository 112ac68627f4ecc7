------------------------- MODULE ActiveRoutingOnce --------------------------
(***************************************************************************)
(* Every read and every operand that is waited for is under way exactly    *)
(* once, for every network, number of flows, reads, operand buffers and    *)
(* lines of an update.                                                     *)
(***************************************************************************)
EXTENDS ActiveRoutingFlight, FiniteSetTheorems

-----------------------------------------------------------------------------
(* Packets that stay apart from what is looked for.                        *)

LEMMA DownGrows ==
  ASSUME TypeOK, NEW Q, NEW R, OneAtMost(Q, R), NEW c \in Cubes, NEW l \in Links,
         NEW e \in Request, e \notin Q[c],
         downBuffers' = [downBuffers EXCEPT ![c][l] = Append(@, e)],
         UNCHANGED <<link, vault, upBuffers, responseQ>>
  PROVE  Stays(Q, R)
<1>1. /\ \A x \in Cubes, n \in Links :
           ~(x = c /\ n = l) => downBuffers'[x][n] = downBuffers[x][n]
      /\ e \notin Q[c] => Kept(Pos(downBuffers[c][l], Q[c]), Pos(downBuffers'[c][l], Q[c]))
      /\ e \in Q[c] => Gains(Pos(downBuffers[c][l], Q[c]), Pos(downBuffers'[c][l], Q[c]))
  BY DownAppendHeld
<1>2. \A x \in Cubes, n \in Links : Kept(Pos(downBuffers[x][n], Q[x]), Pos(downBuffers'[x][n], Q[x]))
  BY <1>1, SameKept
<1> QED BY <1>2, NoMove, SameKept

LEMMA DownShrinks ==
  ASSUME TypeOK, NEW Q, NEW R, OneAtMost(Q, R), NEW c \in Cubes, NEW l \in Links,
         NEW i \in DOMAIN downBuffers[c][l], downBuffers[c][l][i] \notin Q[c],
         Becomes(c, l, i, {}), UNCHANGED <<link, vault, upBuffers, responseQ>>
  PROVE  Stays(Q, R)
<1>1. {} \cap Q[c] = {}
  OBVIOUS
<1>2. /\ \A x \in Cubes, n \in Links :
           ~(x = c /\ n = l) => downBuffers'[x][n] = downBuffers[x][n]
      /\ Kept(Pos(downBuffers[c][l], Q[c]), Pos(downBuffers'[c][l], Q[c]))
  BY <1>1, BecomesHeld
<1>3. \A x \in Cubes, n \in Links : Kept(Pos(downBuffers[x][n], Q[x]), Pos(downBuffers'[x][n], Q[x]))
  BY <1>2, SameKept
<1> QED BY <1>3, NoMove, SameKept

(* The gather stays in its buffer, is copied or taken.                     *)
LEMMA GetStays ==
  ASSUME TypeOK, NEW Q, NEW R, OneAtMost(Q, R), NEW c \in Cubes, NEW l \in Links,
         NEW i \in DOMAIN downBuffers[c][l], NEW p \in Request, p = downBuffers[c][l][i],
         GetReplicate(c, l, i, p) \/ GetMark(c, l, i, p),
         \A x \in Cubes : \A q \in Q[x] : q.cmd # "GET"
  PROVE  Stays(Q, R)
<1>1. CASE GetReplicate(c, l, i, p)
  <2>1. PICK e \in Request :
           /\ downBuffers' = [downBuffers EXCEPT ![c][l] = Append(@, e)]
           /\ e.cmd = "GET" /\ e.flow = p.flow /\ e.half = p.half /\ e.buf = p.buf
           /\ UNCHANGED <<link, vault, upBuffers, responseQ>>
    BY <1>1, GetReplicateShape
  <2>2. e \notin Q[c]
    BY <2>1
  <2> QED BY <2>1, <2>2, DownGrows
<1>2. CASE GetMark(c, l, i, p)
  <2>1. Becomes(c, l, i, {}) /\ UNCHANGED <<link, vault, upBuffers, responseQ>>
    BY <1>2, GetMarkShape
  <2>2. p \notin Q[c]
    BY <1>2 DEF GetMark
  <2> QED BY <2>1, <2>2, DownShrinks
<1> QED BY <1>1, <1>2

(* A step of a request whose tag is not the one looked for.                *)
LEMMA RequestApart ==
  ASSUME TypeOK, PacketsGood, NEW Q, NEW R, OneAtMost(Q, R), NEW c \in Cubes, NEW l \in Links,
         NEW i \in DOMAIN downBuffers[c][l], NEW p, p = downBuffers[c][l][i],
         RequestStep(c, l, i, p), NEW t, p.flow # t,
         \A x \in Cubes : \A q \in Q[x] : q.flow = t /\ q.cmd # "GET",
         \A r \in R : r.flow = t
  PROVE  Stays(Q, R)
<1>1. p \in Request /\ p \in GoodRequest
  BY BufferedRequest DEF PacketsGood, RequestsGood
<1>2. p \notin Q[c] /\ Rest(p) \cap Q[c] = {} /\ {} \cap Q[c] = {}
  BY <1>1, RestFields
<1>3. ASSUME NEW k, NEW b, NEW to PROVE OperandRead(c, p, k, b, to) \notin R
  <2>1. OperandRead(c, p, k, b, to).flow = p.flow
    BY DEF OperandRead
  <2> QED BY <2>1
<1>4. ASSUME NEW b \in Bufs, NEW k \in 1..2
      PROVE  /\ {OtherHalf(c, p, 3 - k, b)} \cap Q[c] = {}
             /\ \A x \in Cubes : HalfOf(c, p, k, b) \notin Q[x]
  <2>1. PICK j \in 1..2 : j = 3 - k
    OBVIOUS
  <2>2. OtherHalf(c, p, j, b).flow = p.flow
    BY <1>1, OtherFields
  <2>3. HalfOf(c, p, k, b).flow = p.flow
    BY <1>1, HalfFields
  <2>4. OtherHalf(c, p, j, b) \notin Q[c] /\ \A x \in Cubes : HalfOf(c, p, k, b) \notin Q[x]
    BY <2>2, <2>3
  <2> QED BY <2>1, <2>4
<1>5. \A n \in Links : neighborCubeID[c][n] \in Cubes
  BY WireType
<1>6. CASE AddLocal(c, l, i, p)
  <2>1. PICK b \in Bufs : ToVault(c, l, i, Rest(p), OperandRead(c, p, 1, b, c))
    BY <1>1, <1>6, AddLocalShape
  <2> QED BY <1>2, <1>3, <2>1, ToVaultHeld
<1>7. CASE MultLocal(c, l, i, p)
  <2>1. PICK b \in Bufs, k \in 1..2 :
          ToVault(c, l, i, {OtherHalf(c, p, 3 - k, b)}, OperandRead(c, p, k, b, c))
    BY <1>1, <1>7, MultLocalShape
  <2> QED BY <1>2, <1>3, <1>4, <2>1, ToVaultHeld
<1>8. CASE MultHalfLocal(c, l, i, p)
  <2>1. ToVault(c, l, i, Rest(p), OperandRead(c, p, p.half, p.buf, Owner(c, p)))
    BY <1>1, <1>8, MultHalfLocalShape
  <2> QED BY <1>2, <1>3, <2>1, ToVaultHeld
<1>9. CASE ReadLocal(c, l, i, p)
  <2>1. ToVault(c, l, i, {}, OperandRead(c, p, 0, NoBuf, p.src))
    BY <1>9, ReadLocalShape
  <2> QED BY <1>2, <1>3, <2>1, ToVaultHeld
<1>10. CASE AddForward(c, l, i, p) \/ MultForward(c, l, i, p) \/ Forward(c, l, i, p)
  <2>1. PICK n \in Links : ToLink(c, l, i, {}, n, p)
    BY <1>1, <1>10, ForwardShape
  <2>2. p \notin Q[neighborCubeID[c][n]]
    BY <1>5
  <2> QED BY <1>1, <1>2, <2>1, <2>2, ToLinkHeld
<1>11. CASE MultSplit(c, l, i, p)
  <2>1. PICK b \in Bufs, k \in 1..2, n \in Links :
          ToLink(c, l, i, {OtherHalf(c, p, 3 - k, b)}, n, HalfOf(c, p, k, b))
    BY <1>1, <1>11, MultSplitShape
  <2>2. HalfOf(c, p, k, b) \in Request /\ HalfOf(c, p, k, b) \notin Q[neighborCubeID[c][n]]
    BY <1>1, <1>4, <1>5, HalfFields
  <2> QED BY <1>2, <1>4, <2>1, <2>2, ToLinkHeld
<1>12. CASE MultHalfForward(c, l, i, p)
  <2>1. PICK n \in Links : ToLink(c, l, i, Rest(p), n, LineOf(c, p))
    BY <1>1, <1>12, MultHalfForwardShape
  <2>2. LineOf(c, p) \in Request /\ LineOf(c, p).flow = p.flow
    BY <1>1, LineFields
  <2>3. LineOf(c, p) \notin Q[neighborCubeID[c][n]]
    BY <1>5, <2>2
  <2> QED BY <1>2, <2>1, <2>2, <2>3, ToLinkHeld
<1>13. CASE GetReplicate(c, l, i, p) \/ GetMark(c, l, i, p)
  BY <1>1, <1>13, GetStays
<1> QED BY <1>6, <1>7, <1>8, <1>9, <1>10, <1>11, <1>12, <1>13 DEF RequestStep

-----------------------------------------------------------------------------
(* Ordinary reads.                                                         *)

ReadReq(t) == [x \in Cubes |-> {q \in Request : q.flow = t}]
ReadRsp(t) == {r \in Response : r.flow = t}

ReadOnce(t) ==
  /\ OneAtMost(ReadReq(t), ReadRsp(t))
  /\ There(ReadReq(t), ReadRsp(t)) <=> t \in reading

ReadsOnce == \A t \in Reads : ReadOnce(t)

LEMMA ReadPackets ==
  ASSUME NEW t \in Reads, NEW Q, NEW R, Q = ReadReq(t), R = ReadRsp(t)
  PROVE  /\ \A x \in Cubes : \A q \in Request : q \in Q[x] <=> q.flow = t
         /\ \A x \in Cubes : \A q \in Q[x] : q \in Request /\ q.flow = t /\ q.cmd = "RD"
         /\ \A r \in Response : r \in R <=> r.flow = t
         /\ \A r \in R : r \in Response /\ r.flow = t /\ r.cmd = "RD"
BY DEF ReadReq, ReadRsp, Request, Response

LEMMA ReadRequest ==
  ASSUME TypeOK, PacketsGood, NEW t \in Reads, NEW Q, NEW R, Q = ReadReq(t), R = ReadRsp(t),
         OneAtMost(Q, R), NEW c \in Cubes, NEW l \in Links,
         NEW i \in DOMAIN downBuffers[c][l], RequestStep(c, l, i, downBuffers[c][l][i])
  PROVE  Stays(Q, R)
<1>1. PICK p \in Request : p = downBuffers[c][l][i]
  BY BufferedRequest
<1>2. /\ \A x \in Cubes : \A q \in Request : q \in Q[x] <=> q.flow = t
      /\ \A x \in Cubes : \A q \in Q[x] : q \in Request /\ q.flow = t /\ q.cmd = "RD"
      /\ \A r \in Response : r \in R <=> r.flow = t
      /\ \A r \in R : r \in Response /\ r.flow = t /\ r.cmd = "RD"
  BY ReadPackets
<1>3. CASE p.flow # t
  BY <1>1, <1>2, <1>3, RequestApart
<1>4. CASE p.flow = t
  <2>1. p.cmd = "RD" /\ p \in Q[c] /\ {} \cap Q[c] = {} /\ p.src \in Cubes
    BY <1>2, <1>4 DEF Request
  <2>2. CASE Forward(c, l, i, p)
    <3>1. PICK n \in Links : ToLink(c, l, i, {}, n, p)
      BY <2>2, ForwardShape
    <3>2. p \in Q[neighborCubeID[c][n]]
      BY <1>2, <1>4, WireType
    <3> QED BY <1>1, <2>1, <3>1, <3>2, ToLinkHeld
  <2>3. CASE ReadLocal(c, l, i, p)
    <3>1. ToVault(c, l, i, {}, OperandRead(c, p, 0, NoBuf, p.src))
      BY <2>3, ReadLocalShape
    <3>2. OperandRead(c, p, 0, NoBuf, p.src) \in R
      <4>1. OperandRead(c, p, 0, NoBuf, p.src) \in Response
        BY <2>1, OperandReadType
      <4>2. OperandRead(c, p, 0, NoBuf, p.src).flow = t
        BY <1>4 DEF OperandRead
      <4> QED BY <1>2, <4>1, <4>2
    <3> QED BY <1>1, <2>1, <3>1, <3>2, ToVaultHeld
  <2>4. Forward(c, l, i, p) \/ ReadLocal(c, l, i, p)
    BY <1>1, <2>1 DEF RequestStep, AddLocal, AddForward, MultLocal, MultHalfLocal, MultSplit,
                      MultForward, MultHalfForward, GetReplicate, GetMark
  <2> QED BY <2>2, <2>3, <2>4
<1> QED BY <1>3, <1>4

(* Steps that leave the reads the hosts wait for as they are.              *)
LEMMA ReadStays ==
  ASSUME TypeOK, PacketsGood, NEW t \in Reads, NEW Q, NEW R, Q = ReadReq(t), R = ReadRsp(t),
         OneAtMost(Q, R), [Next]_vars,
         ~HostReceive, ~\E x \in Flows : HostUpdate(x) \/ HostGather(x), ~\E x \in Reads : HostRead(x)
  PROVE  Stays(Q, R) /\ reading' = reading
<1>1. /\ \A x \in Cubes : \A q \in Request : q \in Q[x] <=> q.flow = t
      /\ \A x \in Cubes : \A q \in Q[x] : q \in Request /\ q.flow = t /\ q.cmd = "RD"
      /\ \A r \in Response : r \in R <=> r.flow = t
      /\ \A r \in R : r \in Response /\ r.flow = t /\ r.cmd = "RD"
  BY ReadPackets
<1>2. CASE \E c \in Cubes, l \in Links : Deliver(c, l)
  <2>1. PICK c \in Cubes, l \in Links : Deliver(c, l)
    BY <1>2
  <2> QED BY <2>1, DeliverStays DEF Deliver
<1>3. CASE \E c \in Cubes, l \in Links : \E i \in DOMAIN downBuffers[c][l] :
             RequestStep(c, l, i, downBuffers[c][l][i])
  <2>1. PICK c \in Cubes, l \in Links : \E i \in DOMAIN downBuffers[c][l] :
             RequestStep(c, l, i, downBuffers[c][l][i])
    BY <1>3
  <2>2. PICK i \in DOMAIN downBuffers[c][l] : RequestStep(c, l, i, downBuffers[c][l][i])
    BY <2>1
  <2>3. reading' = reading
    BY <2>2 DEF RequestStep, AddLocal, AddForward, MultLocal, MultHalfLocal, MultSplit,
                MultForward, MultHalfForward, GetReplicate, GetMark, Forward, ReadLocal
  <2> QED BY <2>2, <2>3, ReadRequest
<1>4. CASE \E c \in Cubes : VaultReturn(c)
  <2>1. PICK c \in Cubes : VaultReturn(c)
    BY <1>4
  <2> QED BY <2>1, VaultReturnStays DEF VaultReturn
<1>5. CASE \E c \in Cubes, m \in Ports : \E r \in upBuffers[c][m] : ResponseStep(c, m, r)
  <2>1. PICK c \in Cubes, m \in Ports : \E r \in upBuffers[c][m] : ResponseStep(c, m, r)
    BY <1>5
  <2>2. PICK r \in upBuffers[c][m] : ResponseStep(c, m, r)
    BY <2>1
  <2>3. reading' = reading
    BY <2>2 DEF ResponseStep, OperandReturn, ChildReply, ForwardResponse
  <2>4. CASE ForwardResponse(c, m, r)
    BY <2>3, <2>4, ForwardResponseStays
  <2>5. CASE OperandReturn(c, m, r) \/ ChildReply(c, m, r)
    <3>1. upBuffers' = Dropped(c, m, r) /\ UNCHANGED <<link, downBuffers, vault, responseQ>>
      BY <2>5 DEF OperandReturn, ChildReply
    <3>2. r.cmd # "RD"
      BY <2>5 DEF OperandReturn, ChildReply, IsOperand, IsChildReply
    <3>3. r \notin R
      BY <1>1, <3>2
    <3> QED BY <2>3, <3>1, <3>3, DropUp
  <2> QED BY <2>2, <2>4, <2>5 DEF ResponseStep
<1>6. CASE \E c \in Cubes, b \in Bufs : ComputeStep(c, b)
  <2>1. UNCHANGED <<link, downBuffers, vault, upBuffers, responseQ>> /\ reading' = reading
    BY <1>6 DEF ComputeStep, AddFinish, MultStart, MultStep
  <2> QED BY <2>1, SameHeld
<1>7. CASE \E c \in Cubes, f \in Flows : GatherReply(c, f)
  <2>1. PICK c \in Cubes, f \in Flows : GatherReply(c, f)
    BY <1>7
  <2>2. \A r \in R : r.cmd # "GET"
    BY <1>1
  <2>3. reading' = reading
    BY <2>1 DEF GatherReply, Commit
  <2> QED BY <2>1, <2>2, <2>3, GatherReplyStays
<1>8. CASE UNCHANGED vars
  BY <1>8, SameHeld DEF vars
<1> QED BY <1>2, <1>3, <1>4, <1>5, <1>6, <1>7, <1>8 DEF Next, Network, Host

LEMMA ReadStep ==
  ASSUME TypeOK, PacketsGood, NEW t \in Reads, NEW Q, NEW R, Q = ReadReq(t), R = ReadRsp(t),
         OneAtMost(Q, R), There(Q, R) <=> t \in reading, [Next]_vars
  PROVE  OneAtMost(Q, R)' /\ (There(Q, R)' <=> t \in reading')
<1>1. /\ \A x \in Cubes : \A q \in Request : q \in Q[x] <=> q.flow = t
      /\ \A x \in Cubes : \A q \in Q[x] : q \in Request /\ q.flow = t /\ q.cmd = "RD"
      /\ \A r \in Response : r \in R <=> r.flow = t
      /\ \A r \in R : r \in Response /\ r.flow = t /\ r.cmd = "RD"
  BY ReadPackets
<1>2. ASSUME NEW x \in Tags, NEW e \in Request, HostSend(x, e), e.flow = x,
             UNCHANGED <<downBuffers, vault, upBuffers, responseQ>>
      PROVE  /\ x # t => Stays(Q, R)
             /\ x = t /\ ~There(Q, R) => OneAtMost(Q, R)' /\ There(Q, R)'
  <2>1. PICK d \in Cubes, n \in Links : link' = [link EXCEPT ![d][n] = Append(@, e)]
    <3>1. Root[x] \in Cubes /\ NextLink[Root[x]][Root[x]] \in Links
      BY HostType, RouteType
    <3> QED BY <1>2, <3>1 DEF HostSend
  <2>2. e \in Q[d] <=> x = t
    BY <1>1, <1>2
  <2> QED BY <1>2, <2>1, <2>2, EnterLink
<1>3. CASE HostReceive
  <2>1. PICK r \in responseQ :
          /\ responseQ' = responseQ \ {r}
          /\ r.cmd = "GET" => reading' = reading
          /\ r.cmd # "GET" => reading' = reading \ {r.flow}
    BY <1>3 DEF HostReceive
  <2>2. UNCHANGED <<link, downBuffers, vault, upBuffers>>
    BY <1>3 DEF HostReceive
  <2>3. r \in Response /\ r.cmd \in {"GET", "RD"} /\ (r.cmd = "RD" <=> r.flow \in Reads)
    BY DEF TypeOK, PacketsGood, ResponsesGood, Response
  <2>4. CASE r.flow = t
    <3>1. r \in R /\ t \notin reading'
      BY <1>1, <2>1, <2>3, <2>4
    <3>2. Goes(Q, R)
      BY <2>1, <2>2, <3>1, DropHost
    <3> QED BY <3>1, <3>2 DEF Goes
  <2>5. CASE r.flow # t
    <3>1. r \notin R /\ (t \in reading' <=> t \in reading)
      BY <1>1, <2>1, <2>3, <2>5
    <3>2. Stays(Q, R)
      BY <2>1, <2>2, <3>1, DropHost
    <3> QED BY <3>1, <3>2 DEF Stays
  <2> QED BY <2>4, <2>5
<1>4. ASSUME NEW f \in Flows, HostUpdate(f) \/ HostGather(f)
      PROVE  OneAtMost(Q, R)' /\ (There(Q, R)' <=> t \in reading')
  <2>1. f \in Tags /\ f \notin Reads /\ f # t
    BY ARTAssumption DEF Tags
  <2>2. /\ UNCHANGED <<downBuffers, vault, upBuffers, responseQ>> /\ reading' = reading
        /\ \E e \in Request : HostSend(f, e) /\ e.flow = f
    <3>1. CASE HostUpdate(f)
      <4>1. PICK n \in 1..MaxLines, d1 \in OperandCubes, d2 \in OperandCubes :
              HostSend(f, HostPacket(IF FlowOp[f] = "ADD" THEN "ADD" ELSE "MULT", f, d1, d2, n))
        BY <3>1 DEF HostUpdate
      <4>2. PICK k \in {"ADD", "MULT"} : k = IF FlowOp[f] = "ADD" THEN "ADD" ELSE "MULT"
        OBVIOUS
      <4>3. HostPacket(k, f, d1, d2, n) \in Request
        BY <2>1, HostPacketType, ARTAssumption
      <4>4. HostPacket(k, f, d1, d2, n).flow = f
        BY DEF HostPacket
      <4> QED BY <3>1, <4>1, <4>2, <4>3, <4>4 DEF HostUpdate
    <3>2. CASE HostGather(f)
      <4>1. HostPacket("GET", f, Root[f], Root[f], 1) \in Request
        BY <2>1, HostType, MaxLinesType, HostPacketType
      <4>2. HostPacket("GET", f, Root[f], Root[f], 1).flow = f
        BY DEF HostPacket
      <4> QED BY <3>2, <4>1, <4>2 DEF HostGather
    <3> QED BY <1>4, <3>1, <3>2
  <2>3. Stays(Q, R)
    BY <1>2, <2>1, <2>2
  <2> QED BY <2>2, <2>3 DEF Stays
<1>5. ASSUME NEW x \in Reads, HostRead(x)
      PROVE  OneAtMost(Q, R)' /\ (There(Q, R)' <=> t \in reading')
  <2>1. PICK d \in OperandCubes : HostSend(x, HostPacket("RD", x, d, d, 1))
    BY <1>5 DEF HostRead
  <2>2. /\ x \in Tags /\ HostPacket("RD", x, d, d, 1) \in Request
        /\ HostPacket("RD", x, d, d, 1).flow = x
    <3>1. x \in Tags /\ d \in Cubes /\ 1 \in 1..MaxLines
      BY MaxLinesType, ARTAssumption DEF Tags
    <3>2. HostPacket("RD", x, d, d, 1) \in Request
      BY <3>1, HostPacketType
    <3> QED BY <3>1, <3>2 DEF HostPacket
  <2>3. /\ UNCHANGED <<downBuffers, vault, upBuffers, responseQ>>
        /\ x \notin reading /\ reading' = reading \cup {x}
    BY <1>5 DEF HostRead
  <2>4. /\ x # t => Stays(Q, R)
        /\ x = t /\ ~There(Q, R) => OneAtMost(Q, R)' /\ There(Q, R)'
    BY <1>2, <2>1, <2>2, <2>3
  <2> QED BY <2>3, <2>4 DEF Stays
<1>6. CASE ~HostReceive /\ ~(\E x \in Flows : HostUpdate(x) \/ HostGather(x)) /\ ~\E x \in Reads : HostRead(x)
  BY <1>6, ReadStays DEF Stays
<1> QED BY <1>3, <1>4, <1>5, <1>6

LEMMA ReadsStep ==
  ASSUME TypeOK, PacketsGood, ReadsOnce, [Next]_vars
  PROVE  ReadsOnce'
<1> SUFFICES ASSUME NEW t \in Reads PROVE ReadOnce(t)'
  BY DEF ReadsOnce
<1>1. PICK Q, R : Q = ReadReq(t) /\ R = ReadRsp(t)
  OBVIOUS
<1>2. OneAtMost(Q, R) /\ (There(Q, R) <=> t \in reading)
  BY <1>1 DEF ReadsOnce, ReadOnce
<1>3. OneAtMost(Q, R)' /\ (There(Q, R)' <=> t \in reading')
  BY <1>1, <1>2, ReadStep
<1> QED BY <1>1, <1>3 DEF ReadOnce

-----------------------------------------------------------------------------
(***************************************************************************)
(* Operands.  Entry o holds flow f and waits for operand k of it.          *)
(***************************************************************************)
Wants(o, k, f) ==
  o.flowID = f /\ IF k = 1 THEN ~o.op1_ready ELSE ~o.op2_ready /\ FlowOp[f] = "MAC"

Asks(c, b, k, f) ==
  [x \in Cubes |-> {q \in Request : AsksFor(x, q, c, b, k) /\ q.flow = f}]

Brings(c, b, k, f) ==
  {r \in Response : /\ r.dest = c /\ r.buf = b /\ r.op = k /\ r.flow = f
                    /\ r.cmd \in {"ADD", "MULT"}}

OperandOnce(c, b, k, f) ==
  /\ OneAtMost(Asks(c, b, k, f), Brings(c, b, k, f))
  /\ There(Asks(c, b, k, f), Brings(c, b, k, f)) <=> Wants(operandBuffers[c][b], k, f)

OperandsOnce == \A c \in Cubes, b \in Bufs, k \in 1..2, f \in Flows : OperandOnce(c, b, k, f)

(* The operands of a ready buffer are there.                               *)
BuffersGood ==
  \A c \in Cubes, b \in Bufs, k \in 1..2, f \in Flows :
    operandBuffers[c][b].ready => ~Wants(operandBuffers[c][b], k, f)

LEMMA OperandPackets ==
  ASSUME NEW c \in Cubes, NEW b \in Bufs, NEW k \in 1..2, NEW f \in Flows, NEW Q, NEW R,
         Q = Asks(c, b, k, f), R = Brings(c, b, k, f)
  PROVE  /\ \A x \in Cubes, q \in Request :
              q \in Q[x] <=> /\ q.half = k /\ q.buf = b /\ q.flow = f
                             /\ c = IF q.lines = 1 THEN q.src ELSE x
         /\ \A x \in Cubes : \A q \in Q[x] : q \in Request /\ q.half # 0 /\ q.flow = f
         /\ \A r \in Response :
              r \in R <=> /\ r.dest = c /\ r.buf = b /\ r.op = k /\ r.flow = f
                          /\ r.cmd \in {"ADD", "MULT"}
         /\ \A r \in R : /\ r \in Response /\ r.cmd \in {"ADD", "MULT"} /\ r.op # 0
                         /\ r.flow = f
BY DEF Asks, Brings, AsksFor

LEMMA ReserveWants ==
  ASSUME TypeOK, NEW c \in Cubes, CubeSound(c), NEW b \in freeOperandBufIDs[c],
         NEW g \in Flows, Reserve(c, b, g)
  PROVE  /\ b \in Bufs
         /\ \A x \in Cubes, y \in Bufs :
              ~(x = c /\ y = b) => operandBuffers'[x][y] = operandBuffers[x][y]
         /\ \A k \in 1..2, f \in Flows :
              /\ ~Wants(operandBuffers[c][b], k, f)
              /\ Wants(operandBuffers'[c][b], k, f) <=> f = g /\ (k = 1 \/ FlowOp[g] = "MAC")
         /\ ~operandBuffers'[c][b].ready
<1>1. b \in Bufs /\ operandBuffers[c][b] = FreeOperand
  BY FreeBuffer
<1>2. /\ \A x \in Cubes, y \in Bufs :
           ~(x = c /\ y = b) => operandBuffers'[x][y] = operandBuffers[x][y]
      /\ operandBuffers'[c][b] = [FreeOperand EXCEPT !.flowID = g]
  BY <1>1 DEF Reserve, TypeOK
<1>3. FreeOperand.flowID = NoFlow
  BY DEF FreeOperand
<1>4. LET o == [FreeOperand EXCEPT !.flowID = g]
      IN  o.flowID = g /\ ~o.op1_ready /\ ~o.op2_ready /\ ~o.ready
  BY DEF FreeOperand
<1>5. ASSUME NEW k \in 1..2, NEW f \in Flows
      PROVE  /\ ~Wants(operandBuffers[c][b], k, f)
             /\ Wants(operandBuffers'[c][b], k, f) <=> f = g /\ (k = 1 \/ FlowOp[g] = "MAC")
  <2>1. NoFlow # f
    BY NullValues
  <2>2. ~Wants(operandBuffers[c][b], k, f)
    BY <1>1, <1>3, <2>1 DEF Wants
  <2>3. Wants(operandBuffers'[c][b], k, f) <=> f = g /\ (k = 1 \/ FlowOp[g] = "MAC")
    BY <1>2, <1>4 DEF Wants
  <2> QED BY <2>2, <2>3
<1> QED BY <1>1, <1>2, <1>4, <1>5

(* A cube reserves a buffer for its flow and makes what the buffer waits   *)
(* for: a packet e that stays or is sent, a read r.                        *)
LEMMA MadeRead ==
  ASSUME NEW c0 \in Cubes, NEW b0 \in Bufs, NEW k0 \in 1..2, NEW f0 \in Flows, NEW Q, NEW R,
         Q = Asks(c0, b0, k0, f0), R = Brings(c0, b0, k0, f0),
         NEW c \in Cubes, NEW p \in Request, NEW k \in 1..2, NEW b \in Bufs, NEW to \in Cubes,
         p.cmd \in {"ADD", "MULT"}
  PROVE  OperandRead(c, p, k, b, to) \in R <=> c0 = to /\ b0 = b /\ k0 = k /\ f0 = p.flow
<1>1. OperandRead(c, p, k, b, to) \in Response
  BY OperandReadType
<1>2. LET r == OperandRead(c, p, k, b, to)
      IN  r.dest = to /\ r.buf = b /\ r.op = k /\ r.flow = p.flow /\ r.cmd = p.cmd
  BY DEF OperandRead
<1> QED BY <1>1, <1>2, OperandPackets

LEMMA MadeOther ==
  ASSUME NEW c0 \in Cubes, NEW b0 \in Bufs, NEW k0 \in 1..2, NEW f0 \in Flows, NEW Q, NEW R,
         Q = Asks(c0, b0, k0, f0), R = Brings(c0, b0, k0, f0),
         NEW c \in Cubes, NEW p \in Request, NEW k \in 1..2, NEW b \in Bufs
  PROVE  OtherHalf(c, p, k, b) \in Q[c] <=> c0 = c /\ b0 = b /\ k0 = k /\ f0 = p.flow
<1>1. LET q == OtherHalf(c, p, k, b)
      IN  /\ q \in Request /\ q.half = k /\ q.buf = b /\ q.flow = p.flow /\ q.cmd = p.cmd
          /\ q.lines = p.lines /\ q.src = (IF p.lines = 1 THEN c ELSE p.src)
          /\ q.dest1 = p.dest1 /\ q.dest2 = p.dest2
          /\ q.dest = IF k = 1 THEN p.dest1 ELSE p.dest2
  BY OtherFields, ZenonT(60)
<1>2. \A x \in Cubes, q \in Request :
              q \in Q[x] <=> /\ q.half = k0 /\ q.buf = b0 /\ q.flow = f0
                             /\ c0 = IF q.lines = 1 THEN q.src ELSE x
  BY OperandPackets
<1> QED BY <1>1, <1>2

(* The request MultSplit sends is for the same buffer wherever it is.      *)
ForLine(e, c, b, k, f) ==
  e.half = k /\ e.buf = b /\ e.flow = f /\ e.lines = 1 /\ e.src = c

LEMMA HalfTag ==
  ASSUME NEW c \in Cubes, NEW p \in Request, NEW k \in 1..2, NEW b \in Bufs
  PROVE  HalfOf(c, p, k, b) \in Request /\ ForLine(HalfOf(c, p, k, b), c, b, k, p.flow)
<1>1. HalfOf(c, p, k, b) \in Request
  BY HalfFields
<1>2. CASE k = 1
  BY <1>1, <1>2 DEF HalfOf, Request, ForLine
<1>3. CASE k = 2
  BY <1>1, <1>3 DEF HalfOf, Request, ForLine
<1> QED BY <1>1, <1>2, <1>3

LEMMA MadeHalf ==
  ASSUME NEW c0 \in Cubes, NEW b0 \in Bufs, NEW k0 \in 1..2, NEW f0 \in Flows, NEW Q,
         Q = Asks(c0, b0, k0, f0), NEW c, NEW f, NEW k, NEW b,
         NEW e \in Request, ForLine(e, c, b, k, f)
  PROVE  \A x \in Cubes : e \in Q[x] <=> c0 = c /\ b0 = b /\ k0 = k /\ f0 = f
<1> SUFFICES ASSUME NEW x \in Cubes PROVE e \in Q[x] <=> c0 = c /\ b0 = b /\ k0 = k /\ f0 = f
  OBVIOUS
<1>1. e \in Q[x] <=> AsksFor(x, e, c0, b0, k0) /\ e.flow = f0
  BY DEF Asks
<1> QED BY <1>1 DEF AsksFor, ForLine

LEMMA MadeLine ==
  ASSUME NEW c0 \in Cubes, NEW b0 \in Bufs, NEW k0 \in 1..2, NEW f0 \in Flows, NEW Q, NEW R,
         Q = Asks(c0, b0, k0, f0), R = Brings(c0, b0, k0, f0),
         NEW c \in Cubes, NEW p \in Request, NEW x \in Cubes
  PROVE  LineOf(c, p) \in Q[x] <=> p \in Q[c]
<1>1. LET q == LineOf(c, p)
      IN  /\ q \in Request /\ q.half = p.half /\ q.buf = p.buf /\ q.flow = p.flow
          /\ q.lines = 1 /\ q.src = (IF p.lines = 1 THEN p.src ELSE c)
  BY LineFields
<1>2. \A y \in Cubes, q \in Request :
              q \in Q[y] <=> /\ q.half = k0 /\ q.buf = b0 /\ q.flow = f0
                             /\ c0 = IF q.lines = 1 THEN q.src ELSE y
  BY OperandPackets
<1> QED BY <1>1, <1>2

LEMMA OperandRequest ==
  ASSUME IInv, PacketsGood,
         NEW c0 \in Cubes, NEW b0 \in Bufs, NEW k0 \in 1..2, NEW f0 \in Flows, NEW Q, NEW R,
         Q = Asks(c0, b0, k0, f0), R = Brings(c0, b0, k0, f0),
         OneAtMost(Q, R), There(Q, R) <=> Wants(operandBuffers[c0][b0], k0, f0),
         NEW c \in Cubes, NEW l \in Links,
         NEW i \in DOMAIN downBuffers[c][l], RequestStep(c, l, i, downBuffers[c][l][i])
  PROVE  OneAtMost(Q, R)' /\ (There(Q, R)' <=> Wants(operandBuffers'[c0][b0], k0, f0))
<1>1. PICK p \in Request : p = downBuffers[c][l][i]
  BY BufferedRequest DEF IInv
<1>2. p \in GoodRequest /\ TypeOK /\ CubeSound(c)
  BY <1>1 DEF PacketsGood, RequestsGood, IInv
<1>3. /\ \A x \in Cubes, q \in Request :
              q \in Q[x] <=> /\ q.half = k0 /\ q.buf = b0 /\ q.flow = f0
                             /\ c0 = IF q.lines = 1 THEN q.src ELSE x
      /\ \A x \in Cubes : \A q \in Q[x] : q \in Request /\ q.half # 0 /\ q.flow = f0
      /\ \A r \in R : /\ r \in Response /\ r.cmd \in {"ADD", "MULT"} /\ r.op # 0
                      /\ r.flow = f0
  BY OperandPackets
<1>4. Rest(p) \cap Q[c] = {} /\ {} \cap Q[c] = {}
  <2>1. \A e \in Rest(p) : e.half = 0
    BY <1>2, RestFields
  <2>2. \A e \in Q[c] : e.half # 0
    BY <1>3
  <2> QED BY <2>1, <2>2
<1>5. p.half = 0 => \A x \in Cubes : p \notin Q[x]
  BY <1>3
<1>6. \A n \in Links : neighborCubeID[c][n] \in Cubes
  BY WireType
<1>7. p.cmd # "MULT" => p.half = 0
  BY <1>2 DEF GoodRequest
<1>8. p.cmd \in {"ADD", "MULT"} => p.flow \in Flows
  BY DEF Request, Tags
<1>9. ASSUME NEW b \in freeOperandBufIDs[c], Reserve(c, b, p.flow), p.cmd \in {"ADD", "MULT"}
      PROVE  /\ b \in Bufs
             /\ ~(c0 = c /\ b0 = b /\ f0 = p.flow) =>
                  (Wants(operandBuffers'[c0][b0], k0, f0) <=> Wants(operandBuffers[c0][b0], k0, f0))
             /\ c0 = c /\ b0 = b => ~There(Q, R)
             /\ c0 = c /\ b0 = b /\ f0 = p.flow =>
                  (Wants(operandBuffers'[c0][b0], k0, f0) <=> k0 = 1 \/ FlowOp[p.flow] = "MAC")
  BY <1>2, <1>8, <1>9, ReserveWants
<1>10. ASSUME Stays(Q, R), operandBuffers' = operandBuffers
       PROVE  OneAtMost(Q, R)' /\ (There(Q, R)' <=> Wants(operandBuffers'[c0][b0], k0, f0))
  BY <1>10 DEF Stays
<1>11. CASE AddLocal(c, l, i, p)
  <2>1. PICK b \in Bufs : /\ b \in freeOperandBufIDs[c] /\ Reserve(c, b, p.flow)
                          /\ ToVault(c, l, i, Rest(p), OperandRead(c, p, 1, b, c))
    BY <1>2, <1>11, AddLocalShape
  <2>2. p.cmd = "ADD" /\ FlowOp[p.flow] = "ADD" /\ p \notin Q[c]
    BY <1>2, <1>5, <1>7, <1>11 DEF AddLocal, GoodRequest
  <2>3. OperandRead(c, p, 1, b, c) \in R <=> c0 = c /\ b0 = b /\ k0 = 1 /\ f0 = p.flow
    BY <2>2, MadeRead
  <2>4. CASE c0 = c /\ b0 = b /\ k0 = 1 /\ f0 = p.flow
    <3>1. OneAtMost(Q, R)' /\ There(Q, R)'
      <4>1. ~There(Q, R)
        BY <1>9, <2>1, <2>2, <2>4
      <4>2. PICK r, K : /\ ToVault(c, l, i, K, r)
                        /\ K = Rest(p) /\ r = OperandRead(c, p, 1, b, c)
        BY <2>1
      <4>3. r \in R /\ K \cap Q[c] = {} /\ p \notin Q[c]
        BY <1>4, <2>2, <2>3, <2>4, <4>2
      <4> QED BY <1>1, <1>2, <4>1, <4>2, <4>3, ToVaultHeld
    <3> QED BY <1>9, <2>1, <2>2, <2>4, <3>1
  <2>5. CASE ~(c0 = c /\ b0 = b /\ k0 = 1 /\ f0 = p.flow)
    <3>1. Stays(Q, R)
      BY <1>1, <1>2, <1>4, <2>1, <2>2, <2>3, <2>5, ToVaultHeld
    <3> QED BY <1>9, <2>1, <2>2, <2>5, <3>1 DEF Stays
  <2> QED BY <2>4, <2>5
<1>12. CASE MultLocal(c, l, i, p)
  <2>1. PICK b \in Bufs, k \in 1..2 :
           /\ b \in freeOperandBufIDs[c] /\ Reserve(c, b, p.flow)
           /\ ToVault(c, l, i, {OtherHalf(c, p, 3 - k, b)}, OperandRead(c, p, k, b, c))
    BY <1>2, <1>12, MultLocalShape
  <2>2. p.cmd = "MULT" /\ FlowOp[p.flow] = "MAC" /\ p \notin Q[c]
    BY <1>2, <1>5, <1>12 DEF MultLocal, GoodRequest
  <2>3. PICK j \in 1..2 : j = 3 - k
    OBVIOUS
  <2>4. /\ ToVault(c, l, i, {OtherHalf(c, p, j, b)}, OperandRead(c, p, k, b, c))
        /\ j # k /\ (k0 = j \/ k0 = k)
    BY <2>1, <2>3
  <2>5. /\ OperandRead(c, p, k, b, c) \in R <=> c0 = c /\ b0 = b /\ k0 = k /\ f0 = p.flow
        /\ OtherHalf(c, p, j, b) \in Q[c] <=> c0 = c /\ b0 = b /\ k0 = j /\ f0 = p.flow
    BY <2>2, MadeRead, MadeOther
  <2>6. CASE c0 = c /\ b0 = b /\ f0 = p.flow
    <3>1. OneAtMost(Q, R)' /\ There(Q, R)'
      <4>1. ~There(Q, R)
        BY <1>9, <2>1, <2>2, <2>6
      <4>2. PICK r, K : /\ ToVault(c, l, i, K, r)
                        /\ K = {OtherHalf(c, p, j, b)} /\ r = OperandRead(c, p, k, b, c)
        BY <2>4
      <4>3. ASSUME k0 = k PROVE r \in R /\ K \cap Q[c] = {}
        BY <2>4, <2>5, <2>6, <4>2, <4>3
      <4>4. ASSUME k0 = j PROVE r \notin R /\ K \cap Q[c] # {}
        BY <2>4, <2>5, <2>6, <4>2, <4>4
      <4>5. (r \in R /\ K \cap Q[c] = {}) \/ (r \notin R /\ K \cap Q[c] # {})
        BY <2>4, <4>3, <4>4
      <4> QED BY <1>1, <1>2, <2>2, <4>1, <4>2, <4>5, ToVaultHeld
    <3> QED BY <1>9, <2>1, <2>2, <2>6, <3>1
  <2>7. CASE ~(c0 = c /\ b0 = b /\ f0 = p.flow)
    <3>1. Stays(Q, R)
      BY <1>1, <1>2, <2>2, <2>4, <2>5, <2>7, ToVaultHeld
    <3> QED BY <1>9, <2>1, <2>2, <2>7, <3>1 DEF Stays
  <2> QED BY <2>6, <2>7
<1>13. CASE MultSplit(c, l, i, p)
  <2>1. PICK b \in Bufs, k \in 1..2, n \in Links :
           /\ b \in freeOperandBufIDs[c] /\ Reserve(c, b, p.flow)
           /\ ToLink(c, l, i, {OtherHalf(c, p, 3 - k, b)}, n, HalfOf(c, p, k, b))
    BY <1>2, <1>13, MultSplitShape
  <2>2. p.cmd = "MULT" /\ FlowOp[p.flow] = "MAC" /\ p \notin Q[c]
    BY <1>2, <1>5, <1>13 DEF MultSplit, GoodRequest
  <2>3. PICK j \in 1..2 : j = 3 - k
    OBVIOUS
  <2>4. /\ ToLink(c, l, i, {OtherHalf(c, p, j, b)}, n, HalfOf(c, p, k, b))
        /\ j # k /\ (k0 = j \/ k0 = k)
    BY <2>1, <2>3
  <2>5. PICK e \in Request : e = HalfOf(c, p, k, b) /\ ForLine(e, c, b, k, p.flow)
    BY HalfTag
  <2>6. /\ e \in Q[neighborCubeID[c][n]] <=> c0 = c /\ b0 = b /\ k0 = k /\ f0 = p.flow
        /\ OtherHalf(c, p, j, b) \in Q[c] <=> c0 = c /\ b0 = b /\ k0 = j /\ f0 = p.flow
    <3>1. OtherHalf(c, p, j, b) \in Q[c] <=> c0 = c /\ b0 = b /\ k0 = j /\ f0 = p.flow
      BY MadeOther
    <3>2. \A x \in Cubes : e \in Q[x] <=> c0 = c /\ b0 = b /\ k0 = k /\ f0 = p.flow
      BY <2>5, MadeHalf
    <3> QED BY <1>6, <3>1, <3>2
  <2>7. CASE c0 = c /\ b0 = b /\ f0 = p.flow
    <3>1. ToLink(c, l, i, {OtherHalf(c, p, j, b)}, n, e)
      BY <2>4, <2>5
    <3>2. ~There(Q, R)
      BY <1>9, <2>1, <2>2, <2>7
    <3>3. ASSUME k0 = k PROVE OneAtMost(Q, R)' /\ There(Q, R)'
      <4>1. e \in Q[neighborCubeID[c][n]] /\ {OtherHalf(c, p, j, b)} \cap Q[c] = {}
        BY <2>4, <2>6, <2>7, <3>3
      <4> QED BY <1>1, <1>2, <2>2, <3>1, <3>2, <4>1, ToLinkHeld
    <3>4. ASSUME k0 = j PROVE OneAtMost(Q, R)' /\ There(Q, R)'
      <4>1. e \notin Q[neighborCubeID[c][n]] /\ {OtherHalf(c, p, j, b)} \cap Q[c] # {}
        BY <2>4, <2>6, <2>7, <3>4
      <4> QED BY <1>1, <1>2, <2>2, <3>1, <3>2, <4>1, ToLinkHeld
    <3>5. OneAtMost(Q, R)' /\ There(Q, R)'
      BY <2>4, <3>3, <3>4
    <3> QED BY <1>9, <2>1, <2>2, <2>7, <3>5
  <2>8. CASE ~(c0 = c /\ b0 = b /\ f0 = p.flow)
    <3>1. Stays(Q, R)
      BY <1>1, <1>2, <2>2, <2>4, <2>5, <2>6, <2>8, ToLinkHeld
    <3> QED BY <1>9, <2>1, <2>2, <2>8, <3>1 DEF Stays
  <2> QED BY <2>7, <2>8
<1>14. CASE MultHalfLocal(c, l, i, p)
  <2>1. ToVault(c, l, i, Rest(p), OperandRead(c, p, p.half, p.buf, Owner(c, p)))
    BY <1>2, <1>14, MultHalfLocalShape
  <2>2. p.cmd = "MULT" /\ p.half \in 1..2 /\ p.buf \in Bufs /\ Owner(c, p) \in Cubes
    BY <1>2, <1>14 DEF MultHalfLocal, GoodRequest, Owner, Request
  <2>3. /\ OperandRead(c, p, p.half, p.buf, Owner(c, p)) \in R
             <=> c0 = Owner(c, p) /\ b0 = p.buf /\ k0 = p.half /\ f0 = p.flow
        /\ p \in Q[c] <=> c0 = Owner(c, p) /\ b0 = p.buf /\ k0 = p.half /\ f0 = p.flow
    <3>1. p \in Q[c] <=> c0 = Owner(c, p) /\ b0 = p.buf /\ k0 = p.half /\ f0 = p.flow
      BY <1>3 DEF Owner
    <3> QED BY <2>2, <3>1, MadeRead
  <2>4. Stays(Q, R)
    BY <1>1, <1>2, <1>4, <2>1, <2>3, ToVaultHeld
  <2> QED BY <1>10, <1>14, <2>4 DEF MultHalfLocal
<1>15. CASE MultHalfForward(c, l, i, p)
  <2>1. PICK n \in Links : ToLink(c, l, i, Rest(p), n, LineOf(c, p))
    BY <1>2, <1>15, MultHalfForwardShape
  <2>2. PICK e \in Request : e = LineOf(c, p)
    BY LineFields
  <2>3. e \in Q[neighborCubeID[c][n]] <=> p \in Q[c]
    BY <1>6, <2>2, MadeLine
  <2>4. Stays(Q, R)
    BY <1>1, <1>2, <1>4, <2>1, <2>2, <2>3, ToLinkHeld
  <2> QED BY <1>10, <1>15, <2>4 DEF MultHalfForward
<1>16. CASE ReadLocal(c, l, i, p)
  <2>1. ToVault(c, l, i, {}, OperandRead(c, p, 0, NoBuf, p.src))
    BY <1>16, ReadLocalShape
  <2>2. OperandRead(c, p, 0, NoBuf, p.src).op = 0 /\ p.cmd = "RD"
    BY <1>16 DEF OperandRead, ReadLocal
  <2>3. p \notin Q[c] /\ OperandRead(c, p, 0, NoBuf, p.src) \notin R
    BY <1>3, <1>5, <1>7, <2>2
  <2>4. Stays(Q, R)
    BY <1>1, <1>2, <1>4, <2>1, <2>3, ToVaultHeld
  <2> QED BY <1>10, <1>16, <2>4 DEF ReadLocal
<1>17. CASE AddForward(c, l, i, p) \/ MultForward(c, l, i, p) \/ Forward(c, l, i, p)
  <2>1. PICK n \in Links : ToLink(c, l, i, {}, n, p)
    BY <1>17, ForwardShape
  <2>2. p.half = 0
    BY <1>7, <1>17 DEF AddForward, MultForward, Forward
  <2>3. p \notin Q[c] /\ p \notin Q[neighborCubeID[c][n]]
    BY <1>5, <1>6, <2>2
  <2>4. Stays(Q, R)
    BY <1>1, <1>2, <1>4, <2>1, <2>3, ToLinkHeld
  <2> QED BY <1>10, <1>17, <2>4 DEF AddForward, MultForward, Forward
<1>18. CASE GetReplicate(c, l, i, p) \/ GetMark(c, l, i, p)
  <2>1. p.half = 0
    BY <1>7, <1>18 DEF GetReplicate, GetMark
  <2>2. Stays(Q, R)
    <3>1. CASE GetReplicate(c, l, i, p)
      <4>1. PICK e \in Request :
              /\ downBuffers' = [downBuffers EXCEPT ![c][l] = Append(@, e)]
              /\ e.cmd = "GET" /\ e.flow = p.flow /\ e.half = p.half /\ e.buf = p.buf
              /\ UNCHANGED <<link, vault, upBuffers, responseQ>>
        BY <3>1, GetReplicateShape
      <4>2. e \notin Q[c]
        BY <1>3, <2>1, <4>1
      <4> QED BY <1>2, <4>1, <4>2, DownGrows
    <3>2. CASE GetMark(c, l, i, p)
      <4>1. Becomes(c, l, i, {}) /\ UNCHANGED <<link, vault, upBuffers, responseQ>>
        BY <3>2, GetMarkShape
      <4> QED BY <1>1, <1>2, <1>5, <2>1, <4>1, DownShrinks
    <3> QED BY <1>18, <3>1, <3>2
  <2> QED BY <1>10, <1>18, <2>2 DEF GetReplicate, GetMark
<1> QED BY <1>1, <1>11, <1>12, <1>13, <1>14, <1>15, <1>16, <1>17, <1>18 DEF RequestStep

LEMMA ReturnWants ==
  ASSUME TypeOK, NEW c \in Cubes, NEW m \in Ports, NEW r, r.buf \in Bufs, r.op \in 1..2,
         OperandReturn(c, m, r)
  PROVE  /\ \A x \in Cubes, y \in Bufs :
              ~(x = c /\ y = r.buf) => operandBuffers'[x][y] = operandBuffers[x][y]
         /\ \A k \in 1..2, f \in Flows :
              Wants(operandBuffers'[c][r.buf], k, f) <=> Wants(operandBuffers[c][r.buf], k, f) /\ k # r.op
         /\ operandBuffers'[c][r.buf].ready =>
              \/ r.cmd = "ADD"
              \/ operandBuffers'[c][r.buf].op1_ready /\ operandBuffers'[c][r.buf].op2_ready
<1> DEFINE o == operandBuffers[c][r.buf]
           o1 == o.op1_ready \/ r.op = 1
           o2 == o.op2_ready \/ r.op = 2
           n == [o EXCEPT !.op1_ready = o1, !.op2_ready = o2,
                          !.ready = (r.cmd = "ADD") \/ (o1 /\ o2)]
<1>1. o \in OperandEntry
  BY DEF TypeOK
<1>2. operandBuffers' = [operandBuffers EXCEPT ![c][r.buf] = n]
  BY DEF OperandReturn
<1>3. /\ \A x \in Cubes, y \in Bufs :
           ~(x = c /\ y = r.buf) => operandBuffers'[x][y] = operandBuffers[x][y]
      /\ operandBuffers'[c][r.buf] = n
  <2> HIDE DEF n
  <2> QED BY <1>2 DEF TypeOK
<1>4. /\ n.flowID = o.flowID /\ n.op1_ready = o1 /\ n.op2_ready = o2
      /\ n.ready = ((r.cmd = "ADD") \/ (o1 /\ o2))
  BY <1>1, Zenon DEF OperandEntry
<1> HIDE DEF n
<1>5. ASSUME NEW k \in 1..2, NEW f \in Flows
      PROVE  Wants(n, k, f) <=> Wants(o, k, f) /\ k # r.op
  <2>1. CASE k = 1
    BY <1>4, <2>1 DEF Wants
  <2>2. CASE k = 2
    BY <1>4, <2>2 DEF Wants
  <2> QED BY <2>1, <2>2
<1>6. n.ready => r.cmd = "ADD" \/ (n.op1_ready /\ n.op2_ready)
  BY <1>4
<1> QED BY <1>3, <1>5, <1>6

LEMMA ComputeWants ==
  ASSUME TypeOK, BuffersGood, NEW c \in Cubes, NEW b \in Bufs, ComputeStep(c, b),
         NEW x \in Cubes, NEW y \in Bufs
  PROVE  /\ \A k \in 1..2, f \in Flows :
              Wants(operandBuffers'[x][y], k, f) <=> Wants(operandBuffers[x][y], k, f)
         /\ operandBuffers'[x][y].ready => operandBuffers[x][y].ready
<1>1. operandBuffers[c][b] \in OperandEntry
  BY DEF TypeOK
<1>2. ASSUME Reduce(c, b)
      PROVE  /\ ~(x = c /\ y = b) => operandBuffers'[x][y] = operandBuffers[x][y]
             /\ operandBuffers'[c][b] = FreeOperand
  BY <1>2 DEF Reduce, TypeOK
<1>3. operandBuffers[c][b].ready
  BY DEF ComputeStep, AddFinish, MultStart, MultStep
<1>4. CASE Reduce(c, b)
  <2>1. CASE ~(x = c /\ y = b)
    BY <1>2, <1>4, <2>1
  <2>2. CASE x = c /\ y = b
    <3>1. FreeOperand.flowID = NoFlow /\ ~FreeOperand.ready
      BY DEF FreeOperand
    <3>2. ASSUME NEW k \in 1..2, NEW f \in Flows
          PROVE  ~Wants(FreeOperand, k, f) /\ ~Wants(operandBuffers[c][b], k, f)
      <4>1. f # NoFlow
        BY NullValues
      <4> QED BY <1>3, <3>1, <4>1 DEF Wants, BuffersGood
    <3> QED BY <1>2, <1>4, <2>2, <3>1, <3>2
  <2> QED BY <2>1, <2>2
<1>5. ASSUME NEW n, operandBuffers' = [operandBuffers EXCEPT ![c][b].multStageCounter = n]
      PROVE  /\ \A k \in 1..2, f \in Flows :
                  Wants(operandBuffers'[x][y], k, f) <=> Wants(operandBuffers[x][y], k, f)
             /\ operandBuffers'[x][y].ready => operandBuffers[x][y].ready
  <2>1. CASE ~(x = c /\ y = b)
    <3>1. operandBuffers'[x][y] = operandBuffers[x][y]
      BY <1>5, <2>1 DEF TypeOK
    <3> QED BY <3>1
  <2>2. CASE x = c /\ y = b
    <3> DEFINE e == [operandBuffers[c][b] EXCEPT !.multStageCounter = n]
    <3>1. operandBuffers'[c][b] = e
      BY <1>5, <2>2 DEF TypeOK
    <3>2. /\ e.flowID = operandBuffers[c][b].flowID /\ e.op1_ready = operandBuffers[c][b].op1_ready
          /\ e.op2_ready = operandBuffers[c][b].op2_ready /\ e.ready = operandBuffers[c][b].ready
      BY <1>1, Zenon DEF OperandEntry
    <3> HIDE DEF e
    <3> QED BY <2>2, <3>1, <3>2 DEF Wants
  <2> QED BY <2>1, <2>2
<1>6. CASE MultStart(c, b)
  <2>1. PICK n : n = operandBuffers[c][b].multStageCounter - 1
    OBVIOUS
  <2>2. operandBuffers' = [operandBuffers EXCEPT ![c][b].multStageCounter = n]
    BY <1>6, <2>1 DEF MultStart
  <2> QED BY <1>5, <2>2
<1>7. CASE MultStep(c, b) /\ ~Reduce(c, b)
  <2>1. PICK n : n = operandBuffers[c][b].multStageCounter - 1
    OBVIOUS
  <2>2. operandBuffers' = [operandBuffers EXCEPT ![c][b].multStageCounter = n]
    BY <1>7, <2>1 DEF MultStep
  <2> QED BY <1>5, <2>2
<1>8. CASE AddFinish(c, b)
  BY <1>4, <1>8 DEF AddFinish
<1> QED BY <1>4, <1>6, <1>7, <1>8 DEF ComputeStep

(* What a response to this cube says.                                      *)
LEMMA ReturnFacts ==
  ASSUME IInv, PacketsGood, OperandsOnce, NEW c \in Cubes, NEW m \in Ports,
         NEW r \in upBuffers[c][m], IsOperand(c, r)
  PROVE  /\ r \in Response /\ r.dest = c /\ r.buf \in Bufs /\ r.op \in 1..2 /\ r.flow \in Flows
         /\ r.cmd = "ADD" => FlowOp[r.flow] = "ADD"
         /\ r \in Brings(c, r.buf, r.op, r.flow)
         /\ Wants(operandBuffers[c][r.buf], r.op, r.flow)
<1>1. r \in GoodResponse(c) /\ r \in Response
  BY DEF PacketsGood, ResponsesGood, GoodResponse
<1>2. /\ r.dest = c /\ r.cmd \in {"ADD", "MULT"} /\ r.buf \in Bufs /\ r.op \in 1..2
      /\ r.flow \in Flows /\ (r.cmd = "ADD" => FlowOp[r.flow] = "ADD")
  <2>1. r.op # 0 /\ r.op \in 0..2
    BY <1>1 DEF GoodResponse, Response, IsOperand
  <2>2. r.flow \in Flows
    BY <1>1 DEF Response, IsOperand, Tags
  <2> QED BY <1>1, <2>1, <2>2 DEF GoodResponse, IsOperand
<1>3. r \in Brings(c, r.buf, r.op, r.flow)
  BY <1>1, <1>2 DEF Brings
<1>4. PICK b \in Bufs, k \in 1..2, f \in Flows : b = r.buf /\ k = r.op /\ f = r.flow
  BY <1>2
<1>5. PICK Q, R : Q = Asks(c, b, k, f) /\ R = Brings(c, b, k, f)
  OBVIOUS
<1>6. There(Q, R)
  <2>1. /\ <<"up", c, m>> \in Places
        /\ Held(Q, R)[<<"up", c, m>>] = Part(upBuffers[c][m], R)
    BY UpPlace
  <2>2. r \in Part(upBuffers[c][m], R)
    BY <1>3, <1>4, <1>5 DEF Part
  <2> QED BY <2>1, <2>2 DEF There, Somewhere
<1>7. Wants(operandBuffers[c][b], k, f)
  BY <1>5, <1>6 DEF OperandsOnce, OperandOnce
<1> QED BY <1>1, <1>2, <1>3, <1>4, <1>7

LEMMA OperandStep ==
  ASSUME IInv, PacketsGood, BuffersGood, OperandsOnce, [Next]_vars,
         NEW c0 \in Cubes, NEW b0 \in Bufs, NEW k0 \in 1..2, NEW f0 \in Flows, NEW Q, NEW R,
         Q = Asks(c0, b0, k0, f0), R = Brings(c0, b0, k0, f0),
         OneAtMost(Q, R), There(Q, R) <=> Wants(operandBuffers[c0][b0], k0, f0)
  PROVE  OneAtMost(Q, R)' /\ (There(Q, R)' <=> Wants(operandBuffers'[c0][b0], k0, f0))
<1>1. TypeOK
  BY DEF IInv
<1>2. /\ \A x \in Cubes : \A q \in Q[x] : q \in Request /\ q.half # 0 /\ q.flow = f0
      /\ \A r \in Response :
              r \in R <=> /\ r.dest = c0 /\ r.buf = b0 /\ r.op = k0 /\ r.flow = f0
                          /\ r.cmd \in {"ADD", "MULT"}
      /\ \A r \in R : /\ r \in Response /\ r.cmd \in {"ADD", "MULT"} /\ r.op # 0
                      /\ r.flow = f0
  BY OperandPackets
<1>3. ASSUME Stays(Q, R), operandBuffers' = operandBuffers
      PROVE  OneAtMost(Q, R)' /\ (There(Q, R)' <=> Wants(operandBuffers'[c0][b0], k0, f0))
  BY <1>3 DEF Stays
<1>4. CASE \E c \in Cubes, l \in Links : Deliver(c, l)
  <2>1. PICK c \in Cubes, l \in Links : Deliver(c, l)
    BY <1>4
  <2>2. Stays(Q, R)
    BY <1>1, <2>1, DeliverStays
  <2> QED BY <1>3, <2>1, <2>2 DEF Deliver
<1>5. CASE \E c \in Cubes, l \in Links : \E i \in DOMAIN downBuffers[c][l] :
             RequestStep(c, l, i, downBuffers[c][l][i])
  <2>1. PICK c \in Cubes, l \in Links : \E i \in DOMAIN downBuffers[c][l] :
             RequestStep(c, l, i, downBuffers[c][l][i])
    BY <1>5
  <2>2. PICK i \in DOMAIN downBuffers[c][l] : RequestStep(c, l, i, downBuffers[c][l][i])
    BY <2>1
  <2> QED BY <2>2, OperandRequest
<1>6. CASE \E c \in Cubes : VaultReturn(c)
  <2>1. PICK c \in Cubes : VaultReturn(c)
    BY <1>6
  <2>2. Stays(Q, R)
    BY <1>1, <2>1, VaultReturnStays
  <2> QED BY <1>3, <2>1, <2>2 DEF VaultReturn
<1>7. CASE \E c \in Cubes, m \in Ports : \E r \in upBuffers[c][m] : ResponseStep(c, m, r)
  <2>1. PICK c \in Cubes, m \in Ports : \E r \in upBuffers[c][m] : ResponseStep(c, m, r)
    BY <1>7
  <2>2. PICK r \in upBuffers[c][m] : ResponseStep(c, m, r)
    BY <2>1
  <2>3. CASE ForwardResponse(c, m, r)
    <3>1. Stays(Q, R)
      BY <1>1, <2>3, ForwardResponseStays
    <3> QED BY <1>3, <2>3, <3>1 DEF ForwardResponse
  <2>4. CASE ChildReply(c, m, r)
    <3>1. /\ upBuffers' = Dropped(c, m, r) /\ UNCHANGED <<link, downBuffers, vault, responseQ>>
          /\ operandBuffers' = operandBuffers /\ r.cmd = "GET"
      BY <2>4 DEF ChildReply, IsChildReply
    <3>2. r \notin R
      BY <1>2, <3>1
    <3>3. Stays(Q, R)
      BY <1>1, <3>1, <3>2, DropUp
    <3> QED BY <1>3, <3>1, <3>3
  <2>5. CASE OperandReturn(c, m, r)
    <3>1. /\ upBuffers' = Dropped(c, m, r) /\ UNCHANGED <<link, downBuffers, vault, responseQ>>
          /\ IsOperand(c, r)
      BY <2>5 DEF OperandReturn
    <3>2. /\ r \in Response /\ r.dest = c /\ r.buf \in Bufs /\ r.op \in 1..2 /\ r.flow \in Flows
          /\ Wants(operandBuffers[c][r.buf], r.op, r.flow)
      BY <3>1, ReturnFacts
    <3>3. r \in R <=> c = c0 /\ r.buf = b0 /\ r.op = k0 /\ r.flow = f0
      BY <1>2, <3>1, <3>2 DEF IsOperand, Response
    <3>4. /\ \A x \in Cubes, y \in Bufs :
                ~(x = c /\ y = r.buf) => operandBuffers'[x][y] = operandBuffers[x][y]
          /\ \A k \in 1..2, f \in Flows :
                Wants(operandBuffers'[c][r.buf], k, f)
                  <=> Wants(operandBuffers[c][r.buf], k, f) /\ k # r.op
      BY <1>1, <2>5, <3>2, ReturnWants
    <3>5. CASE r \in R
      <4>1. Goes(Q, R)
        BY <1>1, <3>1, <3>5, DropUp
      <4> QED BY <3>3, <3>4, <3>5, <4>1 DEF Goes
    <3>6. CASE r \notin R
      <4>1. Stays(Q, R)
        BY <1>1, <3>1, <3>6, DropUp
      <4>2. Wants(operandBuffers'[c0][b0], k0, f0) <=> Wants(operandBuffers[c0][b0], k0, f0)
        <5>1. CASE ~(c0 = c /\ b0 = r.buf)
          BY <3>4, <5>1
        <5>2. CASE c0 = c /\ b0 = r.buf /\ k0 # r.op
          BY <3>4, <5>2
        <5>3. CASE c0 = c /\ b0 = r.buf /\ k0 = r.op /\ f0 # r.flow
          <6>1. ~Wants(operandBuffers[c0][b0], k0, f0)
            BY <3>2, <5>3 DEF Wants
          <6> QED BY <3>4, <5>3, <6>1
        <5> QED BY <3>3, <3>6, <5>1, <5>2, <5>3
      <4> QED BY <4>1, <4>2 DEF Stays
    <3> QED BY <3>5, <3>6
  <2> QED BY <2>2, <2>3, <2>4, <2>5 DEF ResponseStep
<1>8. CASE \E c \in Cubes, b \in Bufs : ComputeStep(c, b)
  <2>1. PICK c \in Cubes, b \in Bufs : ComputeStep(c, b)
    BY <1>8
  <2>2. UNCHANGED <<link, downBuffers, vault, upBuffers, responseQ>>
    BY <2>1 DEF ComputeStep, AddFinish, MultStart, MultStep
  <2>3. Wants(operandBuffers'[c0][b0], k0, f0) <=> Wants(operandBuffers[c0][b0], k0, f0)
    BY <1>1, <2>1, ComputeWants
  <2>4. Stays(Q, R)
    BY <2>2, SameHeld
  <2> QED BY <2>3, <2>4 DEF Stays
<1>9. CASE \E c \in Cubes, f \in Flows : GatherReply(c, f)
  <2>1. PICK c \in Cubes, f \in Flows : GatherReply(c, f)
    BY <1>9
  <2>2. \A r \in R : r.cmd # "GET"
    BY <1>2
  <2>3. operandBuffers' = operandBuffers
    BY <2>1 DEF GatherReply, Commit
  <2>4. Stays(Q, R)
    BY <1>1, <2>1, <2>2, GatherReplyStays
  <2> QED BY <1>3, <2>3, <2>4
<1>10. CASE HostReceive
  <2>1. PICK r \in responseQ : responseQ' = responseQ \ {r}
    BY <1>10 DEF HostReceive
  <2>2. UNCHANGED <<link, downBuffers, vault, upBuffers, operandBuffers>>
    BY <1>10 DEF HostReceive
  <2>3. r \notin R
    BY <1>2 DEF PacketsGood, ResponsesGood
  <2>4. Stays(Q, R)
    BY <1>1, <2>1, <2>2, <2>3, DropHost
  <2> QED BY <1>3, <2>2, <2>4
<1>11. ASSUME NEW x \in Tags, NEW e \in Request, HostSend(x, e), e.half = 0,
              UNCHANGED <<downBuffers, vault, upBuffers, responseQ, operandBuffers>>
       PROVE  OneAtMost(Q, R)' /\ (There(Q, R)' <=> Wants(operandBuffers'[c0][b0], k0, f0))
  <2>1. PICK d \in Cubes, n \in Links : link' = [link EXCEPT ![d][n] = Append(@, e)]
    <3>1. Root[x] \in Cubes /\ NextLink[Root[x]][Root[x]] \in Links
      BY HostType, RouteType
    <3> QED BY <1>11, <3>1 DEF HostSend
  <2>2. e \notin Q[d]
    BY <1>2, <1>11
  <2>3. Stays(Q, R)
    BY <1>1, <1>11, <2>1, <2>2, EnterLink
  <2> QED BY <1>3, <1>11, <2>3
<1>12. CASE \E x \in Flows : HostUpdate(x)
  <2>1. PICK f \in Flows : HostUpdate(f)
    BY <1>12
  <2>2. PICK n \in 1..MaxLines, d1 \in OperandCubes, d2 \in OperandCubes :
          HostSend(f, HostPacket(IF FlowOp[f] = "ADD" THEN "ADD" ELSE "MULT", f, d1, d2, n))
    BY <2>1 DEF HostUpdate
  <2>3. PICK k \in {"ADD", "MULT"} : k = IF FlowOp[f] = "ADD" THEN "ADD" ELSE "MULT"
    OBVIOUS
  <2>4. f \in Tags /\ f \notin Reads /\ d1 \in Cubes /\ d2 \in Cubes
    BY ARTAssumption DEF Tags
  <2>5. HostPacket(k, f, d1, d2, n) \in Request
    BY <2>4, HostPacketType
  <2>6. HostPacket(k, f, d1, d2, n).half = 0
    BY DEF HostPacket
  <2>7. UNCHANGED <<downBuffers, vault, upBuffers, responseQ, operandBuffers>>
    BY <2>1 DEF HostUpdate
  <2> QED BY <1>11, <2>2, <2>3, <2>4, <2>5, <2>6, <2>7
<1>13. CASE \E x \in Flows : HostGather(x)
  <2>1. PICK f \in Flows : HostGather(f)
    BY <1>13
  <2>2. f \in Tags /\ f \notin Reads
    BY ARTAssumption DEF Tags
  <2>3. HostPacket("GET", f, Root[f], Root[f], 1) \in Request
    BY <2>2, HostType, MaxLinesType, HostPacketType
  <2>4. HostPacket("GET", f, Root[f], Root[f], 1).half = 0
    BY DEF HostPacket
  <2> QED BY <1>11, <2>1, <2>2, <2>3, <2>4 DEF HostGather
<1>14. CASE \E x \in Reads : HostRead(x)
  <2>1. PICK t \in Reads : HostRead(t)
    BY <1>14
  <2>2. PICK d \in OperandCubes : HostSend(t, HostPacket("RD", t, d, d, 1))
    BY <2>1 DEF HostRead
  <2>3. t \in Tags /\ d \in Cubes /\ 1 \in 1..MaxLines
    BY MaxLinesType, ARTAssumption DEF Tags
  <2>4. HostPacket("RD", t, d, d, 1) \in Request
    BY <2>3, HostPacketType
  <2>5. HostPacket("RD", t, d, d, 1).half = 0
    BY DEF HostPacket
  <2> QED BY <1>11, <2>1, <2>2, <2>3, <2>4, <2>5 DEF HostRead
<1>15. CASE UNCHANGED vars
  BY <1>3, <1>15, SameHeld DEF vars
<1> QED BY <1>4, <1>5, <1>6, <1>7, <1>8, <1>9, <1>10, <1>12, <1>13, <1>14, <1>15
        DEF Next, Network, Host

LEMMA BuffersStep ==
  ASSUME IInv, PacketsGood, BuffersGood, OperandsOnce, [Next]_vars
  PROVE  BuffersGood'
<1> SUFFICES ASSUME NEW x \in Cubes, NEW y \in Bufs, NEW k \in 1..2, NEW f \in Flows,
                    operandBuffers'[x][y].ready
             PROVE  ~Wants(operandBuffers'[x][y], k, f)
  BY DEF BuffersGood
<1>1. TypeOK
  BY DEF IInv
<1>2. operandBuffers'[x][y] = operandBuffers[x][y] => ~Wants(operandBuffers'[x][y], k, f)
  BY DEF BuffersGood
<1>3. CASE operandBuffers' = operandBuffers
  BY <1>2, <1>3
<1>4. ASSUME NEW c \in Cubes, NEW b \in freeOperandBufIDs[c], NEW g \in Flows, Reserve(c, b, g)
      PROVE  ~Wants(operandBuffers'[x][y], k, f)
  <2>1. CubeSound(c)
    BY DEF IInv
  <2>2. /\ ~(x = c /\ y = b) => operandBuffers'[x][y] = operandBuffers[x][y]
        /\ ~operandBuffers'[c][b].ready
    BY <1>1, <1>4, <2>1, ReserveWants
  <2> QED BY <1>2, <2>2
<1>5. CASE \E c \in Cubes, l \in Links : \E i \in DOMAIN downBuffers[c][l] :
             RequestStep(c, l, i, downBuffers[c][l][i])
  <2>1. PICK c \in Cubes, l \in Links : \E i \in DOMAIN downBuffers[c][l] :
             RequestStep(c, l, i, downBuffers[c][l][i])
    BY <1>5
  <2>2. PICK i \in DOMAIN downBuffers[c][l] : RequestStep(c, l, i, downBuffers[c][l][i])
    BY <2>1
  <2>3. PICK p \in Request : p = downBuffers[c][l][i]
    BY <1>1, BufferedRequest
  <2>4. CASE AddLocal(c, l, i, p) \/ MultLocal(c, l, i, p) \/ MultSplit(c, l, i, p)
    <3>1. p.flow \in Flows
      BY <2>4 DEF AddLocal, MultLocal, MultSplit, Request, Tags
    <3>2. PICK b \in freeOperandBufIDs[c] : Reserve(c, b, p.flow)
      BY <2>4 DEF AddLocal, MultLocal, MultSplit
    <3> QED BY <1>4, <3>1, <3>2
  <2>5. CASE ~(AddLocal(c, l, i, p) \/ MultLocal(c, l, i, p) \/ MultSplit(c, l, i, p))
    <3>1. operandBuffers' = operandBuffers
      BY <2>2, <2>3, <2>5 DEF RequestStep, AddForward, MultHalfLocal, MultForward,
                              MultHalfForward, GetReplicate, GetMark, Forward, ReadLocal
    <3> QED BY <1>3, <3>1
  <2> QED BY <2>4, <2>5
<1>6. CASE \E c \in Cubes, m \in Ports : \E r \in upBuffers[c][m] : ResponseStep(c, m, r)
  <2>1. PICK c \in Cubes, m \in Ports : \E r \in upBuffers[c][m] : ResponseStep(c, m, r)
    BY <1>6
  <2>2. PICK r \in upBuffers[c][m] : ResponseStep(c, m, r)
    BY <2>1
  <2>3. CASE OperandReturn(c, m, r)
    <3>1. IsOperand(c, r)
      BY <2>3 DEF OperandReturn
    <3>2. /\ r.buf \in Bufs /\ r.op \in 1..2 /\ r.flow \in Flows
          /\ r.cmd = "ADD" => FlowOp[r.flow] = "ADD"
          /\ Wants(operandBuffers[c][r.buf], r.op, r.flow)
      BY <3>1, ReturnFacts
    <3>3. /\ ~(x = c /\ y = r.buf) => operandBuffers'[x][y] = operandBuffers[x][y]
          /\ Wants(operandBuffers'[c][r.buf], k, f) => Wants(operandBuffers[c][r.buf], k, f) /\ k # r.op
          /\ operandBuffers'[c][r.buf].ready =>
               \/ r.cmd = "ADD"
               \/ operandBuffers'[c][r.buf].op1_ready /\ operandBuffers'[c][r.buf].op2_ready
      BY <1>1, <2>3, <3>2, ReturnWants
    <3>4. CASE ~(x = c /\ y = r.buf)
      BY <1>2, <3>3, <3>4
    <3>5. CASE x = c /\ y = r.buf /\ r.cmd = "ADD"
      BY <3>2, <3>3, <3>5 DEF Wants
    <3>6. CASE x = c /\ y = r.buf /\ r.cmd # "ADD"
      BY <3>3, <3>6 DEF Wants
    <3> QED BY <3>4, <3>5, <3>6
  <2>4. CASE ~OperandReturn(c, m, r)
    BY <1>3, <2>2, <2>4 DEF ResponseStep, ChildReply, ForwardResponse
  <2> QED BY <2>3, <2>4
<1>7. CASE \E c \in Cubes, b \in Bufs : ComputeStep(c, b)
  <2>1. PICK c \in Cubes, b \in Bufs : ComputeStep(c, b)
    BY <1>7
  <2> QED BY <1>1, <2>1, ComputeWants DEF BuffersGood
<1>8. CASE \/ \E c \in Cubes, l \in Links : Deliver(c, l)
           \/ \E c \in Cubes : VaultReturn(c)
           \/ \E c \in Cubes, g \in Flows : GatherReply(c, g)
           \/ HostReceive \/ Host \/ UNCHANGED vars
  BY <1>3, <1>8 DEF Deliver, VaultReturn, GatherReply, Commit, HostReceive, Host, HostUpdate,
                    HostGather, HostRead, vars
<1> QED BY <1>5, <1>6, <1>7, <1>8 DEF Next, Network

-----------------------------------------------------------------------------
(***************************************************************************)
(* The inductive invariant.                                                *)
(***************************************************************************)
FInv == IInv /\ PacketsGood /\ BuffersGood /\ ReadsOnce /\ OperandsOnce

LEMMA NothingThere ==
  ASSUME Init, NEW Q, NEW R
  PROVE  OneAtMost(Q, R) /\ ~There(Q, R)
<1>1. \A x \in Cubes, n \in Links : Pos(link[x][n], Q[x]) = {} /\ Pos(downBuffers[x][n], Q[x]) = {}
  BY DEF Init, Pos
<1>2. \A x \in Cubes : Part(vault[x], R) = {}
  BY DEF Init, Part
<1>3. \A x \in Cubes, n \in Ports : Part(upBuffers[x][n], R) = {}
  BY DEF Init, Part
<1>4. Part(responseQ, R) = {}
  BY DEF Init, Part
<1>5. \A y \in Places : Held(Q, R)[y] = {}
  <2> SUFFICES ASSUME NEW y \in Places PROVE Held(Q, R)[y] = {}
    OBVIOUS
  <2>1. y \in {"link", "down", "vault", "up"} \X Cubes \X Ports \/ y = HostPlace
    BY DEF Places
  <2>2. y[1] # "host" => y[2] \in Cubes /\ y[3] \in Ports
    BY <2>1 DEF HostPlace
  <2> QED BY <1>1, <1>2, <1>3, <1>4, <2>1, <2>2 DEF Held, HeldIn, HostPlace
<1> QED BY <1>5 DEF OneAtMost, There, Unique, Somewhere, Few

LEMMA FInvInit == Init => FInv
<1> SUFFICES ASSUME Init PROVE FInv
  OBVIOUS
<1>1. IInv
  BY IInvInit
<1>2. PacketsGood
  <2>1. <<>> \in Seq(GoodRequest)
    OBVIOUS
  <2>2. RequestsGood
    BY <2>1 DEF Init, RequestsGood
  <2>3. ResponsesGood /\ AtHome
    BY DEF Init, ResponsesGood, AtHome, OperandAtHome
  <2> QED BY <2>2, <2>3 DEF PacketsGood
<1>3. ASSUME NEW c \in Cubes, NEW b \in Bufs, NEW k \in 1..2, NEW f \in Flows
      PROVE  ~Wants(operandBuffers[c][b], k, f) /\ ~operandBuffers[c][b].ready
  <2>1. operandBuffers[c][b] = FreeOperand /\ f # NoFlow
    BY NullValues DEF Init
  <2> QED BY <2>1 DEF Wants, FreeOperand
<1>4. BuffersGood /\ OperandsOnce
  BY <1>3, NothingThere DEF BuffersGood, OperandsOnce, OperandOnce
<1>5. ReadsOnce
  <2>1. reading = {}
    BY DEF Init
  <2> QED BY <2>1, NothingThere DEF ReadsOnce, ReadOnce
<1> QED BY <1>1, <1>2, <1>4, <1>5 DEF FInv

LEMMA FInvStep == FInv /\ [Next]_vars => FInv'
<1> SUFFICES ASSUME FInv, [Next]_vars PROVE FInv'
  OBVIOUS
<1>1. IInv /\ TypeOK /\ PacketsGood /\ BuffersGood /\ ReadsOnce /\ OperandsOnce
  BY DEF FInv, IInv
<1>2. IInv'
  BY <1>1, IInvStep
<1>3. PacketsGood'
  BY <1>1, PacketsStep
<1>4. BuffersGood'
  BY <1>1, BuffersStep
<1>5. ReadsOnce'
  BY <1>1, ReadsStep
<1>6. OperandsOnce'
  <2> SUFFICES ASSUME NEW c \in Cubes, NEW b \in Bufs, NEW k \in 1..2, NEW f \in Flows
               PROVE  OperandOnce(c, b, k, f)'
    BY DEF OperandsOnce
  <2>1. PICK Q, R : Q = Asks(c, b, k, f) /\ R = Brings(c, b, k, f)
    OBVIOUS
  <2>2. OneAtMost(Q, R) /\ (There(Q, R) <=> Wants(operandBuffers[c][b], k, f))
    BY <1>1, <2>1 DEF OperandsOnce, OperandOnce
  <2>3. OneAtMost(Q, R)' /\ (There(Q, R)' <=> Wants(operandBuffers'[c][b], k, f))
    BY <1>1, <2>1, <2>2, OperandStep
  <2> QED BY <2>1, <2>3 DEF OperandOnce
<1> QED BY <1>2, <1>3, <1>4, <1>5, <1>6 DEF FInv

(* Packets say what their commands mean, the operands of a ready buffer    *)
(* are there, and every read and operand waited for is in one place.       *)
THEOREM FlightInvariance == Spec => []FInv
BY FInvInit, FInvStep, PTL DEF Spec

(* With updates of one cache line every operand is read in the cube that   *)
(* holds its address (with more lines it is not: see the page runs).       *)
THEOREM AtHomeCorrect ==
  ASSUME MaxLines = 1
  PROVE  Spec => []OperandAtHome
<1>1. FInv => OperandAtHome
  BY DEF FInv, PacketsGood, AtHome
<1> QED BY <1>1, FlightInvariance, PTL

-----------------------------------------------------------------------------
(***************************************************************************)
(* What the properties count.                                              *)
(***************************************************************************)
Item(y, a) ==      \* the element of PlacesOf and Carriers for item a of place y
  IF y[1] = "vault" THEN <<"vault", y[2], a>>
  ELSE IF y[1] = "host" THEN <<"host", a>>
  ELSE <<y[1], <<y[2], y[3]>>, a>>

Listed(e, Q, R) == \E y \in Places : \E a \in Held(Q, R)[y] : e = Item(y, a)

LEMMA CountItems ==
  ASSUME NEW Q, NEW R, NEW S, OneAtMost(Q, R),
         \A e \in S : Listed(e, Q, R),
         There(Q, R) => S # {}
  PROVE  Cardinality(S) = IF There(Q, R) THEN 1 ELSE 0
<1>1. CASE There(Q, R)
  <2>1. PICK e : e \in S
    BY <1>1
  <2>2. ASSUME NEW g \in S PROVE g = e
    <3>1. PICK y \in Places : \E a \in Held(Q, R)[y] : e = Item(y, a)
      BY <2>1 DEF Listed
    <3>2. PICK a \in Held(Q, R)[y] : e = Item(y, a)
      BY <3>1
    <3>3. PICK z \in Places : \E d \in Held(Q, R)[z] : g = Item(z, d)
      BY DEF Listed
    <3>4. PICK d \in Held(Q, R)[z] : g = Item(z, d)
      BY <3>3
    <3>5. y = z
      BY <3>2, <3>4 DEF OneAtMost, Unique
    <3>6. a = d
      BY <3>2, <3>4, <3>5 DEF OneAtMost, Unique, Few
    <3> QED BY <3>2, <3>4, <3>5, <3>6
  <2>3. S = {e}
    BY <2>1, <2>2
  <2> QED BY <1>1, <2>3, FS_Singleton
<1>2. CASE ~There(Q, R)
  <2>1. S = {}
    BY <1>2 DEF There, Somewhere, Listed
  <2> QED BY <1>2, <2>1, FS_EmptySet
<1> QED BY <1>1, <1>2

(* Where an item is, and an item that is somewhere.                        *)
LEMMA LinkItem ==
  ASSUME NEW Q, NEW R, NEW x \in Cubes, NEW n \in Links,
         NEW e, \E i \in Pos(link[x][n], Q[x]) : e = <<"link", <<x, n>>, i>>
  PROVE  Listed(e, Q, R)
<1>1. PICK i \in Pos(link[x][n], Q[x]) : e = <<"link", <<x, n>>, i>>
  OBVIOUS
<1>2. PICK y : y = <<"link", x, n>>
  OBVIOUS
<1>3. y \in Places /\ Held(Q, R)[y] = Pos(link[x][n], Q[x])
  BY <1>2, LinkPlace
<1>4. Item(y, i) = e
  BY <1>1, <1>2 DEF Item
<1> QED BY <1>1, <1>3, <1>4 DEF Listed

LEMMA DownItem ==
  ASSUME NEW Q, NEW R, NEW x \in Cubes, NEW n \in Links,
         NEW e, \E i \in Pos(downBuffers[x][n], Q[x]) : e = <<"down", <<x, n>>, i>>
  PROVE  Listed(e, Q, R)
<1>1. PICK i \in Pos(downBuffers[x][n], Q[x]) : e = <<"down", <<x, n>>, i>>
  OBVIOUS
<1>2. PICK y : y = <<"down", x, n>>
  OBVIOUS
<1>3. y \in Places /\ Held(Q, R)[y] = Pos(downBuffers[x][n], Q[x])
  BY <1>2, DownPlace
<1>4. Item(y, i) = e
  BY <1>1, <1>2 DEF Item
<1> QED BY <1>1, <1>3, <1>4 DEF Listed

LEMMA UpItem ==
  ASSUME NEW Q, NEW R, NEW x \in Cubes, NEW n \in Ports,
         NEW e, \E r \in Part(upBuffers[x][n], R) : e = <<"up", <<x, n>>, r>>
  PROVE  Listed(e, Q, R)
<1>1. PICK r \in Part(upBuffers[x][n], R) : e = <<"up", <<x, n>>, r>>
  OBVIOUS
<1>2. PICK y : y = <<"up", x, n>>
  OBVIOUS
<1>3. y \in Places /\ Held(Q, R)[y] = Part(upBuffers[x][n], R)
  BY <1>2, UpPlace
<1>4. Item(y, r) = e
  BY <1>1, <1>2 DEF Item
<1> QED BY <1>1, <1>3, <1>4 DEF Listed

LEMMA ItemAt ==
  ASSUME NEW Q, NEW R, NEW e,
         \/ \E z \in Cubes \X Links : \E i \in Pos(link[z[1]][z[2]], Q[z[1]]) : e = <<"link", z, i>>
         \/ \E z \in Cubes \X Links : \E i \in Pos(downBuffers[z[1]][z[2]], Q[z[1]]) :
              e = <<"down", z, i>>
         \/ \E x \in Cubes : \E r \in Part(vault[x], R) : e = <<"vault", x, r>>
         \/ \E z \in Cubes \X Ports : \E r \in Part(upBuffers[z[1]][z[2]], R) : e = <<"up", z, r>>
         \/ \E r \in Part(responseQ, R) : e = <<"host", r>>
  PROVE  Listed(e, Q, R)
<1>1. CASE \E z \in Cubes \X Links : \E i \in Pos(link[z[1]][z[2]], Q[z[1]]) : e = <<"link", z, i>>
  <2>1. PICK x \in Cubes, n \in Links : \E i \in Pos(link[x][n], Q[x]) : e = <<"link", <<x, n>>, i>>
    BY <1>1
  <2> QED BY <2>1, LinkItem
<1>2. CASE \E z \in Cubes \X Links : \E i \in Pos(downBuffers[z[1]][z[2]], Q[z[1]]) :
             e = <<"down", z, i>>
  <2>1. PICK x \in Cubes, n \in Links :
          \E i \in Pos(downBuffers[x][n], Q[x]) : e = <<"down", <<x, n>>, i>>
    BY <1>2
  <2> QED BY <2>1, DownItem
<1>3. CASE \E x \in Cubes : \E r \in Part(vault[x], R) : e = <<"vault", x, r>>
  <2>1. PICK x \in Cubes : \E r \in Part(vault[x], R) : e = <<"vault", x, r>>
    BY <1>3
  <2>2. PICK r \in Part(vault[x], R) : e = <<"vault", x, r>>
    BY <2>1
  <2>3. /\ <<"vault", x, VaultPort>> \in Places
        /\ Held(Q, R)[<<"vault", x, VaultPort>>] = Part(vault[x], R)
    BY VaultPlace
  <2>4. Item(<<"vault", x, VaultPort>>, r) = <<"vault", x, r>>
    BY DEF Item
  <2> QED BY <2>2, <2>3, <2>4 DEF Listed
<1>4. CASE \E z \in Cubes \X Ports : \E r \in Part(upBuffers[z[1]][z[2]], R) : e = <<"up", z, r>>
  <2>1. PICK x \in Cubes, n \in Ports : \E r \in Part(upBuffers[x][n], R) : e = <<"up", <<x, n>>, r>>
    BY <1>4
  <2> QED BY <2>1, UpItem
<1>5. CASE \E r \in Part(responseQ, R) : e = <<"host", r>>
  <2>1. PICK r \in Part(responseQ, R) : e = <<"host", r>>
    BY <1>5
  <2>2. HostPlace \in Places /\ Held(Q, R)[HostPlace] = Part(responseQ, R)
    BY HostValue
  <2>3. Item(HostPlace, r) = <<"host", r>>
    BY DEF Item, HostPlace
  <2> QED BY <2>1, <2>2, <2>3 DEF Listed
<1> QED BY <1>1, <1>2, <1>3, <1>4, <1>5

LEMMA ThereIs ==
  ASSUME NEW Q, NEW R, There(Q, R)
  PROVE  \/ \E z \in Cubes \X Links : Pos(link[z[1]][z[2]], Q[z[1]]) # {}
         \/ \E z \in Cubes \X Links : Pos(downBuffers[z[1]][z[2]], Q[z[1]]) # {}
         \/ \E x \in Cubes : Part(vault[x], R) # {}
         \/ \E z \in Cubes \X Ports : Part(upBuffers[z[1]][z[2]], R) # {}
         \/ Part(responseQ, R) # {}
<1>1. PICK y \in Places : Held(Q, R)[y] # {}
  BY DEF There, Somewhere
<1>2. y[1] # "host" => y[2] \in Cubes /\ y[3] \in Ports
  BY DEF Places, HostPlace
<1>3. y[1] \in {"link", "down", "vault", "up", "host"}
  BY DEF Places, HostPlace
<1>4. PICK z : z = <<y[2], y[3]>>
  OBVIOUS
<1>5. CASE y[1] = "link"
  <2>1. y[3] \in Links /\ z \in Cubes \X Links
    BY <1>1, <1>2, <1>4, <1>5 DEF Held, HeldIn
  <2> QED BY <1>1, <1>4, <1>5, <2>1 DEF Held, HeldIn
<1>6. CASE y[1] = "down"
  <2>1. y[3] \in Links /\ z \in Cubes \X Links
    BY <1>1, <1>2, <1>4, <1>6 DEF Held, HeldIn
  <2> QED BY <1>1, <1>4, <1>6, <2>1 DEF Held, HeldIn
<1>7. CASE y[1] = "vault"
  BY <1>1, <1>2, <1>7 DEF Held, HeldIn
<1>8. CASE y[1] = "up"
  <2>1. z \in Cubes \X Ports
    BY <1>2, <1>4, <1>8
  <2> QED BY <1>1, <1>4, <1>8, <2>1 DEF Held, HeldIn
<1>9. CASE y[1] = "host"
  BY <1>1, <1>9 DEF Held, HeldIn
<1> QED BY <1>3, <1>5, <1>6, <1>7, <1>8, <1>9

(* PlacesOf, its elements listed.                                          *)
LEMMA PlacesList ==
  ASSUME NEW t, NEW e
  PROVE  e \in PlacesOf(t) <=>
           \/ \E x \in Cubes : \E r \in {r \in vault[x] : r.flow = t} : e = <<"vault", x, r>>
           \/ \E z \in Cubes \X Ports : \E r \in {r \in upBuffers[z[1]][z[2]] : r.flow = t} :
                e = <<"up", z, r>>
           \/ \E z \in Cubes \X Links :
                \E i \in {i \in DOMAIN link[z[1]][z[2]] : link[z[1]][z[2]][i].flow = t} :
                  e = <<"link", z, i>>
           \/ \E z \in Cubes \X Links :
                \E i \in {i \in DOMAIN downBuffers[z[1]][z[2]] : downBuffers[z[1]][z[2]][i].flow = t} :
                  e = <<"down", z, i>>
           \/ \E r \in {r \in responseQ : r.flow = t} : e = <<"host", r>>
<1> DEFINE V == UNION {{<<"vault", x, r>> : r \in {r \in vault[x] : r.flow = t}} : x \in Cubes}
           U == UNION {{<<"up", z, r>> : r \in {r \in upBuffers[z[1]][z[2]] : r.flow = t}}
                        : z \in Cubes \X Ports}
           K == UNION {{<<"link", z, i>> : i \in {i \in DOMAIN link[z[1]][z[2]] :
                                                    link[z[1]][z[2]][i].flow = t}}
                        : z \in Cubes \X Links}
           D == UNION {{<<"down", z, i>> : i \in {i \in DOMAIN downBuffers[z[1]][z[2]] :
                                                    downBuffers[z[1]][z[2]][i].flow = t}}
                        : z \in Cubes \X Links}
           H == {<<"host", r>> : r \in {r \in responseQ : r.flow = t}}
<1>1. e \in PlacesOf(t) <=> e \in V \/ e \in U \/ e \in K \/ e \in D \/ e \in H
  <2>1. PlacesOf(t) = V \cup U \cup K \cup D \cup H
    BY DEF PlacesOf
  <2> HIDE DEF V, U, K, D, H
  <2> QED BY <2>1
<1>2. e \in V <=> \E x \in Cubes : \E r \in {r \in vault[x] : r.flow = t} : e = <<"vault", x, r>>
  OBVIOUS
<1>3. e \in U <=> \E z \in Cubes \X Ports : \E r \in {r \in upBuffers[z[1]][z[2]] : r.flow = t} :
                    e = <<"up", z, r>>
  OBVIOUS
<1>4. e \in K <=> \E z \in Cubes \X Links :
                    \E i \in {i \in DOMAIN link[z[1]][z[2]] : link[z[1]][z[2]][i].flow = t} :
                      e = <<"link", z, i>>
  OBVIOUS
<1>5. e \in D <=> \E z \in Cubes \X Links :
                    \E i \in {i \in DOMAIN downBuffers[z[1]][z[2]] : downBuffers[z[1]][z[2]][i].flow = t} :
                      e = <<"down", z, i>>
  OBVIOUS
<1>6. e \in H <=> \E r \in {r \in responseQ : r.flow = t} : e = <<"host", r>>
  OBVIOUS
<1> HIDE DEF V, U, K, D, H
<1> QED BY <1>1, <1>2, <1>3, <1>4, <1>5, <1>6

LEMMA ReadPlaces ==
  ASSUME FInv, NEW t \in Reads
  PROVE  Cardinality(PlacesOf(t)) = IF t \in reading THEN 1 ELSE 0
<1>1. PICK Q, R : Q = ReadReq(t) /\ R = ReadRsp(t)
  OBVIOUS
<1>2. OneAtMost(Q, R) /\ (There(Q, R) <=> t \in reading) /\ TypeOK
  BY <1>1 DEF FInv, IInv, ReadsOnce, ReadOnce
<1>3. /\ \A z \in Cubes \X Links :
           /\ Pos(link[z[1]][z[2]], Q[z[1]])
                = {i \in DOMAIN link[z[1]][z[2]] : link[z[1]][z[2]][i].flow = t}
           /\ Pos(downBuffers[z[1]][z[2]], Q[z[1]])
                = {i \in DOMAIN downBuffers[z[1]][z[2]] : downBuffers[z[1]][z[2]][i].flow = t}
      /\ \A x \in Cubes : Part(vault[x], R) = {r \in vault[x] : r.flow = t}
      /\ \A z \in Cubes \X Ports :
           Part(upBuffers[z[1]][z[2]], R) = {r \in upBuffers[z[1]][z[2]] : r.flow = t}
      /\ Part(responseQ, R) = {r \in responseQ : r.flow = t}
  <2>1. ASSUME NEW z \in Cubes \X Links
        PROVE  /\ Pos(link[z[1]][z[2]], Q[z[1]])
                    = {i \in DOMAIN link[z[1]][z[2]] : link[z[1]][z[2]][i].flow = t}
               /\ Pos(downBuffers[z[1]][z[2]], Q[z[1]])
                    = {i \in DOMAIN downBuffers[z[1]][z[2]] : downBuffers[z[1]][z[2]][i].flow = t}
    <3>0. PICK x \in Cubes, n \in Links : x = z[1] /\ n = z[2]
      OBVIOUS
    <3>1. /\ \A i \in DOMAIN link[x][n] : link[x][n][i] \in Request
          /\ \A i \in DOMAIN downBuffers[x][n] : downBuffers[x][n][i] \in Request
      BY <1>2 DEF TypeOK
    <3>2. \A q \in Request : q \in Q[x] <=> q.flow = t
      BY <1>1, ReadPackets
    <3> QED BY <3>0, <3>1, <3>2 DEF Pos
  <2>2. \A r \in Response : r \in R <=> r.flow = t
    BY <1>1, ReadPackets
  <2>3. \A x \in Cubes : Part(vault[x], R) = {r \in vault[x] : r.flow = t}
    BY <1>2, <2>2 DEF Part, TypeOK
  <2>4. ASSUME NEW z \in Cubes \X Ports
        PROVE  Part(upBuffers[z[1]][z[2]], R) = {r \in upBuffers[z[1]][z[2]] : r.flow = t}
    <3>1. upBuffers[z[1]][z[2]] \subseteq Response
      BY <1>2 DEF TypeOK
    <3> QED BY <2>2, <3>1 DEF Part
  <2>5. Part(responseQ, R) = {r \in responseQ : r.flow = t}
    BY <1>2, <2>2 DEF Part, TypeOK
  <2> QED BY <2>1, <2>3, <2>4, <2>5
<1>4. \A e \in PlacesOf(t) : Listed(e, Q, R)
  <2> SUFFICES ASSUME NEW e \in PlacesOf(t)
               PROVE  Listed(e, Q, R)
    OBVIOUS
  <2>1. CASE \E x \in Cubes : \E r \in {r \in vault[x] : r.flow = t} : e = <<"vault", x, r>>
    <3>1. \E x \in Cubes : \E r \in Part(vault[x], R) : e = <<"vault", x, r>>
      BY <1>3, <2>1
    <3> QED BY <3>1, ItemAt
  <2>2. CASE \E z \in Cubes \X Ports : \E r \in {r \in upBuffers[z[1]][z[2]] : r.flow = t} :
               e = <<"up", z, r>>
    <3>1. \E z \in Cubes \X Ports : \E r \in Part(upBuffers[z[1]][z[2]], R) : e = <<"up", z, r>>
      BY <1>3, <2>2
    <3> QED BY <3>1, ItemAt
  <2>3. CASE \E z \in Cubes \X Links :
               \E i \in {i \in DOMAIN link[z[1]][z[2]] : link[z[1]][z[2]][i].flow = t} :
                 e = <<"link", z, i>>
    <3>1. \E z \in Cubes \X Links : \E i \in Pos(link[z[1]][z[2]], Q[z[1]]) : e = <<"link", z, i>>
      BY <1>3, <2>3
    <3> QED BY <3>1, ItemAt
  <2>4. CASE \E z \in Cubes \X Links :
               \E i \in {i \in DOMAIN downBuffers[z[1]][z[2]] : downBuffers[z[1]][z[2]][i].flow = t} :
                 e = <<"down", z, i>>
    <3>1. \E z \in Cubes \X Links : \E i \in Pos(downBuffers[z[1]][z[2]], Q[z[1]]) :
            e = <<"down", z, i>>
      BY <1>3, <2>4
    <3> QED BY <3>1, ItemAt
  <2>5. CASE \E r \in {r \in responseQ : r.flow = t} : e = <<"host", r>>
    <3>1. \E r \in Part(responseQ, R) : e = <<"host", r>>
      BY <1>3, <2>5
    <3> QED BY <3>1, ItemAt
  <2> QED BY <2>1, <2>2, <2>3, <2>4, <2>5, PlacesList
<1>5. There(Q, R) => PlacesOf(t) # {}
  <2> SUFFICES ASSUME There(Q, R) PROVE \E e : e \in PlacesOf(t)
    OBVIOUS
  <2>1. CASE \E z \in Cubes \X Links : Pos(link[z[1]][z[2]], Q[z[1]]) # {}
    <3>0. PICK z \in Cubes \X Links : {i \in DOMAIN link[z[1]][z[2]] : link[z[1]][z[2]][i].flow = t} # {}
      BY <1>3, <2>1, Zenon
    <3>1. PICK i : i \in {j \in DOMAIN link[z[1]][z[2]] : link[z[1]][z[2]][j].flow = t}
      BY <3>0, Zenon
    <3>2. <<"link", z, i>> \in PlacesOf(t)
      BY <3>1, PlacesList, Zenon
    <3> QED BY <3>2
  <2>2. CASE \E z \in Cubes \X Links : Pos(downBuffers[z[1]][z[2]], Q[z[1]]) # {}
    <3>0. PICK z \in Cubes \X Links :
            {i \in DOMAIN downBuffers[z[1]][z[2]] : downBuffers[z[1]][z[2]][i].flow = t} # {}
      BY <1>3, <2>2, Zenon
    <3>1. PICK i : i \in {j \in DOMAIN downBuffers[z[1]][z[2]] : downBuffers[z[1]][z[2]][j].flow = t}
      BY <3>0, Zenon
    <3>2. <<"down", z, i>> \in PlacesOf(t)
      BY <3>1, PlacesList, Zenon
    <3> QED BY <3>2
  <2>3. CASE \E x \in Cubes : Part(vault[x], R) # {}
    <3>0. PICK x \in Cubes : {r \in vault[x] : r.flow = t} # {}
      BY <1>3, <2>3, Zenon
    <3>1. PICK r : r \in {q \in vault[x] : q.flow = t}
      BY <3>0, Zenon
    <3>2. <<"vault", x, r>> \in PlacesOf(t)
      BY <3>1, PlacesList, Zenon
    <3> QED BY <3>2
  <2>4. CASE \E z \in Cubes \X Ports : Part(upBuffers[z[1]][z[2]], R) # {}
    <3>0. PICK z \in Cubes \X Ports : {r \in upBuffers[z[1]][z[2]] : r.flow = t} # {}
      BY <1>3, <2>4, Zenon
    <3>1. PICK r : r \in {q \in upBuffers[z[1]][z[2]] : q.flow = t}
      BY <3>0, Zenon
    <3>2. <<"up", z, r>> \in PlacesOf(t)
      BY <3>1, PlacesList, Zenon
    <3> QED BY <3>2
  <2>5. CASE Part(responseQ, R) # {}
    <3>1. PICK r : r \in {q \in responseQ : q.flow = t}
      BY <1>3, <2>5, Zenon
    <3>2. <<"host", r>> \in PlacesOf(t)
      BY <3>1, PlacesList, Zenon
    <3> QED BY <3>2
  <2> QED BY <2>1, <2>2, <2>3, <2>4, <2>5, ThereIs
<1> QED BY <1>2, <1>4, <1>5, CountItems

(* Every read a host waits for is in exactly one place: ordinary traffic   *)
(* that shares links and buffers with updates is neither lost nor answered *)
(* twice.                                                                  *)
THEOREM ReadsCorrect == Spec => []ReadInFlight
<1>1. FInv => ReadInFlight
  BY ReadPlaces DEF ReadInFlight
<1> QED BY <1>1, FlightInvariance, PTL

(* Carriers, its elements listed.                                          *)
LEMMA CarriersList ==
  ASSUME NEW c, NEW b, NEW k, NEW e
  PROVE  e \in Carriers(c, b, k) <=>
           \/ \E x \in Cubes : \E r \in {r \in vault[x] : r.dest = c /\ r.buf = b /\ r.op = k} :
                e = <<"vault", x, r>>
           \/ \E z \in Cubes \X Ports :
                \E r \in {r \in upBuffers[z[1]][z[2]] : r.dest = c /\ r.buf = b /\ r.op = k} :
                  e = <<"up", z, r>>
           \/ \E z \in Cubes \X Links :
                \E i \in {i \in DOMAIN link[z[1]][z[2]] : AsksFor(z[1], link[z[1]][z[2]][i], c, b, k)} :
                  e = <<"link", z, i>>
           \/ \E z \in Cubes \X Links :
                \E i \in {i \in DOMAIN downBuffers[z[1]][z[2]] :
                            AsksFor(z[1], downBuffers[z[1]][z[2]][i], c, b, k)} :
                  e = <<"down", z, i>>
<1> DEFINE V == UNION {{<<"vault", x, r>> : r \in {r \in vault[x] : r.dest = c /\ r.buf = b /\ r.op = k}}
                        : x \in Cubes}
           U == UNION {{<<"up", z, r>> : r \in {r \in upBuffers[z[1]][z[2]] :
                                                  r.dest = c /\ r.buf = b /\ r.op = k}}
                        : z \in Cubes \X Ports}
           K == UNION {{<<"link", z, i>> : i \in {i \in DOMAIN link[z[1]][z[2]] :
                                                    AsksFor(z[1], link[z[1]][z[2]][i], c, b, k)}}
                        : z \in Cubes \X Links}
           D == UNION {{<<"down", z, i>> : i \in {i \in DOMAIN downBuffers[z[1]][z[2]] :
                                                    AsksFor(z[1], downBuffers[z[1]][z[2]][i], c, b, k)}}
                        : z \in Cubes \X Links}
<1>1. e \in Carriers(c, b, k) <=> e \in V \/ e \in U \/ e \in K \/ e \in D
  <2>1. Carriers(c, b, k) = V \cup U \cup K \cup D
    BY DEF Carriers
  <2> HIDE DEF V, U, K, D
  <2> QED BY <2>1
<1>2. e \in V <=> \E x \in Cubes : \E r \in {r \in vault[x] : r.dest = c /\ r.buf = b /\ r.op = k} :
                    e = <<"vault", x, r>>
  OBVIOUS
<1>3. e \in U <=> \E z \in Cubes \X Ports :
                    \E r \in {r \in upBuffers[z[1]][z[2]] : r.dest = c /\ r.buf = b /\ r.op = k} :
                      e = <<"up", z, r>>
  OBVIOUS
<1>4. e \in K <=> \E z \in Cubes \X Links :
                    \E i \in {i \in DOMAIN link[z[1]][z[2]] :
                                AsksFor(z[1], link[z[1]][z[2]][i], c, b, k)} :
                      e = <<"link", z, i>>
  OBVIOUS
<1>5. e \in D <=> \E z \in Cubes \X Links :
                    \E i \in {i \in DOMAIN downBuffers[z[1]][z[2]] :
                                AsksFor(z[1], downBuffers[z[1]][z[2]][i], c, b, k)} :
                      e = <<"down", z, i>>
  OBVIOUS
<1> HIDE DEF V, U, K, D
<1> QED BY <1>1, <1>2, <1>3, <1>4, <1>5

(* A packet that carries or asks for an operand belongs to a flow.         *)
LEMMA CarrierOf ==
  ASSUME FInv, NEW c \in Cubes, NEW b \in Bufs, NEW k \in 1..2, NEW e \in Carriers(c, b, k)
  PROVE  \E f \in Flows : Listed(e, Asks(c, b, k, f), Brings(c, b, k, f))
<1>1. TypeOK /\ RequestsGood /\ ResponsesGood
  BY DEF FInv, IInv, PacketsGood
<1>2. ASSUME NEW x \in Cubes, NEW q \in GoodRequest, AsksFor(x, q, c, b, k)
      PROVE  q.flow \in Flows /\ q \in Asks(c, b, k, q.flow)[x]
  <2>1. q \in Request /\ q.half # 0 /\ q.cmd = "MULT" /\ q.flow \in Tags
    BY <1>2 DEF GoodRequest, Request, AsksFor
  <2>2. q.flow \in Flows
    BY <2>1 DEF Request, Tags
  <2> QED BY <1>2, <2>1, <2>2 DEF Asks
<1>3. ASSUME NEW x \in Cubes, NEW r \in GoodResponse(x), r.dest = c, r.buf = b, r.op = k
      PROVE  r.flow \in Flows /\ r \in Brings(c, b, k, r.flow)
  <2>1. r \in Response /\ r.op # 0 /\ r.cmd \in {"ADD", "MULT"} /\ r.flow \in Tags
    BY <1>3 DEF GoodResponse, Response
  <2>2. r.flow \in Flows
    BY <2>1 DEF Response, Tags
  <2> QED BY <1>3, <2>1, <2>2 DEF Brings
<1>4. CASE \E x \in Cubes : \E r \in {r \in vault[x] : r.dest = c /\ r.buf = b /\ r.op = k} :
             e = <<"vault", x, r>>
  <2>1. PICK x \in Cubes : \E r \in {r \in vault[x] : r.dest = c /\ r.buf = b /\ r.op = k} :
                             e = <<"vault", x, r>>
    BY <1>4
  <2>2. PICK r \in vault[x] : r.dest = c /\ r.buf = b /\ r.op = k /\ e = <<"vault", x, r>>
    BY <2>1
  <2>3. r \in GoodResponse(x)
    BY <1>1 DEF ResponsesGood
  <2>4. PICK f \in Flows : r \in Brings(c, b, k, f)
    BY <1>3, <2>2, <2>3
  <2>5. \E y \in Cubes : \E s \in Part(vault[y], Brings(c, b, k, f)) : e = <<"vault", y, s>>
    BY <2>2, <2>4 DEF Part
  <2>6. Listed(e, Asks(c, b, k, f), Brings(c, b, k, f))
    BY <2>5, ItemAt
  <2> QED BY <2>6
<1>5. CASE \E z \in Cubes \X Ports :
             \E r \in {r \in upBuffers[z[1]][z[2]] : r.dest = c /\ r.buf = b /\ r.op = k} :
               e = <<"up", z, r>>
  <2>1. PICK x \in Cubes, n \in Ports :
          \E r \in {r \in upBuffers[x][n] : r.dest = c /\ r.buf = b /\ r.op = k} :
            e = <<"up", <<x, n>>, r>>
    BY <1>5
  <2>2. PICK r \in upBuffers[x][n] : r.dest = c /\ r.buf = b /\ r.op = k /\ e = <<"up", <<x, n>>, r>>
    BY <2>1
  <2>3. r \in GoodResponse(x)
    BY <1>1 DEF ResponsesGood
  <2>4. PICK f \in Flows : r \in Brings(c, b, k, f)
    BY <1>3, <2>2, <2>3
  <2>5. \E s \in Part(upBuffers[x][n], Brings(c, b, k, f)) : e = <<"up", <<x, n>>, s>>
    BY <2>2, <2>4 DEF Part
  <2>6. Listed(e, Asks(c, b, k, f), Brings(c, b, k, f))
    BY <2>5, UpItem
  <2> QED BY <2>6
<1>6. CASE \E z \in Cubes \X Links :
             \E i \in {i \in DOMAIN link[z[1]][z[2]] : AsksFor(z[1], link[z[1]][z[2]][i], c, b, k)} :
               e = <<"link", z, i>>
  <2>1. PICK x \in Cubes, n \in Links :
          \E i \in {i \in DOMAIN link[x][n] : AsksFor(x, link[x][n][i], c, b, k)} :
            e = <<"link", <<x, n>>, i>>
    BY <1>6
  <2>2. PICK i \in DOMAIN link[x][n] :
          AsksFor(x, link[x][n][i], c, b, k) /\ e = <<"link", <<x, n>>, i>>
    BY <2>1
  <2>3. link[x][n][i] \in GoodRequest
    BY <1>1 DEF RequestsGood
  <2>4. PICK f \in Flows : link[x][n][i] \in Asks(c, b, k, f)[x]
    BY <1>2, <2>2, <2>3
  <2>5. \E j \in Pos(link[x][n], Asks(c, b, k, f)[x]) : e = <<"link", <<x, n>>, j>>
    BY <2>2, <2>4 DEF Pos
  <2>6. Listed(e, Asks(c, b, k, f), Brings(c, b, k, f))
    BY <2>5, LinkItem
  <2> QED BY <2>6
<1>7. CASE \E z \in Cubes \X Links :
             \E i \in {i \in DOMAIN downBuffers[z[1]][z[2]] :
                         AsksFor(z[1], downBuffers[z[1]][z[2]][i], c, b, k)} :
               e = <<"down", z, i>>
  <2>1. PICK x \in Cubes, n \in Links :
          \E i \in {i \in DOMAIN downBuffers[x][n] : AsksFor(x, downBuffers[x][n][i], c, b, k)} :
            e = <<"down", <<x, n>>, i>>
    BY <1>7
  <2>2. PICK i \in DOMAIN downBuffers[x][n] :
          AsksFor(x, downBuffers[x][n][i], c, b, k) /\ e = <<"down", <<x, n>>, i>>
    BY <2>1
  <2>3. downBuffers[x][n][i] \in GoodRequest
    BY <1>1 DEF RequestsGood
  <2>4. PICK f \in Flows : downBuffers[x][n][i] \in Asks(c, b, k, f)[x]
    BY <1>2, <2>2, <2>3
  <2>5. \E j \in Pos(downBuffers[x][n], Asks(c, b, k, f)[x]) : e = <<"down", <<x, n>>, j>>
    BY <2>2, <2>4 DEF Pos
  <2>6. Listed(e, Asks(c, b, k, f), Brings(c, b, k, f))
    BY <2>5, DownItem
  <2> QED BY <2>6
<1> QED BY <1>4, <1>5, <1>6, <1>7, CarriersList

LEMMA CarrierIs ==
  ASSUME FInv, NEW c \in Cubes, NEW b \in Bufs, NEW k \in 1..2, NEW f \in Flows,
         There(Asks(c, b, k, f), Brings(c, b, k, f))
  PROVE  Carriers(c, b, k) # {}
<1>1. PICK Q, R : Q = Asks(c, b, k, f) /\ R = Brings(c, b, k, f)
  OBVIOUS
<1>2. /\ \A x \in Cubes : \A q \in Q[x] : AsksFor(x, q, c, b, k)
      /\ \A r \in R : r.dest = c /\ r.buf = b /\ r.op = k /\ r.cmd \in {"ADD", "MULT"}
  BY <1>1 DEF Asks, Brings
<1>3. Part(responseQ, R) = {}
  BY <1>2 DEF FInv, PacketsGood, ResponsesGood, Part
<1>4. SUFFICES \E e : e \in Carriers(c, b, k)
  OBVIOUS
<1>5. CASE \E z \in Cubes \X Links : Pos(link[z[1]][z[2]], Q[z[1]]) # {}
  <2>0. PICK z \in Cubes \X Links : Pos(link[z[1]][z[2]], Q[z[1]]) # {}
    BY <1>5
  <2>1. PICK i : i \in {j \in DOMAIN link[z[1]][z[2]] : AsksFor(z[1], link[z[1]][z[2]][j], c, b, k)}
    BY <1>2, <2>0 DEF Pos
  <2>2. <<"link", z, i>> \in Carriers(c, b, k)
    BY <2>1, CarriersList, Zenon
  <2> QED BY <2>2
<1>6. CASE \E z \in Cubes \X Links : Pos(downBuffers[z[1]][z[2]], Q[z[1]]) # {}
  <2>0. PICK z \in Cubes \X Links : Pos(downBuffers[z[1]][z[2]], Q[z[1]]) # {}
    BY <1>6
  <2>1. PICK i : i \in {j \in DOMAIN downBuffers[z[1]][z[2]] :
                          AsksFor(z[1], downBuffers[z[1]][z[2]][j], c, b, k)}
    BY <1>2, <2>0 DEF Pos
  <2>2. <<"down", z, i>> \in Carriers(c, b, k)
    BY <2>1, CarriersList, Zenon
  <2> QED BY <2>2
<1>7. CASE \E x \in Cubes : Part(vault[x], R) # {}
  <2>0. PICK x \in Cubes : Part(vault[x], R) # {}
    BY <1>7
  <2>1. PICK r : r \in {q \in vault[x] : q.dest = c /\ q.buf = b /\ q.op = k}
    BY <1>2, <2>0 DEF Part
  <2>2. <<"vault", x, r>> \in Carriers(c, b, k)
    BY <2>1, CarriersList, Zenon
  <2> QED BY <2>2
<1>8. CASE \E z \in Cubes \X Ports : Part(upBuffers[z[1]][z[2]], R) # {}
  <2>0. PICK z \in Cubes \X Ports : Part(upBuffers[z[1]][z[2]], R) # {}
    BY <1>8
  <2>1. PICK r : r \in {q \in upBuffers[z[1]][z[2]] : q.dest = c /\ q.buf = b /\ q.op = k}
    BY <1>2, <2>0 DEF Part
  <2>2. <<"up", z, r>> \in Carriers(c, b, k)
    BY <2>1, CarriersList, Zenon
  <2> QED BY <2>2
<1>9. There(Q, R)
  BY <1>1
<1> QED BY <1>3, <1>5, <1>6, <1>7, <1>8, <1>9, ThereIs

LEMMA OperandPlaces ==
  ASSUME FInv, NEW c \in Cubes, NEW b \in Bufs, NEW k \in 1..2
  PROVE  Cardinality(Carriers(c, b, k)) = IF Awaits(c, b, k) THEN 1 ELSE 0
<1>1. \A f \in Flows : /\ OneAtMost(Asks(c, b, k, f), Brings(c, b, k, f))
                       /\ There(Asks(c, b, k, f), Brings(c, b, k, f))
                            <=> Wants(operandBuffers[c][b], k, f)
  BY DEF FInv, OperandsOnce, OperandOnce
<1>2. operandBuffers[c][b].flowID \in Flows \cup {NoFlow} /\ NoFlow \notin Flows
  BY NullValues DEF FInv, IInv, TypeOK, OperandEntry
<1>3. /\ \A f \in Flows : Wants(operandBuffers[c][b], k, f) =>
                            Awaits(c, b, k) /\ f = operandBuffers[c][b].flowID
      /\ Awaits(c, b, k) => \E f \in Flows : Wants(operandBuffers[c][b], k, f)
  BY <1>2 DEF Wants, Awaits
<1>4. \A f \in Flows : \A e : Listed(e, Asks(c, b, k, f), Brings(c, b, k, f)) =>
                              There(Asks(c, b, k, f), Brings(c, b, k, f))
  BY DEF Listed, There, Somewhere
<1>5. \A e \in Carriers(c, b, k) :
        \E f \in Flows : /\ Wants(operandBuffers[c][b], k, f)
                         /\ Listed(e, Asks(c, b, k, f), Brings(c, b, k, f))
  BY <1>1, <1>4, CarrierOf
<1>6. CASE Awaits(c, b, k)
  <2>1. PICK f \in Flows : Wants(operandBuffers[c][b], k, f)
    BY <1>3, <1>6
  <2>2. \A e \in Carriers(c, b, k) : Listed(e, Asks(c, b, k, f), Brings(c, b, k, f))
    BY <1>3, <1>5, <2>1
  <2>3. /\ There(Asks(c, b, k, f), Brings(c, b, k, f))
        /\ OneAtMost(Asks(c, b, k, f), Brings(c, b, k, f))
    BY <1>1, <2>1
  <2>4. Carriers(c, b, k) # {}
    BY <2>3, CarrierIs
  <2>5. Cardinality(Carriers(c, b, k)) = 1
    BY <2>2, <2>3, <2>4, CountItems
  <2> QED BY <1>6, <2>5
<1>7. CASE ~Awaits(c, b, k)
  <2>1. Carriers(c, b, k) = {}
    BY <1>3, <1>5, <1>7
  <2> QED BY <1>7, <2>1, FS_EmptySet
<1> QED BY <1>6, <1>7

(* Each operand a reserved buffer waits for is under way exactly once, as  *)
(* a request, a vault access or a response: none is lost, fetched twice or *)
(* brought to a buffer that was released and reserved again.               *)
THEOREM OperandsCorrect == Spec => []OperandsInFlight
<1>1. FInv => OperandsInFlight
  BY OperandPlaces DEF OperandsInFlight
<1> QED BY <1>1, FlightInvariance, PTL

(* The assertions of the response path (CrossbarSwitch.cpp:190-193): every *)
(* operand that arrives finds its buffer reserved for its flow, the entry  *)
(* of the flow in the table, and its half of the buffer still empty.       *)
THEOREM ResponseAsserts == Spec => []OperandsExpected
<1>1. ASSUME FInv, NEW c \in Cubes, NEW p \in Ports, NEW r \in upBuffers[c][p], IsOperand(c, r)
      PROVE  r.dest = c /\ Expected(c, r)
  <2>1. /\ r.dest = c /\ r.buf \in Bufs /\ r.op \in 1..2 /\ r.flow \in Flows
        /\ Wants(operandBuffers[c][r.buf], r.op, r.flow)
    BY <1>1, ReturnFacts DEF FInv
  <2>2. ~operandBuffers[c][r.buf].ready
    BY <1>1, <2>1 DEF FInv, BuffersGood
  <2>3. Reserved(c, r.flow) # {}
    BY <2>1 DEF Reserved, Wants
  <2>4. flowTable[c][r.flow].valid
    BY <1>1, <2>1, <2>3, NothingOwed DEF FInv, IInv
  <2> QED BY <2>1, <2>2, <2>4 DEF Expected, Wants
<1>2. FInv => OperandsExpected
  BY <1>1 DEF OperandsExpected
<1> QED BY <1>2, FlightInvariance, PTL
=============================================================================
