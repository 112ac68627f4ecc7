---------------------------- MODULE ActiveRouting ---------------------------
(***************************************************************************)
(* The Active-Routing engine of the memory network: the crossbar switch of *)
(* every cube (CasHMC/sources/CrossbarSwitch.cpp), the links between them, *)
(* the vaults as a set of reads under way, and the host ports that issue   *)
(* updates and gathers.                                                    *)
(*                                                                         *)
(* A host sends the updates of a flow (ACT_ADD with one operand, ACT_MULT  *)
(* with two) into the network.  Every cube an update passes counts it in   *)
(* its flow table, so that the flow leaves a tree of entries behind; the   *)
(* cube where the operand lives, or where the routes of the two operands   *)
(* part, reserves an operand buffer and adds the result to its entry.  The *)
(* gather (ACT_GET) then walks down the tree, and every cube answers its   *)
(* parent when all it counted has been reduced.                            *)
(*                                                                         *)
(* CrossbarSwitch::Update scans all packets of all input buffers in every  *)
(* cycle; one iteration of a scan, on one packet, is one action here, and  *)
(* so is one iteration over the operand buffers or the flow table.  What   *)
(* limits how many iterations succeed in a cycle (vault_mask, bufPopDelay, *)
(* one adder result per cycle) only delays and is left out.                *)
(***************************************************************************)
EXTENDS Integers, Sequences, FiniteSets, SequencesExt

CONSTANTS
  Cubes,          \* cube IDs
  Flows,          \* flow IDs (DESTADRS of the active packets)
  Reads,          \* tags of the ordinary reads that share the network
  Root,           \* Root[x]: cube of the host port of flow or read x, SRCCUB
  FlowOp,         \* FlowOp[f]: "ADD" or "MAC", the opcode of its updates
  NextLink,       \* NextLink[c][d]: rf->findNextLink(c, d)
  ParentLink,     \* ParentLink[c][d]: rf->findNextLink(c, d, true)
  neighborCubeID, \* neighborCubeID[c][l]; c itself when l is the host's link
  PeerLink,       \* PeerLink[c][l]: number of link l at the neighbour
  OperandCubes,   \* cubes whose memory holds operands
  Bufs,           \* operand buffer IDs of a cube
  numMultStages,  \* depth of the multiplier pipeline
  LinkCap,        \* packets a link holds (master, wire, slave) per direction
  CrossCap,       \* packets an input buffer of the crossbar holds
  VaultCap,       \* requests the vaults of a cube hold
  MaxLines,       \* cache lines of the largest update (page offloading)
  MaxUpdates,     \* bound: lines a host reduces per gather
  NoFlow, NoBuf   \* flowID 0 and operandBufID -1

Links == 0..3            \* NUM_LINKS
VaultPort == 4           \* inputBuffers[NUM_LINKS], fed by the vaults
Ports == Links \cup {VaultPort}

ASSUME ARTAssumption ==
  /\ IsFiniteSet(Bufs)
  /\ NoFlow \notin Flows /\ NoBuf \notin Bufs
  /\ Flows \cap Reads = {}
  /\ Root \in [Flows \cup Reads -> Cubes]
  /\ OperandCubes \subseteq Cubes
  /\ FlowOp \in [Flows -> {"ADD", "MAC"}]
  /\ NextLink \in [Cubes -> [Cubes -> Links]]
  /\ ParentLink \in [Cubes -> [Cubes -> Links]]
  /\ neighborCubeID \in [Cubes -> [Links -> Cubes]]
  /\ PeerLink \in [Cubes -> [Links -> Links]]
  /\ numMultStages \in Nat \ {0}
  /\ LinkCap \in Nat /\ CrossCap \in Nat /\ VaultCap \in Nat
  /\ MaxLines \in Nat \ {0} /\ MaxUpdates \in Nat

(* The link towards another cube is not the link of the host.              *)
ASSUME RouteAssumption ==
  \A c, d \in Cubes : c # d => neighborCubeID[c][NextLink[c][d]] # c

(* What the topologies guarantee (RouteWalk): the two directions of a link *)
(* join the same two ports; a neighbour is reached by the link to it; the  *)
(* link towards another cube, of either kind, is not that of a host; and   *)
(* wherever the updates of a host pass on their way to an operand, the     *)
(* parent link leads back to the cube they came from.                      *)
ASSUME TreeAssumption ==
  /\ \A c \in Cubes, l \in Links : neighborCubeID[c][l] # c =>
       /\ neighborCubeID[neighborCubeID[c][l]][PeerLink[c][l]] = c
       /\ PeerLink[neighborCubeID[c][l]][PeerLink[c][l]] = l
       /\ NextLink[c][neighborCubeID[c][l]] = l
  /\ \A c, d \in Cubes : c # d => neighborCubeID[c][ParentLink[c][d]] # c
  /\ \A f \in Flows : /\ ParentLink[Root[f]][Root[f]] = NextLink[Root[f]][Root[f]]
                      /\ neighborCubeID[Root[f]][NextLink[Root[f]][Root[f]]] = Root[f]
  /\ \A f \in Flows, d \in OperandCubes : \E V \in SUBSET Cubes :
       /\ Root[f] \in V
       /\ \A c \in V \ {d} :
            LET n == NextLink[c][d]
                e == neighborCubeID[c][n]
            IN  e \in V /\ ParentLink[e][Root[f]] = PeerLink[c][n]

(***************************************************************************)
(* Packets.  half is 0 for a whole packet and k for one that asks for      *)
(* operand k of a split MULT; dest1 and dest2 are the cubes of the         *)
(* operands, lines the cache lines the update still covers.                *)
(***************************************************************************)
Tags == Flows \cup Reads

Request ==
  {q \in [cmd : {"ADD", "MULT", "GET", "RD"}, flow : Tags, src : Cubes, dest : Cubes,
          dest1 : Cubes, dest2 : Cubes, half : 0..2, buf : Bufs \cup {NoBuf},
          lines : 1..MaxLines] : q.cmd = "RD" <=> q.flow \in Reads}

(* A read under way in a vault and the response it makes: operand op of    *)
(* buffer buf at cube dest.  home is the cube that holds the address.      *)
Response ==
  {r \in [cmd : {"ADD", "MULT", "GET", "RD"}, flow : Tags, src : Cubes, dest : Cubes,
          home : Cubes, op : 0..2, buf : Bufs \cup {NoBuf}] : r.cmd = "RD" <=> r.flow \in Reads}

FlowEntry ==
  [valid : BOOLEAN, opcode : {"ADD", "MAC"}, result : Nat, req_count : Nat, rep_count : Nat,
   parent : Cubes, children_count : [Links -> Nat], children_gflag : [Links -> BOOLEAN],
   g_flag : BOOLEAN]

OperandEntry ==
  [flowID : Flows \cup {NoFlow}, op1_ready : BOOLEAN, op2_ready : BOOLEAN, ready : BOOLEAN,
   multStageCounter : 0..numMultStages]

NoEntry(c) ==      \* flowTable.find(f) == flowTable.end()
  [valid |-> FALSE, opcode |-> "ADD", result |-> 0, req_count |-> 0, rep_count |-> 0,
   parent |-> c, children_count |-> [l \in Links |-> 0],
   children_gflag |-> [l \in Links |-> FALSE], g_flag |-> FALSE]

FreeOperand ==
  [flowID |-> NoFlow, op1_ready |-> FALSE, op2_ready |-> FALSE, ready |-> FALSE,
   multStageCounter |-> numMultStages]

VARIABLES
  link,              \* link[c][l]: requests on their way into input buffer l of cube c
  downBuffers,       \* downBuffers[c][l]: requests in that input buffer
  upBuffers,         \* upBuffers[c][p]: responses on their way to cube c by port p
  vault,             \* vault[c]: reads under way in the vaults of c
  flowTable,         \* flowTable[c][f]
  operandBuffers,    \* operandBuffers[c][b]
  freeOperandBufIDs, \* freeOperandBufIDs[c], as a set
  multPipeOccupancy, \* multPipeOccupancy[c]
  responseQ,         \* responses that reached their host
  host,              \* host[f]: the host's view of the flow
  memory,            \* memory[f]: what the cubes added to the flow's target
  reading            \* reads sent and not answered

vars == <<link, downBuffers, upBuffers, vault, flowTable, operandBuffers,
          freeOperandBufIDs, multPipeOccupancy, responseQ, host, memory, reading>>

Init ==
  /\ link = [c \in Cubes |-> [l \in Links |-> <<>>]]
  /\ downBuffers = [c \in Cubes |-> [l \in Links |-> <<>>]]
  /\ upBuffers = [c \in Cubes |-> [p \in Ports |-> {}]]
  /\ vault = [c \in Cubes |-> {}]
  /\ flowTable = [c \in Cubes |-> [f \in Flows |-> NoEntry(c)]]
  /\ operandBuffers = [c \in Cubes |-> [b \in Bufs |-> FreeOperand]]
  /\ freeOperandBufIDs = [c \in Cubes |-> Bufs]
  /\ multPipeOccupancy = [c \in Cubes |-> 0]
  /\ responseQ = {}
  /\ host = [f \in Flows |-> [phase |-> "update", issued |-> 0]]
  /\ memory = [f \in Flows |-> 0]
  /\ reading = {}

-----------------------------------------------------------------------------
(* Link masters: ReceiveDown and ReceiveUp of upBufferDest[l].             *)
CanSend(c, l) == Len(link[neighborCubeID[c][l]][PeerLink[c][l]]) < LinkCap

SendDown(c, l, p) ==
  /\ CanSend(c, l)
  /\ link' = [link EXCEPT ![neighborCubeID[c][l]][PeerLink[c][l]] = Append(@, p)]

UpCap(port) == IF port = VaultPort THEN CrossCap ELSE LinkCap + CrossCap

CanSendUp(c, l) ==
  neighborCubeID[c][l] # c =>
    Cardinality(upBuffers[neighborCubeID[c][l]][PeerLink[c][l]]) < UpCap(PeerLink[c][l])

SendUp(c, l, r, ups) ==   \* ups: upBuffers without the response that is passed on
  /\ CanSendUp(c, l)
  /\ IF neighborCubeID[c][l] = c
     THEN responseQ' = responseQ \cup {r} /\ upBuffers' = ups
     ELSE /\ upBuffers' = [ups EXCEPT ![neighborCubeID[c][l]][PeerLink[c][l]] = @ \cup {r}]
          /\ UNCHANGED responseQ

(* A link slave passes its oldest request to the input buffer.             *)
Deliver(c, l) ==
  /\ link[c][l] # <<>>
  /\ Len(downBuffers[c][l]) < CrossCap
  /\ downBuffers' = [downBuffers EXCEPT ![c][l] = Append(@, Head(link[c][l]))]
  /\ link' = [link EXCEPT ![c][l] = Tail(@)]
  /\ UNCHANGED <<upBuffers, vault, flowTable, operandBuffers, freeOperandBufIDs,
                 multPipeOccupancy, responseQ, host, memory, reading>>

(* A vault finishes a read: VaultController::MakeRespondPacket.            *)
VaultReturn(c) ==
  /\ \E r \in vault[c] :
       /\ Cardinality(upBuffers[c][VaultPort]) < UpCap(VaultPort)
       /\ vault' = [vault EXCEPT ![c] = @ \ {r}]
       /\ upBuffers' = [upBuffers EXCEPT ![c][VaultPort] = @ \cup {r}]
  /\ UNCHANGED <<link, downBuffers, flowTable, operandBuffers, freeOperandBufIDs,
                 multPipeOccupancy, responseQ, host, memory, reading>>

-----------------------------------------------------------------------------
(* Flow table and operand buffers.                                         *)

(* Mutant: the update that creates an entry is not counted in it.          *)
CountedFromZero(c, p) ==
  LET e == flowTable[c][p.flow]
  IN  IF e.valid THEN [e EXCEPT !.req_count = @ + 1]
      ELSE [NoEntry(c) EXCEPT !.valid = TRUE,
                              !.opcode = IF p.cmd = "ADD" THEN "ADD" ELSE "MAC",
                              !.parent = neighborCubeID[c][ParentLink[c][p.src]]]

(* The entry of p's flow once p is counted; the first update creates it.   *)
Counted(c, p) ==
  LET e == flowTable[c][p.flow]
  IN  IF e.valid THEN [e EXCEPT !.req_count = @ + 1]
      ELSE [NoEntry(c) EXCEPT !.valid = TRUE, !.req_count = 1,
                              !.opcode = IF p.cmd = "ADD" THEN "ADD" ELSE "MAC",
                              !.parent = neighborCubeID[c][ParentLink[c][p.src]]]

CountHere(c, p) ==
  flowTable' = [flowTable EXCEPT ![c][p.flow] = Counted(c, p)]

CountChild(c, p, l) ==
  flowTable' = [flowTable EXCEPT ![c][p.flow] =
                  [Counted(c, p) EXCEPT !.children_count[l] = @ + 1]]

Reserve(c, b, f) ==
  /\ b \in freeOperandBufIDs[c]
  /\ freeOperandBufIDs' = [freeOperandBufIDs EXCEPT ![c] = @ \ {b}]
  /\ operandBuffers' = [operandBuffers EXCEPT ![c][b].flowID = f]

VaultAccepts(c, r) ==
  /\ Cardinality(vault[c]) < VaultCap
  /\ vault' = [vault EXCEPT ![c] = @ \cup {r}]

OperandRead(c, p, op, b, to) ==
  [cmd |-> p.cmd, flow |-> p.flow, src |-> c, dest |-> to,
   home |-> IF op = 2 THEN p.dest2 ELSE p.dest1, op |-> op, buf |-> b]

-----------------------------------------------------------------------------
(***************************************************************************)
(* Requests: one iteration of the downstream scan, on packet p at place i  *)
(* of input buffer l of cube c.                                            *)
(***************************************************************************)
IsHere(c, p) ==
  \/ p.dest = c
  \/ p.cmd = "MULT" /\ p.half # 2 /\ p.dest1 = c
  \/ p.cmd = "MULT" /\ p.half # 1 /\ p.dest2 = c

Take(c, l, i) == downBuffers' = [downBuffers EXCEPT ![c][l] = RemoveAt(@, i)]
Keep(c, l, i, q) == downBuffers' = [downBuffers EXCEPT ![c][l] = ReplaceAt(@, i, q)]

(* Mutant: the last line is not told from the others.                      *)
NextLineAlways(c, l, i, p) ==
  Keep(c, l, i, [p EXCEPT !.lines = @ - 1, !.half = 0, !.buf = NoBuf])

(* The last line of an update leaves the buffer; otherwise the packet goes *)
(* on as a whole packet for the next line, its DESTCUB as it was left.     *)
NextLine(c, l, i, p) ==
  IF p.lines = 1 THEN Take(c, l, i)
  ELSE Keep(c, l, i, [p EXCEPT !.lines = @ - 1, !.half = 0, !.buf = NoBuf])

AddLocal(c, l, i, p) ==
  /\ p.cmd = "ADD" /\ IsHere(c, p)
  /\ \E b \in freeOperandBufIDs[c] :
       /\ Reserve(c, b, p.flow)
       /\ VaultAccepts(c, OperandRead(c, p, 1, b, c))
  /\ CountHere(c, p)
  /\ NextLine(c, l, i, p)
  /\ UNCHANGED <<link, upBuffers, multPipeOccupancy, responseQ, host, memory, reading>>

AddForward(c, l, i, p) ==
  /\ p.cmd = "ADD" /\ ~IsHere(c, p)
  /\ LET n == NextLink[c][p.dest]
     IN  SendDown(c, n, p) /\ CountChild(c, p, n)
  /\ Take(c, l, i)
  /\ UNCHANGED <<upBuffers, vault, operandBuffers, freeOperandBufIDs,
                 multPipeOccupancy, responseQ, host, memory, reading>>

(* Mutants: the response would go to the host instead of the cube that     *)
(* split the update; DESTCUB stays that of the other operand.              *)
OtherHalfForHost(c, p, k, b) ==
  [p EXCEPT !.half = k, !.buf = b, !.dest = IF k = 1 THEN p.dest1 ELSE p.dest2]

OtherHalfStale(c, p, k, b) ==
  [p EXCEPT !.half = k, !.buf = b, !.src = IF p.lines = 1 THEN c ELSE p.src]

(* What stays in the buffer of a MULT split here: the request for operand  *)
(* k, for the buffer b of this cube.                                       *)
OtherHalf(c, p, k, b) ==
  [p EXCEPT !.half = k, !.buf = b, !.dest = IF k = 1 THEN p.dest1 ELSE p.dest2,
            !.src = IF p.lines = 1 THEN c ELSE p.src]

(* One operand lives here: it goes to the vault, the other is asked for.   *)
MultLocal(c, l, i, p) ==
  /\ p.cmd = "MULT" /\ p.half = 0 /\ IsHere(c, p)
  /\ LET k == IF p.dest1 = c THEN 1 ELSE 2
     IN  \E b \in freeOperandBufIDs[c] :
           /\ Reserve(c, b, p.flow)
           /\ VaultAccepts(c, OperandRead(c, p, k, b, c))
           /\ Keep(c, l, i, OtherHalf(c, p, 3 - k, b))
  /\ CountHere(c, p)
  /\ UNCHANGED <<link, upBuffers, multPipeOccupancy, responseQ, host, memory, reading>>

MultHalfLocal(c, l, i, p) ==
  /\ p.cmd = "MULT" /\ p.half # 0 /\ IsHere(c, p)
  /\ VaultAccepts(c, OperandRead(c, p, p.half, p.buf, IF p.lines = 1 THEN p.src ELSE c))
  /\ NextLine(c, l, i, p)
  /\ UNCHANGED <<link, upBuffers, flowTable, operandBuffers, freeOperandBufIDs,
                 multPipeOccupancy, responseQ, host, memory, reading>>

(* The routes of the two operands part here: this cube reduces the pair.   *)
(* The request for operand 1 is sent, or that for operand 2 if the link of *)
(* the first is full.                                                      *)
MultSplit(c, l, i, p) ==
  /\ p.cmd = "MULT" /\ p.half = 0 /\ ~IsHere(c, p)
  /\ LET link1 == NextLink[c][p.dest1]
         link2 == NextLink[c][p.dest2]
     IN  /\ link1 # link2
         /\ \E b \in freeOperandBufIDs[c] :
              /\ Reserve(c, b, p.flow)
              /\ \/ /\ SendDown(c, link1,
                         [p EXCEPT !.half = 1, !.buf = b, !.src = c, !.lines = 1])
                    /\ Keep(c, l, i, OtherHalf(c, p, 2, b))
                 \/ /\ ~CanSend(c, link1)
                    /\ SendDown(c, link2,
                         [p EXCEPT !.half = 2, !.buf = b, !.src = c, !.lines = 1,
                                   !.dest = p.dest2])
                    /\ Keep(c, l, i, OtherHalf(c, p, 1, b))
  /\ CountHere(c, p)
  /\ UNCHANGED <<upBuffers, vault, multPipeOccupancy, responseQ, host, memory, reading>>

MultForward(c, l, i, p) ==
  /\ p.cmd = "MULT" /\ p.half = 0 /\ ~IsHere(c, p)
  /\ NextLink[c][p.dest1] = NextLink[c][p.dest2]
  /\ LET n == NextLink[c][p.dest]
     IN  SendDown(c, n, p) /\ CountChild(c, p, n)
  /\ Take(c, l, i)
  /\ UNCHANGED <<upBuffers, vault, operandBuffers, freeOperandBufIDs,
                 multPipeOccupancy, responseQ, host, memory, reading>>

MultHalfForward(c, l, i, p) ==
  /\ p.cmd = "MULT" /\ p.half # 0 /\ ~IsHere(c, p)
  /\ SendDown(c, NextLink[c][p.dest],
       IF p.lines = 1 THEN p
       ELSE [p EXCEPT !.lines = 1, !.src = c,
                      !.dest = IF p.half = 1 THEN p.dest1 ELSE p.dest2])
  /\ NextLine(c, l, i, p)
  /\ UNCHANGED <<upBuffers, vault, flowTable, operandBuffers, freeOperandBufIDs,
                 multPipeOccupancy, responseQ, host, memory, reading>>

(* Mutant: a gather does not wait.                                         *)
InOrderAny(c, l, i, p) == TRUE

(* A gather waits for the updates of its flow that are ahead of it.        *)
InOrder(c, l, i, p) ==
  \A j \in 1..(i-1) : ~(downBuffers[c][l][j].cmd \in {"ADD", "MULT"}
                        /\ downBuffers[c][l][j].flow = p.flow)

(* Children that have been sent updates and not yet the gather.            *)
PendingChildren(c, f) ==
  {n \in Links : flowTable[c][f].children_count[n] > 0 /\ ~flowTable[c][f].children_gflag[n]}

(* The copy for a child goes to the back of the buffer the gather is in.   *)
GetReplicate(c, l, i, p) ==
  /\ p.cmd = "GET" /\ IsHere(c, p) /\ InOrder(c, l, i, p)
  /\ flowTable[c][p.flow].valid
  /\ Len(downBuffers[c][l]) < CrossCap
  /\ \E n \in PendingChildren(c, p.flow) :
       /\ \A m \in PendingChildren(c, p.flow) : n <= m
       /\ downBuffers' = [downBuffers EXCEPT ![c][l] =
            Append(@, [p EXCEPT !.src = c, !.dest = neighborCubeID[c][n]])]
       /\ flowTable' = [flowTable EXCEPT ![c][p.flow].children_gflag[n] = TRUE]
  /\ UNCHANGED <<link, upBuffers, vault, operandBuffers, freeOperandBufIDs,
                 multPipeOccupancy, responseQ, host, memory, reading>>

GetMark(c, l, i, p) ==
  /\ p.cmd = "GET" /\ IsHere(c, p) /\ InOrder(c, l, i, p)
  /\ flowTable[c][p.flow].valid
  /\ PendingChildren(c, p.flow) = {}
  /\ flowTable' = [flowTable EXCEPT ![c][p.flow].g_flag = TRUE]
  /\ Take(c, l, i)
  /\ UNCHANGED <<link, upBuffers, vault, operandBuffers, freeOperandBufIDs,
                 multPipeOccupancy, responseQ, host, memory, reading>>

(* A gather for a child, or an ordinary read, on its way.                  *)
Forward(c, l, i, p) ==
  /\ p.cmd \in {"GET", "RD"} /\ ~IsHere(c, p)
  /\ SendDown(c, NextLink[c][p.dest], p)
  /\ Take(c, l, i)
  /\ UNCHANGED <<upBuffers, vault, flowTable, operandBuffers, freeOperandBufIDs,
                 multPipeOccupancy, responseQ, host, memory, reading>>

ReadLocal(c, l, i, p) ==
  /\ p.cmd = "RD" /\ IsHere(c, p)
  /\ VaultAccepts(c, OperandRead(c, p, 0, NoBuf, p.src))
  /\ Take(c, l, i)
  /\ UNCHANGED <<link, upBuffers, flowTable, operandBuffers, freeOperandBufIDs,
                 multPipeOccupancy, responseQ, host, memory, reading>>

-----------------------------------------------------------------------------
(***************************************************************************)
(* Responses: one iteration of the upstream scan, on response r at port    *)
(* p of cube c.                                                            *)
(***************************************************************************)
(* Mutant: a response that was passed on stays.                            *)
DroppedNot(c, p, r) == upBuffers

Dropped(c, p, r) == [upBuffers EXCEPT ![c][p] = @ \ {r}]

(* The operand a response brings is one its buffer still waits for: the    *)
(* assertions on operandEntry, which stop the program when they fail.      *)
Expected(c, r) ==
  LET o == operandBuffers[c][r.buf]
  IN  /\ r.buf \in Bufs /\ o.flowID = r.flow /\ flowTable[c][r.flow].valid
      /\ ~o.ready
      /\ (r.op = 1 /\ ~o.op1_ready) \/ (r.op = 2 /\ ~o.op2_ready)

(* A read operand fills its operand buffer: ACT_ADD needs one operand,     *)
(* ACT_MULT both.                                                          *)
IsOperand(c, r) == r.cmd = "ADD" \/ (r.cmd = "MULT" /\ r.dest = c)

OperandReturn(c, p, r) ==
  /\ IsOperand(c, r) /\ Expected(c, r)
  /\ LET o  == operandBuffers[c][r.buf]
         o1 == o.op1_ready \/ r.op = 1
         o2 == o.op2_ready \/ r.op = 2
     IN  operandBuffers' = [operandBuffers EXCEPT ![c][r.buf] =
           [o EXCEPT !.op1_ready = o1, !.op2_ready = o2,
                     !.ready = (r.cmd = "ADD") \/ (o1 /\ o2)]]
  /\ upBuffers' = Dropped(c, p, r)
  /\ UNCHANGED <<link, downBuffers, vault, flowTable, freeOperandBufIDs,
                 multPipeOccupancy, responseQ, host, memory, reading>>

(* Mutant: the child stays outstanding.                                    *)
ChildReplyNoReset(c, p, r) ==
  /\ r.cmd = "GET" /\ r.dest = c /\ r.src # c
  /\ flowTable[c][r.flow].valid
  /\ flowTable' = [flowTable EXCEPT ![c][r.flow].rep_count =
                      @ + flowTable[c][r.flow].children_count[NextLink[c][r.src]]]
  /\ upBuffers' = Dropped(c, p, r)
  /\ UNCHANGED <<link, downBuffers, vault, operandBuffers, freeOperandBufIDs,
                 multPipeOccupancy, responseQ, host, memory, reading>>

(* The answer of a child: all updates this cube sent it are reduced.       *)
ChildDone(e, n) ==
  [e EXCEPT !.rep_count = @ + e.children_count[n], !.children_count[n] = 0]

IsChildReply(c, r) == r.cmd = "GET" /\ r.dest = c /\ r.src # c

ChildReply(c, p, r) ==
  /\ IsChildReply(c, r)
  /\ flowTable[c][r.flow].valid
  /\ flowTable' = [flowTable EXCEPT ![c][r.flow] = ChildDone(@, NextLink[c][r.src])]
  /\ upBuffers' = Dropped(c, p, r)
  /\ UNCHANGED <<link, downBuffers, vault, operandBuffers, freeOperandBufIDs,
                 multPipeOccupancy, responseQ, host, memory, reading>>

ForwardResponse(c, p, r) ==
  /\ ~IsOperand(c, r) /\ ~IsChildReply(c, r)
  /\ SendUp(c, NextLink[c][r.dest], r, Dropped(c, p, r))
  /\ UNCHANGED <<link, downBuffers, vault, flowTable, operandBuffers, freeOperandBufIDs,
                 multPipeOccupancy, host, memory, reading>>

-----------------------------------------------------------------------------
(***************************************************************************)
(* Processing: one iteration over the operand buffers or the flow table.   *)
(***************************************************************************)
Opcode(c, b) == flowTable[c][operandBuffers[c][b].flowID].opcode

(* Mutant: a product is added once for each of its operands.               *)
ReducePerOperand(c, b) ==
  LET f == operandBuffers[c][b].flowID
  IN  /\ flowTable' = [flowTable EXCEPT ![c][f].rep_count = @ + 1,
                          ![c][f].result = @ + IF operandBuffers[c][b].op2_ready THEN 2 ELSE 1]
      /\ operandBuffers' = [operandBuffers EXCEPT ![c][b] = FreeOperand]
      /\ freeOperandBufIDs' = [freeOperandBufIDs EXCEPT ![c] = @ \cup {b}]

AddResult(e) == [e EXCEPT !.rep_count = @ + 1, !.result = @ + 1]

Reduce(c, b) ==     \* the result is added and the operand buffer released
  LET f == operandBuffers[c][b].flowID
  IN  /\ flowTable' = [flowTable EXCEPT ![c][f] = AddResult(@)]
      /\ operandBuffers' = [operandBuffers EXCEPT ![c][b] = FreeOperand]
      /\ freeOperandBufIDs' = [freeOperandBufIDs EXCEPT ![c] = @ \cup {b}]

AddFinish(c, b) ==
  /\ operandBuffers[c][b].ready /\ Opcode(c, b) = "ADD"
  /\ Reduce(c, b)
  /\ UNCHANGED <<link, downBuffers, upBuffers, vault, multPipeOccupancy, responseQ,
                 host, memory, reading>>

(* Mutant: the depth of the pipeline is not looked at.                     *)
MultStartNoLimit(c, b) ==
  /\ operandBuffers[c][b].ready /\ Opcode(c, b) = "MAC"
  /\ operandBuffers[c][b].multStageCounter = numMultStages
  /\ multPipeOccupancy' = [multPipeOccupancy EXCEPT ![c] = @ + 1]
  /\ operandBuffers' = [operandBuffers EXCEPT ![c][b].multStageCounter = @ - 1]
  /\ UNCHANGED <<link, downBuffers, upBuffers, vault, flowTable, freeOperandBufIDs,
                 responseQ, host, memory, reading>>

(* Mutant: the opcode of the flow is not looked at.                        *)
MultStartAnyOpcode(c, b) ==
  /\ operandBuffers[c][b].ready
  /\ operandBuffers[c][b].multStageCounter = numMultStages
  /\ multPipeOccupancy[c] < numMultStages
  /\ multPipeOccupancy' = [multPipeOccupancy EXCEPT ![c] = @ + 1]
  /\ operandBuffers' = [operandBuffers EXCEPT ![c][b].multStageCounter = @ - 1]
  /\ UNCHANGED <<link, downBuffers, upBuffers, vault, flowTable, freeOperandBufIDs,
                 responseQ, host, memory, reading>>

MultStart(c, b) ==
  /\ operandBuffers[c][b].ready /\ Opcode(c, b) = "MAC"
  /\ operandBuffers[c][b].multStageCounter = numMultStages
  /\ multPipeOccupancy[c] < numMultStages
  /\ multPipeOccupancy' = [multPipeOccupancy EXCEPT ![c] = @ + 1]
  /\ operandBuffers' = [operandBuffers EXCEPT ![c][b].multStageCounter = @ - 1]
  /\ UNCHANGED <<link, downBuffers, upBuffers, vault, flowTable, freeOperandBufIDs,
                 responseQ, host, memory, reading>>

(* Mutant: an operand that leaves the pipeline is not released.            *)
MultStepAgain(c, b) ==
  /\ operandBuffers[c][b].ready /\ Opcode(c, b) = "MAC"
  /\ operandBuffers[c][b].multStageCounter < numMultStages
  /\ multPipeOccupancy' = [multPipeOccupancy EXCEPT ![c] = @ - 1]
  /\ operandBuffers' = [operandBuffers EXCEPT ![c][b].multStageCounter = numMultStages]
  /\ UNCHANGED <<link, downBuffers, upBuffers, vault, flowTable, freeOperandBufIDs,
                 responseQ, host, memory, reading>>

MultStep(c, b) ==
  /\ operandBuffers[c][b].ready /\ Opcode(c, b) = "MAC"
  /\ operandBuffers[c][b].multStageCounter < numMultStages
  /\ IF operandBuffers[c][b].multStageCounter > 1
     THEN /\ operandBuffers' = [operandBuffers EXCEPT ![c][b].multStageCounter = @ - 1]
          /\ UNCHANGED <<flowTable, freeOperandBufIDs, multPipeOccupancy>>
     ELSE /\ Reduce(c, b)
          /\ multPipeOccupancy' = [multPipeOccupancy EXCEPT ![c] = @ - 1]
  /\ UNCHANGED <<link, downBuffers, upBuffers, vault, responseQ, host, memory, reading>>

(* The response to the parent, the partial result added to the target and  *)
(* the entry freed.                                                        *)
Commit(c, f) ==
  /\ LET up == flowTable[c][f].parent
     IN  SendUp(c, NextLink[c][up],
                [cmd |-> "GET", flow |-> f, src |-> c, dest |-> up, home |-> c,
                 op |-> 0, buf |-> NoBuf], upBuffers)
  /\ memory' = [memory EXCEPT ![f] = @ + flowTable[c][f].result]
  /\ flowTable' = [flowTable EXCEPT ![c][f] = NoEntry(c)]
  /\ UNCHANGED <<link, downBuffers, vault, operandBuffers, freeOperandBufIDs,
                 multPipeOccupancy, host, reading>>

(* Mutants: the answer does not wait for the gather; it does not wait for  *)
(* the operands.                                                           *)
GatherReplyUnasked(c, f) ==
  /\ flowTable[c][f].valid
  /\ flowTable[c][f].req_count = flowTable[c][f].rep_count
  /\ Commit(c, f)

GatherReplyEarly(c, f) ==
  /\ flowTable[c][f].valid /\ flowTable[c][f].g_flag
  /\ \A n \in Links : flowTable[c][f].children_count[n] = 0
  /\ Commit(c, f)

(* A cube that was told to gather and has everything answers its parent.   *)
GatherReply(c, f) ==
  /\ flowTable[c][f].valid /\ flowTable[c][f].g_flag
  /\ flowTable[c][f].req_count = flowTable[c][f].rep_count
  /\ Commit(c, f)

-----------------------------------------------------------------------------
(***************************************************************************)
(* Host ports.  A host sends the updates of a flow, then the gather, and   *)
(* waits for its answer before it reuses the flow.  An update names the    *)
(* cubes of its operands; a gather follows at least one update.            *)
(***************************************************************************)
HostSend(x, p) ==
  LET r == Root[x]  h == NextLink[r][r]
  IN  /\ Len(link[r][h]) < LinkCap
      /\ link' = [link EXCEPT ![r][h] = Append(@, p)]

HostPacket(cmd, x, d1, d2, n) ==
  [cmd |-> cmd, flow |-> x, src |-> Root[x], dest |-> d1, dest1 |-> d1, dest2 |-> d2,
   half |-> 0, buf |-> NoBuf, lines |-> n]

HostUpdate(f) ==
  /\ host[f].phase = "update"
  /\ \E n \in 1..MaxLines, d1, d2 \in OperandCubes :
       /\ host[f].issued + n <= MaxUpdates
       /\ FlowOp[f] = "ADD" => d1 = d2
       /\ HostSend(f, HostPacket(IF FlowOp[f] = "ADD" THEN "ADD" ELSE "MULT", f, d1, d2, n))
       /\ host' = [host EXCEPT ![f].issued = @ + n]
  /\ UNCHANGED <<downBuffers, upBuffers, vault, flowTable, operandBuffers,
                 freeOperandBufIDs, multPipeOccupancy, responseQ, memory, reading>>

HostGather(f) ==
  /\ host[f].phase = "update" /\ host[f].issued > 0
  /\ HostSend(f, HostPacket("GET", f, Root[f], Root[f], 1))
  /\ host' = [host EXCEPT ![f].phase = "gather"]
  /\ UNCHANGED <<downBuffers, upBuffers, vault, flowTable, operandBuffers,
                 freeOperandBufIDs, multPipeOccupancy, responseQ, memory, reading>>

HostRead(t) ==
  /\ t \notin reading
  /\ \E d \in OperandCubes : HostSend(t, HostPacket("RD", t, d, d, 1))
  /\ reading' = reading \cup {t}
  /\ UNCHANGED <<downBuffers, upBuffers, vault, flowTable, operandBuffers,
                 freeOperandBufIDs, multPipeOccupancy, responseQ, host, memory>>

(* The answer of a gather ends the round: memory then counts the next one. *)
HostReceive ==
  /\ \E r \in responseQ :
       /\ responseQ' = responseQ \ {r}
       /\ IF r.cmd = "GET"
          THEN /\ host' = [host EXCEPT ![r.flow] = [phase |-> "update", issued |-> 0]]
               /\ memory' = [memory EXCEPT ![r.flow] = 0]
               /\ UNCHANGED reading
          ELSE reading' = reading \ {r.flow} /\ UNCHANGED <<host, memory>>
  /\ UNCHANGED <<link, downBuffers, upBuffers, vault, flowTable, operandBuffers,
                 freeOperandBufIDs, multPipeOccupancy>>

-----------------------------------------------------------------------------
RequestStep(c, l, i, p) ==
  \/ AddLocal(c, l, i, p)      \/ AddForward(c, l, i, p)
  \/ MultLocal(c, l, i, p)     \/ MultHalfLocal(c, l, i, p)
  \/ MultSplit(c, l, i, p)     \/ MultForward(c, l, i, p)
  \/ MultHalfForward(c, l, i, p)
  \/ GetReplicate(c, l, i, p)  \/ GetMark(c, l, i, p)
  \/ Forward(c, l, i, p)       \/ ReadLocal(c, l, i, p)

ResponseStep(c, p, r) ==
  OperandReturn(c, p, r) \/ ChildReply(c, p, r) \/ ForwardResponse(c, p, r)

ComputeStep(c, b) == AddFinish(c, b) \/ MultStart(c, b) \/ MultStep(c, b)

Network ==
  \/ \E c \in Cubes, l \in Links : Deliver(c, l)
  \/ \E c \in Cubes, l \in Links : \E i \in DOMAIN downBuffers[c][l] :
       RequestStep(c, l, i, downBuffers[c][l][i])
  \/ \E c \in Cubes : VaultReturn(c)
  \/ \E c \in Cubes, p \in Ports : \E r \in upBuffers[c][p] : ResponseStep(c, p, r)
  \/ \E c \in Cubes, b \in Bufs : ComputeStep(c, b)
  \/ \E c \in Cubes, f \in Flows : GatherReply(c, f)
  \/ HostReceive

Host ==
  \/ \E f \in Flows : HostUpdate(f) \/ HostGather(f)
  \/ \E t \in Reads : HostRead(t)

Next == Network \/ Host

Spec == Init /\ [][Next]_vars

(* Every component is updated in every clock cycle, so the network never   *)
(* stops while one of its steps is possible; a host may stop sending.      *)
FairSpec == Spec /\ WF_vars(Network)
-----------------------------------------------------------------------------
(***************************************************************************)
(* Properties.                                                             *)
(***************************************************************************)

(* Every variable has its type.                                            *)
TypeOK ==
  /\ link \in [Cubes -> [Links -> Seq(Request)]]
  /\ downBuffers \in [Cubes -> [Links -> Seq(Request)]]
  /\ upBuffers \in [Cubes -> [Ports -> SUBSET Response]]
  /\ vault \in [Cubes -> SUBSET Response]
  /\ flowTable \in [Cubes -> [Flows -> FlowEntry]]
  /\ operandBuffers \in [Cubes -> [Bufs -> OperandEntry]]
  /\ freeOperandBufIDs \in [Cubes -> SUBSET Bufs]
  /\ multPipeOccupancy \in [Cubes -> Int]
  /\ responseQ \in SUBSET Response
  /\ host \in [Flows -> [phase : {"update", "gather"}, issued : Nat]]
  /\ memory \in [Flows -> Nat]
  /\ reading \in SUBSET Reads

Reserved(c, f) == {b \in Bufs : operandBuffers[c][b].flowID = f}

Outstanding(e) ==
  e.children_count[0] + e.children_count[1] + e.children_count[2] + e.children_count[3]

(* Everything a cube has counted for a flow (req_count) is reduced         *)
(* (rep_count), or holds one of its operand buffers, or was sent to a      *)
(* child that has not answered.  So req_count = rep_count, the condition   *)
(* of the gather response (CrossbarSwitch.cpp:1023), means that nothing of *)
(* the flow is left at the cube or below it.                               *)
CountsBalance ==
  \A c \in Cubes, f \in Flows :
    flowTable[c][f].req_count = flowTable[c][f].rep_count + Cardinality(Reserved(c, f))
                                  + Outstanding(flowTable[c][f])

(* The free list is exactly the operand buffers no flow holds, and these   *)
(* are clean (the assertions before a reservation, CrossbarSwitch.cpp:348);*)
(* the occupancy of the multiplier counts the buffers inside it and never  *)
(* exceeds its depth.                                                      *)
InPipe(c) == {b \in Bufs : operandBuffers[c][b].multStageCounter # numMultStages}

BuffersSound ==
  \A c \in Cubes :
    /\ freeOperandBufIDs[c] = Reserved(c, NoFlow)
    /\ \A b \in freeOperandBufIDs[c] : operandBuffers[c][b] = FreeOperand
    /\ multPipeOccupancy[c] = Cardinality(InPipe(c))
    /\ multPipeOccupancy[c] <= numMultStages

(* An entry that is not in the table is the empty one, and whatever is in  *)
(* the multiplier belongs to a flow that multiplies: the opcode of a flow  *)
(* does not change while one of its operands is being processed.           *)
EntriesSound ==
  \A c \in Cubes :
    /\ \A f \in Flows : ~flowTable[c][f].valid => flowTable[c][f] = NoEntry(c)
    /\ \A b \in InPipe(c) : /\ operandBuffers[c][b].flowID # NoFlow
                            /\ Opcode(c, b) = "MAC"

(* Requests and responses under way for operand k of buffer b of cube c.   *)
(* A request for one line belongs to the cube in SRCCUB; one that still    *)
(* covers several lines is in the buffer of the cube that split it.        *)
AsksFor(x, q, c, b, k) ==
  q.half = k /\ q.buf = b /\ c = IF q.lines = 1 THEN q.src ELSE x

Carriers(c, b, k) ==
  (UNION {{<<"vault", x, r>> : r \in {r \in vault[x] : r.dest = c /\ r.buf = b /\ r.op = k}}
           : x \in Cubes})
  \cup (UNION {{<<"up", z, r>> : r \in {r \in upBuffers[z[1]][z[2]] :
                                        r.dest = c /\ r.buf = b /\ r.op = k}}
           : z \in Cubes \X Ports})
  \cup (UNION {{<<"link", z, i>> : i \in {i \in DOMAIN link[z[1]][z[2]] :
                                          AsksFor(z[1], link[z[1]][z[2]][i], c, b, k)}}
           : z \in Cubes \X Links})
  \cup (UNION {{<<"down", z, i>> : i \in {i \in DOMAIN downBuffers[z[1]][z[2]] :
                                          AsksFor(z[1], downBuffers[z[1]][z[2]][i], c, b, k)}}
           : z \in Cubes \X Links})

Awaits(c, b, k) ==
  LET o == operandBuffers[c][b]
  IN  /\ o.flowID # NoFlow
      /\ IF k = 1 THEN ~o.op1_ready ELSE ~o.op2_ready /\ FlowOp[o.flowID] = "MAC"

(* Each operand a reserved buffer waits for is under way exactly once, as  *)
(* a request, a vault access or a response, wherever in the network; no    *)
(* operand is fetched twice or for a buffer that was released and reused.  *)
OperandsInFlight ==
  \A c \in Cubes, b \in Bufs, k \in 1..2 :
    Cardinality(Carriers(c, b, k)) = IF Awaits(c, b, k) THEN 1 ELSE 0

(* An operand is read in the cube that holds its address: the vault that   *)
(* serves a request belongs to the cube DESTCUB1 or DESTCUB2 names.        *)
OperandAtHome == \A c \in Cubes : \A r \in vault[c] : r.home = c

(* The whole updates of f between a cube and the far end d of its link.    *)
UpdatesTo(d, q, f) ==
  \E s \in {link[d][q], downBuffers[d][q]} : \E i \in DOMAIN s :
    s[i].cmd \in {"ADD", "MULT"} /\ s[i].half = 0 /\ s[i].flow = f

(* The flow tables of all cubes form a tree: a cube counts a child exactly *)
(* while an update of the flow is on its way to it, or the child has an    *)
(* entry whose parent it is, or the child's gather response is on its way  *)
(* back.  No subtree is cut off and none is waited for that does not exist.*)
TreeEdges ==
  \A c \in Cubes, f \in Flows, n \in Links :
    LET d == neighborCubeID[c][n]  q == PeerLink[c][n]
    IN  d # c =>
        ((flowTable[c][f].children_count[n] > 0) <=>
           \/ UpdatesTo(d, q, f) /\ ParentLink[d][Root[f]] = q
           \/ flowTable[d][f].valid /\ flowTable[d][f].parent = c
           \/ \E r \in upBuffers[c][n] : r.cmd = "GET" /\ r.flow = f /\ r.src = d)

(* The assertions of CrossbarSwitch::Update: a gather in order finds its   *)
(* entry (567), no update of the flow is behind it (DEBUG_VERIFY, 555-563);*)
(* an update agrees with the entry on the parent (342); a response finds   *)
(* the operand buffer or the entry it is for (190-193, 235); the rest of a *)
(* page is read here only if both operands are (517).                      *)
RequestAsserts(c, s) ==
  \A i \in DOMAIN s :
    /\ s[i].cmd = "GET" /\ s[i].dest = c =>
         /\ (\A j \in 1..(i-1) : s[j].cmd \in {"GET", "RD"} \/ s[j].flow # s[i].flow)
              => flowTable[c][s[i].flow].valid
         /\ \A j \in (i+1)..Len(s) : s[j].cmd \in {"GET", "RD"} \/ s[j].flow # s[i].flow
    /\ s[i].cmd \in {"ADD", "MULT"} /\ s[i].half = 0 /\ flowTable[c][s[i].flow].valid =>
         flowTable[c][s[i].flow].parent = neighborCubeID[c][ParentLink[c][s[i].src]]
    /\ s[i].half # 0 /\ s[i].lines > 1 /\ IsHere(c, s[i]) => s[i].dest1 = s[i].dest2

OperandsExpected ==
  \A c \in Cubes, p \in Ports : \A r \in upBuffers[c][p] :
    IsOperand(c, r) => r.dest = c /\ Expected(c, r)

AssertsHold ==
  /\ \A c \in Cubes, l \in Links : RequestAsserts(c, downBuffers[c][l])
  /\ OperandsExpected
  /\ \A c \in Cubes, p \in Ports : \A r \in upBuffers[c][p] :
       IsChildReply(c, r) => flowTable[c][r.flow].valid

(* When the host has the answer of its gather, the target holds every      *)
(* update it sent, and no cube has an entry, an operand buffer or a packet *)
(* of the flow left.                                                       *)
GatherExact ==
  \A a \in responseQ : a.cmd = "GET" =>
    /\ memory[a.flow] = host[a.flow].issued
    /\ \A c \in Cubes :
         /\ ~flowTable[c][a.flow].valid /\ Reserved(c, a.flow) = {}
         /\ \A l \in Links : \A s \in {link[c][l], downBuffers[c][l]} :
              \A i \in DOMAIN s : s[i].flow # a.flow
         /\ \A r \in vault[c] \cup UNION {upBuffers[c][p] : p \in Ports} : r.flow # a.flow

(* Once the gather has reached a cube, no more updates of the flow are     *)
(* counted there: a parent credits a child with all it ever sent it        *)
(* (CrossbarSwitch.cpp:237-239), so a late update would be answered for    *)
(* before it is reduced.                                                   *)
NoLateUpdate ==
  [][\A c \in Cubes, f \in Flows :
       flowTable[c][f].g_flag /\ flowTable'[c][f].valid
         => flowTable'[c][f].req_count = flowTable[c][f].req_count]_vars

(* A cube gives up the entry of a flow (flowTable.erase) only when none of *)
(* its operand buffers is held for the flow and no child owes an answer.   *)
ReplyComplete ==
  [][\A c \in Cubes, f \in Flows :
       flowTable[c][f].valid /\ ~flowTable'[c][f].valid
         => /\ Reserved(c, f) = {}
            /\ \A n \in Links : flowTable[c][f].children_count[n] = 0]_vars

(* The network as a whole is one reduction per flow: whatever cubes share  *)
(* the work, an answered gather stands for the sum of all updates before   *)
(* it.  (The target is looked at when the host has the response; until     *)
(* then the cubes add to it in any order.)                                 *)
Answered(f) == \E a \in responseQ : a.cmd = "GET" /\ a.flow = f

Red == INSTANCE Reduction WITH
       phase  <- [f \in Flows |-> IF Answered(f) THEN "answered" ELSE host[f].phase],
       issued <- [f \in Flows |-> host[f].issued],
       total  <- [f \in Flows |-> IF Answered(f) THEN memory[f] ELSE 0]

IsReduction == Red!Spec

(* Every read a host waits for is in exactly one place: a link, a buffer,  *)
(* a vault or the response queue; ordinary traffic that shares links and   *)
(* buffers with updates is neither lost nor answered twice.                *)
PlacesOf(t) ==
  (UNION {{<<"vault", x, r>> : r \in {r \in vault[x] : r.flow = t}} : x \in Cubes})
  \cup (UNION {{<<"up", z, r>> : r \in {r \in upBuffers[z[1]][z[2]] : r.flow = t}}
           : z \in Cubes \X Ports})
  \cup (UNION {{<<"link", z, i>> : i \in {i \in DOMAIN link[z[1]][z[2]] :
                                          link[z[1]][z[2]][i].flow = t}}
           : z \in Cubes \X Links})
  \cup (UNION {{<<"down", z, i>> : i \in {i \in DOMAIN downBuffers[z[1]][z[2]] :
                                          downBuffers[z[1]][z[2]][i].flow = t}}
           : z \in Cubes \X Links})
  \cup {<<"host", r>> : r \in {r \in responseQ : r.flow = t}}

ReadInFlight ==
  \A t \in Reads : Cardinality(PlacesOf(t)) = IF t \in reading THEN 1 ELSE 0

(* Every gather is answered.                                               *)
GatherAnswered ==
  \A f \in Flows : (host[f].phase = "gather") ~> (host[f].phase = "update")
=============================================================================
