--------------------------- MODULE LinkFlowControl --------------------------
(***************************************************************************)
(* The two links between two neighbours (cube and cube, or host controller *)
(* and cube): at each end a link master, which sends, and a link slave,    *)
(* which receives (CasHMC LinkMaster.cpp, LinkSlave.cpp, Link.cpp).        *)
(* Tokens stand for room in the far slave, one count for requests and one  *)
(* for responses; they come back embedded in packets of the opposite       *)
(* direction or in packets of their own (TRET).  With CRC_CHECK a packet   *)
(* stays in the retry buffer until the far slave has acknowledged it (RRP),*)
(* and a corrupted one starts a retry: the slave asks for it with IRTRY 1, *)
(* the far master announces it with IRTRY 2 and sends again.               *)
(*                                                                         *)
(* Each method of LinkMaster is an operator from the state of a master to  *)
(* its next state.  A packet of n flits occupies n places of a buffer, the *)
(* last n - 1 of them NULL; here a buffer is the sequence of its packets.  *)
(***************************************************************************)
EXTENDS Integers, Sequences, SequencesExt

CONSTANTS
  Requests, Responses,   \* packets, by their TAG
  Gathers,               \* the requests that are ACT_GET
  LNG,                   \* LNG[d]: flits of a packet
  Sends,                 \* Sends[e]: the packets that end e has to send
  MAX_LINK_BUF, MAX_RETRY_BUF,
  MaxSEQ,                \* 7: the last value that a sequence number counts up to
  NUM_OF_IRTRY, RETRY_ATTEMPT_LIMIT,
  CRC_CHECK,
  NoisyLinks,            \* ends whose link can corrupt a packet
  MaxNoise,              \* bound: corrupted packets
  NULL

Data == Requests \cup Responses
FlowCMD == {"TRET", "PRET", "IRTRY"}   \* commands of flow packets
Kinds == {"down", "up"}                \* requests travel down, responses up
Ends == {0, 1}
Peer(e) == 1 - e

Packets ==
  [packetType : {"REQUEST", "RESPONSE", "FLOW"}, CMD : Data \cup FlowCMD,
   LNG : 1..MAX_LINK_BUF, SEQ : Nat, RRP : Nat, FRP : Nat, URTC : Nat, DRTC : Nat,
   CRC : BOOLEAN]

ASSUME LinkAssumption ==
  /\ Requests \cap Responses = {} /\ Gathers \subseteq Requests
  /\ Data \cap FlowCMD = {} /\ NULL \notin Packets
  /\ MAX_LINK_BUF \in Nat \ {0} /\ MAX_RETRY_BUF \in Nat \ {0}
  /\ LNG \in [Data -> 1..MAX_LINK_BUF]
  /\ Sends \in [Ends -> SUBSET Data] /\ Sends[0] \cap Sends[1] = {}
  /\ MaxSEQ \in Nat \ {0} /\ NUM_OF_IRTRY \in Nat \ {0} /\ RETRY_ATTEMPT_LIMIT \in Nat \ {0}
  /\ CRC_CHECK \in BOOLEAN /\ NoisyLinks \subseteq Ends /\ MaxNoise \in Nat

VARIABLES
  master,           \* master[e]: the LinkMaster of end e
  inFlightPacket,   \* inFlightPacket[e]: on the link from e to its peer
  slave,            \* slave[e]: the LinkSlave of end e
  noise,            \* packets corrupted so far
  pending           \* history: pending[e][k], what master e took of kind k and slave
                    \* Peer(e) has not

vars == <<master, inFlightPacket, slave, noise, pending>>

-----------------------------------------------------------------------------
(* Packets.                                                                *)

Packet(type, cmd, lng) ==
  [packetType |-> type, CMD |-> cmd, LNG |-> lng, SEQ |-> 0, RRP |-> 0, FRP |-> 0,
   URTC |-> 0, DRTC |-> 0, CRC |-> TRUE]

(* Mutant: the tokens of an earlier link stay in the packet.               *)
ReadyPacketStale(d) ==
  [Packet(IF d \in Requests THEN "REQUEST" ELSE "RESPONSE", d, LNG[d]) EXCEPT !.DRTC = 1]

(* A packet as it is handed to a link master: the fields that an earlier   *)
(* link used are cleared.                                                  *)
ReadyPacket(d) == Packet(IF d \in Requests THEN "REQUEST" ELSE "RESPONSE", d, LNG[d])

IRTRY(flag, rrp) ==
  [k \in 1..NUM_OF_IRTRY |-> [Packet("FLOW", "IRTRY", 1) EXCEPT !.FRP = flag, !.RRP = rrp]]

Total(s) == FoldLeft(LAMBDA n, k : n + k, 0, s)

Flits(buf) == Total([i \in DOMAIN buf |-> buf[i].LNG])

KindOf(p) == IF p.packetType = "REQUEST" THEN "down" ELSE "up"

-----------------------------------------------------------------------------
(* LinkMaster.                                                             *)

NewMaster ==
  [upBuffers |-> <<>>, downBuffers |-> <<>>, backupBuffers |-> <<>>, linkRxTx |-> <<>>,
   upTokenCount |-> MAX_LINK_BUF, downTokenCount |-> MAX_LINK_BUF,
   masterSEQ |-> 0, currentState |-> "NORMAL", lastestRRP |-> 0,
   retryBuffers |-> [i \in 0..MAX_RETRY_BUF-1 |-> NULL], retBufReadP |-> 0, retBufWriteP |-> 0,
   retryStartPacket |-> FALSE, readyStartRetry |-> FALSE, startRetryTimer |-> FALSE,
   retryAttempts |-> 1]

(* Slots of the retry buffer from place a up to, not including, place b.   *)
Slots(a, b) == [k \in 1..((b - a) % MAX_RETRY_BUF) |-> (a + k - 1) % MAX_RETRY_BUF]

Cleared(M, slots) ==
  [i \in DOMAIN M.retryBuffers |-> IF i \in ToSet(slots) THEN NULL ELSE M.retryBuffers[i]]

(* Without CRC_CHECK the retry buffer is never written, and nothing reads  *)
(* its pointers.                                                           *)
UpdateRetryPointer(M, p) ==
  IF CRC_CHECK
    THEN [M EXCEPT !.retryBuffers = Cleared(M, Slots(M.retBufReadP, p.RRP)),
                   !.retBufReadP = p.RRP]
    ELSE M

(* A packet that waits will carry the pointer: UpdateField writes it.      *)
ReturnRetryPointer(M, p) ==
  [M EXCEPT !.lastestRRP = p.FRP,
            !.linkRxTx = IF M.upBuffers = <<>> /\ M.downBuffers = <<>>
                           THEN Append(@, [Packet("FLOW", "PRET", 1) EXCEPT !.RRP = p.FRP])
                           ELSE @]

UpdateToken(M, p) ==
  [M EXCEPT !.downTokenCount = @ + p.DRTC, !.upTokenCount = @ + p.URTC]

Embedded(buf, d, u) == [buf EXCEPT ![1].DRTC = @ + d, ![1].URTC = @ + u]

(* startCRC never matters: the master that computes a CRC has a packet to  *)
(* embed the tokens in, unless that packet is itself a TRET.               *)
ReturnToken(M, p) ==
  LET d == IF p.packetType = "REQUEST" THEN p.LNG ELSE 0
      u == p.LNG - d
      findUpPacket == M.upBuffers # <<>> /\ M.upBuffers[1].LNG <= M.upTokenCount
      findDownPacket == M.downBuffers # <<>> /\ M.downBuffers[1].LNG <= M.downTokenCount
      TRET == [Packet("FLOW", "TRET", 1) EXCEPT !.DRTC = d, !.URTC = u]
  IN  CASE findUpPacket ->
             [M EXCEPT !.upBuffers = Embedded(@, d, u)]
        [] ~findUpPacket /\ findDownPacket ->
             [M EXCEPT !.downBuffers = Embedded(@, d, u)]
        [] OTHER ->
             IF M.currentState = "LINK_RETRY"
               THEN [M EXCEPT !.backupBuffers = Append(@, TRET)]
               ELSE [M EXCEPT !.upBuffers = <<TRET>> \o @]

(* Mutant: the timer is not started.                                       *)
StartRetryUntimed(M) ==
  IF M.currentState = "LINK_RETRY"
    THEN [M EXCEPT !.readyStartRetry = TRUE]
    ELSE [M EXCEPT !.linkRxTx = IRTRY(1, M.lastestRRP) \o @, !.currentState = "START_RETRY"]

StartRetry(M) ==
  LET N == [M EXCEPT !.startRetryTimer = TRUE]
  IN  IF M.currentState = "LINK_RETRY"
        THEN [N EXCEPT !.readyStartRetry = TRUE]
        ELSE [N EXCEPT !.linkRxTx = IRTRY(1, M.lastestRRP) \o @, !.currentState = "START_RETRY"]

(* What LinkRetry exits without.                                           *)
CanRetry(M) == M.retBufReadP # M.retBufWriteP /\ M.retryBuffers[M.retBufReadP] # NULL

(* Mutant: the last packet first.                                          *)
SavedLast(M, slots) ==
  Reverse(SelectSeq([k \in DOMAIN slots |-> M.retryBuffers[slots[k]]], LAMBDA p : p # NULL))

Saved(M, slots) ==
  SelectSeq([k \in DOMAIN slots |-> M.retryBuffers[slots[k]]], LAMBDA p : p # NULL)

LinkRetry(M) ==
  LET slots == Slots(M.retBufReadP, M.retBufWriteP)
      requests == SelectSeq(Saved(M, slots), LAMBDA p : p.packetType = "REQUEST")
      others == SelectSeq(Saved(M, slots), LAMBDA p : p.packetType # "REQUEST")
  IN  [M EXCEPT
         !.linkRxTx = @ \o IRTRY(2, M.lastestRRP),
         !.masterSEQ = 0,
         !.backupBuffers = @ \o M.upBuffers \o M.downBuffers,
         !.upBuffers = others,
         !.downBuffers = requests,
         !.upTokenCount = @ + Flits(SelectSeq(others, LAMBDA p : p.packetType # "FLOW")),
         !.downTokenCount = @ + Flits(requests),
         !.retryBuffers = Cleared(M, slots),
         !.retBufWriteP = M.retBufReadP,
         !.currentState = "LINK_RETRY"]

(* Mutant: the error that started the retry is not forgotten.              *)
FinishRetryAgain(M) ==
  [M EXCEPT !.currentState = "NORMAL", !.retryAttempts = 1, !.startRetryTimer = FALSE]

FinishRetry(M) ==
  [M EXCEPT !.currentState = "NORMAL", !.retryStartPacket = FALSE,
            !.retryAttempts = 1, !.startRetryTimer = FALSE]

(* Mutants: tokens are not looked at; off by one.                          *)
CanSendBlind(M, p, tokens) ==
  /\ M.linkRxTx = <<>>
  /\ CRC_CHECK => ((M.retBufWriteP - M.retBufReadP) % MAX_RETRY_BUF) + p.LNG < MAX_RETRY_BUF

CanSendStrict(M, p, tokens) ==
  /\ CanSendBlind(M, p, tokens)
  /\ p.packetType = "FLOW" \/ tokens > p.LNG

(* The condition under which Update sends the first packet of a buffer.    *)
CanSend(M, p, tokens) ==
  /\ M.linkRxTx = <<>>
  /\ p.packetType = "FLOW" \/ tokens >= p.LNG
  /\ CRC_CHECK => ((M.retBufWriteP - M.retBufReadP) % MAX_RETRY_BUF) + p.LNG < MAX_RETRY_BUF

CanSendUp(M) == M.upBuffers # <<>> /\ CanSend(M, M.upBuffers[1], M.upTokenCount)

(* The packet gets its sequence number and retry pointers, takes its       *)
(* tokens, and leaves its buffer for linkRxTx.  From MaxSEQ on the         *)
(* sequence number is 0.                                                   *)
UpdateField(M, p) ==
  LET frp == IF CRC_CHECK THEN (M.retBufWriteP + p.LNG) % MAX_RETRY_BUF ELSE 0
      q == [p EXCEPT !.SEQ = IF M.masterSEQ < MaxSEQ THEN M.masterSEQ ELSE 0,
                     !.RRP = M.lastestRRP, !.FRP = frp, !.CRC = TRUE]
  IN  [M EXCEPT
         !.masterSEQ = IF @ < MaxSEQ THEN @ + 1 ELSE @,
         !.downTokenCount = IF p.packetType = "REQUEST" THEN @ - p.LNG ELSE @,
         !.upTokenCount = IF p.packetType = "RESPONSE" THEN @ - p.LNG ELSE @,
         !.retryBuffers = IF CRC_CHECK THEN [@ EXCEPT ![M.retBufWriteP] = q] ELSE @,
         !.retBufWriteP = frp,
         !.linkRxTx = Append(@, q),
         !.downBuffers = IF p.packetType = "REQUEST" THEN Tail(@) ELSE @,
         !.upBuffers = IF p.packetType = "REQUEST" THEN @ ELSE Tail(@)]

-----------------------------------------------------------------------------
NewSlave ==
  [linkRxTx |-> <<>>, upBuffers |-> <<>>, downBuffers |-> <<>>, slaveSEQ |-> 0,
   currentState |-> "NORMAL"]

Init ==
  /\ master = [e \in Ends |-> NewMaster]
  /\ inFlightPacket = [e \in Ends |-> NULL]
  /\ slave = [e \in Ends |-> NewSlave]
  /\ noise = 0
  /\ pending = [e \in Ends |-> [k \in Kinds |-> <<>>]]

Tags(buf) == {buf[i].CMD : i \in DOMAIN buf}

Pending(e) == ToSet(pending[e]["down"]) \cup ToSet(pending[e]["up"])

(* A switch or a controller hands a packet to the master, which takes none *)
(* while it sends again.  A tag is not used for two packets at a time.     *)
Accept(e, d) ==
  LET M == master[e]
      buf == IF d \in Requests THEN M.downBuffers ELSE M.upBuffers
  IN  /\ d \notin Pending(e)
      /\ d \notin Tags(slave[Peer(e)].upBuffers \o slave[Peer(e)].downBuffers)
      /\ M.currentState # "LINK_RETRY"
      /\ Flits(buf) + LNG[d] <= MAX_LINK_BUF
      /\ master' = IF d \in Requests
                     THEN [master EXCEPT ![e].downBuffers = Append(@, ReadyPacket(d))]
                     ELSE [master EXCEPT ![e].upBuffers = Append(@, ReadyPacket(d))]
      /\ pending' = [pending EXCEPT ![e][KindOf(ReadyPacket(d))] = Append(@, d)]
      /\ UNCHANGED <<inFlightPacket, slave, noise>>

(* LinkMaster::Update: responses and flow packets first.                   *)
SendUp(e) ==
  /\ CanSendUp(master[e])
  /\ master' = [master EXCEPT ![e] = UpdateField(@, @.upBuffers[1])]
  /\ UNCHANGED <<inFlightPacket, slave, noise, pending>>

SendDown(e) ==
  LET M == master[e]
  IN  /\ ~CanSendUp(M)
      /\ M.downBuffers # <<>> /\ CanSend(M, M.downBuffers[1], M.downTokenCount)
      /\ master' = [master EXCEPT ![e] = UpdateField(M, M.downBuffers[1])]
      /\ UNCHANGED <<inFlightPacket, slave, noise, pending>>

(* All saved packets have been sent again: what waited comes back, and a   *)
(* retry of the opposite direction that waited is started.                 *)
EndLinkRetry(e) ==
  LET M == master[e]
  IN  /\ M.currentState = "LINK_RETRY"
      /\ M.upBuffers = <<>> /\ M.downBuffers = <<>> /\ M.linkRxTx = <<>>
      /\ master' = [master EXCEPT ![e] =
           [M EXCEPT
              !.readyStartRetry = FALSE,
              !.linkRxTx = IF M.readyStartRetry THEN IRTRY(1, M.lastestRRP) ELSE @,
              !.currentState = IF M.readyStartRetry THEN "START_RETRY" ELSE "NORMAL",
              !.upBuffers = SelectSeq(M.backupBuffers, LAMBDA p : p.packetType # "REQUEST"),
              !.downBuffers = SelectSeq(M.backupBuffers, LAMBDA p : p.packetType = "REQUEST"),
              !.backupBuffers = <<>>]]
      /\ UNCHANGED <<inFlightPacket, slave, noise, pending>>

IsIRTRY(p) == p # NULL /\ p.CMD = "IRTRY"

(* Nothing on the way that would end the retry that end e has asked for.   *)
Unanswered(e) ==
  LET f == Peer(e)
  IN  /\ ~\E i \in DOMAIN master[e].linkRxTx : IsIRTRY(master[e].linkRxTx[i])
      /\ ~\E i \in DOMAIN slave[f].linkRxTx : IsIRTRY(slave[f].linkRxTx[i])
      /\ ~\E i \in DOMAIN master[f].linkRxTx : IsIRTRY(master[f].linkRxTx[i])
      /\ ~\E i \in DOMAIN slave[e].linkRxTx : IsIRTRY(slave[e].linkRxTx[i])
      /\ ~IsIRTRY(inFlightPacket[e]) /\ ~IsIRTRY(inFlightPacket[f])
      /\ master[f].currentState # "LINK_RETRY"

(* The timer runs for longer than any answer takes.                        *)
RetryTimeout(e) ==
  LET M == master[e]
  IN  /\ M.startRetryTimer /\ Unanswered(e)
      /\ master' = [master EXCEPT ![e] =
           IF M.retryAttempts = RETRY_ATTEMPT_LIMIT
             THEN FinishRetry(M)
             ELSE StartRetry([M EXCEPT !.retryAttempts = @ + 1])]
      /\ UNCHANGED <<inFlightPacket, slave, noise, pending>>

-----------------------------------------------------------------------------
(* Link::Update: one packet at a time; a master that waits for a retry     *)
(* sends nothing but its IRTRY.                                            *)
Transmit(e) ==
  LET M == master[e]
  IN  /\ inFlightPacket[e] = NULL /\ M.linkRxTx # <<>>
      /\ M.currentState = "START_RETRY" => IsIRTRY(M.linkRxTx[1]) /\ M.linkRxTx[1].FRP = 1
      /\ inFlightPacket' = [inFlightPacket EXCEPT ![e] = M.linkRxTx[1]]
      /\ master' = [master EXCEPT ![e].linkRxTx = Tail(@)]
      /\ UNCHANGED <<slave, noise, pending>>

(* NoisePacket spares gathers; nobody looks at the CRC of PRET and IRTRY.  *)
CanCorrupt(e, p) ==
  /\ e \in NoisyLinks /\ noise < MaxNoise
  /\ p.CMD \notin Gathers \cup {"PRET", "IRTRY"}

Arrive(e) ==
  LET p == inFlightPacket[e]
  IN  /\ p # NULL
      /\ \E bad \in {b \in BOOLEAN : b => CanCorrupt(e, p)} :
           /\ slave' = [slave EXCEPT ![Peer(e)].linkRxTx = Append(@, [p EXCEPT !.CRC = ~bad])]
           /\ noise' = IF bad THEN noise + 1 ELSE noise
      /\ inFlightPacket' = [inFlightPacket EXCEPT ![e] = NULL]
      /\ UNCHANGED <<master, pending>>

-----------------------------------------------------------------------------
(* LinkSlave::Update, on the first packet that has arrived.                *)

(* Mutant: the slave counts on from 0.                                     *)
Next_SEQCyclic(s) == (s + 1) % (MaxSEQ + 1)

Next_SEQ(s) == IF s < MaxSEQ THEN s + 1 ELSE s

CheckNoError(S, p) ==
  /\ CRC_CHECK => p.CRC
  /\ p.SEQ = IF S.slaveSEQ < MaxSEQ THEN S.slaveSEQ ELSE 0

FitsIn(S, p) ==
  Flits(IF p.packetType = "REQUEST" THEN S.downBuffers ELSE S.upBuffers) + p.LNG <= MAX_LINK_BUF

(* The first IRTRY 1 makes the master send again, the first IRTRY 2 ends   *)
(* the wait of this end.                                                   *)
ReceiveIRTRY(e) ==
  LET S == slave[e]
      p == S.linkRxTx[1]
      M == UpdateRetryPointer(master[e], p)
      ends == p.FRP = 2 /\ M.currentState # "NORMAL"
  IN  /\ S.linkRxTx # <<>> /\ p.CMD = "IRTRY"
      /\ p.FRP = 1 /\ M.currentState # "LINK_RETRY" => CanRetry(M)
      /\ master' = [master EXCEPT ![e] =
           CASE p.FRP = 1 /\ M.currentState # "LINK_RETRY" -> LinkRetry(M)
             [] ends -> FinishRetry(M)
             [] OTHER -> M]
      /\ slave' = [slave EXCEPT ![e] =
           IF ends THEN [S EXCEPT !.linkRxTx = Tail(@), !.currentState = "NORMAL", !.slaveSEQ = 0]
                   ELSE [S EXCEPT !.linkRxTx = Tail(@)]]
      /\ UNCHANGED <<inFlightPacket, noise, pending>>

(* Between the error and IRTRY 2 everything else is dropped.               *)
DropPacket(e) ==
  LET S == slave[e]
  IN  /\ S.linkRxTx # <<>> /\ S.linkRxTx[1].CMD # "IRTRY"
      /\ S.currentState = "START_RETRY"
      /\ slave' = [slave EXCEPT ![e].linkRxTx = Tail(@)]
      /\ UNCHANGED <<master, inFlightPacket, noise, pending>>

ReceivePRET(e) ==
  LET S == slave[e]
  IN  /\ S.linkRxTx # <<>> /\ S.linkRxTx[1].CMD = "PRET"
      /\ S.currentState = "NORMAL"
      /\ master' = [master EXCEPT ![e] = UpdateRetryPointer(@, S.linkRxTx[1])]
      /\ slave' = [slave EXCEPT ![e].linkRxTx = Tail(@)]
      /\ UNCHANGED <<inFlightPacket, noise, pending>>

Sequenced(S) == S.linkRxTx # <<>> /\ S.linkRxTx[1].CMD \notin {"IRTRY", "PRET"}

(* Mutant: a packet passes those that wait.                                *)
StoredFirst(p, S) ==
  CASE p.CMD = "TRET" -> S
    [] p.packetType = "REQUEST" -> [S EXCEPT !.downBuffers = <<p>> \o @]
    [] p.packetType = "RESPONSE" -> [S EXCEPT !.upBuffers = <<p>> \o @]

(* ReceiveDown and ReceiveUp of the slave.                                 *)
Stored(p, S) ==
  CASE p.CMD = "TRET" -> S
    [] p.packetType = "REQUEST" -> [S EXCEPT !.downBuffers = Append(@, p)]
    [] p.packetType = "RESPONSE" -> [S EXCEPT !.upBuffers = Append(@, p)]

ReceivePacket(e) ==
  LET S == slave[e]
      p == S.linkRxTx[1]
  IN  /\ Sequenced(S) /\ S.currentState = "NORMAL"
      /\ CheckNoError(S, p)
      /\ p.CMD # "TRET" => FitsIn(S, p)
      /\ master' = [master EXCEPT ![e] =
           UpdateToken(ReturnRetryPointer(UpdateRetryPointer(@, p), p), p)]
      /\ slave' = [slave EXCEPT ![e] = Stored(p,
           [S EXCEPT !.linkRxTx = Tail(@), !.slaveSEQ = Next_SEQ(@)])]
      /\ pending' = [pending EXCEPT ![Peer(e)][KindOf(p)] = RemoveFirst(@, p.CMD)]
      /\ UNCHANGED <<inFlightPacket, noise>>

(* Error abort mode: what has arrived behind the packet is lost with it.   *)
ErrorAbort(e) ==
  LET S == slave[e]
      p == S.linkRxTx[1]
  IN  /\ Sequenced(S) /\ S.currentState = "NORMAL"
      /\ ~CheckNoError(S, p)
      /\ ~master[e].retryStartPacket
      /\ master' = [master EXCEPT ![e] =
           StartRetry([UpdateRetryPointer(@, p) EXCEPT !.retryStartPacket = TRUE])]
      /\ slave' = [slave EXCEPT ![e] =
           [S EXCEPT !.linkRxTx = <<>>, !.slaveSEQ = Next_SEQ(@), !.currentState = "START_RETRY"]]
      /\ UNCHANGED <<inFlightPacket, noise, pending>>

(* The switch or controller behind the slave takes a packet, responses     *)
(* before requests, and the room it leaves goes back as tokens.            *)
TakeUp(e) ==
  LET S == slave[e]
  IN  /\ S.upBuffers # <<>>
      /\ master' = [master EXCEPT ![e] = ReturnToken(@, S.upBuffers[1])]
      /\ slave' = [slave EXCEPT ![e].upBuffers = Tail(@)]
      /\ UNCHANGED <<inFlightPacket, noise, pending>>

TakeDown(e) ==
  LET S == slave[e]
  IN  /\ S.downBuffers # <<>>
      /\ master' = [master EXCEPT ![e] = ReturnToken(@, S.downBuffers[1])]
      /\ slave' = [slave EXCEPT ![e].downBuffers = Tail(@)]
      /\ UNCHANGED <<inFlightPacket, noise, pending>>

-----------------------------------------------------------------------------
MasterUpdate(e) == SendUp(e) \/ SendDown(e) \/ EndLinkRetry(e) \/ RetryTimeout(e)
LinkUpdate(e) == Transmit(e) \/ Arrive(e)
SlaveReceive(e) ==
  ReceiveIRTRY(e) \/ DropPacket(e) \/ ReceivePRET(e) \/ ReceivePacket(e) \/ ErrorAbort(e)

Next == \E e \in Ends :
  \/ \E d \in Sends[e] : Accept(e, d)
  \/ MasterUpdate(e) \/ LinkUpdate(e) \/ SlaveReceive(e) \/ TakeUp(e) \/ TakeDown(e)

Spec == Init /\ [][Next]_vars

(* Masters, links and slaves are updated in every cycle; what lies behind  *)
(* a slave drains.  Nobody has to send.                                    *)
FairSpec ==
  /\ Spec
  /\ \A e \in Ends :
       /\ WF_vars(MasterUpdate(e)) /\ WF_vars(LinkUpdate(e)) /\ WF_vars(SlaveReceive(e))
       /\ WF_vars(TakeUp(e)) /\ WF_vars(TakeDown(e))

-----------------------------------------------------------------------------
(* Everything that carries tokens or packets from end e to its peer.       *)
OnTheWay(e) ==
  slave[Peer(e)].linkRxTx
    \o (IF inFlightPacket[e] = NULL THEN <<>> ELSE <<inFlightPacket[e]>>) \o master[e].linkRxTx

Carrying(e) == master[e].upBuffers \o master[e].downBuffers \o OnTheWay(e)

(* Type correctness.                                                       *)
TypeOK ==
  /\ \A e \in Ends :
       /\ master[e].upTokenCount \in 0..MAX_LINK_BUF /\ master[e].downTokenCount \in 0..MAX_LINK_BUF
       /\ master[e].masterSEQ \in 0..MaxSEQ /\ slave[e].slaveSEQ \in 0..MaxSEQ
       /\ master[e].currentState \in {"NORMAL", "START_RETRY", "LINK_RETRY"}
       /\ slave[e].currentState \in {"NORMAL", "START_RETRY"}
       /\ inFlightPacket[e] \in Packets \cup {NULL}
       /\ Pending(e) \subseteq Sends[e]
  /\ noise \in 0..MaxNoise

(* No token is lost or made: for each kind of packet, the count of the     *)
(* master, the flits on the way, the flits in the far slave and the tokens *)
(* on their way back add up to the size of the slave's buffer              *)
(* (UpdateField, UpdateToken, ReturnToken; without retry).                 *)
FlitsOf(type, buf) ==
  Total([i \in DOMAIN buf |-> IF buf[i].packetType = type THEN buf[i].LNG ELSE 0])

TokensConserved ==
  \A e \in Ends :
    LET back == Carrying(Peer(e))
    IN  /\ master[e].downTokenCount + FlitsOf("REQUEST", OnTheWay(e))
             + Flits(slave[Peer(e)].downBuffers)
             + Total([i \in DOMAIN back |-> back[i].DRTC]) = MAX_LINK_BUF
        /\ master[e].upTokenCount + FlitsOf("RESPONSE", OnTheWay(e))
             + Flits(slave[Peer(e)].upBuffers)
             + Total([i \in DOMAIN back |-> back[i].URTC]) = MAX_LINK_BUF

(* None of the error exits of master and slave is ever due: a slave has    *)
(* room for the packet it accepts, no token count passes its maximum, a    *)
(* retry that is asked for finds its packet, no retry starts within one.   *)
NoExit ==
  \A e \in Ends :
    LET M == master[e]
        S == slave[e]
        p == S.linkRxTx[1]
    IN  S.linkRxTx # <<>> =>
          IF p.CMD = "IRTRY"
            THEN p.FRP = 1 /\ M.currentState # "LINK_RETRY" => CanRetry(UpdateRetryPointer(M, p))
            ELSE S.currentState = "NORMAL" /\ Sequenced(S) =>
                   IF CheckNoError(S, p)
                     THEN /\ p.CMD # "TRET" => FitsIn(S, p)
                          /\ M.downTokenCount + p.DRTC <= MAX_LINK_BUF
                          /\ M.upTokenCount + p.URTC <= MAX_LINK_BUF
                     ELSE ~M.retryStartPacket

(* The sequence numbers of master and slave stay in step: a slave that is  *)
(* not in a retry refuses a packet only if the link has corrupted it, also *)
(* after the numbers have stopped counting (UpdateField, CheckNoError);    *)
(* and the packet it accepts is the first that it has not accepted yet.    *)
InStep ==
  \A e \in Ends :
    LET S == slave[e]
        p == S.linkRxTx[1]
        waiting == pending[Peer(e)][KindOf(p)]
    IN  Sequenced(S) /\ S.currentState = "NORMAL" =>
          /\ p.CRC => CheckNoError(S, p)
          /\ CheckNoError(S, p) /\ p.CMD \in Data => waiting # <<>> /\ waiting[1] = p.CMD

(* The links are four channels that keep the order of their packets, lose  *)
(* none and deliver none twice.                                            *)
Undelivered(e, kind) ==
  LET buf == IF kind = "down" THEN slave[Peer(e)].downBuffers ELSE slave[Peer(e)].upBuffers
  IN  [i \in DOMAIN buf |-> buf[i].CMD] \o pending[e][kind]

Channel == INSTANCE LinkChannel WITH
  Channels <- Ends \X Kinds, Packets <- Data,
  chan <- [k \in Ends \X Kinds |-> Undelivered(k[1], k[2])]

IsChannel == Channel!Spec

(* A packet that a master has taken reaches the other end, unless that end *)
(* sends responses or token returns for ever: the tokens it has to return  *)
(* may be embedded in a request that waits behind them (ReturnToken).  A   *)
(* request may also wait for ever behind those of its own end (Update      *)
(* serves downBuffers last).                                               *)
PacketsArrive ==
  \A e \in Ends : \A d \in Sends[e] :
    \/ d \in Pending(e) ~> d \notin Pending(e)
    \/ []<><<SendUp(Peer(e))>>_vars
    \/ d \in Requests /\ []<><<SendUp(e)>>_vars
=============================================================================
