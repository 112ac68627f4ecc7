------------------------------- MODULE Vault --------------------------------
(***************************************************************************)
(* A vault of a cube: the vault controller with its command queues, one    *)
(* per bank, and the DRAM behind it (CasHMC VaultController.cpp,           *)
(* CommandQueue.cpp, DRAM.cpp), under the close-page policy.               *)
(*                                                                         *)
(* A request becomes an ACTIVATE and READ or WRITE commands, which are     *)
(* popped bank by bank.  A READ or a WRITE is popped only when there is    *)
(* room for its response, which pendingDataSize then keeps.  An atomic     *)
(* request locks its bank from its ACTIVATE to the pop of its write-back.  *)
(* A refresh waits until no bank is open; an empty vault is powered down.  *)
(*                                                                         *)
(* Time is left out: a countdown, or a window that a command has to wait   *)
(* for, is a delay of the action.  The blocks of VaultController::Update   *)
(* are actions; a command on cmdBus reaches the DRAM before the next pop.  *)
(***************************************************************************)
EXTENDS Integers, Sequences, FiniteSets, SequencesExt, FiniteSetsExt

CONSTANTS
  Requests,          \* request packets, by their TAG
  CMD,               \* CMD[r]: the packet command, one for each group treated alike
  Bank, Row,         \* what AddressMapping makes of the address of a request
  LNG,               \* LNG[r]: flits of the request
  reqDataSize,       \* reqDataSize[r]: bytes
  NUM_BANKS, MAX_VLT_BUF, MAX_CMD_QUE,
  USE_LOW_POWER,
  MaxOpen,           \* bound: requests in the vault at a time
  NULL

Banks == 0..NUM_BANKS-1
Reads == {"RD", "ACT_ADD", "ACT_MULT", "PEI_DOT"}
Writes == {"WR", "P_WR"}
Atomics == {"ADD16", "P_ADD16", "XOR16", "EQ16", "PEI_ATOMIC"}
CommandTypes == {"ACTIVATE", "READ", "READ_P", "WRITE", "WRITE_P"}

ASSUME VaultAssumption ==
  /\ NUM_BANKS \in Nat \ {0} /\ MAX_VLT_BUF \in Nat \ {0} /\ MAX_CMD_QUE \in Nat \ {0}
  /\ IsFiniteSet(Requests) /\ NULL \notin Requests
  /\ NULL \notin [commandType : CommandTypes, packetTAG : Requests, lastCMD : BOOLEAN]
  /\ USE_LOW_POWER \in BOOLEAN /\ MaxOpen \in Nat \ {0}
  /\ CMD \in [Requests -> Reads \cup Writes \cup Atomics]
  /\ Bank \in [Requests -> Banks]
  /\ LNG \in [Requests -> 1..MAX_VLT_BUF]
  /\ \A r \in Requests : reqDataSize[r] \in Nat \ {0}

VARIABLES
  downBuffers, upBuffers,   \* requests from, responses to the crossbar switch
  pcuPacket,                \* PEI_DOT results that wait for upBuffers
  pendingDataSize,          \* flits of upBuffers kept for responses
  queue,                    \* queue[b]: commands of bank b
  atomicLock,               \* atomicLock[b]: atomicLockTag where atomicLock is set, else NULL
  issuedBank,
  refreshWaiting, powerDown,
  cmdBus,
  writeDataToSend,          \* write data, the first of it on dataBus
  readReturnDATA,           \* read data, the first of it being readData
  atomicCMD,
  bankStates,
  open,                     \* history: requests taken and not answered
  refreshCycle              \* history: less than tRFC since the last REFRESH

vars == <<downBuffers, upBuffers, pcuPacket, pendingDataSize, queue, atomicLock, issuedBank,
          refreshWaiting, powerDown, cmdBus, writeDataToSend, readReturnDATA, atomicCMD,
          bankStates, open, refreshCycle>>

packetVars == <<downBuffers, upBuffers, pcuPacket, open>>
queueVars == <<queue, atomicLock, issuedBank, refreshWaiting>>
dramVars == <<bankStates, refreshCycle, readReturnDATA>>

-----------------------------------------------------------------------------
(* Requests, their commands and their responses.                           *)

atomic(r) == CMD[r] \in Atomics
posted(r) == CMD[r] \in {"P_WR", "P_ADD16"}
Flits(r) == reqDataSize[r] \div 16 + 1

(* What pendingDataSize keeps for the response.                            *)
Reserved(r) ==
  CASE CMD[r] \in {"WR", "ADD16", "EQ16", "PEI_ATOMIC"} -> 1
    [] CMD[r] = "XOR16" -> 2
    [] OTHER -> Flits(r)

ResponseLNG(r) == IF CMD[r] \in {"ACT_MULT", "PEI_DOT"} THEN 2 ELSE Reserved(r)

Command(type, r, last) == [commandType |-> type, packetTAG |-> r, lastCMD |-> last]

IsRead(c) == c.commandType \in {"READ", "READ_P"}
IsWrite(c) == c.commandType \in {"WRITE", "WRITE_P"}

DataCommands(r) == (reqDataSize[r] + 31) \div 32

(* The last command closes the row, except that of an atomic request: its  *)
(* write-back does.                                                        *)
Commands(r) ==
  LET n == DataCommands(r)
      type == IF CMD[r] \in Writes THEN "WRITE" ELSE "READ"
      lastType == CASE CMD[r] \in Writes -> "WRITE_P"
                    [] CMD[r] \in Reads -> "READ_P"
                    [] OTHER -> "READ"
  IN  <<Command("ACTIVATE", r, TRUE)>>
        \o [i \in 1..n |-> Command(IF i < n THEN type ELSE lastType, r, i = n)]

Used == FoldLeft(LAMBDA n, r : n + ResponseLNG(r), 0, upBuffers)

-----------------------------------------------------------------------------
Init ==
  /\ downBuffers = <<>> /\ upBuffers = <<>> /\ pcuPacket = <<>> /\ pendingDataSize = 0
  /\ queue = [b \in Banks |-> <<>>] /\ atomicLock = [b \in Banks |-> NULL]
  /\ issuedBank = 0 /\ refreshWaiting = FALSE /\ powerDown = FALSE
  /\ cmdBus = NULL /\ writeDataToSend = <<>> /\ readReturnDATA = <<>> /\ atomicCMD = NULL
  /\ bankStates = [b \in Banks |-> [currentBankState |-> "IDLE", openRowAddress |-> NULL]]
  /\ open = {} /\ refreshCycle = FALSE

TagsOf(cmds) == {cmds[i].packetTAG : i \in DOMAIN cmds}

(* The tags that the vault still knows.                                    *)
InVault ==
  ToSet(downBuffers) \cup ToSet(upBuffers) \cup ToSet(pcuPacket)
    \cup (UNION {TagsOf(queue[b]) : b \in Banks})
    \cup TagsOf(writeDataToSend) \cup TagsOf(readReturnDATA)
    \cup {x.packetTAG : x \in {cmdBus, atomicCMD} \ {NULL}}

(* The crossbar switch hands over a request.                               *)
ReceiveDown(r) ==
  /\ r \notin open \cup InVault /\ Cardinality(open) < MaxOpen
  /\ FoldLeft(LAMBDA n, x : n + LNG[x], 0, downBuffers) + LNG[r] <= MAX_VLT_BUF
  /\ downBuffers' = Append(downBuffers, r)
  /\ open' = open \cup {r}
  /\ UNCHANGED <<upBuffers, pcuPacket, pendingDataSize, queueVars, powerDown, cmdBus,
                 writeDataToSend, atomicCMD, dramVars>>

(* Mutant: the ACTIVATE is not counted.                                    *)
AvailableSpaceForData(b, q, cmdN) == Len(q[b]) + cmdN - 1 <= MAX_CMD_QUE

AvailableSpace(b, q, cmdN) ==
  Len(q[b]) + cmdN + (IF atomicLock[b] # NULL THEN 1 ELSE 0) <= MAX_CMD_QUE

(* One pass over downBuffers turns every request that finds room into      *)
(* commands; the index skips the packet behind one that was removed.       *)
Convert(acc, r) ==
  IF ~acc.skip /\ AvailableSpace(Bank[r], acc.queue, DataCommands(r) + 1)
    THEN [kept |-> acc.kept, skip |-> TRUE,
          queue |-> [acc.queue EXCEPT ![Bank[r]] = @ \o Commands(r)]]
    ELSE [acc EXCEPT !.kept = Append(@, r), !.skip = FALSE]

Pass == FoldLeft(Convert, [kept |-> <<>>, skip |-> FALSE, queue |-> queue], downBuffers)

ConvPacketIntoCMDs ==
  /\ Pass.kept # downBuffers
  /\ downBuffers' = Pass.kept
  /\ queue' = Pass.queue
  /\ UNCHANGED <<upBuffers, pcuPacket, open, pendingDataSize, atomicLock, issuedBank,
                 refreshWaiting, powerDown, cmdBus, writeDataToSend, atomicCMD, dramVars>>

(* The crossbar switch takes a response.                                   *)
SendUp ==
  /\ upBuffers # <<>>
  /\ upBuffers' = Tail(upBuffers)
  /\ open' = open \ {upBuffers[1]}
  /\ UNCHANGED <<downBuffers, pcuPacket, pendingDataSize, queueVars, powerDown, cmdBus,
                 writeDataToSend, atomicCMD, dramVars>>

Accepts(r) == Used + ResponseLNG(r) <= MAX_VLT_BUF

(* MakeRespondPacket, without and with room in upBuffers.  The result of a *)
(* PEI_DOT waits elsewhere, and what was kept for it is given up.          *)
MakeRespondPacket(r) ==
  IF CMD[r] = "PEI_DOT"
    THEN /\ pcuPacket' = Append(pcuPacket, r)
         /\ pendingDataSize' = pendingDataSize - Reserved(r)
         /\ UNCHANGED upBuffers
    ELSE /\ IF Accepts(r)
              THEN /\ upBuffers' = Append(upBuffers, r)
                   /\ pendingDataSize' = pendingDataSize - Reserved(r)
              ELSE UNCHANGED <<upBuffers, pendingDataSize>>
         /\ UNCHANGED pcuPacket

ReturnPcu ==
  /\ pcuPacket # <<>> /\ Accepts(pcuPacket[1])
  /\ upBuffers' = Append(upBuffers, pcuPacket[1])
  /\ pcuPacket' = Tail(pcuPacket)
  /\ UNCHANGED <<downBuffers, open, pendingDataSize, queueVars, powerDown, cmdBus,
                 writeDataToSend, atomicCMD, dramVars>>

-----------------------------------------------------------------------------
(* CommandQueue.                                                           *)

(* Mutants: what is kept for other responses is forgotten; off by one.     *)
RoomForUnreserved(r) == Flits(r) <= MAX_VLT_BUF - Used
RoomForStrict(r) == pendingDataSize + Flits(r) < MAX_VLT_BUF - Used

RoomFor(r) == pendingDataSize + Flits(r) <= MAX_VLT_BUF - Used

isIssuable(b, c) ==
  LET S == bankStates[b]
      r == c.packetTAG
      opened == S.currentBankState = "ROW_ACTIVE" /\ S.openRowAddress = Row[r]
  IN  CASE c.commandType = "ACTIVATE" -> S.currentBankState = "IDLE"
        [] IsWrite(c) -> opened /\ (atomic(r) \/ posted(r) \/ RoomFor(r))
        [] IsRead(c) -> opened /\ RoomFor(r)

WritesBack(r) == atomic(r) /\ CMD[r] # "EQ16"

(* Mutant: every command of a request keeps room for the response.         *)
IssueEach(c) ==
  LET r == c.packetTAG
  IN  /\ cmdBus' = c
      /\ writeDataToSend' = IF IsWrite(c) THEN Append(writeDataToSend, c) ELSE writeDataToSend
      /\ pendingDataSize' =
           IF ~posted(r) /\ (IsRead(c) \/ (IsWrite(c) /\ ~atomic(r)))
             THEN pendingDataSize + Reserved(r) ELSE pendingDataSize
      /\ UNCHANGED <<packetVars, powerDown, atomicCMD, dramVars>>

(* VaultController::Update on a popped command.                            *)
Issue(c) ==
  LET r == c.packetTAG
  IN  /\ cmdBus' = c
      /\ writeDataToSend' = IF IsWrite(c) THEN Append(writeDataToSend, c) ELSE writeDataToSend
      /\ pendingDataSize' =
           IF c.lastCMD /\ ~posted(r) /\ (IsRead(c) \/ (IsWrite(c) /\ ~atomic(r)))
             THEN pendingDataSize + Reserved(r) ELSE pendingDataSize
      /\ UNCHANGED <<packetVars, powerDown, atomicCMD, dramVars>>

(* The head of a locked bank, if it is a command of the lock's owner.      *)
OwnerHead(b) ==
  atomicLock[b] # NULL /\ queue[b] # <<>> /\ queue[b][1].packetTAG = atomicLock[b]

PopLocked(b) ==
  /\ OwnerHead(b) /\ isIssuable(b, queue[b][1])
  /\ atomicLock' = IF IsWrite(queue[b][1]) THEN [atomicLock EXCEPT ![b] = NULL] ELSE atomicLock
  /\ queue' = [queue EXCEPT ![b] = Tail(@)]
  /\ Issue(queue[b][1])

PopAt(b, i) ==
  /\ isIssuable(b, queue[b][i])
  /\ atomicLock' = IF WritesBack(queue[b][i].packetTAG)
                     THEN [atomicLock EXCEPT ![b] = queue[b][i].packetTAG] ELSE atomicLock
  /\ queue' = [queue EXCEPT ![b] = RemoveAt(@, i)]
  /\ Issue(queue[b][i])

(* No ACTIVATE of the same request waits before the command.               *)
Independent(b, i) ==
  \A j \in 1..(i-1) : ~(/\ queue[b][j].commandType = "ACTIVATE"
                        /\ queue[b][j].packetTAG = queue[b][i].packetTAG)

Poppable(b) == {i \in DOMAIN queue[b] : isIssuable(b, queue[b][i]) /\ Independent(b, i)}

(* A queue that fills while the DRAM is powered down is not popped before  *)
(* EnablePowerdown has run: POPCYCLE.                                      *)
MayPop == cmdBus = NULL /\ ~powerDown

(* The search for a command starts at issuedBank and goes no further than  *)
(* a locked bank.                                                          *)
Reaches(b) ==
  \A c \in Banks :
    (c - issuedBank) % NUM_BANKS < (b - issuedBank) % NUM_BANKS => atomicLock[c] = NULL

(* It has found nothing before the locked bank b and nothing to pop there. *)
StopAtLock(b) ==
  /\ MayPop /\ ~refreshWaiting /\ Reaches(b)
  /\ atomicLock[b] # NULL /\ issuedBank # b
  /\ issuedBank' = b
  /\ UNCHANGED <<packetVars, pendingDataSize, queue, atomicLock, refreshWaiting, powerDown, cmdBus,
                 writeDataToSend, atomicCMD, dramVars>>

CmdPop(b) ==
  /\ MayPop /\ ~refreshWaiting /\ Reaches(b)
  /\ \/ /\ PopLocked(b)
        /\ issuedBank' = b
     \/ /\ atomicLock[b] = NULL /\ Poppable(b) # {}
        /\ PopAt(b, Min(Poppable(b)))
        /\ issuedBank' = (b + 1) % NUM_BANKS
  /\ UNCHANGED refreshWaiting

(* While a refresh waits, the first bank that is locked or not closed is   *)
(* served and no row is opened.                                            *)
Busy(b) == atomicLock[b] # NULL \/ bankStates[b].currentBankState \notin {"IDLE", "POWERDOWN"}

ForOpenRow(b) == {i \in DOMAIN queue[b] : Row[queue[b][i].packetTAG] = bankStates[b].openRowAddress}

CmdPopForRefresh(b) ==
  /\ MayPop /\ refreshWaiting
  /\ Busy(b) /\ \A c \in 0..(b-1) : ~Busy(c)
  /\ \/ PopLocked(b)
     \/ /\ atomicLock[b] = NULL /\ bankStates[b].currentBankState = "ROW_ACTIVE"
        /\ ForOpenRow(b) # {}
        /\ LET i == Min(ForOpenRow(b))
           IN  queue[b][i].commandType # "ACTIVATE" /\ PopAt(b, i)
  /\ UNCHANGED <<issuedBank, refreshWaiting>>

PopRefresh ==
  /\ MayPop /\ refreshWaiting
  /\ \A b \in Banks : ~Busy(b)
  /\ bankStates[0].currentBankState # "POWERDOWN"
  /\ cmdBus' = Command("REFRESH", NULL, TRUE)
  /\ refreshWaiting' = FALSE
  /\ UNCHANGED <<packetVars, pendingDataSize, queue, atomicLock, issuedBank, powerDown,
                 writeDataToSend, atomicCMD, dramVars>>

-----------------------------------------------------------------------------
(* UpdateCountdown: the command on cmdBus reaches DRAM::receiveCMD.  Until *)
(* a bank whose row is being closed is idle it takes no command.           *)
IssueToDRAM ==
  LET c == cmdBus
      b == Bank[c.packetTAG]
  IN  /\ c # NULL
      /\ cmdBus' = NULL
      /\ bankStates' =
           CASE c.commandType = "ACTIVATE" ->
                  [bankStates EXCEPT ![b] = [currentBankState |-> "ROW_ACTIVE",
                                             openRowAddress |-> Row[c.packetTAG]]]
             [] c.commandType \in {"READ_P", "WRITE_P"} ->
                  [bankStates EXCEPT ![b].currentBankState = "PRECHARGING"]
             [] c.commandType = "REFRESH" ->
                  [x \in Banks |-> [bankStates[x] EXCEPT !.currentBankState = "REFRESHING"]]
             [] OTHER -> bankStates
      /\ readReturnDATA' = IF IsRead(c) THEN Append(readReturnDATA, c) ELSE readReturnDATA
      /\ refreshCycle' = (refreshCycle \/ c.commandType = "REFRESH")
      /\ UNCHANGED <<packetVars, pendingDataSize, queueVars, powerDown, writeDataToSend, atomicCMD>>

(* UpdateCountdown: the write data has been sent.  A response that finds   *)
(* no room is lost.                                                        *)
SendWriteData ==
  LET c == writeDataToSend[1]
      r == c.packetTAG
  IN  /\ writeDataToSend # <<>>
      /\ writeDataToSend' = Tail(writeDataToSend)
      /\ IF c.lastCMD /\ ~atomic(r) /\ ~posted(r)
           THEN MakeRespondPacket(r) ELSE UNCHANGED <<upBuffers, pcuPacket, pendingDataSize>>
      /\ open' = IF c.lastCMD /\ posted(r) THEN open \ {r} ELSE open
      /\ UNCHANGED <<downBuffers, queueVars, powerDown, cmdBus, atomicCMD, dramVars>>

(* REFRESH_PERIOD has passed since it was last due, more than tRFC.        *)
RefreshDue ==
  /\ ~refreshWaiting /\ ~refreshCycle
  /\ cmdBus # NULL => cmdBus.commandType # "REFRESH"
  /\ refreshWaiting' = TRUE
  /\ UNCHANGED <<packetVars, pendingDataSize, queue, atomicLock, issuedBank, powerDown, cmdBus,
                 writeDataToSend, atomicCMD, dramVars>>

(* The operation on an atomic request: its result goes to the front of the *)
(* queue.  A response that finds no room is lost.                          *)
AtomicOperation ==
  LET r == atomicCMD.packetTAG
      b == Bank[r]
  IN  /\ atomicCMD # NULL
      /\ atomicCMD' = NULL
      /\ queue' = IF WritesBack(r)
                    THEN [queue EXCEPT ![b] = <<Command("WRITE_P", r, TRUE)>> \o @] ELSE queue
      /\ IF posted(r) THEN UNCHANGED <<upBuffers, pcuPacket, pendingDataSize>>
                      ELSE MakeRespondPacket(r)
      /\ UNCHANGED <<downBuffers, open, atomicLock, issuedBank, refreshWaiting, powerDown, cmdBus,
                     writeDataToSend, dramVars>>

(* Mutant: a refresh that waits does not keep the DRAM awake.              *)
IdleQueues == \A b \in Banks : queue[b] = <<>>

(* EnablePowerdown.                                                        *)
Idle == (\A b \in Banks : queue[b] = <<>>) /\ ~refreshWaiting

(* Mutant: open rows do not keep the DRAM awake.                           *)
PowerDownOpen ==
  /\ USE_LOW_POWER /\ Idle /\ ~powerDown
  /\ powerDown' = TRUE
  /\ bankStates' = [b \in Banks |-> [bankStates[b] EXCEPT !.currentBankState = "POWERDOWN"]]
  /\ UNCHANGED <<packetVars, pendingDataSize, queueVars, cmdBus, writeDataToSend, atomicCMD,
                 readReturnDATA, refreshCycle>>

PowerDown ==
  /\ USE_LOW_POWER /\ Idle
  /\ \A b \in Banks : bankStates[b].currentBankState = "IDLE"
  /\ powerDown' = TRUE
  /\ bankStates' = [b \in Banks |-> [bankStates[b] EXCEPT !.currentBankState = "POWERDOWN"]]
  /\ UNCHANGED <<packetVars, pendingDataSize, queueVars, cmdBus, writeDataToSend, atomicCMD,
                 readReturnDATA, refreshCycle>>

(* nextPowerUp: a command that was on cmdBus has reached the DRAM by then. *)
PowerUp ==
  /\ powerDown /\ ~Idle /\ cmdBus = NULL
  /\ powerDown' = FALSE
  /\ bankStates' = [b \in Banks |-> [bankStates[b] EXCEPT !.currentBankState = "AWAKING"]]
  /\ UNCHANGED <<packetVars, pendingDataSize, queueVars, cmdBus, writeDataToSend, atomicCMD,
                 readReturnDATA, refreshCycle>>

-----------------------------------------------------------------------------
(* DRAM::Update: a bank becomes idle.  REFRESH, power-down and power-up    *)
(* concern all banks at once.                                              *)
BankIdle(b) ==
  /\ bankStates[b].currentBankState \in {"PRECHARGING", "REFRESHING", "AWAKING"}
  /\ LET same == IF bankStates[b].currentBankState = "PRECHARGING" THEN {b} ELSE Banks
     IN  bankStates' = [x \in Banks |->
           IF x \in same THEN [bankStates[x] EXCEPT !.currentBankState = "IDLE"] ELSE bankStates[x]]
  /\ refreshCycle' = (refreshCycle /\ bankStates[b].currentBankState # "REFRESHING")
  /\ UNCHANGED <<packetVars, pendingDataSize, queueVars, powerDown, cmdBus, writeDataToSend,
                 atomicCMD, readReturnDATA>>

(* tRFC passes after the DRAM has been woken up within it.                 *)
RefreshOver ==
  /\ refreshCycle /\ \A b \in Banks : bankStates[b].currentBankState # "REFRESHING"
  /\ refreshCycle' = FALSE
  /\ UNCHANGED <<packetVars, pendingDataSize, queueVars, powerDown, cmdBus, writeDataToSend,
                 atomicCMD, readReturnDATA, bankStates>>

(* ReturnCommand.  Data that find no room stay with the DRAM.  The         *)
(* operation on an atomic request takes less time than the next data.      *)
ReturnRead ==
  LET c == readReturnDATA[1]
      r == c.packetTAG
  IN  /\ readReturnDATA # <<>>
      /\ readReturnDATA' = Tail(readReturnDATA)
      /\ \/ /\ c.lastCMD /\ atomic(r) /\ atomicCMD = NULL
            /\ atomicCMD' = c
            /\ UNCHANGED <<upBuffers, pcuPacket, pendingDataSize>>
         \/ /\ c.lastCMD /\ ~atomic(r) /\ (CMD[r] = "PEI_DOT" \/ Accepts(r))
            /\ MakeRespondPacket(r)
            /\ UNCHANGED atomicCMD
         \/ /\ ~c.lastCMD
            /\ UNCHANGED <<upBuffers, pcuPacket, pendingDataSize, atomicCMD>>
      /\ UNCHANGED <<downBuffers, open, queueVars, powerDown, cmdBus, writeDataToSend, bankStates,
                     refreshCycle>>

-----------------------------------------------------------------------------
Pop(b) == CmdPop(b) \/ CmdPopForRefresh(b)

Next ==
  \/ \E r \in Requests : ReceiveDown(r)
  \/ ConvPacketIntoCMDs \/ SendUp \/ ReturnPcu
  \/ \E b \in Banks : Pop(b) \/ StopAtLock(b) \/ BankIdle(b)
  \/ PopRefresh \/ IssueToDRAM \/ SendWriteData \/ RefreshDue \/ AtomicOperation
  \/ PowerDown \/ PowerUp \/ RefreshOver \/ ReturnRead

Spec == Init /\ [][Next]_vars

(* Controller and DRAM are updated in every cycle, every countdown ends,   *)
(* the crossbar switch drains the vault, and the round-robin search finds  *)
(* every bank whose turn keeps coming.  Requests and refreshes need not    *)
(* come.                                                                   *)
FairSpec ==
  /\ Spec
  /\ WF_vars(ConvPacketIntoCMDs) /\ WF_vars(SendUp) /\ WF_vars(ReturnPcu)
  /\ WF_vars(PopRefresh) /\ WF_vars(IssueToDRAM) /\ WF_vars(SendWriteData)
  /\ WF_vars(AtomicOperation) /\ WF_vars(PowerDown \/ PowerUp) /\ WF_vars(ReturnRead)
  /\ \A b \in Banks : SF_vars(Pop(b)) /\ WF_vars(BankIdle(b))

-----------------------------------------------------------------------------
BankStateTypes == {"IDLE", "ROW_ACTIVE", "PRECHARGING", "REFRESHING", "POWERDOWN", "AWAKING"}

(* Type correctness; no command queue outgrows its size, although the      *)
(* result of an atomic request is inserted without a look at it            *)
(* (AvailableSpace, Update), and pendingDataSize never falls below 0.      *)
TypeOK ==
  /\ open \subseteq Requests /\ ToSet(downBuffers \o upBuffers \o pcuPacket) \subseteq Requests
  /\ \A b \in Banks :
       /\ Len(queue[b]) <= MAX_CMD_QUE
       /\ atomicLock[b] \in Requests \cup {NULL}
       /\ bankStates[b].currentBankState \in BankStateTypes
  /\ issuedBank \in Banks /\ Used <= MAX_VLT_BUF
  /\ pendingDataSize \in Nat

(* No response is lost: a request that is taken and not answered is still  *)
(* a packet, or a command is left at whose end its response is made, or    *)
(* its data written if it is posted.  Write and atomic responses are made  *)
(* only once, and nobody looks whether upBuffers took them                 *)
(* (MakeRespondPacket as called from UpdateCountdown and Update).          *)
Remaining ==
  (UNION {ToSet(queue[b]) : b \in Banks}) \cup ToSet(writeDataToSend) \cup ToSet(readReturnDATA)
    \cup {c \in {cmdBus, atomicCMD} \ {NULL} : IsRead(c)}

Finishes(c) ==
  c.lastCMD /\ (IsRead(c) \/ (IsWrite(c) /\ (atomic(c.packetTAG) => posted(c.packetTAG))))

NoResponseLost ==
  open \subseteq ToSet(downBuffers \o upBuffers \o pcuPacket)
                    \cup {c.packetTAG : c \in {x \in Remaining : Finishes(x)}}

(* The reservation is exact: pendingDataSize is what is kept for the       *)
(* requests whose last command has been popped and whose response has not  *)
(* been made, however reads, writes and atomic requests overlap            *)
(* (isIssuable, Update, MakeRespondPacket).                                *)
ReservationExact ==
  LET reads == {c \in ToSet(readReturnDATA) \cup ({cmdBus, atomicCMD} \ {NULL}) : IsRead(c)}
      writes == {c \in ToSet(writeDataToSend) : ~atomic(c.packetTAG)}
      last == {c \in reads \cup writes : c.lastCMD /\ ~posted(c.packetTAG)}
  IN  pendingDataSize = MapThenSumSet(Reserved, {c.packetTAG : c \in last})

(* A command is still legal when it reaches the DRAM: a READ or WRITE      *)
(* finds its row open, an ACTIVATE a closed bank, a REFRESH no open row    *)
(* (isIssuable, CmdPop, EnablePowerdown in between).                       *)
CommandLegal ==
  cmdBus # NULL =>
    LET c == cmdBus
        S == bankStates[Bank[c.packetTAG]]
    IN  CASE c.commandType = "ACTIVATE" -> S.currentBankState = "IDLE"
          [] c.commandType = "REFRESH" ->
               \A b \in Banks : bankStates[b].currentBankState \in {"IDLE", "POWERDOWN"}
          [] OTHER -> S.currentBankState = "ROW_ACTIVE" /\ S.openRowAddress = Row[c.packetTAG]

(* tRFC is kept: no row is opened while the DRAM is being refreshed.       *)
RefreshKept == cmdBus # NULL /\ cmdBus.commandType = "ACTIVATE" => ~refreshCycle

(* A refresh that is due is issued (CmdPop, EnablePowerdown).              *)
RefreshIssued == refreshWaiting ~> ~refreshWaiting

(* Every request that the vault takes is answered, or written if it is     *)
(* posted, although smaller ones may pass it in downBuffers and a locked   *)
(* bank stops the search for commands (Update, CmdPop).  A PEI_DOT may     *)
(* wait for ever: its room was given up.                                   *)
Answered == \A r \in {x \in Requests : CMD[x] # "PEI_DOT"} : r \in open ~> r \notin open
=============================================================================
