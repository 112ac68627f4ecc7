---------------------------- MODULE GatherBarrier ---------------------------
(***************************************************************************)
(* The chip side of Active-Routing: the cores, which issue updates out of  *)
(* order and a gather only from the head of the reorder buffer             *)
(* (McSimART/PTSO3Core.cc), and the network ports, which join the gathers  *)
(* of all threads and turn them into one gather per port that carries part *)
(* of the flow (McSimART/PTSHMCController.cc, CasHMC HMCController.cpp).   *)
(*                                                                         *)
(* The updates of one target that enter by one port are a flow of their    *)
(* own in the network, flow_id = dest_addr << k | num.  The network takes  *)
(* what it is given, in whatever state the flow is; that the ports give it *)
(* only what Reduction allows is a property, and the assumption that       *)
(* ActiveRouting makes of its hosts.                                       *)
(***************************************************************************)
EXTENDS Integers, Sequences, FiniteSets, SequencesExt

CONSTANTS
  Threads,      \* one per core
  Leader,       \* the thread that has an update in every round
  NumTargets,   \* targets, which all threads reduce in the same order
  NumPorts,     \* mcsim->hmcs.size()
  PortOf,       \* PortOf[t]: th_id % 4
  Schemes,      \* values of mcsim->art_scheme to be considered
  RobSize,      \* o3rob_max_size - 3
  UpdateTypes,  \* ART operations of the program: one operand "add", two "mult"
  MaxUpdates,   \* bound: updates of a thread per target and round
  ReqBuf,       \* MAX_REQ_BUF
  Nobody        \* th_id of a dummy gather

Ports == 0..NumPorts-1
Targets == 0..NumTargets-1
nthreads == Cardinality(Threads)    \* operand of every gather

ASSUME BarrierAssumption ==
  /\ IsFiniteSet(Threads) /\ Leader \in Threads /\ Nobody \notin Threads
  /\ NumTargets \in Nat \ {0} /\ NumPorts \in Nat \ {0}
  /\ PortOf \in [Threads -> Ports]
  /\ Schemes \subseteq {"naive", "tid", "addr"}
  /\ UpdateTypes \subseteq {"add", "mult"} /\ UpdateTypes # {}
  /\ RobSize \in Nat \ {0} /\ MaxUpdates \in Nat \ {0} /\ ReqBuf \in Nat \ {0}

VARIABLES
  art_scheme,          \* how ports are chosen, set by the configuration
  program,             \* program[t]: target and number of updates since its last gather
  rob,                 \* rob[t]: reorder buffer, oldest instruction first
  noc,                 \* messages between cores and ports
  active_mult_twins,   \* active_mult_twins[p]: first halves of two-operand updates
  gather_barrier,      \* gather_barrier[d], shared by the ports
  active_forests,      \* active_forests[d]: ports that have sent updates of d, shared
  active_gather_event, \* active_gather_event[p]: gathers waiting for the answer
  tran_buf,            \* tran_buf[p]
  downBuffers,         \* downBuffers[p] of the HMCController
  gatherBarrier,       \* gatherBarrier[p][d] of the HMCController, -1 if absent
  flow,                \* flow[<<d, p>>]: what the network knows of a sub-flow
  serv_trans,          \* serv_trans[p]: answers of the network
  resp_queue           \* resp_queue[p]: gathers to be answered

vars == <<art_scheme, program, rob, noc, active_mult_twins, gather_barrier, active_forests,
          active_gather_event, tran_buf, downBuffers, gatherBarrier, flow, serv_trans,
          resp_queue>>

core == <<art_scheme, program, rob>>
port == <<active_mult_twins, gather_barrier, active_forests, active_gather_event, tran_buf>>
memnet == <<downBuffers, gatherBarrier, flow, serv_trans>>

(* Where an update may go, and where a gather goes.                        *)
UpdatePorts(t) ==
  CASE art_scheme = "naive" -> {0}
    [] art_scheme = "tid"   -> {PortOf[t]}
    [] art_scheme = "addr"  -> Ports

WhichHmc(t) == IF art_scheme = "naive" THEN 0 ELSE PortOf[t]

Instr == [id : 0..RobSize-1, type : {"add", "mult", "get"}, dest : Targets,
          state : {"issued", "executing", "completed"}]

(* half is 1 or 2 for the two requests of a two-operand update.            *)
Message ==
  [kind : {"req", "rep"}, th : Threads, id : 0..RobSize-1, type : {"add", "mult", "get"},
   dest : Targets, port : Ports, half : 1..2]

Tran == [type : {"update", "get"}, dest : Targets, th : Threads \cup {Nobody}, id : 0..RobSize-1]

GatherEvent == [dest : Targets, th : Threads \cup {Nobody}, id : 0..RobSize-1]

NoBarrier == [live |-> FALSE, count |-> 0, port |-> [p \in Ports |-> 0]]

IdleFlow == [phase |-> "update", issued |-> 0, total |-> 0]

Init ==
  /\ art_scheme \in Schemes
  /\ program = [t \in Threads |-> [target |-> 0, updates |-> 0]]
  /\ rob = [t \in Threads |-> <<>>]
  /\ noc = {}
  /\ active_mult_twins = [p \in Ports |-> {}]
  /\ gather_barrier = [d \in Targets |-> NoBarrier]
  /\ active_forests = [d \in Targets |-> {}]
  /\ active_gather_event = [p \in Ports |-> {}]
  /\ tran_buf = [p \in Ports |-> <<>>]
  /\ downBuffers = [p \in Ports |-> <<>>]
  /\ gatherBarrier = [p \in Ports |-> [d \in Targets |-> -1]]
  /\ flow = [f \in Targets \X Ports |-> IdleFlow]
  /\ serv_trans = [p \in Ports |-> <<>>]
  /\ resp_queue = [p \in Ports |-> {}]

-----------------------------------------------------------------------------
(***************************************************************************)
(* Cores.  A program reduces the targets in turn.  It does not use a       *)
(* target again before its gather of that target is answered.              *)
(***************************************************************************)
Waiting(t, d) == \E i \in DOMAIN rob[t] : rob[t][i].type = "get" /\ rob[t][i].dest = d

Dispatch(t, type) ==
  /\ Len(rob[t]) < RobSize
  /\ rob' = [rob EXCEPT ![t] = Append(@,
       [id |-> IF @ = <<>> THEN 0 ELSE (Last(@).id + 1) % RobSize, type |-> type,
        dest |-> program[t].target, state |-> "issued"])]

FetchUpdate(t) ==
  /\ ~Waiting(t, program[t].target)
  /\ program[t].updates < MaxUpdates
  /\ \E type \in UpdateTypes : Dispatch(t, type)
  /\ program' = [program EXCEPT ![t].updates = @ + 1]
  /\ UNCHANGED <<art_scheme, noc, port, memnet, resp_queue>>

FetchGather(t) ==
  /\ ~Waiting(t, program[t].target)
  /\ t = Leader => program[t].updates > 0
  /\ Dispatch(t, "get")
  /\ program' = [program EXCEPT ![t] = [target |-> (@.target + 1) % NumTargets, updates |-> 0]]
  /\ UNCHANGED <<art_scheme, noc, port, memnet, resp_queue>>

(* Mutant: a gather is issued as soon as it is in the reorder buffer.      *)
MayIssueAny(t, i) == rob[t][i].state = "issued"

(* Updates are issued in any order, a gather from the head only.           *)
MayIssue(t, i) == rob[t][i].state = "issued" /\ (rob[t][i].type = "get" => i = 1)

Issue(t, i) ==
  /\ MayIssue(t, i)
  /\ LET e == rob[t][i]
         ports == IF e.type = "get" THEN {WhichHmc(t)} ELSE UpdatePorts(t)
     IN  \E p \in ports : noc' = noc \cup
           {[kind |-> "req", th |-> t, id |-> e.id, type |-> e.type, dest |-> e.dest,
             port |-> p, half |-> h] : h \in IF e.type = "mult" THEN 1..2 ELSE {1}}
  /\ rob' = [rob EXCEPT ![t][i].state = "executing"]
  /\ UNCHANGED <<art_scheme, program, port, memnet, resp_queue>>

(* The acknowledgement of an update, the answer of a gather.               *)
Complete(m) ==
  /\ m.kind = "rep"
  /\ \E i \in DOMAIN rob[m.th] :
       /\ rob[m.th][i].id = m.id /\ rob[m.th][i].state = "executing"
       /\ rob' = [rob EXCEPT ![m.th][i].state = "completed"]
  /\ noc' = noc \ {m}
  /\ UNCHANGED <<art_scheme, program, port, memnet, resp_queue>>

Commit(t) ==
  /\ rob[t] # <<>> /\ Head(rob[t]).state = "completed"
  /\ rob' = [rob EXCEPT ![t] = Tail(@)]
  /\ UNCHANGED <<art_scheme, program, noc, port, memnet, resp_queue>>

-----------------------------------------------------------------------------
(***************************************************************************)
(* Ports: PTSHMCController::add_req_event.                                 *)
(***************************************************************************)
Twin(m) == [m EXCEPT !.half = 3 - m.half]

(* The first request of a two-operand update waits for the second.         *)
AddReqTwin(m) ==
  /\ m.kind = "req" /\ m.type = "mult" /\ Twin(m) \notin active_mult_twins[m.port]
  /\ active_mult_twins' = [active_mult_twins EXCEPT ![m.port] = @ \cup {m}]
  /\ noc' = noc \ {m}
  /\ UNCHANGED <<core, gather_barrier, active_forests, active_gather_event, tran_buf, memnet,
                 resp_queue>>

AddReqUpdate(m) ==
  /\ m.kind = "req" /\ m.type # "get"
  /\ m.type = "mult" => Twin(m) \in active_mult_twins[m.port]
  /\ active_mult_twins' = [active_mult_twins EXCEPT ![m.port] = @ \ {Twin(m)}]
  /\ active_forests' = [active_forests EXCEPT ![m.dest] = @ \cup {m.port}]
  /\ tran_buf' = [tran_buf EXCEPT ![m.port] = Append(@,
       [type |-> "update", dest |-> m.dest, th |-> m.th, id |-> m.id])]
  /\ noc' = noc \ {m}
  /\ UNCHANGED <<core, gather_barrier, active_gather_event, memnet, resp_queue>>

Arrived(m) ==      \* gather_barrier of m.dest once m is counted
  LET b == IF gather_barrier[m.dest].live THEN gather_barrier[m.dest] ELSE NoBarrier
  IN  [b EXCEPT !.live = TRUE, !.count = @ + 1, !.port[m.port] = @ + 1]

WithGather(m) ==   \* active_gather_event with m
  [active_gather_event EXCEPT ![m.port] = @ \cup {[dest |-> m.dest, th |-> m.th, id |-> m.id]}]

AddReqGather(m) ==
  /\ m.kind = "req" /\ m.type = "get" /\ Arrived(m).count # nthreads
  /\ gather_barrier' = [gather_barrier EXCEPT ![m.dest] = Arrived(m)]
  /\ active_gather_event' = WithGather(m)
  /\ noc' = noc \ {m}
  /\ UNCHANGED <<core, active_mult_twins, active_forests, tran_buf, memnet, resp_queue>>

(* Mutant: the counter of the threads is not cleared.                      *)
ReleasedUncleared(m) ==
  [live |-> TRUE, count |-> nthreads + Cardinality(active_forests[m.dest]),
   port |-> [p \in Ports |-> IF p \in active_forests[m.dest] THEN 1 ELSE 0]]

(* From now on the counter is that of the sub-flows to be answered.        *)
Released(m) ==
  [live |-> TRUE, count |-> Cardinality(active_forests[m.dest]),
   port |-> [p \in Ports |-> IF p \in active_forests[m.dest] THEN 1 ELSE 0]]

(* The last gather: every port that carries part of the flow sends one, a  *)
(* port at which no thread gathers a dummy.                                *)
AddReqLastGather(m) ==
  /\ m.kind = "req" /\ m.type = "get" /\ Arrived(m).count = nthreads
  /\ gather_barrier' = [gather_barrier EXCEPT ![m.dest] = Released(m)]
  /\ active_gather_event' = [p \in Ports |->
       IF p \in active_forests[m.dest] /\ \A e \in WithGather(m)[p] : e.dest # m.dest
       THEN WithGather(m)[p] \cup {[dest |-> m.dest, th |-> Nobody, id |-> 0]}
       ELSE WithGather(m)[p]]
  /\ tran_buf' = [p \in Ports |->
       IF p \in active_forests[m.dest]
       THEN Append(tran_buf[p], [type |-> "get", dest |-> m.dest, th |-> Nobody, id |-> 0])
       ELSE tran_buf[p]]
  /\ noc' = noc \ {m}
  /\ UNCHANGED <<core, active_mult_twins, active_forests, memnet, resp_queue>>

(***************************************************************************)
(* Ports: PTSHMCController::process_event.                                 *)
(***************************************************************************)
(* The next transaction goes to the HMCController; an update is then       *)
(* acknowledged.                                                           *)
SendTran(p) ==
  /\ tran_buf[p] # <<>> /\ Len(downBuffers[p]) < ReqBuf
  /\ LET x == Head(tran_buf[p])
     IN  /\ downBuffers' = [downBuffers EXCEPT ![p] = Append(@, x)]
         /\ noc' = IF x.type = "get" THEN noc ELSE noc \cup
              {[kind |-> "rep", th |-> x.th, id |-> x.id, type |-> "add", dest |-> x.dest,
                port |-> p, half |-> 1]}
  /\ tran_buf' = [tran_buf EXCEPT ![p] = Tail(@)]
  /\ UNCHANGED <<core, active_mult_twins, gather_barrier, active_forests, active_gather_event,
                 gatherBarrier, flow, serv_trans, resp_queue>>

(* Mutant: the answer of one sub-flow is taken for that of all.            *)
AllAnsweredAny(d, p) == TRUE

AllAnswered(d, p) == gather_barrier[d].count = gather_barrier[d].port[p]

(* Mutant: only the gathers of the port that has the answer are answered.  *)
AnswersHere(d, p, i) ==
  {e \in active_gather_event[i] : i = p /\ e.dest = d /\ e.th # Nobody}

Answers(d, p, i) == {e \in active_gather_event[i] : e.dest = d /\ e.th # Nobody}

(* Mutant: the ports of the round that ends are kept for the next one.     *)
ForestsKept(d) == active_forests

ForestsWithout(d) == [active_forests EXCEPT ![d] = {}]

(* An answer of the network, and PTSHMCController::add_rep_event with it:  *)
(* the last one answers the gathers of all threads.                        *)
AddRep(p) ==
  /\ serv_trans[p] # <<>>
  /\ LET d == Head(serv_trans[p])
     IN  /\ IF AllAnswered(d, p)
            THEN /\ gather_barrier' = [gather_barrier EXCEPT ![d] = NoBarrier]
                 /\ active_forests' = ForestsWithout(d)
                 /\ active_gather_event' = [i \in Ports |->
                      {e \in active_gather_event[i] : e.dest # d}]
                 /\ resp_queue' = [i \in Ports |-> resp_queue[i] \cup Answers(d, p, i)]
            ELSE /\ gather_barrier' = [gather_barrier EXCEPT
                      ![d].count = @ - gather_barrier[d].port[p], ![d].port[p] = -1]
                 /\ UNCHANGED <<active_forests, active_gather_event, resp_queue>>
         /\ flow' = [flow EXCEPT ![<<d, p>>] = IdleFlow]
  /\ serv_trans' = [serv_trans EXCEPT ![p] = Tail(@)]
  /\ UNCHANGED <<core, noc, active_mult_twins, tran_buf, downBuffers, gatherBarrier>>

Respond(p) ==
  /\ \E e \in resp_queue[p] :
       /\ resp_queue' = [resp_queue EXCEPT ![p] = @ \ {e}]
       /\ noc' = noc \cup {[kind |-> "rep", th |-> e.th, id |-> e.id, type |-> "get",
                            dest |-> e.dest, port |-> p, half |-> 1]}
  /\ UNCHANGED <<core, port, memnet>>

-----------------------------------------------------------------------------
(***************************************************************************)
(* HMCController::Update, and the network behind it.  The controller has a *)
(* barrier of its own, for the number of threads the transaction names;    *)
(* the ports always name 1.                                                *)
(***************************************************************************)
HmcCount(p, d) == IF gatherBarrier[p][d] = -1 THEN 1 ELSE gatherBarrier[p][d] + 1

(* Mutant: a gather that was counted for the first time stays counted.     *)
UncountLater(p, d) == IF gatherBarrier[p][d] = -1 THEN 1 ELSE HmcCount(p, d) - 1

Uncount(p, d) == HmcCount(p, d) - 1

(* The link takes the packet.                                              *)
SendPacket(p) ==
  /\ downBuffers[p] # <<>>
  /\ LET x == Head(downBuffers[p])  f == <<x.dest, p>>
     IN  IF x.type = "get"
         THEN /\ HmcCount(p, x.dest) = 1
              /\ gatherBarrier' = [gatherBarrier EXCEPT ![p][x.dest] = -1]
              /\ flow' = [flow EXCEPT ![f].phase = "gather"]
         ELSE /\ flow' = [flow EXCEPT ![f].issued = @ + 1]
              /\ UNCHANGED gatherBarrier
  /\ downBuffers' = [downBuffers EXCEPT ![p] = Tail(@)]
  /\ UNCHANGED <<core, noc, port, serv_trans, resp_queue>>

(* The link is full: the gather is not counted.                            *)
SendFails(p) ==
  /\ downBuffers[p] # <<>> /\ Head(downBuffers[p]).type = "get"
  /\ LET d == Head(downBuffers[p]).dest
     IN  gatherBarrier' = [gatherBarrier EXCEPT ![p][d] = Uncount(p, d)]
  /\ UNCHANGED <<core, noc, port, downBuffers, flow, serv_trans, resp_queue>>

(* The network answers, as Reduction says it does.                         *)
NetworkAnswer(d, p) ==
  /\ flow[<<d, p>>].phase = "gather"
  /\ flow' = [flow EXCEPT ![<<d, p>>].phase = "answered", ![<<d, p>>].total = flow[<<d, p>>].issued]
  /\ serv_trans' = [serv_trans EXCEPT ![p] = Append(@, d)]
  /\ UNCHANGED <<core, noc, port, downBuffers, gatherBarrier, resp_queue>>

-----------------------------------------------------------------------------
Receive(m) ==
  \/ Complete(m) \/ AddReqTwin(m) \/ AddReqUpdate(m) \/ AddReqGather(m) \/ AddReqLastGather(m)

PortStep(p) == SendTran(p) \/ AddRep(p) \/ Respond(p) \/ SendPacket(p)

Progress ==
  \/ \E t \in Threads : (\E i \in DOMAIN rob[t] : Issue(t, i)) \/ Commit(t)
  \/ \E m \in noc : Receive(m)
  \/ \E p \in Ports : PortStep(p)
  \/ \E d \in Targets, p \in Ports : NetworkAnswer(d, p)

Fetch(t) == FetchUpdate(t) \/ FetchGather(t)

Next ==
  \/ Progress
  \/ \E p \in Ports : SendFails(p)
  \/ \E t \in Threads : Fetch(t)

Spec == Init /\ [][Next]_vars

(* Cores and ports are stepped in every cycle and no queue is passed over  *)
(* for ever; every thread goes on with its program.                        *)
FairSpec == Spec /\ WF_vars(Progress) /\ \A t \in Threads : WF_vars(Fetch(t))
-----------------------------------------------------------------------------
(***************************************************************************)
(* Properties.                                                             *)
(***************************************************************************)

(* Every variable has its type; a barrier counts threads, later sub-flows. *)
TypeOK ==
  /\ art_scheme \in Schemes
  /\ program \in [Threads -> [target : Targets, updates : 0..MaxUpdates]]
  /\ rob \in [Threads -> Seq(Instr)]
  /\ noc \in SUBSET Message
  /\ active_mult_twins \in [Ports -> SUBSET Message]
  /\ \A d \in Targets :
       /\ gather_barrier[d].live \in BOOLEAN
       /\ gather_barrier[d].count \in 0..(IF nthreads > NumPorts THEN nthreads ELSE NumPorts)
       /\ gather_barrier[d].port \in [Ports -> -1..nthreads]
  /\ active_forests \in [Targets -> SUBSET Ports]
  /\ active_gather_event \in [Ports -> SUBSET GatherEvent]
  /\ tran_buf \in [Ports -> Seq(Tran)]
  /\ downBuffers \in [Ports -> Seq(Tran)]
  /\ gatherBarrier \in [Ports -> [Targets -> -1..0]]
  /\ flow \in [Targets \X Ports -> [phase : {"update", "gather", "answered"}, issued : Nat, total : Nat]]
  /\ serv_trans \in [Ports -> Seq(Targets)]
  /\ resp_queue \in [Ports -> SUBSET GatherEvent]

(* The ports use every sub-flow as Reduction, and so ActiveRouting,        *)
(* expects of a host: the gather enters the network behind the last of the *)
(* updates, after at least one of them, and nothing follows it before the  *)
(* answer.                                                                 *)
Subflows == INSTANCE Reduction WITH
       Flows    <- Targets \X Ports,
       MaxLines <- 1,
       phase    <- [f \in Targets \X Ports |-> flow[f].phase],
       issued   <- [f \in Targets \X Ports |-> flow[f].issued],
       total    <- [f \in Targets \X Ports |-> flow[f].total]

SubflowsAreReductions == Subflows!Spec

Gathering(d) ==
  \/ \E p \in Ports : \/ \E i \in DOMAIN tran_buf[p] : tran_buf[p][i].type = "get" /\ tran_buf[p][i].dest = d
                      \/ \E i \in DOMAIN downBuffers[p] : downBuffers[p][i].type = "get" /\ downBuffers[p][i].dest = d
                      \/ flow[<<d, p>>].phase # "update"

UpdateUnsent(d) ==
  \/ \E m \in noc \cup UNION {active_mult_twins[p] : p \in Ports} :
       m.kind = "req" /\ m.type # "get" /\ m.dest = d
  \/ \E p \in Ports : \E i \in DOMAIN tran_buf[p] : tran_buf[p][i].type = "update" /\ tran_buf[p][i].dest = d

(* The rounds of a target stay apart: from the moment the ports send the   *)
(* gathers until the last answer no update and no further gather of the    *)
(* target is on its way to them, though each thread runs at its own speed  *)
(* and the barrier's counter has changed its meaning.                      *)
RoundsApart ==
  \A d \in Targets : Gathering(d) =>
    /\ ~UpdateUnsent(d)
    /\ \A m \in noc : m.kind = "req" => m.dest # d
    /\ gather_barrier[d].live

(* The assertions of add_req_event, add_rep_event, HMCController::Update   *)
(* and O3Core::add_rep_event: a gather finds room in the barrier           *)
(* (PTSHMCController.cc:223), no dummy is there when it is released (274), *)
(* the network's answer finds the barrier (410), all other ports have      *)
(* answered when the counter reaches zero (421), the inner barrier holds   *)
(* no thread (HMCController.cpp:172), an acknowledgement finds its         *)
(* instruction executing (PTSO3Core.cc:1028).                              *)
AssertsHold ==
  /\ \A m \in noc :
       /\ m.kind = "req" /\ m.type = "get" =>
            /\ gather_barrier[m.dest].live => gather_barrier[m.dest].count < nthreads
            /\ \A p \in Ports : \A e \in active_gather_event[p] : e.dest = m.dest => e.th # Nobody
       /\ m.kind = "rep" =>
            \E i \in DOMAIN rob[m.th] : rob[m.th][i].id = m.id /\ rob[m.th][i].state = "executing"
  /\ \A p \in Ports : serv_trans[p] # <<>> =>
       LET b == gather_barrier[Head(serv_trans[p])]
       IN  /\ b.live
           /\ b.count = b.port[p] => \A i \in Ports \ {p} : b.port[i] \in {-1, 0}
  /\ \A p \in Ports, d \in Targets : gatherBarrier[p][d] < 1

(* When the barrier of a target is erased, which answers the gathers of    *)
(* all threads, no update of the target is left in a port or in the        *)
(* network, or in a reorder buffer except as a finished instruction.       *)
AnswerComplete ==
  [][\A d \in Targets : gather_barrier[d].live /\ ~gather_barrier'[d].live =>
       /\ ~UpdateUnsent(d)
       /\ \A p \in Ports :
            /\ flow'[<<d, p>>] = IdleFlow
            /\ \A i \in DOMAIN downBuffers[p] : downBuffers[p][i].dest # d
       /\ \A t \in Threads, i \in 1..RobSize : i <= Len(rob[t]) /\ rob[t][i].dest = d =>
            rob[t][i].type = "get" \/ rob[t][i].state = "completed"]_vars

(* A gather a thread waits for is in exactly one place.                    *)
PlacesOf(t, i) ==
  {<<"noc", m.kind>> : m \in {m \in noc : m.type = "get" /\ m.th = t /\ m.id = i}}
  \cup {<<"waiting", p>> : p \in {p \in Ports : \E e \in active_gather_event[p] : e.th = t /\ e.id = i}}
  \cup {<<"resp", p>> : p \in {p \in Ports : \E e \in resp_queue[p] : e.th = t /\ e.id = i}}

GatherOnce ==
  \A t \in Threads : \A i \in DOMAIN rob[t] : rob[t][i].type = "get" =>
    Cardinality(PlacesOf(t, rob[t][i].id)) = IF rob[t][i].state = "executing" THEN 1 ELSE 0

(* A thread that waits for a gather goes on.                               *)
InGather(t) == rob[t] # <<>> /\ Head(rob[t]).type = "get"

GatherReturns == \A t \in Threads : InGather(t) ~> ~InGather(t)
=============================================================================
