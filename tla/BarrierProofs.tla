---------------------------- MODULE BarrierProofs ---------------------------
(***************************************************************************)
(* The barrier of the gathers for every number of threads, targets and     *)
(* ports, size of the reorder buffer and of the request buffer.            *)
(***************************************************************************)
EXTENDS GatherBarrier, FiniteSetTheorems, TLAPS

-----------------------------------------------------------------------------
(***************************************************************************)
(* The inductive invariant.                                                *)
(***************************************************************************)
Barrier == [live : BOOLEAN, count : Int, port : [Ports -> Int]]

FlowState == [phase : {"update", "gather", "answered"}, issued : Nat, total : Nat]

Types ==
  /\ art_scheme \in Schemes
  /\ program \in [Threads -> [target : Targets, updates : 0..MaxUpdates]]
  /\ rob \in [Threads -> Seq(Instr)]
  /\ noc \in SUBSET Message
  /\ active_mult_twins \in [Ports -> SUBSET Message]
  /\ gather_barrier \in [Targets -> Barrier]
  /\ active_forests \in [Targets -> SUBSET Ports]
  /\ active_gather_event \in [Ports -> SUBSET GatherEvent]
  /\ tran_buf \in [Ports -> Seq(Tran)]
  /\ downBuffers \in [Ports -> Seq(Tran)]
  /\ gatherBarrier \in [Ports -> [Targets -> -1..0]]
  /\ flow \in [Targets \X Ports -> FlowState]
  /\ serv_trans \in [Ports -> Seq(Targets)]
  /\ resp_queue \in [Ports -> SUBSET GatherEvent]

(* The reorder buffer: the numbers of its entries follow each other, so no *)
(* two are the same; a gather that was issued is the oldest instruction;   *)
(* nothing behind a gather is for the target of the gather.                *)
NthId(a, i) == IF a + i - 1 < RobSize THEN a + i - 1 ELSE a + i - 1 - RobSize

RobNumbers(r) ==
  /\ Len(r) <= RobSize
  /\ \A i \in DOMAIN r : r[i].id = NthId(r[1].id, i)

RobOrder(r) ==
  /\ \A i \in DOMAIN r : r[i].type = "get" /\ r[i].state # "issued" => i = 1
  /\ \A i, j \in DOMAIN r : i < j /\ r[i].type = "get" => r[j].dest # r[i].dest

RobSound == \A t \in Threads : RobNumbers(rob[t]) /\ RobOrder(rob[t])

(* Instruction k of a reorder buffer is executing, and is for target d.    *)
ExecUpdate(r, k, d) ==
  \E i \in DOMAIN r : r[i].id = k /\ r[i].state = "executing" /\ r[i].dest = d /\ r[i].type # "get"

ExecGather(r, k, d) ==
  \E i \in DOMAIN r : r[i].id = k /\ r[i].state = "executing" /\ r[i].dest = d /\ r[i].type = "get"

SameInstr(x, y) == x.th = y.th /\ x.id = y.id

(* Whatever is under way for an instruction finds it executing.            *)
NocHeld ==
  \A m \in noc :
    /\ m.type = "get" => ExecGather(rob[m.th], m.id, m.dest)
    /\ m.type # "get" => ExecUpdate(rob[m.th], m.id, m.dest)
    /\ m.type # "mult" => m.half = 1

TwinsHeld ==
  \A p \in Ports : \A m \in active_mult_twins[p] :
    /\ m.kind = "req" /\ m.type = "mult" /\ m.port = p /\ m \notin noc
    /\ ExecUpdate(rob[m.th], m.id, m.dest)

TransHeld ==
  \A p \in Ports : \A i \in DOMAIN tran_buf[p] : tran_buf[p][i].type = "update" =>
    /\ tran_buf[p][i].th # Nobody
    /\ ExecUpdate(rob[tran_buf[p][i].th], tran_buf[p][i].id, tran_buf[p][i].dest)

EventsHeld ==
  \A p \in Ports : \A e \in active_gather_event[p] : e.th # Nobody =>
    ExecGather(rob[e.th], e.id, e.dest)

RespHeld ==
  \A p \in Ports : \A e \in resp_queue[p] :
    e.th # Nobody /\ ExecGather(rob[e.th], e.id, e.dest)

Held == NocHeld /\ TwinsHeld /\ TransHeld /\ EventsHeld /\ RespHeld

(* A gather is under way in one place.                                     *)
OneGather ==
  /\ \A m, n \in noc : m.type = "get" /\ n.type = "get" /\ SameInstr(m, n) => m = n
  /\ \A m \in noc, p \in Ports : m.type = "get" =>
       /\ \A e \in active_gather_event[p] : ~SameInstr(m, e)
       /\ \A e \in resp_queue[p] : ~SameInstr(m, e)
  /\ \A p, q \in Ports : \A e \in active_gather_event[p] : e.th # Nobody =>
       /\ \A f \in active_gather_event[q] : SameInstr(e, f) => p = q /\ e = f
       /\ \A f \in resp_queue[q] : ~SameInstr(e, f)
  /\ \A p, q \in Ports : \A e \in resp_queue[p], f \in resp_queue[q] :
       SameInstr(e, f) => p = q /\ e = f

(* So is an update; the two requests of a two-operand update are one.      *)
OneUpdate ==
  /\ \A m, n \in noc : m.type # "get" /\ n.type # "get" /\ SameInstr(m, n) =>
       m = n \/ (m.kind = "req" /\ m.type = "mult" /\ n = Twin(m))
  /\ \A p \in Ports : \A x \in active_mult_twins[p] :
       /\ \A m \in noc : m.type # "get" /\ SameInstr(m, x) => m = Twin(x)
       /\ \A q \in Ports : \A y \in active_mult_twins[q] : SameInstr(x, y) => x = y
  /\ \A p \in Ports : \A i \in DOMAIN tran_buf[p] : tran_buf[p][i].type = "update" =>
       /\ \A m \in noc : m.type # "get" => ~SameInstr(m, tran_buf[p][i])
       /\ \A q \in Ports :
            /\ \A x \in active_mult_twins[q] : ~SameInstr(x, tran_buf[p][i])
            /\ \A j \in DOMAIN tran_buf[q] :
                 tran_buf[q][j].type = "update" /\ SameInstr(tran_buf[p][i], tran_buf[q][j]) =>
                   p = q /\ i = j

(* A gather that is executing is somewhere.                                *)
GatherSomewhere(t, k) ==
  \/ \E m \in noc : m.type = "get" /\ m.th = t /\ m.id = k
  \/ \E p \in Ports : \E e \in active_gather_event[p] : e.th = t /\ e.id = k
  \/ \E p \in Ports : \E e \in resp_queue[p] : e.th = t /\ e.id = k

GathersKept ==
  \A t \in Threads : \A i \in DOMAIN rob[t] :
    rob[t][i].type = "get" /\ rob[t][i].state = "executing" => GatherSomewhere(t, rob[t][i].id)

HInv == Types /\ RobSound /\ Held /\ OneGather /\ OneUpdate /\ GathersKept

(***************************************************************************)
(* Rounds.  The state of target d at a port is the transactions that wait  *)
(* in the port (a), those that wait in the controller (b), the sub-flow    *)
(* (fl) and the answers of the network (c).                                *)
(***************************************************************************)
NoneFor(q, d) == \A i \in DOMAIN q : q[i].dest # d

NoGather(q, d) == \A i \in DOMAIN q : ~(q[i].type = "get" /\ q[i].dest = d)

SomeUpdate(q, d) == \E i \in DOMAIN q : q[i].type = "update" /\ q[i].dest = d

NoAnswer(c, d) == \A i \in DOMAIN c : c[i] # d

Quiet(a, b, fl, c, d) == NoneFor(a, d) /\ NoneFor(b, d) /\ fl = IdleFlow /\ NoAnswer(c, d)

(* Updates only, and at least one of them.                                 *)
Fed(a, b, fl, c, d) ==
  /\ NoGather(a, d) /\ NoGather(b, d) /\ fl.phase = "update" /\ NoAnswer(c, d)
  /\ SomeUpdate(a, d) \/ SomeUpdate(b, d) \/ fl.issued > 0

(* The gather on its way: in the port, in the controller, in the network,  *)
(* answered.                                                               *)
InPort(a, b, fl, c, d) ==
  /\ \E i \in DOMAIN a : a[i].type = "get" /\ a[i].dest = d /\ \A j \in DOMAIN a : j # i => a[j].dest # d
  /\ NoGather(b, d) /\ fl.phase = "update" /\ NoAnswer(c, d)
  /\ SomeUpdate(b, d) \/ fl.issued > 0

InController(a, b, fl, c, d) ==
  /\ \E i \in DOMAIN b :
       /\ b[i].type = "get" /\ b[i].dest = d
       /\ \A j \in DOMAIN b : j > i => b[j].dest # d
       /\ \A j \in DOMAIN b : j < i => ~(b[j].type = "get" /\ b[j].dest = d)
  /\ NoneFor(a, d) /\ fl.phase = "update" /\ NoAnswer(c, d)
  /\ SomeUpdate(b, d) \/ fl.issued > 0

InNetwork(a, b, fl, c, d) ==
  NoneFor(a, d) /\ NoneFor(b, d) /\ fl.phase = "gather" /\ NoAnswer(c, d)

InAnswer(a, b, fl, c, d) ==
  /\ NoneFor(a, d) /\ NoneFor(b, d) /\ fl.phase = "answered"
  /\ \E i \in DOMAIN c : c[i] = d /\ \A j \in DOMAIN c : j # i => c[j] # d

UnderWay(a, b, fl, c, d) ==
  \/ InPort(a, b, fl, c, d) \/ InController(a, b, fl, c, d)
  \/ InNetwork(a, b, fl, c, d) \/ InAnswer(a, b, fl, c, d)

QuietAt(d, p) == Quiet(tran_buf[p], downBuffers[p], flow[<<d, p>>], serv_trans[p], d)
FedAt(d, p) == Fed(tran_buf[p], downBuffers[p], flow[<<d, p>>], serv_trans[p], d)
UnderWayAt(d, p) == UnderWay(tran_buf[p], downBuffers[p], flow[<<d, p>>], serv_trans[p], d)

(* Threads whose gather of d waits at a port.                              *)
Joined(d) ==
  {t \in Threads : \E p \in Ports : \E e \in active_gather_event[p] : e.dest = d /\ e.th = t}

(* The threads are being counted.                                          *)
Collecting(d) ==
  /\ Joined(d) = {} => gather_barrier[d] = NoBarrier
  /\ Joined(d) # {} => gather_barrier[d].live
  /\ gather_barrier[d].count = Cardinality(Joined(d))
  /\ \A p \in Ports :
       /\ gather_barrier[d].port[p] \in 0..gather_barrier[d].count
       /\ \A e \in active_gather_event[p] : e.dest = d => e.th # Nobody
       /\ p \in active_forests[d] => FedAt(d, p)
       /\ p \notin active_forests[d] => QuietAt(d, p)

(* All threads are here: the answers of the ports are being counted.       *)
Open(b) == {p \in Ports : b.port[p] = 1}

Answering(d) ==
  /\ gather_barrier[d].live
  /\ gather_barrier[d].count = Cardinality(Open(gather_barrier[d]))
  /\ \A p \in Ports :
       /\ gather_barrier[d].port[p] \in {-1, 0, 1}
       /\ gather_barrier[d].port[p] = 1 => UnderWayAt(d, p)
       /\ gather_barrier[d].port[p] # 1 => QuietAt(d, p)

Round(d) == IF Joined(d) = Threads THEN Answering(d) ELSE Collecting(d)

Rounds == \A d \in Targets : Round(d)

IInv == HInv /\ Rounds

-----------------------------------------------------------------------------
(***************************************************************************)
(* Reorder buffers.                                                        *)
(***************************************************************************)
LEMMA InstrIs ==
  ASSUME NEW r \in Seq(Instr), NEW i \in DOMAIN r
  PROVE  /\ r[i] \in Instr /\ r[i].id \in 0..RobSize-1 /\ r[i].dest \in Targets
         /\ r[i].type \in {"add", "mult", "get"} /\ r[i].state \in {"issued", "executing", "completed"}
<1>1. r[i] \in Instr
  OBVIOUS
<1> QED BY <1>1 DEF Instr

LEMMA DistinctIds ==
  ASSUME NEW r \in Seq(Instr), RobNumbers(r), NEW i \in DOMAIN r, NEW j \in DOMAIN r,
         r[i].id = r[j].id
  PROVE  i = j
<1>1. RobSize \in Nat \ {0}
  BY BarrierAssumption
<1>2. 1 \in DOMAIN r /\ Len(r) \in Nat /\ DOMAIN r = 1..Len(r)
  OBVIOUS
<1>3. PICK a : a = r[1].id
  OBVIOUS
<1>4. a \in 0..RobSize-1
  BY <1>2, <1>3, InstrIs
<1>5. NthId(a, i) = NthId(a, j) /\ Len(r) <= RobSize
  BY <1>3 DEF RobNumbers
<1> QED BY <1>1, <1>2, <1>4, <1>5 DEF NthId

LEMMA NextNumber ==
  ASSUME NEW x \in 0..RobSize-1
  PROVE  (x + 1) % RobSize = IF x + 1 = RobSize THEN 0 ELSE x + 1
<1>1. RobSize \in Nat \ {0}
  BY BarrierAssumption
<1>2. CASE x + 1 = RobSize
  BY <1>1, <1>2
<1>3. CASE x + 1 # RobSize
  BY <1>1, <1>3
<1> QED BY <1>2, <1>3

(* What Dispatch appends.                                                  *)
Fresh(r, type, d) ==
  [id |-> IF r = <<>> THEN 0 ELSE (Last(r).id + 1) % RobSize, type |-> type, dest |-> d,
   state |-> "issued"]

LEMMA FreshType ==
  ASSUME NEW r \in Seq(Instr), NEW type \in {"add", "mult", "get"}, NEW d \in Targets
  PROVE  Fresh(r, type, d) \in Instr
<1>1. RobSize \in Nat \ {0}
  BY BarrierAssumption
<1>2. PICK k : k = Fresh(r, type, d).id
  OBVIOUS
<1>3. k \in 0..RobSize-1
  <2>1. CASE r = <<>>
    BY <1>1, <1>2, <2>1 DEF Fresh
  <2>2. CASE r # <<>>
    <3>1. Len(r) \in DOMAIN r
      BY <2>2
    <3>2. PICK x : x = r[Len(r)].id
      OBVIOUS
    <3>3. x \in 0..RobSize-1
      BY <3>1, <3>2, InstrIs
    <3>4. k = (x + 1) % RobSize
      BY <1>2, <2>2, <3>2 DEF Fresh, Last
    <3> QED BY <1>1, <3>3, <3>4, NextNumber
  <2> QED BY <2>1, <2>2
<1> QED BY <1>2, <1>3 DEF Fresh, Instr

LEMMA AppendNumbers ==
  ASSUME NEW r \in Seq(Instr), RobNumbers(r), Len(r) < RobSize,
         NEW type \in {"add", "mult", "get"}, NEW d \in Targets
  PROVE  RobNumbers(Append(r, Fresh(r, type, d)))
<1>1. RobSize \in Nat \ {0} /\ Len(r) \in Nat /\ DOMAIN r = 1..Len(r)
  BY BarrierAssumption
<1>2. PICK e : e = Fresh(r, type, d)
  OBVIOUS
<1>3. PICK s : s = Append(r, e)
  OBVIOUS
<1>4. /\ Len(s) = Len(r) + 1 /\ DOMAIN s = 1..(Len(r) + 1)
      /\ s[Len(r) + 1] = e /\ \A i \in DOMAIN r : s[i] = r[i]
  BY <1>3
<1>5. CASE r = <<>>
  <2>1. e.id = 0
    BY <1>2, <1>5 DEF Fresh
  <2>2. Len(r) = 0
    BY <1>5
  <2>3. ASSUME NEW i \in DOMAIN s PROVE s[i].id = NthId(s[1].id, i)
    <3>1. i = 1 /\ s[1].id = 0
      BY <1>4, <2>1, <2>2
    <3> QED BY <1>1, <3>1 DEF NthId
  <2> QED BY <1>1, <1>2, <1>3, <1>4, <2>2, <2>3 DEF RobNumbers
<1>6. CASE r # <<>>
  <2>1. Len(r) > 0 /\ Len(r) \in DOMAIN r /\ 1 \in DOMAIN r
    BY <1>1, <1>6
  <2>2. PICK x, a : x = r[Len(r)].id /\ a = r[1].id
    OBVIOUS
  <2>3. x \in 0..RobSize-1 /\ a \in 0..RobSize-1
    BY <2>1, <2>2, InstrIs
  <2>4. x = NthId(a, Len(r))
    BY <2>1, <2>2 DEF RobNumbers
  <2>5. e.id = IF x + 1 = RobSize THEN 0 ELSE x + 1
    BY <1>2, <1>6, <2>2, <2>3, NextNumber DEF Fresh, Last
  <2>6. e.id = NthId(a, Len(r) + 1)
    BY <1>1, <2>1, <2>3, <2>4, <2>5 DEF NthId
  <2>7. ASSUME NEW i \in DOMAIN s PROVE s[i].id = NthId(s[1].id, i)
    <3>1. CASE i = Len(r) + 1
      BY <1>4, <2>1, <2>2, <2>6, <3>1
    <3>2. CASE i # Len(r) + 1
      <4>1. i \in DOMAIN r
        BY <1>1, <1>4, <3>2
      <4> QED BY <1>4, <2>1, <4>1 DEF RobNumbers
    <3> QED BY <3>1, <3>2
  <2> QED BY <1>1, <1>2, <1>3, <1>4, <2>7 DEF RobNumbers
<1> QED BY <1>5, <1>6

LEMMA TailFacts ==
  ASSUME NEW S, NEW r \in Seq(S), r # <<>>
  PROVE  /\ Tail(r) \in Seq(S) /\ Len(r) \in Nat \ {0} /\ Len(Tail(r)) = Len(r) - 1
         /\ DOMAIN r = 1..Len(r) /\ DOMAIN Tail(r) = 1..(Len(r) - 1)
         /\ \A i \in DOMAIN Tail(r) : i + 1 \in DOMAIN r /\ Tail(r)[i] = r[i + 1]
         /\ Head(r) = r[1] /\ 1 \in DOMAIN r
OBVIOUS

LEMMA AppendFacts ==
  ASSUME NEW S, NEW r \in Seq(S), NEW e \in S
  PROVE  /\ Append(r, e) \in Seq(S) /\ Len(r) \in Nat /\ Len(Append(r, e)) = Len(r) + 1
         /\ DOMAIN r = 1..Len(r) /\ DOMAIN Append(r, e) = 1..(Len(r) + 1)
         /\ Append(r, e)[Len(r) + 1] = e /\ \A i \in DOMAIN r : Append(r, e)[i] = r[i]
OBVIOUS

LEMMA TailNumbers ==
  ASSUME NEW r \in Seq(Instr), RobNumbers(r), r # <<>>
  PROVE  RobNumbers(Tail(r))
<1>1. RobSize \in Nat \ {0}
  BY BarrierAssumption
<1>2. PICK s : s = Tail(r)
  OBVIOUS
<1>3. /\ Len(r) \in Nat \ {0} /\ Len(s) = Len(r) - 1 /\ DOMAIN r = 1..Len(r) /\ DOMAIN s = 1..(Len(r) - 1)
      /\ \A i \in DOMAIN s : i + 1 \in DOMAIN r /\ s[i] = r[i + 1]
  BY <1>2, TailFacts
<1>4. PICK a : a = r[1].id
  OBVIOUS
<1>5. a \in 0..RobSize-1
  BY <1>3, <1>4, InstrIs
<1>6. ASSUME NEW i \in DOMAIN s PROVE s[i].id = NthId(s[1].id, i)
  <2>1. 1 \in DOMAIN s /\ Len(r) <= RobSize /\ i \in 1..(Len(r) - 1)
    BY <1>3 DEF RobNumbers
  <2>2. s[i].id = NthId(a, i + 1) /\ s[1].id = NthId(a, 1 + 1)
    BY <1>3, <1>4, <2>1 DEF RobNumbers
  <2>3. NthId(a, i + 1) = NthId(NthId(a, 2), i)
    BY <1>1, <1>3, <1>5, <2>1, SMTT(60) DEF NthId
  <2> QED BY <2>2, <2>3
<1>7. Len(s) <= RobSize
  BY <1>1, <1>3 DEF RobNumbers
<1> QED BY <1>2, <1>6, <1>7 DEF RobNumbers

(* The state of an instruction changes.                                    *)
LEMMA StateFacts ==
  ASSUME NEW r \in Seq(Instr), NEW i \in DOMAIN r, NEW z \in {"issued", "executing", "completed"}
  PROVE  LET s == [r EXCEPT ![i].state = z]
         IN  /\ s \in Seq(Instr) /\ DOMAIN s = DOMAIN r /\ Len(s) = Len(r)
             /\ s[i].state = z
             /\ \A j \in DOMAIN r : /\ s[j].id = r[j].id /\ s[j].type = r[j].type
                                    /\ s[j].dest = r[j].dest /\ (j # i => s[j].state = r[j].state)
<1>1. r[i] \in Instr
  OBVIOUS
<1>2. [r[i] EXCEPT !.state = z] \in Instr
  BY <1>1 DEF Instr
<1> QED BY <1>1, <1>2 DEF Instr

LEMMA StateNumbers ==
  ASSUME NEW r \in Seq(Instr), NEW i \in DOMAIN r, NEW z \in {"issued", "executing", "completed"},
         RobNumbers(r)
  PROVE  RobNumbers([r EXCEPT ![i].state = z])
<1>1. 1 \in DOMAIN r
  OBVIOUS
<1> QED BY <1>1, StateFacts DEF RobNumbers

LEMMA AppendOrder ==
  ASSUME NEW r \in Seq(Instr), RobOrder(r), NEW d, NEW e \in Instr, e.dest = d, e.state = "issued",
         \A i \in DOMAIN r : ~(r[i].type = "get" /\ r[i].dest = d)
  PROVE  RobOrder(Append(r, e))
<1>1. PICK s : s = Append(r, e)
  OBVIOUS
<1>2. /\ Len(r) \in Nat /\ DOMAIN r = 1..Len(r) /\ DOMAIN s = 1..(Len(r) + 1)
      /\ s[Len(r) + 1] = e /\ \A i \in DOMAIN r : s[i] = r[i]
  BY <1>1, AppendFacts
<1>3. ASSUME NEW i \in DOMAIN s, s[i].type = "get", s[i].state # "issued"
      PROVE  i = 1
  BY <1>2, <1>3 DEF RobOrder
<1>4. ASSUME NEW i \in DOMAIN s, NEW j \in DOMAIN s, i < j, s[i].type = "get"
      PROVE  s[j].dest # s[i].dest
  <2>1. i \in DOMAIN r
    BY <1>2, <1>4
  <2>2. CASE j = Len(r) + 1
    BY <1>2, <1>4, <2>1, <2>2
  <2>3. CASE j # Len(r) + 1
    BY <1>2, <1>4, <2>1, <2>3 DEF RobOrder
  <2> QED BY <2>2, <2>3
<1> QED BY <1>1, <1>3, <1>4 DEF RobOrder

LEMMA AppendExec ==
  ASSUME NEW r \in Seq(Instr), NEW e \in Instr, NEW k, NEW d
  PROVE  /\ ExecUpdate(r, k, d) => ExecUpdate(Append(r, e), k, d)
         /\ ExecGather(r, k, d) => ExecGather(Append(r, e), k, d)
<1>1. PICK s : s = Append(r, e)
  OBVIOUS
<1>2. \A i \in DOMAIN r : i \in DOMAIN s /\ s[i] = r[i]
  BY <1>1, AppendFacts
<1> QED BY <1>1, <1>2 DEF ExecUpdate, ExecGather

LEMMA TailOrder ==
  ASSUME NEW r \in Seq(Instr), RobOrder(r), r # <<>>
  PROVE  RobOrder(Tail(r))
<1>1. PICK s : s = Tail(r)
  OBVIOUS
<1>2. /\ DOMAIN s = 1..(Len(r) - 1) /\ Len(r) \in Nat /\ DOMAIN r = 1..Len(r)
      /\ \A i \in DOMAIN s : i + 1 \in DOMAIN r /\ s[i] = r[i + 1]
  BY <1>1, TailFacts
<1>3. ASSUME NEW i \in DOMAIN s, s[i].type = "get", s[i].state # "issued"
      PROVE  i = 1
  <2>1. i + 1 = 1
    BY <1>2, <1>3 DEF RobOrder
  <2> QED BY <1>2, <2>1
<1>4. ASSUME NEW i \in DOMAIN s, NEW j \in DOMAIN s, i < j, s[i].type = "get"
      PROVE  s[j].dest # s[i].dest
  <2>1. i + 1 < j + 1 /\ i + 1 \in DOMAIN r /\ j + 1 \in DOMAIN r
    BY <1>2, <1>4
  <2> QED BY <1>2, <1>4, <2>1 DEF RobOrder
<1> QED BY <1>1, <1>3, <1>4 DEF RobOrder

LEMMA TailExec ==
  ASSUME NEW r \in Seq(Instr), r # <<>>, Head(r).state = "completed", NEW k, NEW d
  PROVE  /\ ExecUpdate(r, k, d) => ExecUpdate(Tail(r), k, d)
         /\ ExecGather(r, k, d) => ExecGather(Tail(r), k, d)
<1>1. PICK s : s = Tail(r)
  OBVIOUS
<1>2. /\ DOMAIN s = 1..(Len(r) - 1) /\ Len(r) \in Nat /\ DOMAIN r = 1..Len(r)
      /\ \A i \in DOMAIN s : i + 1 \in DOMAIN r /\ s[i] = r[i + 1]
      /\ Head(r) = r[1]
  BY <1>1, TailFacts
<1>3. ASSUME NEW i \in DOMAIN r, r[i].state = "executing"
      PROVE  i - 1 \in DOMAIN s /\ s[i - 1] = r[i]
  <2>1. i # 1
    BY <1>2, <1>3
  <2>2. i - 1 \in DOMAIN s /\ (i - 1) + 1 = i
    BY <1>2, <2>1
  <2> QED BY <1>2, <2>2
<1> QED BY <1>1, <1>3 DEF ExecUpdate, ExecGather

(* An instruction is issued, or is completed.                              *)
LEMMA IssueOrder ==
  ASSUME NEW r \in Seq(Instr), RobOrder(r), NEW i \in DOMAIN r, r[i].type = "get" => i = 1,
         NEW z \in {"issued", "executing", "completed"}
  PROVE  RobOrder([r EXCEPT ![i].state = z])
<1>1. PICK s : s = [r EXCEPT ![i].state = z]
  OBVIOUS
<1>2. /\ DOMAIN s = DOMAIN r
      /\ \A j \in DOMAIN r : /\ s[j].id = r[j].id /\ s[j].type = r[j].type
                             /\ s[j].dest = r[j].dest /\ (j # i => s[j].state = r[j].state)
  BY <1>1, StateFacts
<1> QED BY <1>1, <1>2 DEF RobOrder

LEMMA StateExec ==
  ASSUME NEW r \in Seq(Instr), RobNumbers(r), NEW i \in DOMAIN r,
         NEW z \in {"issued", "executing", "completed"}, NEW k \in 0..RobSize-1, k # r[i].id, NEW d
  PROVE  /\ ExecUpdate(r, k, d) => ExecUpdate([r EXCEPT ![i].state = z], k, d)
         /\ ExecGather(r, k, d) => ExecGather([r EXCEPT ![i].state = z], k, d)
<1>1. PICK s : s = [r EXCEPT ![i].state = z]
  OBVIOUS
<1>2. /\ DOMAIN s = DOMAIN r
      /\ \A j \in DOMAIN r : /\ s[j].id = r[j].id /\ s[j].type = r[j].type
                             /\ s[j].dest = r[j].dest /\ (j # i => s[j].state = r[j].state)
  BY <1>1, StateFacts
<1>3. /\ ExecUpdate(r, k, d) => ExecUpdate(s, k, d)
      /\ ExecGather(r, k, d) => ExecGather(s, k, d)
  BY <1>2 DEF ExecUpdate, ExecGather
<1> QED BY <1>1, <1>3

LEMMA IssueExec ==
  ASSUME NEW r \in Seq(Instr), RobNumbers(r), NEW i \in DOMAIN r, r[i].state = "issued"
  PROVE  LET s == [r EXCEPT ![i].state = "executing"]
         IN  /\ \A k, d : ExecUpdate(r, k, d) => k # r[i].id /\ ExecUpdate(s, k, d)
             /\ \A k, d : ExecGather(r, k, d) => k # r[i].id /\ ExecGather(s, k, d)
             /\ r[i].type = "get" => ExecGather(s, r[i].id, r[i].dest)
             /\ r[i].type # "get" => ExecUpdate(s, r[i].id, r[i].dest)
<1>1. PICK s : s = [r EXCEPT ![i].state = "executing"]
  OBVIOUS
<1>2. /\ DOMAIN s = DOMAIN r /\ s[i].state = "executing"
      /\ \A j \in DOMAIN r : /\ s[j].id = r[j].id /\ s[j].type = r[j].type
                             /\ s[j].dest = r[j].dest /\ (j # i => s[j].state = r[j].state)
  BY <1>1, StateFacts, ZenonT(60)
<1>3. ASSUME NEW j \in DOMAIN r, r[j].state = "executing"
      PROVE  j # i /\ r[j].id # r[i].id
  BY <1>3, DistinctIds
<1>4. ASSUME NEW k, NEW d
      PROVE  /\ ExecUpdate(r, k, d) => k # r[i].id /\ ExecUpdate(s, k, d)
             /\ ExecGather(r, k, d) => k # r[i].id /\ ExecGather(s, k, d)
  BY <1>2, <1>3 DEF ExecUpdate, ExecGather
<1>5. /\ r[i].type = "get" => ExecGather(s, r[i].id, r[i].dest)
      /\ r[i].type # "get" => ExecUpdate(s, r[i].id, r[i].dest)
  BY <1>2 DEF ExecUpdate, ExecGather
<1> QED BY <1>1, <1>4, <1>5

(* The instruction k that is executing is one, of one kind and target.     *)
LEMMA ExecOne ==
  ASSUME NEW r \in Seq(Instr), RobNumbers(r), NEW k, NEW d, NEW c
  PROVE  /\ ~(ExecUpdate(r, k, d) /\ ExecGather(r, k, c))
         /\ ExecUpdate(r, k, d) /\ ExecUpdate(r, k, c) => d = c
         /\ ExecGather(r, k, d) /\ ExecGather(r, k, c) => d = c
BY DistinctIds DEF ExecUpdate, ExecGather

(* A thread whose gather of d is executing has no update of d under way,   *)
(* and no other gather.                                                    *)
LEMMA GatherAlone ==
  ASSUME NEW r \in Seq(Instr), RobOrder(r), NEW k, NEW d, ExecGather(r, k, d), NEW l, NEW c
  PROVE  /\ ~ExecUpdate(r, l, d)
         /\ ExecGather(r, l, c) => l = k /\ c = d
<1>1. PICK i \in DOMAIN r :
        r[i].id = k /\ r[i].state = "executing" /\ r[i].dest = d /\ r[i].type = "get"
  BY DEF ExecGather
<1>2. i = 1 /\ DOMAIN r = 1..Len(r) /\ Len(r) \in Nat
  BY <1>1 DEF RobOrder
<1>3. \A j \in DOMAIN r : j # 1 => r[j].dest # d
  <2>1. ASSUME NEW j \in DOMAIN r, j # 1 PROVE 1 < j
    BY <1>2, <2>1
  <2> QED BY <1>1, <1>2, <2>1 DEF RobOrder
<1>4. ~ExecUpdate(r, l, d)
  BY <1>1, <1>2, <1>3 DEF ExecUpdate
<1>5. ASSUME ExecGather(r, l, c) PROVE l = k /\ c = d
  BY <1>1, <1>2, <1>5 DEF ExecGather, RobOrder
<1> QED BY <1>4, <1>5

-----------------------------------------------------------------------------
(***************************************************************************)
(* Types.                                                                  *)
(***************************************************************************)
LEMMA PortFacts ==
  /\ 0 \in Ports /\ PortOf \in [Threads -> Ports] /\ NumPorts \in Nat \ {0}
  /\ 0 \in 0..RobSize-1 /\ 0 \in Targets
BY BarrierAssumption DEF Ports, Targets

LEMMA RequestPorts ==
  ASSUME Types, NEW t \in Threads
  PROVE  UpdatePorts(t) \subseteq Ports /\ WhichHmc(t) \in Ports
<1>1. art_scheme \in {"naive", "tid", "addr"}
  BY BarrierAssumption DEF Types
<1>2. CASE art_scheme = "naive"
  BY <1>2, PortFacts DEF UpdatePorts, WhichHmc
<1>3. CASE art_scheme = "tid"
  BY <1>3, PortFacts DEF UpdatePorts, WhichHmc
<1>4. CASE art_scheme = "addr"
  BY <1>4, PortFacts DEF UpdatePorts, WhichHmc
<1> QED BY <1>1, <1>2, <1>3, <1>4

LEMMA MessageIs ==
  ASSUME NEW m \in Message
  PROVE  /\ m.kind \in {"req", "rep"} /\ m.th \in Threads /\ m.id \in 0..RobSize-1
         /\ m.type \in {"add", "mult", "get"} /\ m.dest \in Targets /\ m.port \in Ports
         /\ m.half \in 1..2
BY DEF Message

LEMMA TwinIs ==
  ASSUME NEW m \in Message
  PROVE  /\ Twin(m) \in Message /\ Twin(m) # m /\ Twin(Twin(m)) = m
         /\ Twin(m).kind = m.kind /\ Twin(m).th = m.th /\ Twin(m).id = m.id
         /\ Twin(m).type = m.type /\ Twin(m).dest = m.dest /\ Twin(m).port = m.port
         /\ Twin(m).half = 3 - m.half
<1>1. PICK h : h = m.half
  OBVIOUS
<1>2. h \in 1..2 /\ 3 - h \in 1..2 /\ 3 - h # h /\ 3 - (3 - h) = h
  BY <1>1, MessageIs
<1>3. PICK g \in 1..2 : g = 3 - h /\ g # h /\ 3 - g = h
  BY <1>2
<1>4. Twin(m) = [m EXCEPT !.half = g]
  BY <1>1, <1>3 DEF Twin
<1>5. PICK n : n = [m EXCEPT !.half = g]
  OBVIOUS
<1>6. /\ n \in Message /\ n.half = g /\ n # m
      /\ n.kind = m.kind /\ n.th = m.th /\ n.id = m.id
      /\ n.type = m.type /\ n.dest = m.dest /\ n.port = m.port
  BY <1>1, <1>3, <1>5 DEF Message
<1>7. Twin(n) = [n EXCEPT !.half = h]
  BY <1>3, <1>6 DEF Twin
<1>8. [n EXCEPT !.half = h] = m
  BY <1>1, <1>5, <1>6 DEF Message
<1> QED BY <1>1, <1>3, <1>4, <1>5, <1>6, <1>7, <1>8

(* Two messages of an instruction that differ in the half only.            *)
LEMMA SameMessage ==
  ASSUME NEW m \in Message, NEW n \in Message, m.kind = n.kind, m.th = n.th, m.id = n.id,
         m.type = n.type, m.dest = n.dest, m.port = n.port
  PROVE  n = m \/ n = Twin(m)
<1>1. CASE m.half = n.half
  BY <1>1 DEF Message
<1>2. CASE m.half # n.half
  <2>1. n.half = 3 - m.half
    <3>1. PICK x, y : x = m.half /\ y = n.half
      OBVIOUS
    <3>2. x \in 1..2 /\ y \in 1..2 /\ x # y
      BY <1>2, <3>1, MessageIs
    <3>3. y = 3 - x
      BY <3>2
    <3> QED BY <3>1, <3>3
  <2>2. PICK g : g = 3 - m.half
    OBVIOUS
  <2>3. n = [m EXCEPT !.half = g]
    BY <2>1, <2>2 DEF Message
  <2> QED BY <2>2, <2>3 DEF Twin
<1> QED BY <1>1, <1>2

LEMMA DispatchIs ==
  ASSUME Types, NEW t \in Threads, NEW type \in {"add", "mult", "get"}, Dispatch(t, type)
  PROVE  LET e == Fresh(rob[t], type, program[t].target)
         IN  /\ Len(rob[t]) < RobSize /\ rob[t] \in Seq(Instr) /\ program[t].target \in Targets
             /\ e \in Instr /\ Append(rob[t], e) \in Seq(Instr)
             /\ e.dest = program[t].target /\ e.state = "issued" /\ e.type = type
             /\ rob' = [rob EXCEPT ![t] = Append(rob[t], e)]
             /\ rob' \in [Threads -> Seq(Instr)]
<1>1. rob[t] \in Seq(Instr) /\ program[t].target \in Targets /\ rob \in [Threads -> Seq(Instr)]
  BY DEF Types
<1>2. PICK e : e = Fresh(rob[t], type, program[t].target)
  OBVIOUS
<1>3. e \in Instr
  BY <1>1, <1>2, FreshType
<1>4. e.dest = program[t].target /\ e.state = "issued" /\ e.type = type
  BY <1>2 DEF Fresh
<1>5. rob' = [rob EXCEPT ![t] = Append(rob[t], e)] /\ Len(rob[t]) < RobSize
  BY <1>2 DEF Dispatch, Fresh
<1>6. Append(rob[t], e) \in Seq(Instr)
  BY <1>1, <1>3
<1>7. rob' \in [Threads -> Seq(Instr)]
  BY <1>1, <1>5, <1>6
<1> QED BY <1>1, <1>2, <1>3, <1>4, <1>5, <1>6, <1>7

(* What stays when a thread fetches an instruction.                        *)
Quiescent == UNCHANGED <<art_scheme, noc, port, memnet, resp_queue>>

LEMMA FetchIs ==
  ASSUME Types, NEW t \in Threads, Fetch(t)
  PROVE  \E e \in Instr :
           /\ \A i \in DOMAIN rob[t] : ~(rob[t][i].type = "get" /\ rob[t][i].dest = e.dest)
           /\ e.state = "issued"
           /\ rob' = [rob EXCEPT ![t] = Append(rob[t], e)]
           /\ rob' \in [Threads -> Seq(Instr)]
           /\ RobNumbers(rob[t]) => RobNumbers(Append(rob[t], e))
           /\ Quiescent
           /\ program' \in [Threads -> [target : Targets, updates : 0..MaxUpdates]]
<1>1. CASE FetchUpdate(t)
  <2>1. PICK type \in UpdateTypes : Dispatch(t, type)
    BY <1>1 DEF FetchUpdate
  <2>2. type \in {"add", "mult", "get"}
    BY BarrierAssumption
  <2>3. PICK e : e = Fresh(rob[t], type, program[t].target)
    OBVIOUS
  <2>4. /\ Len(rob[t]) < RobSize /\ rob[t] \in Seq(Instr) /\ program[t].target \in Targets
        /\ e \in Instr /\ e.dest = program[t].target /\ e.state = "issued"
        /\ rob' = [rob EXCEPT ![t] = Append(rob[t], e)]
        /\ rob' \in [Threads -> Seq(Instr)]
    BY <2>1, <2>2, <2>3, DispatchIs
  <2>5. RobNumbers(rob[t]) => RobNumbers(Append(rob[t], e))
    BY <2>2, <2>3, <2>4, AppendNumbers
  <2>6. \A i \in DOMAIN rob[t] : ~(rob[t][i].type = "get" /\ rob[t][i].dest = e.dest)
    BY <1>1, <2>4 DEF FetchUpdate, Waiting
  <2>7. program[t].updates < MaxUpdates /\ program' = [program EXCEPT ![t].updates = @ + 1] /\ Quiescent
    BY <1>1 DEF FetchUpdate, Quiescent
  <2>8. program' \in [Threads -> [target : Targets, updates : 0..MaxUpdates]]
    <3>1. program \in [Threads -> [target : Targets, updates : 0..MaxUpdates]] /\ MaxUpdates \in Nat
      BY BarrierAssumption DEF Types
    <3>2. program[t].updates + 1 \in 0..MaxUpdates
      BY <2>7, <3>1
    <3> QED BY <2>7, <3>1, <3>2
  <2> QED BY <2>4, <2>5, <2>6, <2>7, <2>8
<1>2. CASE FetchGather(t)
  <2>1. Dispatch(t, "get")
    BY <1>2 DEF FetchGather
  <2>3. PICK e : e = Fresh(rob[t], "get", program[t].target)
    OBVIOUS
  <2>4. /\ Len(rob[t]) < RobSize /\ rob[t] \in Seq(Instr) /\ program[t].target \in Targets
        /\ e \in Instr /\ e.dest = program[t].target /\ e.state = "issued"
        /\ rob' = [rob EXCEPT ![t] = Append(rob[t], e)]
        /\ rob' \in [Threads -> Seq(Instr)]
    BY <2>1, <2>3, DispatchIs
  <2>5. RobNumbers(rob[t]) => RobNumbers(Append(rob[t], e))
    BY <2>3, <2>4, AppendNumbers
  <2>6. \A i \in DOMAIN rob[t] : ~(rob[t][i].type = "get" /\ rob[t][i].dest = e.dest)
    BY <1>2, <2>4 DEF FetchGather, Waiting
  <2>7. /\ program' = [program EXCEPT ![t] = [target |-> (@.target + 1) % NumTargets, updates |-> 0]]
        /\ Quiescent
    BY <1>2 DEF FetchGather, Quiescent
  <2>8. program' \in [Threads -> [target : Targets, updates : 0..MaxUpdates]]
    <3>1. /\ program \in [Threads -> [target : Targets, updates : 0..MaxUpdates]]
          /\ MaxUpdates \in Nat /\ NumTargets \in Nat \ {0}
      BY BarrierAssumption DEF Types
    <3>2. PICK x : x = program[t].target
      OBVIOUS
    <3>3. x \in 0..NumTargets-1
      BY <2>4, <3>2 DEF Targets
    <3>4. (x + 1) % NumTargets \in 0..NumTargets-1
      BY <3>1, <3>3
    <3>5. [target |-> (x + 1) % NumTargets, updates |-> 0] \in [target : Targets, updates : 0..MaxUpdates]
      BY <3>1, <3>4 DEF Targets
    <3>6. program' = [program EXCEPT ![t] = [target |-> (x + 1) % NumTargets, updates |-> 0]]
      BY <2>7, <3>2
    <3> QED BY <3>1, <3>5, <3>6
  <2> QED BY <2>4, <2>5, <2>6, <2>7, <2>8
<1> QED BY <1>1, <1>2 DEF Fetch

-----------------------------------------------------------------------------
(***************************************************************************)
(* Steps of the cores.                                                     *)
(***************************************************************************)
LEMMA TypesOf ==
  ASSUME Types
  PROVE  /\ \A t \in Threads : rob[t] \in Seq(Instr)
         /\ \A m \in noc : m \in Message
         /\ \A p \in Ports : /\ \A m \in active_mult_twins[p] : m \in Message
                             /\ \A e \in active_gather_event[p] : e \in GatherEvent
                             /\ \A e \in resp_queue[p] : e \in GatherEvent
                             /\ tran_buf[p] \in Seq(Tran) /\ downBuffers[p] \in Seq(Tran)
                             /\ serv_trans[p] \in Seq(Targets)
BY DEF Types

LEMMA EventIs ==
  ASSUME NEW e \in GatherEvent
  PROVE  /\ e.dest \in Targets /\ e.th \in Threads \cup {Nobody} /\ e.id \in 0..RobSize-1
         /\ e.th # Nobody => e.th \in Threads
BY DEF GatherEvent

LEMMA TranIs ==
  ASSUME NEW q \in Seq(Tran), NEW i \in DOMAIN q
  PROVE  /\ q[i] \in Tran /\ q[i].type \in {"update", "get"} /\ q[i].dest \in Targets
         /\ q[i].th \in Threads \cup {Nobody} /\ q[i].id \in 0..RobSize-1
         /\ q[i].th # Nobody => q[i].th \in Threads
<1>1. q[i] \in Tran
  OBVIOUS
<1> QED BY <1>1 DEF Tran

(* Nothing is under way for instruction k of thread t, except perhaps m.   *)
NothingBut(t, k, m) ==
  /\ \A n \in noc : n # m => ~(n.th = t /\ n.id = k)
  /\ \A p \in Ports :
       /\ \A n \in active_mult_twins[p] : ~(n.th = t /\ n.id = k)
       /\ \A i \in DOMAIN tran_buf[p] :
            ~(tran_buf[p][i].type = "update" /\ tran_buf[p][i].th = t /\ tran_buf[p][i].id = k)
       /\ \A e \in active_gather_event[p] : ~(e.th = t /\ e.id = k)
       /\ \A e \in resp_queue[p] : ~(e.th = t /\ e.id = k)

LEMMA NotExecuting ==
  ASSUME HInv, NEW t \in Threads, NEW k, NEW m,
         \A d : ~ExecUpdate(rob[t], k, d) /\ ~ExecGather(rob[t], k, d)
  PROVE  NothingBut(t, k, m)
<1>1. t # Nobody
  BY BarrierAssumption
<1>2. \A n \in noc : n # m => ~(n.th = t /\ n.id = k)
  BY DEF HInv, Held, NocHeld
<1>3. ASSUME NEW p \in Ports
      PROVE  /\ \A n \in active_mult_twins[p] : ~(n.th = t /\ n.id = k)
             /\ \A i \in DOMAIN tran_buf[p] :
                  ~(tran_buf[p][i].type = "update" /\ tran_buf[p][i].th = t /\ tran_buf[p][i].id = k)
             /\ \A e \in active_gather_event[p] : ~(e.th = t /\ e.id = k)
             /\ \A e \in resp_queue[p] : ~(e.th = t /\ e.id = k)
  <2>1. \A n \in active_mult_twins[p] : ~(n.th = t /\ n.id = k)
    BY DEF HInv, Held, TwinsHeld
  <2>2. \A i \in DOMAIN tran_buf[p] :
          ~(tran_buf[p][i].type = "update" /\ tran_buf[p][i].th = t /\ tran_buf[p][i].id = k)
    BY DEF HInv, Held, TransHeld
  <2>3. \A e \in active_gather_event[p] : ~(e.th = t /\ e.id = k)
    BY <1>1 DEF HInv, Held, EventsHeld
  <2>4. \A e \in resp_queue[p] : ~(e.th = t /\ e.id = k)
    BY DEF HInv, Held, RespHeld
  <2> QED BY <2>1, <2>2, <2>3, <2>4
<1> QED BY <1>2, <1>3 DEF NothingBut

(* An acknowledgement, or the answer of a gather, is the last thing of its *)
(* instruction.                                                            *)
LEMMA ReplyAlone ==
  ASSUME HInv, NEW m \in noc, m.kind = "rep"
  PROVE  NothingBut(m.th, m.id, m)
<1>1. /\ m \in Message /\ m.th \in Threads /\ m.th # Nobody
      /\ rob[m.th] \in Seq(Instr) /\ RobNumbers(rob[m.th])
  BY TypesOf, MessageIs, BarrierAssumption DEF HInv, RobSound
<1>2. CASE m.type = "get"
  <2>1. ExecGather(rob[m.th], m.id, m.dest)
    BY <1>2 DEF HInv, Held, NocHeld
  <2>2. \A d : ~ExecUpdate(rob[m.th], m.id, d)
    BY <1>1, <2>1, ExecOne
  <2>3. \A n \in noc : n # m => ~(n.th = m.th /\ n.id = m.id)
    <3>1. ASSUME NEW n \in noc, n # m, n.th = m.th, n.id = m.id PROVE FALSE
      <4>1. CASE n.type = "get"
        BY <1>2, <3>1, <4>1 DEF HInv, OneGather, SameInstr
      <4>2. CASE n.type # "get"
        BY <2>2, <3>1, <4>2 DEF HInv, Held, NocHeld
      <4> QED BY <4>1, <4>2
    <3> QED BY <3>1
  <2>4. ASSUME NEW p \in Ports
        PROVE  /\ \A n \in active_mult_twins[p] : ~(n.th = m.th /\ n.id = m.id)
               /\ \A i \in DOMAIN tran_buf[p] :
                    ~(tran_buf[p][i].type = "update" /\ tran_buf[p][i].th = m.th /\ tran_buf[p][i].id = m.id)
               /\ \A e \in active_gather_event[p] : ~(e.th = m.th /\ e.id = m.id)
               /\ \A e \in resp_queue[p] : ~(e.th = m.th /\ e.id = m.id)
    <3>1. \A n \in active_mult_twins[p] : ~(n.th = m.th /\ n.id = m.id)
      BY <2>2 DEF HInv, Held, TwinsHeld
    <3>2. \A i \in DOMAIN tran_buf[p] :
            ~(tran_buf[p][i].type = "update" /\ tran_buf[p][i].th = m.th /\ tran_buf[p][i].id = m.id)
      BY <2>2, Zenon DEF HInv, Held, TransHeld
    <3>3. /\ \A e \in active_gather_event[p] : ~(e.th = m.th /\ e.id = m.id)
          /\ \A e \in resp_queue[p] : ~(e.th = m.th /\ e.id = m.id)
      BY <1>2, Zenon DEF HInv, OneGather, SameInstr
    <3> QED BY <3>1, <3>2, <3>3
  <2> QED BY <2>3, <2>4 DEF NothingBut
<1>3. CASE m.type # "get"
  <2>1. ExecUpdate(rob[m.th], m.id, m.dest)
    BY <1>3 DEF HInv, Held, NocHeld
  <2>2. \A d : ~ExecGather(rob[m.th], m.id, d)
    BY <1>1, <2>1, ExecOne
  <2>3. \A n \in noc : n # m => ~(n.th = m.th /\ n.id = m.id)
    <3>1. ASSUME NEW n \in noc, n # m, n.th = m.th, n.id = m.id PROVE FALSE
      <4>1. CASE n.type # "get"
        <5>1. m = n \/ (m.kind = "req" /\ m.type = "mult" /\ n = Twin(m))
          BY <1>3, <3>1, <4>1 DEF HInv, OneUpdate, SameInstr
        <5> QED BY <3>1, <5>1
      <4>2. CASE n.type = "get"
        BY <2>2, <3>1, <4>2 DEF HInv, Held, NocHeld
      <4> QED BY <4>1, <4>2
    <3> QED BY <3>1
  <2>4. ASSUME NEW p \in Ports
        PROVE  /\ \A n \in active_mult_twins[p] : ~(n.th = m.th /\ n.id = m.id)
               /\ \A i \in DOMAIN tran_buf[p] :
                    ~(tran_buf[p][i].type = "update" /\ tran_buf[p][i].th = m.th /\ tran_buf[p][i].id = m.id)
               /\ \A e \in active_gather_event[p] : ~(e.th = m.th /\ e.id = m.id)
               /\ \A e \in resp_queue[p] : ~(e.th = m.th /\ e.id = m.id)
    <3>1. ASSUME NEW n \in active_mult_twins[p], n.th = m.th, n.id = m.id PROVE FALSE
      <4>1. m = Twin(n)
        BY <1>3, <3>1 DEF HInv, OneUpdate, SameInstr
      <4>2. n \in Message /\ n.kind = "req"
        BY TypesOf DEF HInv, Held, TwinsHeld
      <4> QED BY <4>1, <4>2, TwinIs
    <3>2. \A i \in DOMAIN tran_buf[p] :
            ~(tran_buf[p][i].type = "update" /\ tran_buf[p][i].th = m.th /\ tran_buf[p][i].id = m.id)
      BY <1>3 DEF HInv, OneUpdate, SameInstr
    <3>3. /\ \A e \in active_gather_event[p] : ~(e.th = m.th /\ e.id = m.id)
          /\ \A e \in resp_queue[p] : ~(e.th = m.th /\ e.id = m.id)
      BY <1>1, <2>2, Zenon DEF HInv, Held, EventsHeld, RespHeld
    <3> QED BY <3>1, <3>2, <3>3
  <2> QED BY <2>3, <2>4 DEF NothingBut
<1> QED BY <1>2, <1>3

(* A step of thread t that leaves everything but its reorder buffer.       *)
LEMMA RobOnly ==
  ASSUME HInv, NEW t \in Threads, NEW s \in Seq(Instr), rob' = [rob EXCEPT ![t] = s],
         Types', RobNumbers(s), RobOrder(s),
         \A k, d : ExecUpdate(rob[t], k, d) => ExecUpdate(s, k, d),
         \A k, d : ExecGather(rob[t], k, d) => ExecGather(s, k, d),
         \A i \in DOMAIN s : s[i].state = "executing" => \E j \in DOMAIN rob[t] : rob[t][j] = s[i],
         UNCHANGED <<noc, active_mult_twins, tran_buf, active_gather_event, resp_queue>>
  PROVE  HInv'
<1>1. rob \in [Threads -> Seq(Instr)]
  BY DEF HInv, Types
<1>2. \A u \in Threads : rob'[u] = IF u = t THEN s ELSE rob[u]
  BY <1>1
<1>3. ASSUME NEW u \in Threads, NEW k, NEW d
      PROVE  /\ ExecUpdate(rob[u], k, d) => ExecUpdate(rob'[u], k, d)
             /\ ExecGather(rob[u], k, d) => ExecGather(rob'[u], k, d)
  BY <1>2
<1>4. RobSound'
  BY <1>2 DEF HInv, RobSound
<1>5. Held'
  <2>1. NocHeld'
    <3>1. \A m \in noc : m.th \in Threads
      BY TypesOf, MessageIs DEF HInv
    <3> QED BY <1>3, <3>1 DEF HInv, Held, NocHeld
  <2>2. TwinsHeld'
    <3>1. \A p \in Ports : \A m \in active_mult_twins[p] : m.th \in Threads
      BY TypesOf, MessageIs DEF HInv
    <3> QED BY <1>3, <3>1 DEF HInv, Held, TwinsHeld
  <2>3. TransHeld'
    <3>1. \A p \in Ports : \A i \in DOMAIN tran_buf[p] : tran_buf[p][i].th # Nobody => tran_buf[p][i].th \in Threads
      BY TypesOf, TranIs DEF HInv
    <3> QED BY <1>3, <3>1 DEF HInv, Held, TransHeld
  <2>4. EventsHeld'
    <3>1. \A p \in Ports : \A e \in active_gather_event[p] : e.th # Nobody => e.th \in Threads
      BY TypesOf, EventIs DEF HInv
    <3> QED BY <1>3, <3>1 DEF HInv, Held, EventsHeld
  <2>5. RespHeld'
    <3>1. \A p \in Ports : \A e \in resp_queue[p] : e.th # Nobody => e.th \in Threads
      BY TypesOf, EventIs DEF HInv
    <3> QED BY <1>3, <3>1 DEF HInv, Held, RespHeld
  <2> QED BY <2>1, <2>2, <2>3, <2>4, <2>5 DEF Held
<1>6. OneGather' /\ OneUpdate'
  BY DEF HInv, OneGather, OneUpdate
<1>7. GathersKept'
  <2>1. ASSUME NEW u \in Threads, NEW i \in DOMAIN rob'[u], rob'[u][i].type = "get",
               rob'[u][i].state = "executing", NEW k, k = rob'[u][i].id
        PROVE  GatherSomewhere(u, k)'
    <3>1. \E j \in DOMAIN rob[u] : rob[u][j] = rob'[u][i]
      BY <1>2, <2>1
    <3>2. GatherSomewhere(u, k)
      BY <2>1, <3>1 DEF HInv, GathersKept
    <3> QED BY <3>2 DEF GatherSomewhere
  <2> QED BY <2>1 DEF GathersKept
<1> QED BY <1>4, <1>5, <1>6, <1>7 DEF HInv

LEMMA FetchStep ==
  ASSUME HInv, NEW t \in Threads, Fetch(t)
  PROVE  HInv'
<1>1. Types
  BY DEF HInv
<1>2. PICK e \in Instr :
        /\ \A i \in DOMAIN rob[t] : ~(rob[t][i].type = "get" /\ rob[t][i].dest = e.dest)
        /\ e.state = "issued"
        /\ rob' = [rob EXCEPT ![t] = Append(rob[t], e)]
        /\ rob' \in [Threads -> Seq(Instr)]
        /\ RobNumbers(rob[t]) => RobNumbers(Append(rob[t], e))
        /\ Quiescent
        /\ program' \in [Threads -> [target : Targets, updates : 0..MaxUpdates]]
  BY <1>1, FetchIs
<1>3. rob[t] \in Seq(Instr) /\ RobNumbers(rob[t]) /\ RobOrder(rob[t])
  BY TypesOf DEF HInv, RobSound
<1>4. PICK s : s = Append(rob[t], e)
  OBVIOUS
<1>5. s \in Seq(Instr) /\ RobNumbers(s)
  BY <1>2, <1>3, <1>4
<1>6. RobOrder(s)
  BY <1>2, <1>3, <1>4, AppendOrder
<1>7. /\ \A k, d : ExecUpdate(rob[t], k, d) => ExecUpdate(s, k, d)
      /\ \A k, d : ExecGather(rob[t], k, d) => ExecGather(s, k, d)
  BY <1>3, <1>4, AppendExec
<1>8. \A i \in DOMAIN s : s[i].state = "executing" => \E j \in DOMAIN rob[t] : rob[t][j] = s[i]
  <2>1. /\ Len(rob[t]) \in Nat /\ DOMAIN rob[t] = 1..Len(rob[t]) /\ DOMAIN s = 1..(Len(rob[t]) + 1)
        /\ s[Len(rob[t]) + 1] = e /\ \A i \in DOMAIN rob[t] : s[i] = rob[t][i]
    BY <1>3, <1>4, AppendFacts
  <2> QED BY <1>2, <2>1
<1>9. Types'
  BY <1>1, <1>2 DEF Types, Quiescent, port, memnet
<1>10. UNCHANGED <<noc, active_mult_twins, tran_buf, active_gather_event, resp_queue>>
  BY <1>2 DEF Quiescent, port, memnet
<1>11. rob' = [rob EXCEPT ![t] = s]
  BY <1>2, <1>4
<1> QED BY <1>5, <1>6, <1>7, <1>8, <1>9, <1>10, <1>11, RobOnly

LEMMA CommitStep ==
  ASSUME HInv, NEW t \in Threads, Commit(t)
  PROVE  HInv'
<1>1. rob[t] \in Seq(Instr) /\ RobNumbers(rob[t]) /\ RobOrder(rob[t]) /\ rob[t] # <<>>
  BY TypesOf DEF HInv, RobSound, Commit
<1>2. PICK s : s = Tail(rob[t])
  OBVIOUS
<1>3. /\ s \in Seq(Instr)
      /\ \A i \in DOMAIN s : i + 1 \in DOMAIN rob[t] /\ s[i] = rob[t][i + 1]
  BY <1>1, <1>2, TailFacts
<1>4. RobNumbers(s) /\ RobOrder(s)
  BY <1>1, <1>2, TailNumbers, TailOrder
<1>5. /\ \A k, d : ExecUpdate(rob[t], k, d) => ExecUpdate(s, k, d)
      /\ \A k, d : ExecGather(rob[t], k, d) => ExecGather(s, k, d)
  BY <1>1, <1>2, TailExec DEF Commit
<1>6. \A i \in DOMAIN s : s[i].state = "executing" => \E j \in DOMAIN rob[t] : rob[t][j] = s[i]
  BY <1>3
<1>7. rob' = [rob EXCEPT ![t] = s]
  BY <1>2 DEF Commit
<1>8. Types'
  BY <1>3, <1>7 DEF HInv, Types, Commit, port, memnet
<1>9. UNCHANGED <<noc, active_mult_twins, tran_buf, active_gather_event, resp_queue>>
  BY DEF Commit, port
<1> QED BY <1>3, <1>4, <1>5, <1>6, <1>7, <1>8, <1>9, RobOnly

(* What Issue puts into the network on chip: one request, or two halves.   *)
Requests(t, e, p) ==
  {[kind |-> "req", th |-> t, id |-> e.id, type |-> e.type, dest |-> e.dest,
    port |-> p, half |-> h] : h \in IF e.type = "mult" THEN 1..2 ELSE {1}}

LEMMA RequestsAre ==
  ASSUME NEW t \in Threads, NEW e \in Instr, NEW p \in Ports
  PROVE  /\ \A m \in Requests(t, e, p) :
              /\ m \in Message /\ m.kind = "req" /\ m.th = t /\ m.id = e.id /\ m.type = e.type
              /\ m.dest = e.dest /\ m.port = p /\ (e.type # "mult" => m.half = 1)
         /\ Requests(t, e, p) # {}
<1>1. /\ e.id \in 0..RobSize-1 /\ e.type \in {"add", "mult", "get"} /\ e.dest \in Targets
  BY DEF Instr
<1>2. ASSUME NEW m \in Requests(t, e, p)
      PROVE  /\ m \in Message /\ m.kind = "req" /\ m.th = t /\ m.id = e.id /\ m.type = e.type
             /\ m.dest = e.dest /\ m.port = p /\ (e.type # "mult" => m.half = 1)
  <2>1. PICK h \in IF e.type = "mult" THEN 1..2 ELSE {1} :
          m = [kind |-> "req", th |-> t, id |-> e.id, type |-> e.type, dest |-> e.dest,
               port |-> p, half |-> h]
    BY DEF Requests
  <2>2. h \in 1..2 /\ (e.type # "mult" => h = 1)
    BY <2>1
  <2> QED BY <1>1, <2>1, <2>2 DEF Message
<1>3. Requests(t, e, p) # {}
  <2>1. 1 \in IF e.type = "mult" THEN 1..2 ELSE {1}
    OBVIOUS
  <2> QED BY <2>1 DEF Requests
<1> QED BY <1>2, <1>3

LEMMA IssueStep ==
  ASSUME HInv, NEW t \in Threads, NEW i \in DOMAIN rob[t], Issue(t, i)
  PROVE  HInv'
<1>1. PICK r : r = rob[t]
  OBVIOUS
<1>2. r \in Seq(Instr) /\ RobNumbers(r) /\ RobOrder(r) /\ i \in DOMAIN r /\ rob \in [Threads -> Seq(Instr)]
  BY <1>1, TypesOf DEF HInv, RobSound, Types
<1>3. PICK e : e = r[i]
  OBVIOUS
<1>4. e \in Instr /\ e.state = "issued" /\ (e.type = "get" => i = 1)
  BY <1>1, <1>2, <1>3, InstrIs DEF Issue, MayIssue
<1>5. PICK p \in Ports : noc' = noc \cup Requests(t, e, p)
  <2>1. PICK p \in IF e.type = "get" THEN {WhichHmc(t)} ELSE UpdatePorts(t) :
          noc' = noc \cup Requests(t, e, p)
    BY <1>1, <1>3 DEF Issue, Requests
  <2>2. p \in Ports
    BY <2>1, RequestPorts DEF HInv
  <2> QED BY <2>1, <2>2
<1>6. PICK new : new = Requests(t, e, p)
  OBVIOUS
<1>7. \A m \in new :
        /\ m \in Message /\ m.kind = "req" /\ m.th = t /\ m.id = e.id /\ m.type = e.type
        /\ m.dest = e.dest /\ m.port = p /\ (e.type # "mult" => m.half = 1)
  BY <1>4, <1>6, RequestsAre
<1>8. new # {}
  BY <1>4, <1>6, RequestsAre
<1>9. PICK s : s = [r EXCEPT ![i].state = "executing"]
  OBVIOUS
<1>10. rob' = [rob EXCEPT ![t] = s] /\ s \in Seq(Instr)
  <2>1. s \in Seq(Instr)
    BY <1>2, <1>9, StateFacts
  <2> QED BY <1>1, <1>2, <1>9, <2>1 DEF Issue
<1>11. \A u \in Threads : rob'[u] = IF u = t THEN s ELSE rob[u]
  BY <1>2, <1>10
<1>12. /\ \A k, d : ExecUpdate(r, k, d) => k # e.id /\ ExecUpdate(s, k, d)
       /\ \A k, d : ExecGather(r, k, d) => k # e.id /\ ExecGather(s, k, d)
       /\ e.type = "get" => ExecGather(s, e.id, e.dest)
       /\ e.type # "get" => ExecUpdate(s, e.id, e.dest)
  BY <1>2, <1>3, <1>4, <1>9, IssueExec
<1>13. \A m : NothingBut(t, e.id, m)
  BY <1>1, <1>12, NotExecuting
<1>14. ASSUME NEW u \in Threads, NEW k, NEW d
       PROVE  /\ ExecUpdate(rob[u], k, d) => ExecUpdate(rob'[u], k, d)
              /\ ExecGather(rob[u], k, d) => ExecGather(rob'[u], k, d)
  BY <1>1, <1>11, <1>12
<1>15. UNCHANGED <<active_mult_twins, tran_buf, active_gather_event, resp_queue>> /\ noc' = noc \cup new
  BY <1>5, <1>6 DEF Issue, port
<1>16. Types'
  <2>1. noc' \in SUBSET Message
    BY <1>7, <1>15, TypesOf DEF HInv
  <2>2. rob' \in [Threads -> Seq(Instr)]
    BY <1>2, <1>10
  <2> QED BY <2>1, <2>2 DEF HInv, Types, Issue, port, memnet
<1>17. RobSound'
  <2>1. RobNumbers(s)
    BY <1>2, <1>9, StateNumbers
  <2>2. RobOrder(s)
    BY <1>2, <1>3, <1>4, <1>9, IssueOrder
  <2> QED BY <1>11, <2>1, <2>2 DEF HInv, RobSound
<1>18. \A m \in noc : ~(m.th = t /\ m.id = e.id)
  BY <1>1, <1>12 DEF HInv, Held, NocHeld
<1>19. Held'
  <2>1. NocHeld'
    <3>1. ASSUME NEW m \in noc'
          PROVE  /\ m.type = "get" => ExecGather(rob'[m.th], m.id, m.dest)
                 /\ m.type # "get" => ExecUpdate(rob'[m.th], m.id, m.dest)
                 /\ m.type # "mult" => m.half = 1
      <4>1. CASE m \in noc
        <5>1. m.th \in Threads
          BY <4>1, TypesOf, MessageIs DEF HInv
        <5> QED BY <1>14, <4>1, <5>1 DEF HInv, Held, NocHeld
      <4>2. CASE m \in new
        BY <1>7, <1>11, <1>12, <4>2
      <4> QED BY <1>15, <4>1, <4>2
    <3> QED BY <3>1 DEF NocHeld
  <2>2. TwinsHeld'
    <3>1. ASSUME NEW q \in Ports, NEW m \in active_mult_twins[q]
          PROVE  /\ m.kind = "req" /\ m.type = "mult" /\ m.port = q /\ m \notin noc'
                 /\ ExecUpdate(rob'[m.th], m.id, m.dest)
      <4>1. m.th \in Threads
        BY TypesOf, MessageIs DEF HInv
      <4>2. /\ m.kind = "req" /\ m.type = "mult" /\ m.port = q /\ m \notin noc
            /\ ExecUpdate(rob[m.th], m.id, m.dest)
        BY DEF HInv, Held, TwinsHeld
      <4>3. m \notin new
        BY <1>7, <1>13 DEF NothingBut
      <4> QED BY <1>14, <1>15, <4>1, <4>2, <4>3
    <3> QED BY <1>15, <3>1 DEF TwinsHeld
  <2>3. TransHeld'
    <3>1. \A q \in Ports : \A j \in DOMAIN tran_buf[q] : tran_buf[q][j].th # Nobody => tran_buf[q][j].th \in Threads
      BY TypesOf, TranIs DEF HInv
    <3> QED BY <1>14, <1>15, <3>1 DEF HInv, Held, TransHeld
  <2>4. EventsHeld'
    <3>1. \A q \in Ports : \A f \in active_gather_event[q] : f.th # Nobody => f.th \in Threads
      BY TypesOf, EventIs DEF HInv
    <3> QED BY <1>14, <1>15, <3>1 DEF HInv, Held, EventsHeld
  <2>5. RespHeld'
    <3>1. \A q \in Ports : \A f \in resp_queue[q] : f.th # Nobody => f.th \in Threads
      BY TypesOf, EventIs DEF HInv
    <3> QED BY <1>14, <1>15, <3>1 DEF HInv, Held, RespHeld
  <2> QED BY <2>1, <2>2, <2>3, <2>4, <2>5 DEF Held
<1>20. OneGather'
  <2>1. ASSUME NEW m \in noc', NEW n \in noc', m.type = "get", n.type = "get", SameInstr(m, n)
        PROVE  m = n
    <3>1. CASE m \in noc /\ n \in noc
      BY <2>1, <3>1 DEF HInv, OneGather
    <3>2. CASE m \in new /\ n \in new
      BY <1>7, <2>1, <3>2 DEF Message
    <3>3. CASE m \in noc /\ n \in new
      BY <1>7, <1>18, <2>1, <3>3 DEF SameInstr
    <3>4. CASE m \in new /\ n \in noc
      BY <1>7, <1>18, <2>1, <3>4 DEF SameInstr
    <3> QED BY <1>15, <3>1, <3>2, <3>3, <3>4
  <2>2. ASSUME NEW m \in noc', NEW q \in Ports, m.type = "get"
        PROVE  /\ \A f \in active_gather_event[q] : ~SameInstr(m, f)
               /\ \A f \in resp_queue[q] : ~SameInstr(m, f)
    <3>1. CASE m \in noc
      BY <2>2, <3>1 DEF HInv, OneGather
    <3>2. CASE m \in new
      BY <1>7, <1>13, <3>2 DEF NothingBut, SameInstr
    <3> QED BY <1>15, <3>1, <3>2
  <2> QED BY <1>15, <2>1, <2>2 DEF HInv, OneGather
<1>21. OneUpdate'
  <2>1. ASSUME NEW m \in noc', NEW n \in noc', m.type # "get", n.type # "get", SameInstr(m, n)
        PROVE  m = n \/ (m.kind = "req" /\ m.type = "mult" /\ n = Twin(m))
    <3>1. CASE m \in noc /\ n \in noc
      BY <2>1, <3>1 DEF HInv, OneUpdate
    <3>2. CASE m \in new /\ n \in new
      <4>1. n = m \/ n = Twin(m)
        BY <1>7, <3>2, SameMessage
      <4>2. e.type # "mult" => m = n
        BY <1>7, <3>2 DEF Message
      <4> QED BY <1>7, <3>2, <4>1, <4>2
    <3>3. CASE m \in noc /\ n \in new
      BY <1>7, <1>18, <2>1, <3>3 DEF SameInstr
    <3>4. CASE m \in new /\ n \in noc
      BY <1>7, <1>18, <2>1, <3>4 DEF SameInstr
    <3> QED BY <1>15, <3>1, <3>2, <3>3, <3>4
  <2>2. ASSUME NEW q \in Ports, NEW x \in active_mult_twins[q], NEW m \in noc', m.type # "get", SameInstr(m, x)
        PROVE  m = Twin(x)
    <3>1. CASE m \in noc
      BY <2>2, <3>1 DEF HInv, OneUpdate
    <3>2. CASE m \in new
      BY <1>7, <1>13, <2>2, <3>2 DEF NothingBut, SameInstr
    <3> QED BY <1>15, <3>1, <3>2
  <2>3. ASSUME NEW q \in Ports, NEW j \in DOMAIN tran_buf[q], tran_buf[q][j].type = "update",
               NEW m \in noc', m.type # "get"
        PROVE  ~SameInstr(m, tran_buf[q][j])
    <3>1. CASE m \in noc
      BY <2>3, <3>1 DEF HInv, OneUpdate
    <3>2. CASE m \in new
      BY <1>7, <1>13, <2>3, <3>2 DEF NothingBut, SameInstr
    <3> QED BY <1>15, <3>1, <3>2
  <2> QED BY <1>15, <2>1, <2>2, <2>3 DEF HInv, OneUpdate
<1>22. GathersKept'
  <2>0. /\ DOMAIN s = DOMAIN r
        /\ \A j \in DOMAIN r : /\ s[j].id = r[j].id /\ s[j].type = r[j].type
                               /\ s[j].dest = r[j].dest /\ (j # i => s[j].state = r[j].state)
    BY <1>2, <1>9, StateFacts
  <2>1. ASSUME NEW u \in Threads, NEW j \in DOMAIN rob'[u], rob'[u][j].type = "get",
               rob'[u][j].state = "executing", NEW k, k = rob'[u][j].id
        PROVE  GatherSomewhere(u, k)'
    <3>1. CASE u = t /\ j = i
      <4>1. PICK m \in new : TRUE
        BY <1>8
      <4>2. e.type = rob'[u][j].type /\ e.id = rob'[u][j].id
        BY <1>2, <1>3, <1>11, <2>0, <3>1
      <4>3. m \in noc' /\ m.type = "get" /\ m.th = u /\ m.id = k
        BY <1>7, <1>15, <2>1, <3>1, <4>1, <4>2
      <4> QED BY <4>3 DEF GatherSomewhere
    <3>2. CASE ~(u = t /\ j = i)
      <4>1. j \in DOMAIN rob[u] /\ rob[u][j].type = "get" /\ rob[u][j].state = "executing" /\ k = rob[u][j].id
        BY <1>1, <1>2, <1>11, <2>0, <2>1, <3>2
      <4>2. GatherSomewhere(u, k)
        BY <4>1 DEF HInv, GathersKept
      <4> QED BY <1>15, <4>2 DEF GatherSomewhere
    <3> QED BY <3>1, <3>2
  <2> QED BY <2>1 DEF GathersKept
<1> QED BY <1>16, <1>17, <1>19, <1>20, <1>21, <1>22 DEF HInv

LEMMA CompleteStep ==
  ASSUME HInv, NEW m \in noc, Complete(m)
  PROVE  HInv'
<1>1. /\ m \in Message /\ m.kind = "rep" /\ m.th \in Threads
      /\ noc' = noc \ {m}
      /\ UNCHANGED <<active_mult_twins, tran_buf, active_gather_event, resp_queue>>
  BY TypesOf, MessageIs DEF HInv, Complete, port
<1>2. PICK t : t = m.th
  OBVIOUS
<1>3. PICK r : r = rob[t]
  OBVIOUS
<1>4. r \in Seq(Instr) /\ RobNumbers(r) /\ RobOrder(r) /\ rob \in [Threads -> Seq(Instr)] /\ t \in Threads
  BY <1>1, <1>2, <1>3, TypesOf DEF HInv, RobSound, Types
<1>5. PICK i \in DOMAIN r :
        r[i].id = m.id /\ r[i].state = "executing" /\ rob' = [rob EXCEPT ![m.th][i].state = "completed"]
  BY <1>2, <1>3 DEF Complete
<1>6. PICK s : s = [r EXCEPT ![i].state = "completed"]
  OBVIOUS
<1>7. /\ s \in Seq(Instr) /\ DOMAIN s = DOMAIN r /\ s[i].state = "completed"
      /\ \A j \in DOMAIN r : /\ s[j].id = r[j].id /\ s[j].type = r[j].type
                             /\ s[j].dest = r[j].dest /\ (j # i => s[j].state = r[j].state)
  BY <1>4, <1>6, StateFacts, ZenonT(60)
<1>8. rob' = [rob EXCEPT ![t] = s]
  BY <1>2, <1>3, <1>4, <1>5, <1>6
<1>9. \A u \in Threads : rob'[u] = IF u = t THEN s ELSE rob[u]
  BY <1>4, <1>8
<1>10. NothingBut(t, m.id, m)
  BY <1>1, <1>2, ReplyAlone
<1>11. ASSUME NEW u \in Threads, NEW k \in 0..RobSize-1, ~(u = t /\ k = m.id), NEW d
       PROVE  /\ ExecUpdate(rob[u], k, d) => ExecUpdate(rob'[u], k, d)
              /\ ExecGather(rob[u], k, d) => ExecGather(rob'[u], k, d)
  <2>1. CASE u = t
    <3>1. k # r[i].id
      BY <1>5, <1>11, <2>1
    <3>2. /\ ExecUpdate(r, k, d) => ExecUpdate(s, k, d)
          /\ ExecGather(r, k, d) => ExecGather(s, k, d)
      BY <1>4, <1>6, <3>1, StateExec
    <3> QED BY <1>3, <1>9, <2>1, <3>2
  <2>2. CASE u # t
    BY <1>9, <2>2
  <2> QED BY <2>1, <2>2
<1>12. Types'
  <2>1. rob' \in [Threads -> Seq(Instr)]
    BY <1>4, <1>7, <1>8
  <2> QED BY <1>1, <2>1 DEF HInv, Types, Complete, port, memnet
<1>13. RobSound'
  <2>1. RobNumbers(s)
    BY <1>4, <1>6, StateNumbers
  <2>2. r[i].type = "get" => i = 1
    BY <1>4, <1>5 DEF RobOrder
  <2>3. RobOrder(s)
    BY <1>4, <1>6, <2>2, IssueOrder
  <2> QED BY <1>9, <2>1, <2>3 DEF HInv, RobSound
<1>14. Held'
  <2>1. NocHeld'
    <3>1. \A n \in noc' : n \in noc /\ n.th \in Threads /\ n.id \in 0..RobSize-1 /\ ~(n.th = t /\ n.id = m.id)
      BY <1>1, <1>10, TypesOf, MessageIs DEF HInv, NothingBut
    <3> QED BY <1>11, <3>1 DEF HInv, Held, NocHeld
  <2>2. TwinsHeld'
    <3>1. \A p \in Ports : \A n \in active_mult_twins[p] :
            n.th \in Threads /\ n.id \in 0..RobSize-1 /\ ~(n.th = t /\ n.id = m.id)
      BY <1>10, TypesOf, MessageIs DEF HInv, NothingBut
    <3> QED BY <1>1, <1>11, <3>1 DEF HInv, Held, TwinsHeld
  <2>3. TransHeld'
    <3>1. \A p \in Ports : \A j \in DOMAIN tran_buf[p] :
            tran_buf[p][j].type = "update" /\ tran_buf[p][j].th # Nobody =>
               /\ tran_buf[p][j].th \in Threads /\ tran_buf[p][j].id \in 0..RobSize-1
               /\ ~(tran_buf[p][j].th = t /\ tran_buf[p][j].id = m.id)
      BY <1>10, TypesOf, TranIs DEF HInv, NothingBut
    <3> QED BY <1>1, <1>11, <3>1 DEF HInv, Held, TransHeld
  <2>4. EventsHeld'
    <3>1. \A p \in Ports : \A e \in active_gather_event[p] : e.th # Nobody =>
            e.th \in Threads /\ e.id \in 0..RobSize-1 /\ ~(e.th = t /\ e.id = m.id)
      BY <1>10, TypesOf, EventIs DEF HInv, NothingBut
    <3> QED BY <1>1, <1>11, <3>1 DEF HInv, Held, EventsHeld
  <2>5. RespHeld'
    <3>1. \A p \in Ports : \A e \in resp_queue[p] : e.th # Nobody =>
            e.th \in Threads /\ e.id \in 0..RobSize-1 /\ ~(e.th = t /\ e.id = m.id)
      BY <1>10, TypesOf, EventIs DEF HInv, NothingBut
    <3> QED BY <1>1, <1>11, <3>1 DEF HInv, Held, RespHeld
  <2> QED BY <2>1, <2>2, <2>3, <2>4, <2>5 DEF Held
<1>15. OneGather' /\ OneUpdate'
  <2>1. noc' \subseteq noc
    BY <1>1
  <2>2. OneGather'
    BY <1>1, <2>1 DEF HInv, OneGather
  <2>3. OneUpdate'
    BY <1>1, <2>1 DEF HInv, OneUpdate
  <2> QED BY <2>2, <2>3
<1>16. GathersKept'
  <2>1. ASSUME NEW u \in Threads, NEW j \in DOMAIN rob'[u], rob'[u][j].type = "get",
               rob'[u][j].state = "executing", NEW k, k = rob'[u][j].id
        PROVE  GatherSomewhere(u, k)'
    <3>1. ~(u = t /\ j = i)
      BY <1>7, <1>9, <2>1
    <3>2. j \in DOMAIN rob[u] /\ rob[u][j].type = "get" /\ rob[u][j].state = "executing" /\ k = rob[u][j].id
      BY <1>3, <1>7, <1>9, <2>1, <3>1
    <3>3. GatherSomewhere(u, k)
      BY <3>2 DEF HInv, GathersKept
    <3>4. ~(u = t /\ k = m.id)
      <4>1. ASSUME u = t, k = m.id PROVE FALSE
        <5>1. i \in DOMAIN r /\ j \in DOMAIN r /\ r[i].id = r[j].id
          BY <1>3, <1>5, <3>2, <4>1
        <5> QED BY <1>4, <3>1, <4>1, <5>1, DistinctIds
      <4> QED BY <4>1
    <3> QED BY <1>1, <1>2, <3>3, <3>4 DEF GatherSomewhere
  <2> QED BY <2>1 DEF GathersKept
<1> QED BY <1>12, <1>13, <1>14, <1>15, <1>16 DEF HInv

-----------------------------------------------------------------------------
(***************************************************************************)
(* Requests arrive at the ports.                                           *)
(***************************************************************************)
LEMMA TwinStep ==
  ASSUME HInv, NEW m \in noc, AddReqTwin(m)
  PROVE  HInv'
<1>1. /\ m \in Message /\ m.kind = "req" /\ m.type = "mult" /\ m.port \in Ports
      /\ Twin(m) \notin active_mult_twins[m.port]
      /\ noc' = noc \ {m}
      /\ active_mult_twins' = [active_mult_twins EXCEPT ![m.port] = @ \cup {m}]
      /\ UNCHANGED <<rob, tran_buf, active_gather_event, resp_queue>>
  BY TypesOf, MessageIs DEF HInv, AddReqTwin, core
<1>2. active_mult_twins \in [Ports -> SUBSET Message]
  BY DEF HInv, Types
<1>3. Types'
  <2>1. active_mult_twins' \in [Ports -> SUBSET Message] /\ noc' \in SUBSET Message
    BY <1>1, <1>2 DEF HInv, Types
  <2> QED BY <2>1 DEF HInv, Types, AddReqTwin, core, memnet
<1>4. /\ \A q \in Ports : \A x \in active_mult_twins'[q] : x \in active_mult_twins[q] \/ (x = m /\ q = m.port)
      /\ \A n \in noc' : n \in noc /\ n # m
  BY <1>1, <1>2
<1>5. RobSound'
  BY <1>1 DEF HInv, RobSound
<1>6. Held'
  <2>1. NocHeld'
    BY <1>1, <1>4 DEF HInv, Held, NocHeld
  <2>2. TwinsHeld'
    <3>1. ASSUME NEW q \in Ports, NEW x \in active_mult_twins'[q]
          PROVE  /\ x.kind = "req" /\ x.type = "mult" /\ x.port = q /\ x \notin noc'
                 /\ ExecUpdate(rob[x.th], x.id, x.dest)
      <4>1. CASE x \in active_mult_twins[q]
        BY <1>4, <4>1 DEF HInv, Held, TwinsHeld
      <4>2. CASE x = m /\ q = m.port
        BY <1>1, <1>4, <4>2 DEF HInv, Held, NocHeld
      <4> QED BY <1>4, <4>1, <4>2
    <3> QED BY <1>1, <3>1 DEF TwinsHeld
  <2>3. TransHeld' /\ EventsHeld' /\ RespHeld'
    BY <1>1 DEF HInv, Held, TransHeld, EventsHeld, RespHeld
  <2> QED BY <2>1, <2>2, <2>3 DEF Held
<1>7. OneGather'
  BY <1>1, <1>4 DEF HInv, OneGather
<1>8. OneUpdate'
  <2>1. \A l, n \in noc' : l.type # "get" /\ n.type # "get" /\ SameInstr(l, n) =>
          l = n \/ (l.kind = "req" /\ l.type = "mult" /\ n = Twin(l))
    BY <1>4 DEF HInv, OneUpdate
  <2>2. ASSUME NEW q \in Ports, NEW x \in active_mult_twins[q] PROVE ~SameInstr(x, m) /\ ~SameInstr(m, x)
    <3>1. SUFFICES ASSUME SameInstr(m, x) PROVE FALSE
      BY DEF SameInstr
    <3>2. m = Twin(x)
      BY <1>1, <3>1 DEF HInv, OneUpdate
    <3>3. x \in Message /\ x.port = q
      BY TypesOf DEF HInv, Held, TwinsHeld
    <3>4. Twin(m) = x /\ m.port = q
      BY <3>2, <3>3, TwinIs
    <3> QED BY <1>1, <3>4
  <2>3. ASSUME NEW q \in Ports, NEW x \in active_mult_twins'[q], NEW n \in noc', n.type # "get", SameInstr(n, x)
        PROVE  n = Twin(x)
    <3>1. CASE x \in active_mult_twins[q]
      BY <1>4, <2>3, <3>1 DEF HInv, OneUpdate
    <3>2. CASE x = m
      <4>1. SameInstr(m, n) /\ n \in noc /\ n # m
        BY <1>4, <2>3, <3>2 DEF SameInstr
      <4> QED BY <1>1, <2>3, <3>2, <4>1 DEF HInv, OneUpdate
    <3> QED BY <1>4, <3>1, <3>2
  <2>4. ASSUME NEW q \in Ports, NEW x \in active_mult_twins'[q],
               NEW l \in Ports, NEW y \in active_mult_twins'[l], SameInstr(x, y)
        PROVE  x = y
    <3>1. CASE x \in active_mult_twins[q] /\ y \in active_mult_twins[l]
      BY <2>4, <3>1 DEF HInv, OneUpdate
    <3>2. CASE x = m /\ y \in active_mult_twins[l]
      BY <2>2, <2>4, <3>2
    <3>3. CASE x \in active_mult_twins[q] /\ y = m
      BY <2>2, <2>4, <3>3
    <3> QED BY <1>4, <3>1, <3>2, <3>3
  <2>5. ASSUME NEW p \in Ports, NEW i \in DOMAIN tran_buf[p], tran_buf[p][i].type = "update", NEW q \in Ports,
               NEW x \in active_mult_twins'[q]
        PROVE  ~SameInstr(x, tran_buf[p][i])
    <3>1. CASE x \in active_mult_twins[q]
      BY <2>5, <3>1 DEF HInv, OneUpdate
    <3>2. CASE x = m
      BY <1>1, <2>5, <3>2 DEF HInv, OneUpdate
    <3> QED BY <1>4, <3>1, <3>2
  <2>6. \A p \in Ports : \A i \in DOMAIN tran_buf[p] : tran_buf[p][i].type = "update" =>
          /\ \A n \in noc' : n.type # "get" => ~SameInstr(n, tran_buf[p][i])
          /\ \A q \in Ports : \A j \in DOMAIN tran_buf[q] :
               tran_buf[q][j].type = "update" /\ SameInstr(tran_buf[p][i], tran_buf[q][j]) =>
                   p = q /\ i = j
    BY <1>4 DEF HInv, OneUpdate
  <2> QED BY <1>1, <2>1, <2>3, <2>4, <2>5, <2>6 DEF OneUpdate
<1>9. GathersKept'
  <2>1. \A u \in Threads, k \in 0..RobSize-1 : GatherSomewhere(u, k) => GatherSomewhere(u, k)'
    BY <1>1 DEF GatherSomewhere
  <2>2. \A u \in Threads : \A i \in DOMAIN rob[u] : rob[u][i].id \in 0..RobSize-1
    BY TypesOf, InstrIs DEF HInv
  <2> QED BY <1>1, <2>1, <2>2 DEF HInv, GathersKept
<1> QED BY <1>3, <1>5, <1>6, <1>7, <1>8, <1>9 DEF HInv

(* The transaction of the update that request m, with its twin, is for.    *)
UpdateTran(m) == [type |-> "update", dest |-> m.dest, th |-> m.th, id |-> m.id]

(* GathersKept when no gather moves.                                       *)
LEMMA KeptWhereTheyAre ==
  ASSUME HInv, rob' = rob,
         \A n \in noc : n.type = "get" => n \in noc',
         \A p \in Ports : \A e \in active_gather_event[p] : e.th # Nobody =>
           e \in active_gather_event'[p] \/ e \in resp_queue'[p],
         \A p \in Ports : \A e \in resp_queue[p] : e \in resp_queue'[p]
  PROVE  GathersKept'
<1>1. ASSUME NEW u \in Threads, NEW k, GatherSomewhere(u, k)
      PROVE  GatherSomewhere(u, k)'
  <2>1. u # Nobody
    BY BarrierAssumption
  <2> QED BY <1>1, <2>1 DEF GatherSomewhere
<1>2. ASSUME NEW u \in Threads, NEW i \in DOMAIN rob[u], rob[u][i].type = "get",
             rob[u][i].state = "executing", NEW k, k = rob[u][i].id
      PROVE  GatherSomewhere(u, k)'
  BY <1>1, <1>2 DEF HInv, GathersKept
<1> QED BY <1>2 DEF GathersKept

LEMMA UpdateStep ==
  ASSUME HInv, NEW m \in noc, AddReqUpdate(m)
  PROVE  HInv'
<1>1. /\ m \in Message /\ m.kind = "req" /\ m.type # "get" /\ m.port \in Ports /\ m.th \in Threads
      /\ m.type = "mult" => Twin(m) \in active_mult_twins[m.port]
      /\ noc' = noc \ {m}
      /\ active_mult_twins' = [active_mult_twins EXCEPT ![m.port] = @ \ {Twin(m)}]
      /\ tran_buf' = [tran_buf EXCEPT ![m.port] = Append(@, UpdateTran(m))]
      /\ active_forests' = [active_forests EXCEPT ![m.dest] = @ \cup {m.port}]
      /\ m.dest \in Targets /\ m.id \in 0..RobSize-1
      /\ UNCHANGED <<rob, active_gather_event, resp_queue>>
  BY TypesOf, MessageIs DEF HInv, AddReqUpdate, core, UpdateTran
<1>2. /\ active_mult_twins \in [Ports -> SUBSET Message] /\ tran_buf \in [Ports -> Seq(Tran)]
      /\ active_forests \in [Targets -> SUBSET Ports]
  BY DEF HInv, Types
<1>3. PICK a : a = tran_buf[m.port]
  OBVIOUS
<1>4. PICK w : w = UpdateTran(m)
  OBVIOUS
<1>5. w \in Tran /\ w.type = "update" /\ w.dest = m.dest /\ w.th = m.th /\ w.id = m.id
  BY <1>1, <1>4 DEF UpdateTran, Tran
<1>6. PICK b : b = Append(a, w)
  OBVIOUS
<1>7. /\ b \in Seq(Tran) /\ Len(a) \in Nat /\ DOMAIN a = 1..Len(a) /\ DOMAIN b = 1..(Len(a) + 1)
      /\ b[Len(a) + 1] = w /\ \A i \in DOMAIN a : b[i] = a[i]
  BY <1>1, <1>2, <1>3, <1>5, <1>6, AppendFacts
<1>8. \A q \in Ports : tran_buf'[q] = IF q = m.port THEN b ELSE tran_buf[q]
  BY <1>1, <1>2, <1>3, <1>4, <1>6
<1>9. Types'
  <2>1. active_mult_twins' \in [Ports -> SUBSET Message]
    BY <1>1, <1>2
  <2>2. tran_buf' \in [Ports -> Seq(Tran)]
    BY <1>1, <1>2, <1>3, <1>4, <1>6, <1>7
  <2>3. active_forests' \in [Targets -> SUBSET Ports]
    BY <1>1, <1>2
  <2> QED BY <1>1, <2>1, <2>2, <2>3 DEF HInv, Types, AddReqUpdate, core, memnet
<1>10. /\ \A q \in Ports : \A x \in active_mult_twins'[q] :
             x \in active_mult_twins[q] /\ ~(q = m.port /\ x = Twin(m))
       /\ \A n \in noc' : n \in noc /\ n # m
  BY <1>1, <1>2
<1>11. \A q \in Ports : \A i \in DOMAIN tran_buf'[q] :
         \/ i \in DOMAIN tran_buf[q] /\ tran_buf'[q][i] = tran_buf[q][i]
         \/ q = m.port /\ i = Len(a) + 1 /\ i \notin DOMAIN tran_buf[q] /\ tran_buf'[q][i] = w
  BY <1>3, <1>7, <1>8
<1>12. RobSound'
  BY <1>1 DEF HInv, RobSound
<1>13. ExecUpdate(rob[m.th], m.id, m.dest)
  BY <1>1 DEF HInv, Held, NocHeld
<1>14. Held'
  <2>1. NocHeld'
    BY <1>1, <1>10 DEF HInv, Held, NocHeld
  <2>2. TwinsHeld'
    BY <1>1, <1>10 DEF HInv, Held, TwinsHeld
  <2>3. TransHeld'
    <3>1. m.th # Nobody
      BY <1>1, BarrierAssumption
    <3>2. ASSUME NEW q \in Ports, NEW i \in DOMAIN tran_buf'[q], tran_buf'[q][i].type = "update"
          PROVE  /\ tran_buf'[q][i].th # Nobody
                 /\ ExecUpdate(rob[tran_buf'[q][i].th], tran_buf'[q][i].id, tran_buf'[q][i].dest)
      <4>1. CASE i \in DOMAIN tran_buf[q] /\ tran_buf'[q][i] = tran_buf[q][i]
        BY <3>2, <4>1 DEF HInv, Held, TransHeld
      <4>2. CASE tran_buf'[q][i] = w
        BY <1>5, <1>13, <3>1, <4>2
      <4> QED BY <1>11, <4>1, <4>2
    <3> QED BY <1>1, <3>2 DEF TransHeld
  <2>4. EventsHeld' /\ RespHeld'
    BY <1>1 DEF HInv, Held, EventsHeld, RespHeld
  <2> QED BY <2>1, <2>2, <2>3, <2>4 DEF Held
<1>15. OneGather'
  BY <1>1, <1>10 DEF HInv, OneGather
<1>16. ASSUME NEW n \in noc', n.type # "get" PROVE ~SameInstr(n, w)
  <2>1. SUFFICES ASSUME SameInstr(n, w) PROVE FALSE
    OBVIOUS
  <2>2. SameInstr(m, n) /\ n \in noc /\ n # m
    BY <1>5, <1>10, <2>1 DEF SameInstr
  <2>3. m.type = "mult" /\ n = Twin(m)
    BY <1>1, <1>16, <2>2 DEF HInv, OneUpdate
  <2>4. n \in active_mult_twins[m.port]
    BY <1>1, <2>3
  <2> QED BY <1>1, <2>2, <2>4 DEF HInv, Held, TwinsHeld
<1>17. ASSUME NEW q \in Ports, NEW x \in active_mult_twins'[q] PROVE ~SameInstr(x, w)
  <2>1. SUFFICES ASSUME SameInstr(x, w) PROVE FALSE
    OBVIOUS
  <2>2. SameInstr(m, x) /\ x \in active_mult_twins[q] /\ ~(q = m.port /\ x = Twin(m))
    BY <1>5, <1>10, <2>1 DEF SameInstr
  <2>3. m = Twin(x)
    BY <1>1, <2>2 DEF HInv, OneUpdate
  <2>4. x \in Message /\ x.port = q
    BY <2>2, TypesOf DEF HInv, Held, TwinsHeld
  <2>5. Twin(m) = x /\ m.port = q
    BY <2>3, <2>4, TwinIs
  <2> QED BY <2>2, <2>5
<1>18. ASSUME NEW q \in Ports, NEW i \in DOMAIN tran_buf[q], tran_buf[q][i].type = "update"
       PROVE  ~SameInstr(tran_buf[q][i], w) /\ ~SameInstr(w, tran_buf[q][i])
  BY <1>1, <1>5, <1>18 DEF HInv, OneUpdate, SameInstr
<1>19. OneUpdate'
  <2>1. \A l, n \in noc' : l.type # "get" /\ n.type # "get" /\ SameInstr(l, n) =>
          l = n \/ (l.kind = "req" /\ l.type = "mult" /\ n = Twin(l))
    BY <1>10 DEF HInv, OneUpdate
  <2>2. \A q \in Ports : \A x \in active_mult_twins'[q] :
          /\ \A n \in noc' : n.type # "get" /\ SameInstr(n, x) => n = Twin(x)
          /\ \A l \in Ports : \A y \in active_mult_twins'[l] : SameInstr(x, y) => x = y
    BY <1>10 DEF HInv, OneUpdate
  <2>3. ASSUME NEW p \in Ports, NEW i \in DOMAIN tran_buf'[p], tran_buf'[p][i].type = "update"
        PROVE  /\ \A n \in noc' : n.type # "get" => ~SameInstr(n, tran_buf'[p][i])
               /\ \A q \in Ports : \A x \in active_mult_twins'[q] : ~SameInstr(x, tran_buf'[p][i])
    <3>1. CASE i \in DOMAIN tran_buf[p] /\ tran_buf'[p][i] = tran_buf[p][i]
      BY <1>10, <2>3, <3>1 DEF HInv, OneUpdate
    <3>2. CASE tran_buf'[p][i] = w
      BY <1>16, <1>17, <3>2
    <3> QED BY <1>11, <3>1, <3>2
  <2>4. ASSUME NEW p \in Ports, NEW i \in DOMAIN tran_buf'[p], tran_buf'[p][i].type = "update",
               NEW q \in Ports, NEW j \in DOMAIN tran_buf'[q], tran_buf'[q][j].type = "update",
               SameInstr(tran_buf'[p][i], tran_buf'[q][j])
        PROVE  p = q /\ i = j
    <3>1. CASE /\ i \in DOMAIN tran_buf[p] /\ tran_buf'[p][i] = tran_buf[p][i]
               /\ j \in DOMAIN tran_buf[q] /\ tran_buf'[q][j] = tran_buf[q][j]
      BY <2>4, <3>1 DEF HInv, OneUpdate
    <3>2. CASE /\ i \in DOMAIN tran_buf[p] /\ tran_buf'[p][i] = tran_buf[p][i]
               /\ tran_buf'[q][j] = w
      BY <1>18, <2>4, <3>2
    <3>3. CASE /\ tran_buf'[p][i] = w
               /\ j \in DOMAIN tran_buf[q] /\ tran_buf'[q][j] = tran_buf[q][j]
      BY <1>18, <2>4, <3>3
    <3>4. CASE p = m.port /\ i = Len(a) + 1 /\ q = m.port /\ j = Len(a) + 1
      BY <3>4
    <3> QED BY <1>11, <3>1, <3>2, <3>3, <3>4
  <2> QED BY <2>1, <2>2, <2>3, <2>4 DEF OneUpdate
<1>20. GathersKept'
  BY <1>1, KeptWhereTheyAre
<1> QED BY <1>9, <1>12, <1>14, <1>15, <1>19, <1>20 DEF HInv

(* The event of the gather that request m is for.                          *)
EventOf(m) == [dest |-> m.dest, th |-> m.th, id |-> m.id]

LEMMA EventOfIs ==
  ASSUME NEW m \in Message
  PROVE  /\ EventOf(m) \in GatherEvent /\ EventOf(m).dest = m.dest /\ EventOf(m).th = m.th
         /\ EventOf(m).id = m.id /\ m.th # Nobody /\ EventOf(m).th # Nobody
<1>1. m.th \in Threads /\ m.id \in 0..RobSize-1 /\ m.dest \in Targets
  BY MessageIs
<1>2. m.th # Nobody
  BY <1>1, BarrierAssumption
<1> QED BY <1>1, <1>2 DEF EventOf, GatherEvent

(* A gather moves from the network on chip to the waiting ones.            *)
LEMMA GatherMoves ==
  ASSUME HInv, NEW m \in noc, m.kind = "req", m.type = "get", Types', rob' = rob,
         noc' = noc \ {m}, active_mult_twins' = active_mult_twins, resp_queue' = resp_queue,
         EventOf(m) \in active_gather_event'[m.port],
         \A p \in Ports : \A e \in active_gather_event[p] : e \in active_gather_event'[p],
         \A p \in Ports : \A e \in active_gather_event'[p] :
           e \in active_gather_event[p] \/ (e = EventOf(m) /\ p = m.port) \/ e.th = Nobody,
         \A p \in Ports : \A i \in DOMAIN tran_buf'[p] : tran_buf'[p][i].type = "update" =>
           i \in DOMAIN tran_buf[p] /\ tran_buf'[p][i] = tran_buf[p][i]
  PROVE  HInv'
<1>1. /\ m \in Message /\ m.port \in Ports /\ m.th \in Threads /\ m.th # Nobody
      /\ EventOf(m).dest = m.dest /\ EventOf(m).th = m.th /\ EventOf(m).id = m.id
  BY TypesOf, MessageIs, EventOfIs DEF HInv
<1>2. PICK w : w = EventOf(m)
  OBVIOUS
<1>3. \A n \in noc' : n \in noc /\ n # m /\ n.th # Nobody
  <2>1. \A n \in noc : n.th \in Threads
    BY TypesOf, MessageIs DEF HInv
  <2> QED BY <2>1, BarrierAssumption
<1>4. RobSound'
  BY DEF HInv, RobSound
<1>5. Held'
  <2>1. NocHeld'
    BY <1>3 DEF HInv, Held, NocHeld
  <2>2. TwinsHeld'
    BY <1>3 DEF HInv, Held, TwinsHeld
  <2>3. TransHeld'
    BY DEF HInv, Held, TransHeld
  <2>4. EventsHeld'
    <3>1. ExecGather(rob[m.th], m.id, m.dest)
      BY DEF HInv, Held, NocHeld
    <3> QED BY <1>1, <3>1 DEF HInv, Held, EventsHeld
  <2>5. RespHeld'
    BY DEF HInv, Held, RespHeld
  <2> QED BY <2>1, <2>2, <2>3, <2>4, <2>5 DEF Held
<1>6. \A p \in Ports :
        /\ \A e \in active_gather_event[p] : ~SameInstr(w, e) /\ ~SameInstr(e, w)
        /\ \A e \in resp_queue[p] : ~SameInstr(w, e) /\ e.th # Nobody
  <2>1. \A p \in Ports :
          /\ \A e \in active_gather_event[p] : ~SameInstr(m, e)
          /\ \A e \in resp_queue[p] : ~SameInstr(m, e)
    BY DEF HInv, OneGather
  <2>2. \A p \in Ports : \A e \in resp_queue[p] : e.th # Nobody
    BY DEF HInv, Held, RespHeld
  <2> QED BY <1>1, <1>2, <2>1, <2>2 DEF SameInstr
<1>7. OneGather'
  <2>1. \A l, n \in noc' : l.type = "get" /\ n.type = "get" /\ SameInstr(l, n) => l = n
    BY <1>3 DEF HInv, OneGather
  <2>2. ASSUME NEW n \in noc', NEW p \in Ports, n.type = "get"
        PROVE  /\ \A e \in active_gather_event'[p] : ~SameInstr(n, e)
               /\ \A e \in resp_queue[p] : ~SameInstr(n, e)
    <3>1. /\ \A e \in active_gather_event[p] : ~SameInstr(n, e)
          /\ \A e \in resp_queue[p] : ~SameInstr(n, e)
      BY <1>3, <2>2 DEF HInv, OneGather
    <3>2. ~SameInstr(n, m)
      BY <1>3, <2>2 DEF HInv, OneGather
    <3>3. ~SameInstr(n, w)
      BY <1>1, <1>2, <3>2 DEF SameInstr
    <3>4. \A e : e.th = Nobody => ~SameInstr(n, e)
      BY <1>3 DEF SameInstr
    <3> QED BY <1>2, <3>1, <3>3, <3>4
  <2>3. ASSUME NEW p \in Ports, NEW q \in Ports, NEW e \in active_gather_event'[p], e.th # Nobody
        PROVE  /\ \A f \in active_gather_event'[q] : SameInstr(e, f) => p = q /\ e = f
               /\ \A f \in resp_queue[q] : ~SameInstr(e, f)
    <3>1. ASSUME NEW f \in active_gather_event'[q], SameInstr(e, f)
          PROVE  p = q /\ e = f
      <4>1. f.th # Nobody
        BY <2>3, <3>1 DEF SameInstr
      <4>2. CASE e \in active_gather_event[p] /\ f \in active_gather_event[q]
        BY <2>3, <3>1, <4>2 DEF HInv, OneGather
      <4>3. CASE e = w /\ p = m.port /\ f = w /\ q = m.port
        BY <4>3
      <4>4. CASE e = w /\ f \in active_gather_event[q]
        BY <1>6, <3>1, <4>4
      <4>5. CASE f = w /\ e \in active_gather_event[p]
        BY <1>6, <3>1, <4>5
      <4> QED BY <1>2, <2>3, <4>1, <4>2, <4>3, <4>4, <4>5
    <3>2. \A f \in resp_queue[q] : ~SameInstr(e, f)
      <4>1. CASE e \in active_gather_event[p]
        BY <2>3, <4>1 DEF HInv, OneGather
      <4>2. CASE e = w
        BY <1>6, <4>2
      <4> QED BY <1>2, <2>3, <4>1, <4>2
    <3> QED BY <3>1, <3>2
  <2>4. \A p, q \in Ports : \A e \in resp_queue[p], f \in resp_queue[q] :
          SameInstr(e, f) => p = q /\ e = f
    BY DEF HInv, OneGather
  <2> QED BY <2>1, <2>2, <2>3, <2>4 DEF OneGather
<1>8. OneUpdate'
  <2>1. /\ \A l, n \in noc' : l.type # "get" /\ n.type # "get" /\ SameInstr(l, n) =>
             l = n \/ (l.kind = "req" /\ l.type = "mult" /\ n = Twin(l))
        /\ \A p \in Ports : \A x \in active_mult_twins[p] :
             /\ \A n \in noc' : n.type # "get" /\ SameInstr(n, x) => n = Twin(x)
             /\ \A q \in Ports : \A y \in active_mult_twins[q] : SameInstr(x, y) => x = y
    BY <1>3 DEF HInv, OneUpdate
  <2>2. ASSUME NEW p \in Ports, NEW i \in DOMAIN tran_buf'[p], tran_buf'[p][i].type = "update"
        PROVE  /\ \A n \in noc' : n.type # "get" => ~SameInstr(n, tran_buf'[p][i])
               /\ \A q \in Ports :
                    /\ \A x \in active_mult_twins[q] : ~SameInstr(x, tran_buf'[p][i])
                    /\ \A j \in DOMAIN tran_buf'[q] :
                         tran_buf'[q][j].type = "update" /\ SameInstr(tran_buf'[p][i], tran_buf'[q][j]) =>
                           p = q /\ i = j
    <3>1. i \in DOMAIN tran_buf[p] /\ tran_buf'[p][i] = tran_buf[p][i] /\ tran_buf[p][i].type = "update"
      BY <2>2
    <3> QED BY <1>3, <3>1 DEF HInv, OneUpdate
  <2> QED BY <2>1, <2>2 DEF OneUpdate
<1>9. GathersKept'
  <2>1. ASSUME NEW u \in Threads, NEW k, GatherSomewhere(u, k)
        PROVE  GatherSomewhere(u, k)'
    <3>1. CASE m.th = u /\ m.id = k
      BY <1>1, <3>1 DEF GatherSomewhere
    <3>2. CASE ~(m.th = u /\ m.id = k)
      BY <2>1, <3>2 DEF GatherSomewhere
    <3> QED BY <3>1, <3>2
  <2>2. ASSUME NEW u \in Threads, NEW i \in DOMAIN rob[u], rob[u][i].type = "get",
               rob[u][i].state = "executing", NEW k, k = rob[u][i].id
        PROVE  GatherSomewhere(u, k)'
    BY <2>1, <2>2 DEF HInv, GathersKept
  <2> QED BY <2>2 DEF GathersKept
<1> QED BY <1>4, <1>5, <1>7, <1>8, <1>9 DEF HInv

LEMMA FiniteFacts ==
  /\ IsFiniteSet(Ports) /\ Cardinality(Ports) = NumPorts
  /\ \A S \in SUBSET Ports : IsFiniteSet(S) /\ Cardinality(S) \in Nat /\ Cardinality(S) <= NumPorts
  /\ IsFiniteSet(Threads) /\ nthreads \in Nat \ {0}
  /\ \A S \in SUBSET Threads : IsFiniteSet(S) /\ Cardinality(S) \in Nat /\ Cardinality(S) <= nthreads
<1>1. NumPorts \in Nat \ {0} /\ IsFiniteSet(Threads) /\ Leader \in Threads
  BY BarrierAssumption
<1>2. IsFiniteSet(Ports) /\ Cardinality(Ports) = NumPorts
  <2>1. NumPorts - 1 \in Int /\ ~(0 > NumPorts - 1)
    BY <1>1
  <2>2. IsFiniteSet(0..(NumPorts - 1)) /\ Cardinality(0..(NumPorts - 1)) = (NumPorts - 1) - 0 + 1
    BY <2>1, FS_Interval
  <2> QED BY <1>1, <2>2 DEF Ports
<1>3. ASSUME NEW S \in SUBSET Ports
      PROVE  IsFiniteSet(S) /\ Cardinality(S) \in Nat /\ Cardinality(S) <= NumPorts
  BY <1>2, FS_Subset, FS_CardinalityType
<1>4. nthreads \in Nat \ {0}
  BY <1>1, FS_CardinalityType, FS_EmptySet DEF nthreads
<1>5. ASSUME NEW S \in SUBSET Threads
      PROVE  IsFiniteSet(S) /\ Cardinality(S) \in Nat /\ Cardinality(S) <= nthreads
  BY <1>1, FS_Subset, FS_CardinalityType DEF nthreads
<1> QED BY <1>1, <1>2, <1>3, <1>4, <1>5

(* The barrier once m is counted.                                          *)
LEMMA ArrivedIs ==
  ASSUME Types, NEW m \in Message
  PROVE  LET b == IF gather_barrier[m.dest].live THEN gather_barrier[m.dest] ELSE NoBarrier
         IN  /\ b \in Barrier /\ Arrived(m) \in Barrier /\ Arrived(m).live
             /\ Arrived(m).count = b.count + 1
             /\ \A p \in Ports : Arrived(m).port[p] = IF p = m.port THEN b.port[p] + 1 ELSE b.port[p]
<1>1. m.dest \in Targets /\ m.port \in Ports
  BY MessageIs
<1>2. gather_barrier[m.dest] \in Barrier
  BY <1>1 DEF Types
<1>3. NoBarrier \in Barrier
  BY DEF NoBarrier, Barrier
<1>4. PICK b : b = IF gather_barrier[m.dest].live THEN gather_barrier[m.dest] ELSE NoBarrier
  OBVIOUS
<1>5. b \in Barrier
  BY <1>2, <1>3, <1>4
<1>6. b.live \in BOOLEAN /\ b.count \in Int /\ b.port \in [Ports -> Int]
  BY <1>5 DEF Barrier
<1>7. Arrived(m) = [b EXCEPT !.live = TRUE, !.count = @ + 1, !.port[m.port] = @ + 1]
  BY <1>4 DEF Arrived
<1>8. PICK f : f = [b.port EXCEPT ![m.port] = @ + 1]
  OBVIOUS
<1>9. /\ f \in [Ports -> Int]
      /\ \A p \in Ports : f[p] = IF p = m.port THEN b.port[p] + 1 ELSE b.port[p]
  BY <1>1, <1>6, <1>8
<1>10. Arrived(m) = [live |-> TRUE, count |-> b.count + 1, port |-> f]
  BY <1>5, <1>7, <1>8 DEF Barrier
<1>11. Arrived(m) \in Barrier /\ Arrived(m).live /\ Arrived(m).count = b.count + 1 /\ Arrived(m).port = f
  BY <1>6, <1>9, <1>10 DEF Barrier
<1> QED BY <1>4, <1>5, <1>9, <1>11

LEMMA WithGatherIs ==
  ASSUME Types, NEW m \in Message
  PROVE  /\ WithGather(m) \in [Ports -> SUBSET GatherEvent]
         /\ \A p \in Ports : WithGather(m)[p] = IF p = m.port THEN active_gather_event[p] \cup {EventOf(m)}
                                                ELSE active_gather_event[p]
<1>1. active_gather_event \in [Ports -> SUBSET GatherEvent] /\ m.port \in Ports /\ EventOf(m) \in GatherEvent
  BY MessageIs, EventOfIs DEF Types
<1>2. WithGather(m) = [active_gather_event EXCEPT ![m.port] = @ \cup {EventOf(m)}]
  BY DEF WithGather, EventOf
<1> QED BY <1>1, <1>2

LEMMA GatherStep ==
  ASSUME HInv, NEW m \in noc, AddReqGather(m)
  PROVE  HInv'
<1>1. m \in Message /\ m.port \in Ports /\ m.dest \in Targets
  BY TypesOf, MessageIs DEF HInv
<1>2. /\ m.kind = "req" /\ m.type = "get" /\ rob' = rob /\ noc' = noc \ {m}
      /\ active_mult_twins' = active_mult_twins /\ resp_queue' = resp_queue /\ tran_buf' = tran_buf
      /\ gather_barrier' = [gather_barrier EXCEPT ![m.dest] = Arrived(m)]
      /\ active_gather_event' = WithGather(m)
  BY DEF AddReqGather, core
<1>3. /\ WithGather(m) \in [Ports -> SUBSET GatherEvent]
      /\ \A p \in Ports : WithGather(m)[p] = IF p = m.port THEN active_gather_event[p] \cup {EventOf(m)}
                                             ELSE active_gather_event[p]
  BY <1>1, WithGatherIs DEF HInv
<1>4. Types'
  <2>1. Arrived(m) \in Barrier
    BY <1>1, ArrivedIs DEF HInv
  <2>2. gather_barrier' \in [Targets -> Barrier]
    BY <1>2, <2>1 DEF HInv, Types
  <2> QED BY <1>2, <1>3, <2>2 DEF HInv, Types, AddReqGather, core, memnet
<1>5. EventOf(m) \in active_gather_event'[m.port]
  BY <1>1, <1>2, <1>3
<1>6. \A p \in Ports : \A e \in active_gather_event[p] : e \in active_gather_event'[p]
  BY <1>2, <1>3
<1>7. \A p \in Ports : \A e \in active_gather_event'[p] :
        e \in active_gather_event[p] \/ (e = EventOf(m) /\ p = m.port) \/ e.th = Nobody
  BY <1>2, <1>3
<1>8. \A p \in Ports : \A i \in DOMAIN tran_buf'[p] : tran_buf'[p][i].type = "update" =>
        i \in DOMAIN tran_buf[p] /\ tran_buf'[p][i] = tran_buf[p][i]
  BY <1>2
<1> QED BY <1>2, <1>4, <1>5, <1>6, <1>7, <1>8, GatherMoves

(* What the last gather puts into a port that carries part of the flow.    *)
Dummy(m) == [dest |-> m.dest, th |-> Nobody, id |-> 0]
GatherTran(m) == [type |-> "get", dest |-> m.dest, th |-> Nobody, id |-> 0]

LEMMA DummyIs ==
  ASSUME NEW m \in Message
  PROVE  /\ Dummy(m) \in GatherEvent /\ Dummy(m).th = Nobody /\ Dummy(m).dest = m.dest
         /\ GatherTran(m) \in Tran /\ GatherTran(m).type = "get" /\ GatherTran(m).dest = m.dest
<1>1. m.dest \in Targets /\ 0 \in 0..RobSize-1
  BY MessageIs, PortFacts
<1> QED BY <1>1 DEF Dummy, GatherTran, GatherEvent, Tran

LEMMA LastGatherIs ==
  ASSUME Types, NEW m \in noc, AddReqLastGather(m)
  PROVE  /\ m.kind = "req" /\ m.type = "get" /\ rob' = rob /\ noc' = noc \ {m}
         /\ active_mult_twins' = active_mult_twins /\ resp_queue' = resp_queue
         /\ active_forests' = active_forests
         /\ UNCHANGED <<downBuffers, gatherBarrier, flow, serv_trans, art_scheme, program>>
         /\ gather_barrier' = [gather_barrier EXCEPT ![m.dest] = Released(m)]
         /\ Released(m) \in Barrier
         /\ active_gather_event' \in [Ports -> SUBSET GatherEvent]
         /\ \A p \in Ports : \A e \in active_gather_event'[p] :
              \/ e \in active_gather_event[p]
              \/ e = EventOf(m) /\ p = m.port
              \/ e = Dummy(m) /\ p \in active_forests[m.dest]
         /\ \A p \in Ports : \A e \in active_gather_event[p] : e \in active_gather_event'[p]
         /\ EventOf(m) \in active_gather_event'[m.port]
         /\ tran_buf' \in [Ports -> Seq(Tran)]
         /\ \A p \in Ports : tran_buf'[p] = IF p \in active_forests[m.dest]
              THEN Append(tran_buf[p], GatherTran(m)) ELSE tran_buf[p]
<1>1. m \in Message /\ m.port \in Ports /\ m.dest \in Targets
  BY TypesOf, MessageIs
<1>2. /\ WithGather(m) \in [Ports -> SUBSET GatherEvent]
      /\ \A p \in Ports : WithGather(m)[p] = IF p = m.port THEN active_gather_event[p] \cup {EventOf(m)}
                                             ELSE active_gather_event[p]
  BY <1>1, WithGatherIs
<1>3. Dummy(m) \in GatherEvent /\ GatherTran(m) \in Tran
  BY <1>1, DummyIs
<1>4. PICK w, g : w = WithGather(m) /\ g = Dummy(m)
  OBVIOUS
<1>5. active_gather_event' = [p \in Ports |->
        IF p \in active_forests[m.dest] /\ \A e \in w[p] : e.dest # m.dest THEN w[p] \cup {g} ELSE w[p]]
  BY <1>4 DEF AddReqLastGather, Dummy
<1>6. \A p \in Ports : active_gather_event'[p] = w[p] \/
                       (p \in active_forests[m.dest] /\ active_gather_event'[p] = w[p] \cup {g})
  BY <1>5
<1>7. \A p \in Ports : active_gather_event'[p] \in SUBSET GatherEvent
  BY <1>2, <1>3, <1>4, <1>6
<1>8. active_gather_event' = [p \in Ports |-> active_gather_event'[p]]
  BY <1>5
<1>9. active_gather_event' \in [Ports -> SUBSET GatherEvent]
  BY <1>7, <1>8
<1>10. PICK x : x = GatherTran(m)
  OBVIOUS
<1>11. tran_buf' = [p \in Ports |-> IF p \in active_forests[m.dest] THEN Append(tran_buf[p], x) ELSE tran_buf[p]]
  BY <1>10 DEF AddReqLastGather, GatherTran
<1>12. \A p \in Ports : tran_buf[p] \in Seq(Tran) /\ Append(tran_buf[p], x) \in Seq(Tran)
  BY <1>3, <1>10 DEF Types
<1>13. tran_buf' \in [Ports -> Seq(Tran)]
  BY <1>11, <1>12
<1>14. Released(m) \in Barrier
  <2>1. Cardinality(active_forests[m.dest]) \in Int
    BY <1>1, FiniteFacts DEF Types
  <2>2. [p \in Ports |-> IF p \in active_forests[m.dest] THEN 1 ELSE 0] \in [Ports -> Int]
    OBVIOUS
  <2> QED BY <2>1, <2>2 DEF Released, Barrier
<1>15. \A p \in Ports : \A e \in active_gather_event'[p] :
              \/ e \in active_gather_event[p]
              \/ e = EventOf(m) /\ p = m.port
              \/ e = Dummy(m) /\ p \in active_forests[m.dest]
  BY <1>2, <1>4, <1>6
<1>16. /\ \A p \in Ports : \A e \in active_gather_event[p] : e \in active_gather_event'[p]
       /\ EventOf(m) \in active_gather_event'[m.port]
  BY <1>1, <1>2, <1>4, <1>6
<1>17. /\ m.kind = "req" /\ m.type = "get" /\ rob' = rob /\ noc' = noc \ {m}
       /\ active_mult_twins' = active_mult_twins /\ resp_queue' = resp_queue
       /\ active_forests' = active_forests
       /\ UNCHANGED <<downBuffers, gatherBarrier, flow, serv_trans, art_scheme, program>>
       /\ gather_barrier' = [gather_barrier EXCEPT ![m.dest] = Released(m)]
  BY DEF AddReqLastGather, core, memnet
<1> QED BY <1>9, <1>10, <1>11, <1>13, <1>14, <1>15, <1>16, <1>17

LEMMA LastGatherStep ==
  ASSUME HInv, NEW m \in noc, AddReqLastGather(m)
  PROVE  HInv'
<1>1. m \in Message /\ m.port \in Ports /\ m.dest \in Targets
  BY TypesOf, MessageIs DEF HInv
<1>2. /\ m.kind = "req" /\ m.type = "get" /\ rob' = rob /\ noc' = noc \ {m}
      /\ active_mult_twins' = active_mult_twins /\ resp_queue' = resp_queue
      /\ active_forests' = active_forests
      /\ UNCHANGED <<downBuffers, gatherBarrier, flow, serv_trans, art_scheme, program>>
      /\ gather_barrier' = [gather_barrier EXCEPT ![m.dest] = Released(m)]
      /\ Released(m) \in Barrier
      /\ active_gather_event' \in [Ports -> SUBSET GatherEvent]
      /\ tran_buf' \in [Ports -> Seq(Tran)]
  BY LastGatherIs DEF HInv
<1>3. /\ \A p \in Ports : \A e \in active_gather_event'[p] :
            \/ e \in active_gather_event[p]
            \/ e = EventOf(m) /\ p = m.port
            \/ e = Dummy(m) /\ p \in active_forests[m.dest]
      /\ \A p \in Ports : \A e \in active_gather_event[p] : e \in active_gather_event'[p]
      /\ EventOf(m) \in active_gather_event'[m.port]
  BY LastGatherIs DEF HInv
<1>4. \A p \in Ports : tran_buf'[p] = IF p \in active_forests[m.dest]
              THEN Append(tran_buf[p], GatherTran(m)) ELSE tran_buf[p]
  BY LastGatherIs DEF HInv
<1>5. Types'
  <2>1. gather_barrier' \in [Targets -> Barrier]
    BY <1>1, <1>2 DEF HInv, Types
  <2> QED BY <1>2, <2>1 DEF HInv, Types
<1>6. /\ GatherTran(m) \in Tran /\ GatherTran(m).type = "get" /\ Dummy(m).th = Nobody
  BY <1>1, DummyIs
<1>7. \A p \in Ports : \A e \in active_gather_event'[p] :
        e \in active_gather_event[p] \/ (e = EventOf(m) /\ p = m.port) \/ e.th = Nobody
  BY <1>3, <1>6
<1>8. ASSUME NEW p \in Ports, NEW i \in DOMAIN tran_buf'[p], tran_buf'[p][i].type = "update"
      PROVE  i \in DOMAIN tran_buf[p] /\ tran_buf'[p][i] = tran_buf[p][i]
  <2>1. CASE p \in active_forests[m.dest]
    <3>1. PICK x, a, b : x = GatherTran(m) /\ a = tran_buf[p] /\ b = tran_buf'[p]
      OBVIOUS
    <3>2. a \in Seq(Tran) /\ x \in Tran /\ b = Append(a, x)
      BY <1>4, <1>6, <2>1, <3>1, TypesOf DEF HInv
    <3>3. /\ Len(a) \in Nat /\ DOMAIN a = 1..Len(a) /\ DOMAIN b = 1..(Len(a) + 1)
          /\ b[Len(a) + 1] = x /\ \A j \in DOMAIN a : b[j] = a[j]
      BY <3>2, AppendFacts
    <3> QED BY <1>6, <1>8, <3>1, <3>3
  <2>2. CASE p \notin active_forests[m.dest]
    BY <1>4, <2>2
  <2> QED BY <2>1, <2>2
<1> QED BY <1>2, <1>3, <1>5, <1>7, <1>8, GatherMoves

-----------------------------------------------------------------------------
(***************************************************************************)
(* Steps of the ports and of the network.                                  *)
(***************************************************************************)
(* The acknowledgement of update x at port p, the answer of gather e.      *)
AckOf(x, p) ==
  [kind |-> "rep", th |-> x.th, id |-> x.id, type |-> "add", dest |-> x.dest, port |-> p, half |-> 1]

AnswerOf(e, p) ==
  [kind |-> "rep", th |-> e.th, id |-> e.id, type |-> "get", dest |-> e.dest, port |-> p, half |-> 1]

LEMMA SendTranIs ==
  ASSUME HInv, NEW p \in Ports, SendTran(p)
  PROVE  LET a == tran_buf[p]  x == Head(a)
         IN  /\ a \in Seq(Tran) /\ a # <<>> /\ x \in Tran /\ x = a[1] /\ 1 \in DOMAIN a
             /\ downBuffers' = [downBuffers EXCEPT ![p] = Append(@, x)]
             /\ downBuffers' \in [Ports -> Seq(Tran)]
             /\ tran_buf' = [tran_buf EXCEPT ![p] = Tail(a)]
             /\ tran_buf' \in [Ports -> Seq(Tran)]
             /\ x.type = "get" => noc' = noc
             /\ x.type = "update" => noc' = noc \cup {AckOf(x, p)}
             /\ UNCHANGED <<art_scheme, program, rob, active_mult_twins, gather_barrier, active_forests,
                            active_gather_event, gatherBarrier, flow, serv_trans, resp_queue>>
<1>1. PICK a, x : a = tran_buf[p] /\ x = Head(a)
  OBVIOUS
<1>2. a \in Seq(Tran) /\ a # <<>>
  BY <1>1, TypesOf DEF HInv, SendTran
<1>3. x \in Tran /\ x = a[1] /\ 1 \in DOMAIN a /\ Tail(a) \in Seq(Tran)
  BY <1>1, <1>2, TailFacts
<1>4. tran_buf \in [Ports -> Seq(Tran)] /\ downBuffers \in [Ports -> Seq(Tran)]
  BY DEF HInv, Types
<1>5. /\ downBuffers' = [downBuffers EXCEPT ![p] = Append(@, x)]
      /\ tran_buf' = [tran_buf EXCEPT ![p] = Tail(a)]
      /\ x.type = "get" => noc' = noc
      /\ x.type = "update" => noc' = noc \cup {AckOf(x, p)}
      /\ UNCHANGED <<art_scheme, program, rob, active_mult_twins, gather_barrier, active_forests,
                     active_gather_event, gatherBarrier, flow, serv_trans, resp_queue>>
  BY <1>1 DEF SendTran, AckOf, core
<1>6. tran_buf' \in [Ports -> Seq(Tran)] /\ downBuffers' \in [Ports -> Seq(Tran)]
  <2>1. Append(downBuffers[p], x) \in Seq(Tran)
    BY <1>3, <1>4
  <2> QED BY <1>3, <1>4, <1>5, <2>1
<1> QED BY <1>1, <1>2, <1>3, <1>5, <1>6

LEMMA SendTranStep ==
  ASSUME HInv, NEW p \in Ports, SendTran(p)
  PROVE  HInv'
<1>1. PICK a, x : a = tran_buf[p] /\ x = Head(a)
  OBVIOUS
<1>2. /\ a \in Seq(Tran) /\ a # <<>> /\ x \in Tran /\ x = a[1] /\ 1 \in DOMAIN a
      /\ downBuffers' \in [Ports -> Seq(Tran)]
      /\ tran_buf' = [tran_buf EXCEPT ![p] = Tail(a)]
      /\ tran_buf' \in [Ports -> Seq(Tran)]
      /\ x.type = "get" => noc' = noc
      /\ x.type = "update" => noc' = noc \cup {AckOf(x, p)}
      /\ UNCHANGED <<art_scheme, program, rob, active_mult_twins, gather_barrier, active_forests,
                     active_gather_event, gatherBarrier, flow, serv_trans, resp_queue>>
  BY <1>1, SendTranIs
<1>3. x.type \in {"update", "get"}
  BY <1>2 DEF Tran
<1>4. PICK b : b = Tail(a)
  OBVIOUS
<1>5. /\ DOMAIN b = 1..(Len(a) - 1) /\ Len(a) \in Nat
      /\ \A i \in DOMAIN b : i + 1 \in DOMAIN a /\ b[i] = a[i + 1]
  BY <1>2, <1>4, TailFacts
<1>6. \A q \in Ports : tran_buf'[q] = IF q = p THEN b ELSE tran_buf[q]
  BY <1>2, <1>4 DEF HInv, Types
<1>7. PICK sh : sh = [q \in Ports |-> IF q = p THEN 1 ELSE 0]
  OBVIOUS
<1>8. \A q \in Ports : \A i \in DOMAIN tran_buf'[q] :
        /\ i \in Int /\ i + sh[q] \in DOMAIN tran_buf[q] /\ tran_buf'[q][i] = tran_buf[q][i + sh[q]]
        /\ ~(q = p /\ i + sh[q] = 1)
  <2>1. ASSUME NEW q \in Ports, NEW i \in DOMAIN tran_buf'[q]
        PROVE  /\ i \in Int /\ i + sh[q] \in DOMAIN tran_buf[q] /\ tran_buf'[q][i] = tran_buf[q][i + sh[q]]
               /\ ~(q = p /\ i + sh[q] = 1)
    <3>1. CASE q = p
      <4>1. sh[q] = 1 /\ i \in DOMAIN b /\ i \in 1..(Len(a) - 1)
        BY <1>5, <1>6, <1>7, <3>1
      <4> QED BY <1>1, <1>5, <1>6, <3>1, <4>1
    <3>2. CASE q # p
      <4>1. sh[q] = 0 /\ i \in DOMAIN tran_buf[q] /\ tran_buf'[q] = tran_buf[q]
        BY <1>6, <1>7, <3>2
      <4>2. i \in 1..Len(tran_buf[q]) /\ Len(tran_buf[q]) \in Nat
        BY <4>1, TypesOf DEF HInv
      <4> QED BY <3>2, <4>1, <4>2
    <3> QED BY <3>1, <3>2
  <2> QED BY <2>1
<1>9. \A q \in Ports : sh[q] \in Int
  BY <1>7
<1>10. RobSound'
  BY <1>2 DEF HInv, RobSound
<1>11. TransHeld'
  <2>1. ASSUME NEW q \in Ports, NEW i \in DOMAIN tran_buf'[q], tran_buf'[q][i].type = "update"
        PROVE  /\ tran_buf'[q][i].th # Nobody
               /\ ExecUpdate(rob[tran_buf'[q][i].th], tran_buf'[q][i].id, tran_buf'[q][i].dest)
    <3>1. PICK j \in DOMAIN tran_buf[q] : tran_buf'[q][i] = tran_buf[q][j]
      BY <1>8
    <3> QED BY <2>1, <3>1 DEF HInv, Held, TransHeld
  <2> QED BY <1>2, <2>1 DEF TransHeld
<1>12. CASE x.type = "get"
  <2>1. Types'
    BY <1>2, <1>12 DEF HInv, Types
  <2>2. Held'
    BY <1>2, <1>11, <1>12 DEF HInv, Held, NocHeld, TwinsHeld, EventsHeld, RespHeld
  <2>3. OneGather'
    BY <1>2, <1>12 DEF HInv, OneGather
  <2>4. OneUpdate'
    <3>1. ASSUME NEW q \in Ports, NEW i \in DOMAIN tran_buf'[q], tran_buf'[q][i].type = "update"
          PROVE  /\ \A m \in noc : m.type # "get" => ~SameInstr(m, tran_buf'[q][i])
                 /\ \A l \in Ports :
                      /\ \A y \in active_mult_twins[l] : ~SameInstr(y, tran_buf'[q][i])
                      /\ \A j \in DOMAIN tran_buf'[l] :
                           tran_buf'[l][j].type = "update" /\ SameInstr(tran_buf'[q][i], tran_buf'[l][j]) =>
                             q = l /\ i = j
      <4>1. PICK u \in DOMAIN tran_buf[q] : tran_buf'[q][i] = tran_buf[q][u] /\ u = i + sh[q]
        BY <1>8
      <4>2. /\ \A m \in noc : m.type # "get" => ~SameInstr(m, tran_buf'[q][i])
            /\ \A l \in Ports : \A y \in active_mult_twins[l] : ~SameInstr(y, tran_buf'[q][i])
        BY <3>1, <4>1 DEF HInv, OneUpdate
      <4>3. ASSUME NEW l \in Ports, NEW j \in DOMAIN tran_buf'[l], tran_buf'[l][j].type = "update",
                   SameInstr(tran_buf'[q][i], tran_buf'[l][j])
            PROVE  q = l /\ i = j
        <5>1. PICK v \in DOMAIN tran_buf[l] : tran_buf'[l][j] = tran_buf[l][v] /\ v = j + sh[l]
          BY <1>8
        <5>2. q = l /\ u = v
          BY <3>1, <4>1, <4>3, <5>1 DEF HInv, OneUpdate
        <5>3. i \in Int /\ j \in Int /\ sh[q] \in Int
          BY <1>8, <1>9
        <5> QED BY <4>1, <5>1, <5>2, <5>3
      <4> QED BY <4>2, <4>3
    <3>2. /\ \A m, n \in noc : m.type # "get" /\ n.type # "get" /\ SameInstr(m, n) =>
               m = n \/ (m.kind = "req" /\ m.type = "mult" /\ n = Twin(m))
          /\ \A q \in Ports : \A y \in active_mult_twins[q] :
               /\ \A m \in noc : m.type # "get" /\ SameInstr(m, y) => m = Twin(y)
               /\ \A l \in Ports : \A z \in active_mult_twins[l] : SameInstr(y, z) => y = z
      BY DEF HInv, OneUpdate
    <3> QED BY <1>2, <1>12, <3>1, <3>2 DEF OneUpdate
  <2>5. GathersKept'
    BY <1>2, <1>12, KeptWhereTheyAre
  <2> QED BY <1>10, <2>1, <2>2, <2>3, <2>4, <2>5 DEF HInv
<1>13. CASE x.type = "update"
  <2>1. PICK w : w = AckOf(x, p)
    OBVIOUS
  <2>2. x.th # Nobody /\ ExecUpdate(rob[x.th], x.id, x.dest)
    BY <1>1, <1>2, <1>13 DEF HInv, Held, TransHeld
  <2>3. /\ w \in Message /\ w.kind = "rep" /\ w.type = "add" /\ w.th = x.th /\ w.id = x.id
        /\ w.dest = x.dest /\ w.half = 1
    <3>1. x.th \in Threads /\ x.id \in 0..RobSize-1 /\ x.dest \in Targets
      BY <1>2, <2>2 DEF Tran
    <3> QED BY <2>1, <3>1 DEF AckOf, Message
  <2>4. noc' = noc \cup {w}
    BY <1>2, <1>13, <2>1
  <2>5. /\ \A m \in noc : m.type # "get" => ~SameInstr(m, w) /\ ~SameInstr(w, m)
        /\ \A q \in Ports : \A y \in active_mult_twins[q] : ~SameInstr(y, w) /\ ~SameInstr(w, y)
    <3>1. /\ \A m \in noc : m.type # "get" => ~SameInstr(m, x)
          /\ \A q \in Ports : \A y \in active_mult_twins[q] : ~SameInstr(y, x)
      BY <1>1, <1>2, <1>13 DEF HInv, OneUpdate
    <3> QED BY <2>3, <3>1 DEF SameInstr
  <2>6. Types'
    <3>1. noc' \in SUBSET Message
      BY <2>3, <2>4, TypesOf DEF HInv
    <3> QED BY <1>2, <3>1 DEF HInv, Types
  <2>7. Held'
    <3>1. NocHeld'
      BY <1>2, <2>2, <2>3, <2>4 DEF HInv, Held, NocHeld
    <3>2. TwinsHeld'
      BY <1>2, <2>3, <2>4 DEF HInv, Held, TwinsHeld
    <3>3. EventsHeld' /\ RespHeld'
      BY <1>2 DEF HInv, Held, EventsHeld, RespHeld
    <3> QED BY <1>11, <3>1, <3>2, <3>3 DEF Held
  <2>8. OneGather'
    <3>1. \A m \in noc' : m.type = "get" => m \in noc
      BY <2>3, <2>4
    <3> QED BY <1>2, <3>1 DEF HInv, OneGather
  <2>9. OneUpdate'
    <3>1. ASSUME NEW m \in noc', NEW n \in noc', m.type # "get", n.type # "get", SameInstr(m, n)
          PROVE  m = n \/ (m.kind = "req" /\ m.type = "mult" /\ n = Twin(m))
      <4>1. CASE m \in noc /\ n \in noc
        BY <3>1, <4>1 DEF HInv, OneUpdate
      <4>2. CASE m = w \/ n = w
        BY <2>4, <2>5, <3>1, <4>2
      <4> QED BY <2>4, <4>1, <4>2
    <3>2. ASSUME NEW q \in Ports, NEW y \in active_mult_twins[q]
          PROVE  /\ \A m \in noc' : m.type # "get" /\ SameInstr(m, y) => m = Twin(y)
                 /\ \A l \in Ports : \A z \in active_mult_twins[l] : SameInstr(y, z) => y = z
      BY <2>4, <2>5 DEF HInv, OneUpdate
    <3>3. ASSUME NEW q \in Ports, NEW i \in DOMAIN tran_buf'[q], tran_buf'[q][i].type = "update"
          PROVE  /\ \A m \in noc' : m.type # "get" => ~SameInstr(m, tran_buf'[q][i])
                 /\ \A l \in Ports :
                      /\ \A y \in active_mult_twins[l] : ~SameInstr(y, tran_buf'[q][i])
                      /\ \A j \in DOMAIN tran_buf'[l] :
                           tran_buf'[l][j].type = "update" /\ SameInstr(tran_buf'[q][i], tran_buf'[l][j]) =>
                             q = l /\ i = j
      <4>1. PICK u \in DOMAIN tran_buf[q] :
              tran_buf'[q][i] = tran_buf[q][u] /\ u = i + sh[q] /\ ~(q = p /\ u = 1)
        BY <1>8
      <4>2. /\ \A m \in noc : m.type # "get" => ~SameInstr(m, tran_buf'[q][i])
            /\ \A l \in Ports : \A y \in active_mult_twins[l] : ~SameInstr(y, tran_buf'[q][i])
        BY <3>3, <4>1 DEF HInv, OneUpdate
      <4>3. ~SameInstr(w, tran_buf'[q][i])
        <5>1. ~SameInstr(x, tran_buf[q][u])
          BY <1>1, <1>2, <1>13, <3>3, <4>1 DEF HInv, OneUpdate
        <5> QED BY <2>3, <4>1, <5>1 DEF SameInstr
      <4>4. ASSUME NEW l \in Ports, NEW j \in DOMAIN tran_buf'[l], tran_buf'[l][j].type = "update",
                   SameInstr(tran_buf'[q][i], tran_buf'[l][j])
            PROVE  q = l /\ i = j
        <5>1. PICK v \in DOMAIN tran_buf[l] : tran_buf'[l][j] = tran_buf[l][v] /\ v = j + sh[l]
          BY <1>8
        <5>2. q = l /\ u = v
          BY <3>3, <4>1, <4>4, <5>1 DEF HInv, OneUpdate
        <5>3. i \in Int /\ j \in Int /\ sh[q] \in Int
          BY <1>8, <1>9
        <5> QED BY <4>1, <5>1, <5>2, <5>3
      <4> QED BY <2>4, <4>2, <4>3, <4>4
    <3> QED BY <1>2, <3>1, <3>2, <3>3 DEF OneUpdate
  <2>10. GathersKept'
    BY <1>2, <2>4, KeptWhereTheyAre
  <2> QED BY <1>10, <2>6, <2>7, <2>8, <2>9, <2>10 DEF HInv
<1> QED BY <1>3, <1>12, <1>13

LEMMA IdleFlowIs == IdleFlow \in FlowState /\ NoBarrier \in Barrier
BY DEF IdleFlow, FlowState, NoBarrier, Barrier

(* An answer of the network: what happens in any case, ...                 *)
LEMMA AddRepIs ==
  ASSUME Types, NEW p \in Ports, AddRep(p)
  PROVE  LET c == serv_trans[p]  d == Head(c)
         IN  /\ c \in Seq(Targets) /\ c # <<>> /\ d \in Targets /\ d = c[1] /\ 1 \in DOMAIN c
             /\ flow' = [flow EXCEPT ![<<d, p>>] = IdleFlow] /\ flow' \in [Targets \X Ports -> FlowState]
             /\ serv_trans' = [serv_trans EXCEPT ![p] = Tail(c)] /\ serv_trans' \in [Ports -> Seq(Targets)]
             /\ UNCHANGED <<art_scheme, program, rob, noc, active_mult_twins, tran_buf, downBuffers, gatherBarrier>>
<1>1. PICK c, d : c = serv_trans[p] /\ d = Head(c)
  OBVIOUS
<1>2. c \in Seq(Targets) /\ c # <<>>
  BY <1>1, TypesOf DEF AddRep
<1>3. d \in Targets /\ d = c[1] /\ 1 \in DOMAIN c /\ Tail(c) \in Seq(Targets)
  BY <1>1, <1>2, TailFacts
<1>4. flow \in [Targets \X Ports -> FlowState] /\ serv_trans \in [Ports -> Seq(Targets)]
  BY DEF Types
<1>5. /\ flow' = [flow EXCEPT ![<<d, p>>] = IdleFlow] /\ serv_trans' = [serv_trans EXCEPT ![p] = Tail(c)]
      /\ UNCHANGED <<art_scheme, program, rob, noc, active_mult_twins, tran_buf, downBuffers, gatherBarrier>>
  BY <1>1 DEF AddRep, core
<1>6. flow' \in [Targets \X Ports -> FlowState] /\ serv_trans' \in [Ports -> Seq(Targets)]
  <2>1. <<d, p>> \in Targets \X Ports
    BY <1>3
  <2> QED BY <1>3, <1>4, <1>5, <2>1, IdleFlowIs
<1> QED BY <1>1, <1>2, <1>3, <1>5, <1>6

(* ... when it is the last answer, ...                                     *)
LEMMA LastAnswerIs ==
  ASSUME Types, NEW p \in Ports, AddRep(p), NEW d, d = Head(serv_trans[p]), AllAnswered(d, p)
  PROVE  /\ gather_barrier' = [gather_barrier EXCEPT ![d] = NoBarrier]
         /\ gather_barrier' \in [Targets -> Barrier]
         /\ active_forests' = [active_forests EXCEPT ![d] = {}]
         /\ active_forests' \in [Targets -> SUBSET Ports]
         /\ \A i \in Ports : active_gather_event'[i] = {e \in active_gather_event[i] : e.dest # d}
         /\ active_gather_event' \in [Ports -> SUBSET GatherEvent]
         /\ \A i \in Ports : resp_queue'[i] =
              resp_queue[i] \cup {e \in active_gather_event[i] : e.dest = d /\ e.th # Nobody}
         /\ resp_queue' \in [Ports -> SUBSET GatherEvent]
<1>1. /\ gather_barrier' = [gather_barrier EXCEPT ![d] = NoBarrier]
      /\ active_forests' = [active_forests EXCEPT ![d] = {}]
      /\ active_gather_event' = [i \in Ports |-> {e \in active_gather_event[i] : e.dest # d}]
      /\ resp_queue' = [i \in Ports |->
            resp_queue[i] \cup {e \in active_gather_event[i] : e.dest = d /\ e.th # Nobody}]
  BY DEF AddRep, ForestsWithout, Answers
<1>2. gather_barrier' \in [Targets -> Barrier]
  BY <1>1, IdleFlowIs DEF Types
<1>3. active_forests' \in [Targets -> SUBSET Ports]
  BY <1>1 DEF Types
<1>4. active_gather_event' \in [Ports -> SUBSET GatherEvent]
  BY <1>1 DEF Types
<1>5. resp_queue' \in [Ports -> SUBSET GatherEvent]
  <2>1. \A i \in Ports :
          resp_queue[i] \cup {e \in active_gather_event[i] : e.dest = d /\ e.th # Nobody} \in SUBSET GatherEvent
    BY DEF Types
  <2> QED BY <1>1, <2>1
<1> QED BY <1>1, <1>2, <1>3, <1>4, <1>5

(* ... and when others are still to come.                                  *)
LEMMA EarlyAnswerIs ==
  ASSUME Types, NEW p \in Ports, AddRep(p), NEW d \in Targets, d = Head(serv_trans[p]), ~AllAnswered(d, p)
  PROVE  LET b == gather_barrier[d]
         IN  /\ \A c \in Targets \ {d} : gather_barrier'[c] = gather_barrier[c]
             /\ gather_barrier'[d].live = b.live /\ gather_barrier'[d].count = b.count - b.port[p]
             /\ \A q \in Ports : gather_barrier'[d].port[q] = IF q = p THEN -1 ELSE b.port[q]
             /\ gather_barrier' \in [Targets -> Barrier]
             /\ UNCHANGED <<active_forests, active_gather_event, resp_queue>>
<1>1. gather_barrier' = [gather_barrier EXCEPT
        ![d].count = @ - gather_barrier[d].port[p], ![d].port[p] = -1]
  BY DEF AddRep
<1>2. PICK b : b = gather_barrier[d]
  OBVIOUS
<1>3. b \in Barrier /\ gather_barrier \in [Targets -> Barrier]
  BY <1>2 DEF Types
<1>4. b.live \in BOOLEAN /\ b.count \in Int /\ b.port \in [Ports -> Int]
  BY <1>3 DEF Barrier
<1>5. PICK f, n : f = [b.port EXCEPT ![p] = -1] /\ n = b.count - b.port[p]
  OBVIOUS
<1>6. f \in [Ports -> Int] /\ n \in Int /\ \A q \in Ports : f[q] = IF q = p THEN -1 ELSE b.port[q]
  BY <1>4, <1>5
<1>7. PICK w : w = [live |-> b.live, count |-> n, port |-> f]
  OBVIOUS
<1>8. w \in Barrier /\ w.live = b.live /\ w.count = n /\ w.port = f
  BY <1>4, <1>6, <1>7 DEF Barrier
<1>9. gather_barrier' = [gather_barrier EXCEPT ![d] = w]
  <2>1. PICK g : g = [gather_barrier EXCEPT ![d].count = n]
    OBVIOUS
  <2>2. gather_barrier' = [g EXCEPT ![d].port[p] = -1]
    BY <1>1, <1>2, <1>5, <2>1
  <2>3. PICK v : v = [live |-> b.live, count |-> n, port |-> b.port]
    OBVIOUS
  <2>4. [b EXCEPT !.count = n] = v
    BY <1>3, <2>3 DEF Barrier
  <2>5. g = [gather_barrier EXCEPT ![d] = v]
    BY <1>2, <1>3, <2>1, <2>4
  <2>6. g[d] = v /\ DOMAIN g = Targets
    BY <1>3, <2>5
  <2>7. [v EXCEPT !.port[p] = -1] = w
    BY <1>4, <1>5, <1>7, <2>3
  <2>8. gather_barrier' = [g EXCEPT ![d] = w]
    BY <2>2, <2>6, <2>7
  <2> QED BY <1>3, <2>5, <2>8
<1>10. gather_barrier' \in [Targets -> Barrier] /\ gather_barrier'[d] = w
       /\ \A c \in Targets \ {d} : gather_barrier'[c] = gather_barrier[c]
  BY <1>3, <1>8, <1>9
<1>11. UNCHANGED <<active_forests, active_gather_event, resp_queue>>
  BY DEF AddRep
<1> QED BY <1>2, <1>5, <1>6, <1>8, <1>10, <1>11

LEMMA AddRepStep ==
  ASSUME HInv, NEW p \in Ports, AddRep(p)
  PROVE  HInv'
<1>1. Types
  BY DEF HInv
<1>2. PICK d \in Targets : d = Head(serv_trans[p])
  BY <1>1, AddRepIs
<1>3. /\ flow' \in [Targets \X Ports -> FlowState]
      /\ serv_trans' \in [Ports -> Seq(Targets)]
      /\ UNCHANGED <<art_scheme, program, rob, noc, active_mult_twins, tran_buf, downBuffers, gatherBarrier>>
  BY <1>1, AddRepIs
<1>4. RobSound' /\ NocHeld' /\ TwinsHeld' /\ TransHeld' /\ OneUpdate'
  BY <1>3 DEF HInv, RobSound, Held, NocHeld, TwinsHeld, TransHeld, OneUpdate
<1>5. CASE AllAnswered(d, p)
  <2>1. /\ gather_barrier' \in [Targets -> Barrier] /\ active_forests' \in [Targets -> SUBSET Ports]
        /\ active_gather_event' \in [Ports -> SUBSET GatherEvent] /\ resp_queue' \in [Ports -> SUBSET GatherEvent]
    BY <1>1, <1>2, <1>5, LastAnswerIs
  <2>2. /\ \A i \in Ports : active_gather_event'[i] = {e \in active_gather_event[i] : e.dest # d}
        /\ \A i \in Ports : resp_queue'[i] =
             resp_queue[i] \cup {e \in active_gather_event[i] : e.dest = d /\ e.th # Nobody}
    BY <1>1, <1>2, <1>5, LastAnswerIs
  <2>3. /\ \A i \in Ports : \A e \in active_gather_event'[i] : e \in active_gather_event[i] /\ e.dest # d
        /\ \A i \in Ports : \A e \in resp_queue'[i] :
             e \in resp_queue[i] \/ (e \in active_gather_event[i] /\ e.dest = d /\ e.th # Nobody)
    BY <2>2
  <2>4. Types'
    BY <1>1, <1>3, <2>1 DEF Types
  <2>5. EventsHeld'
    BY <1>3, <2>3 DEF HInv, Held, EventsHeld
  <2>6. RespHeld'
    BY <1>3, <2>3 DEF HInv, Held, EventsHeld, RespHeld
  <2>7. OneGather'
    <3>1. \A m, n \in noc : m.type = "get" /\ n.type = "get" /\ SameInstr(m, n) => m = n
      BY DEF HInv, OneGather
    <3>2. ASSUME NEW m \in noc, NEW i \in Ports, m.type = "get"
          PROVE  /\ \A e \in active_gather_event'[i] : ~SameInstr(m, e)
                 /\ \A e \in resp_queue'[i] : ~SameInstr(m, e)
      BY <2>3, <3>2 DEF HInv, OneGather
    <3>3. ASSUME NEW i \in Ports, NEW j \in Ports, NEW e \in active_gather_event'[i], e.th # Nobody
          PROVE  /\ \A f \in active_gather_event'[j] : SameInstr(e, f) => i = j /\ e = f
                 /\ \A f \in resp_queue'[j] : ~SameInstr(e, f)
      BY <2>3, <3>3 DEF HInv, OneGather
    <3>4. ASSUME NEW i \in Ports, NEW j \in Ports, NEW e \in resp_queue'[i], NEW f \in resp_queue'[j],
                 SameInstr(e, f)
          PROVE  i = j /\ e = f
      <4>1. SameInstr(f, e)
        BY <3>4 DEF SameInstr
      <4>2. CASE e \in resp_queue[i] /\ f \in resp_queue[j]
        BY <3>4, <4>2 DEF HInv, OneGather
      <4>3. CASE e \in active_gather_event[i] /\ e.th # Nobody
        BY <2>3, <3>4, <4>3 DEF HInv, OneGather
      <4>4. CASE f \in active_gather_event[j] /\ f.th # Nobody
        BY <2>3, <4>1, <4>4 DEF HInv, OneGather
      <4> QED BY <2>3, <4>2, <4>3, <4>4
    <3> QED BY <1>3, <3>1, <3>2, <3>3, <3>4 DEF OneGather
  <2>8. GathersKept'
    <3>1. \A i \in Ports : \A e \in active_gather_event[i] : e.th # Nobody =>
            e \in active_gather_event'[i] \/ e \in resp_queue'[i]
      BY <2>2
    <3>2. \A i \in Ports : \A e \in resp_queue[i] : e \in resp_queue'[i]
      BY <2>2
    <3> QED BY <1>3, <3>1, <3>2, KeptWhereTheyAre
  <2> QED BY <1>4, <2>4, <2>5, <2>6, <2>7, <2>8 DEF HInv, Held
<1>6. CASE ~AllAnswered(d, p)
  <2>1. gather_barrier' \in [Targets -> Barrier] /\ UNCHANGED <<active_forests, active_gather_event, resp_queue>>
    BY <1>1, <1>2, <1>6, EarlyAnswerIs
  <2>2. Types'
    BY <1>1, <1>3, <2>1 DEF Types
  <2>3. EventsHeld' /\ RespHeld' /\ OneGather'
    BY <1>3, <2>1 DEF HInv, Held, EventsHeld, RespHeld, OneGather
  <2>4. GathersKept'
    BY <1>3, <2>1, KeptWhereTheyAre
  <2> QED BY <1>4, <2>2, <2>3, <2>4 DEF HInv, Held
<1> QED BY <1>5, <1>6

LEMMA RespondStep ==
  ASSUME HInv, NEW p \in Ports, Respond(p)
  PROVE  HInv'
<1>1. PICK e \in resp_queue[p] :
        resp_queue' = [resp_queue EXCEPT ![p] = @ \ {e}] /\ noc' = noc \cup {AnswerOf(e, p)}
  BY DEF Respond, AnswerOf
<1>2. UNCHANGED <<rob, active_mult_twins, active_gather_event, tran_buf>>
  BY DEF Respond, core, port
<1>3. resp_queue \in [Ports -> SUBSET GatherEvent] /\ e \in GatherEvent
  BY DEF HInv, Types
<1>4. e.th # Nobody /\ ExecGather(rob[e.th], e.id, e.dest)
  BY DEF HInv, Held, RespHeld
<1>5. e.th \in Threads /\ e.id \in 0..RobSize-1 /\ e.dest \in Targets
  BY <1>3, <1>4, EventIs
<1>6. PICK w : w = AnswerOf(e, p)
  OBVIOUS
<1>7. /\ w \in Message /\ w.kind = "rep" /\ w.type = "get" /\ w.th = e.th /\ w.id = e.id
      /\ w.dest = e.dest /\ w.half = 1
  BY <1>5, <1>6 DEF AnswerOf, Message
<1>8. noc' = noc \cup {w}
  BY <1>1, <1>6
<1>9. /\ resp_queue' \in [Ports -> SUBSET GatherEvent]
      /\ \A q \in Ports : \A f \in resp_queue'[q] : f \in resp_queue[q] /\ ~(q = p /\ f = e)
      /\ \A q \in Ports : \A f \in resp_queue[q] : f \in resp_queue'[q] \/ (q = p /\ f = e)
  BY <1>1, <1>3
<1>10. Types'
  <2>1. noc' \in SUBSET Message
    BY <1>7, <1>8, TypesOf DEF HInv
  <2> QED BY <1>9, <2>1 DEF HInv, Types, Respond, core, port, memnet
<1>11. RobSound'
  BY <1>2 DEF HInv, RobSound
<1>12. Held'
  <2>1. NocHeld'
    BY <1>2, <1>4, <1>7, <1>8 DEF HInv, Held, NocHeld
  <2>2. TwinsHeld'
    BY <1>2, <1>7, <1>8 DEF HInv, Held, TwinsHeld
  <2>3. TransHeld' /\ EventsHeld'
    BY <1>2 DEF HInv, Held, TransHeld, EventsHeld
  <2>4. RespHeld'
    BY <1>2, <1>9 DEF HInv, Held, RespHeld
  <2> QED BY <2>1, <2>2, <2>3, <2>4 DEF Held
<1>13. OneGather'
  <2>1. \A m \in noc : m.type = "get" => ~SameInstr(m, e)
    BY DEF HInv, OneGather
  <2>2. \A m \in noc : m.type = "get" => ~SameInstr(m, w) /\ ~SameInstr(w, m)
    BY <1>7, <2>1 DEF SameInstr
  <2>3. \A m, n \in noc' : m.type = "get" /\ n.type = "get" /\ SameInstr(m, n) => m = n
    <3>1. ASSUME NEW m \in noc', NEW n \in noc', m.type = "get", n.type = "get", SameInstr(m, n)
          PROVE  m = n
      <4>1. CASE m \in noc /\ n \in noc
        BY <3>1, <4>1 DEF HInv, OneGather
      <4>2. CASE m = w \/ n = w
        BY <1>8, <2>2, <3>1, <4>2
      <4> QED BY <1>8, <4>1, <4>2
    <3> QED BY <3>1
  <2>4. ASSUME NEW q \in Ports
        PROVE  /\ \A f \in active_gather_event[q] : ~SameInstr(w, f)
               /\ \A f \in resp_queue'[q] : ~SameInstr(w, f)
    <3>1. ASSUME NEW f \in active_gather_event[q], SameInstr(w, f) PROVE FALSE
      <4>1. SameInstr(f, e) /\ f.th # Nobody
        BY <1>4, <1>7, <3>1 DEF SameInstr
      <4> QED BY <4>1 DEF HInv, OneGather
    <3>2. ASSUME NEW f \in resp_queue'[q], SameInstr(w, f) PROVE FALSE
      <4>1. SameInstr(e, f) /\ f \in resp_queue[q] /\ ~(q = p /\ f = e)
        BY <1>7, <1>9, <3>2 DEF SameInstr
      <4> QED BY <4>1 DEF HInv, OneGather
    <3> QED BY <3>1, <3>2
  <2>5. \A m \in noc, q \in Ports : m.type = "get" =>
          /\ \A f \in active_gather_event[q] : ~SameInstr(m, f)
          /\ \A f \in resp_queue'[q] : ~SameInstr(m, f)
    BY <1>9 DEF HInv, OneGather
  <2>6. \A m \in noc', q \in Ports : m.type = "get" =>
          /\ \A f \in active_gather_event[q] : ~SameInstr(m, f)
          /\ \A f \in resp_queue'[q] : ~SameInstr(m, f)
    BY <1>8, <2>4, <2>5
  <2>7. \A i, q \in Ports : \A g \in active_gather_event[i] : g.th # Nobody =>
       /\ \A f \in active_gather_event[q] : SameInstr(g, f) => i = q /\ g = f
       /\ \A f \in resp_queue'[q] : ~SameInstr(g, f)
    BY <1>9 DEF HInv, OneGather
  <2>8. \A i, q \in Ports : \A g \in resp_queue'[i], f \in resp_queue'[q] :
       SameInstr(g, f) => i = q /\ g = f
    BY <1>9 DEF HInv, OneGather
  <2> QED BY <1>2, <2>3, <2>6, <2>7, <2>8 DEF OneGather
<1>14. OneUpdate'
  <2>1. \A m \in noc' : m.type # "get" => m \in noc
    BY <1>7, <1>8
  <2> QED BY <1>2, <2>1 DEF HInv, OneUpdate
<1>15. GathersKept'
  <2>1. ASSUME NEW u \in Threads, NEW k, GatherSomewhere(u, k)
        PROVE  GatherSomewhere(u, k)'
    BY <1>2, <1>7, <1>8, <1>9, <2>1 DEF GatherSomewhere
  <2>2. ASSUME NEW u \in Threads, NEW i \in DOMAIN rob[u], rob[u][i].type = "get",
               rob[u][i].state = "executing", NEW k, k = rob[u][i].id
        PROVE  GatherSomewhere(u, k)'
    BY <2>1, <2>2 DEF HInv, GathersKept
  <2> QED BY <1>2, <2>2 DEF GathersKept
<1> QED BY <1>10, <1>11, <1>12, <1>13, <1>14, <1>15 DEF HInv

(* Steps behind the ports move nothing that a core waits for.              *)
LEMMA BehindPorts ==
  ASSUME HInv, Types',
         UNCHANGED <<rob, noc, active_mult_twins, active_gather_event, tran_buf, resp_queue>>
  PROVE  HInv'
<1>1. RobSound' /\ Held'
  BY DEF HInv, RobSound, Held, NocHeld, TwinsHeld, TransHeld, EventsHeld, RespHeld
<1>2. OneGather' /\ OneUpdate'
  BY DEF HInv, OneGather, OneUpdate
<1>3. GathersKept'
  BY KeptWhereTheyAre
<1> QED BY <1>1, <1>2, <1>3 DEF HInv

LEMMA FlowIs ==
  ASSUME Types, NEW d \in Targets, NEW p \in Ports
  PROVE  /\ <<d, p>> \in Targets \X Ports /\ flow[<<d, p>>] \in FlowState
         /\ flow[<<d, p>>].phase \in {"update", "gather", "answered"}
         /\ flow[<<d, p>>].issued \in Nat /\ flow[<<d, p>>].total \in Nat
<1>1. <<d, p>> \in Targets \X Ports
  OBVIOUS
<1>2. flow[<<d, p>>] \in FlowState
  BY <1>1 DEF Types
<1> QED BY <1>1, <1>2 DEF FlowState

(* The sub-flow of target d and port p becomes fl.                         *)
FlowBecomes(d, p, fl) ==
  /\ flow' \in [Targets \X Ports -> FlowState]
  /\ flow'[<<d, p>>] = fl
  /\ \A c \in Targets, q \in Ports : ~(c = d /\ q = p) => flow'[<<c, q>>] = flow[<<c, q>>]

LEMMA FlowSet ==
  ASSUME Types, NEW d \in Targets, NEW p \in Ports, NEW fl \in FlowState,
         flow' = [flow EXCEPT ![<<d, p>>] = fl]
  PROVE  FlowBecomes(d, p, fl)
<1>1. <<d, p>> \in Targets \X Ports
  OBVIOUS
<1>2. flow \in [Targets \X Ports -> FlowState]
  BY DEF Types
<1>3. \A c \in Targets, q \in Ports : ~(c = d /\ q = p) => <<c, q>> # <<d, p>> /\ <<c, q>> \in Targets \X Ports
  OBVIOUS
<1> QED BY <1>1, <1>2, <1>3 DEF FlowBecomes

(* A packet enters the network.                                            *)
LEMMA SendPacketIs ==
  ASSUME Types, NEW p \in Ports, SendPacket(p)
  PROVE  LET b == downBuffers[p]  x == Head(b)  fl == flow[<<x.dest, p>>]
         IN  /\ b \in Seq(Tran) /\ b # <<>> /\ x \in Tran /\ x = b[1] /\ 1 \in DOMAIN b
             /\ x.dest \in Targets /\ x.type \in {"update", "get"}
             /\ downBuffers' = [downBuffers EXCEPT ![p] = Tail(b)]
             /\ x.type = "get" => FlowBecomes(x.dest, p, [fl EXCEPT !.phase = "gather"])
             /\ x.type = "update" => FlowBecomes(x.dest, p, [fl EXCEPT !.issued = @ + 1])
             /\ Types'
             /\ UNCHANGED <<art_scheme, program, rob, noc, active_mult_twins, gather_barrier, active_forests,
                            active_gather_event, tran_buf, serv_trans, resp_queue>>
<1>1. PICK b, x : b = downBuffers[p] /\ x = Head(b)
  OBVIOUS
<1>2. b \in Seq(Tran) /\ b # <<>>
  BY <1>1, TypesOf DEF SendPacket
<1>3. x = b[1] /\ 1 \in DOMAIN b /\ Tail(b) \in Seq(Tran)
  BY <1>1, <1>2, TailFacts
<1>4. x \in Tran /\ x.dest \in Targets /\ x.type \in {"update", "get"}
  BY <1>2, <1>3, TranIs
<1>5. PICK fl : fl = flow[<<x.dest, p>>]
  OBVIOUS
<1>6. fl \in FlowState /\ <<x.dest, p>> \in Targets \X Ports
  BY <1>4, <1>5, FlowIs
<1>7. [fl EXCEPT !.phase = "gather"] \in FlowState /\ [fl EXCEPT !.issued = @ + 1] \in FlowState
  <2>1. fl.issued + 1 \in Nat
    BY <1>6 DEF FlowState
  <2> QED BY <1>6, <2>1 DEF FlowState
<1>8. /\ downBuffers' = [downBuffers EXCEPT ![p] = Tail(b)]
      /\ UNCHANGED <<art_scheme, program, rob, noc, active_mult_twins, gather_barrier, active_forests,
                     active_gather_event, tran_buf, serv_trans, resp_queue>>
  BY <1>1 DEF SendPacket, core, port
<1>9. downBuffers' \in [Ports -> Seq(Tran)]
  BY <1>3, <1>8 DEF Types
<1>10. CASE x.type = "get"
  <2>1. gatherBarrier' = [gatherBarrier EXCEPT ![p][x.dest] = -1]
    BY <1>1, <1>10 DEF SendPacket
  <2>2. gatherBarrier' \in [Ports -> [Targets -> -1..0]]
    BY <1>4, <2>1 DEF Types
  <2>3. flow' = [flow EXCEPT ![<<x.dest, p>>].phase = "gather"]
    BY <1>1, <1>10 DEF SendPacket
  <2>4. flow' = [flow EXCEPT ![<<x.dest, p>>] = [fl EXCEPT !.phase = "gather"]]
    BY <1>5, <1>6, <2>3 DEF Types
  <2>5. PICK g \in FlowState : g = [fl EXCEPT !.phase = "gather"]
    BY <1>7
  <2>6. FlowBecomes(x.dest, p, g)
    BY <1>4, <2>4, <2>5, FlowSet
  <2>7. Types'
    BY <1>8, <1>9, <2>2, <2>6 DEF Types, FlowBecomes
  <2> QED BY <1>1, <1>2, <1>3, <1>4, <1>5, <1>8, <1>10, <2>5, <2>6, <2>7
<1>11. CASE x.type = "update"
  <2>1. gatherBarrier' = gatherBarrier
    BY <1>1, <1>11 DEF SendPacket
  <2>3. flow' = [flow EXCEPT ![<<x.dest, p>>].issued = @ + 1]
    BY <1>1, <1>11 DEF SendPacket
  <2>4. flow' = [flow EXCEPT ![<<x.dest, p>>] = [fl EXCEPT !.issued = @ + 1]]
    BY <1>5, <1>6, <2>3 DEF Types
  <2>5. PICK g \in FlowState : g = [fl EXCEPT !.issued = @ + 1]
    BY <1>7
  <2>6. FlowBecomes(x.dest, p, g)
    BY <1>4, <2>4, <2>5, FlowSet
  <2>7. Types'
    BY <1>8, <1>9, <2>1, <2>6 DEF Types, FlowBecomes
  <2> QED BY <1>1, <1>2, <1>3, <1>4, <1>5, <1>8, <1>11, <2>5, <2>6, <2>7
<1> QED BY <1>4, <1>10, <1>11

LEMMA SendPacketStep ==
  ASSUME HInv, NEW p \in Ports, SendPacket(p)
  PROVE  HInv'
<1>1. /\ Types'
      /\ UNCHANGED <<rob, noc, active_mult_twins, active_gather_event, tran_buf, resp_queue>>
  BY SendPacketIs DEF HInv
<1> QED BY <1>1, BehindPorts

LEMMA SendFailsIs ==
  ASSUME Types, NEW p \in Ports, SendFails(p)
  PROVE  /\ Types'
         /\ UNCHANGED <<art_scheme, program, rob, noc, active_mult_twins, gather_barrier, active_forests,
                        active_gather_event, tran_buf, downBuffers, flow, serv_trans, resp_queue>>
<1>1. PICK b, d : b = downBuffers[p] /\ d = Head(b).dest
  OBVIOUS
<1>2. b \in Seq(Tran) /\ b # <<>>
  BY <1>1, TypesOf DEF SendFails
<1>3. Head(b) = b[1] /\ 1 \in DOMAIN b
  BY <1>2, TailFacts
<1>4. d \in Targets
  BY <1>1, <1>2, <1>3, TranIs
<1>5. gatherBarrier' = [gatherBarrier EXCEPT ![p][d] = Uncount(p, d)]
  BY <1>1 DEF SendFails
<1>6. PICK k : k = gatherBarrier[p][d]
  OBVIOUS
<1>7. k \in -1..0 /\ gatherBarrier \in [Ports -> [Targets -> -1..0]]
  BY <1>4, <1>6 DEF Types
<1>8. Uncount(p, d) = 0
  BY <1>6, <1>7 DEF Uncount, HmcCount
<1>9. gatherBarrier' \in [Ports -> [Targets -> -1..0]]
  <2>1. 0 \in -1..0
    OBVIOUS
  <2> QED BY <1>4, <1>5, <1>7, <1>8, <2>1
<1>10. UNCHANGED <<art_scheme, program, rob, noc, active_mult_twins, gather_barrier, active_forests,
                   active_gather_event, tran_buf, downBuffers, flow, serv_trans, resp_queue>>
  BY DEF SendFails, core, port
<1> QED BY <1>9, <1>10 DEF Types

LEMMA SendFailsStep ==
  ASSUME HInv, NEW p \in Ports, SendFails(p)
  PROVE  HInv'
<1>1. /\ Types'
      /\ UNCHANGED <<rob, noc, active_mult_twins, active_gather_event, tran_buf, resp_queue>>
  BY SendFailsIs DEF HInv
<1> QED BY <1>1, BehindPorts

LEMMA NetworkAnswerIs ==
  ASSUME Types, NEW d \in Targets, NEW p \in Ports, NetworkAnswer(d, p)
  PROVE  LET fl == flow[<<d, p>>]
         IN  /\ fl.phase = "gather"
             /\ FlowBecomes(d, p, [phase |-> "answered", issued |-> fl.issued, total |-> fl.issued])
             /\ serv_trans' = [serv_trans EXCEPT ![p] = Append(@, d)]
             /\ Types'
             /\ UNCHANGED <<art_scheme, program, rob, noc, active_mult_twins, gather_barrier, active_forests,
                            active_gather_event, tran_buf, downBuffers, gatherBarrier, resp_queue>>
<1>1. PICK f, fl : f = <<d, p>> /\ fl = flow[f]
  OBVIOUS
<1>2. f \in Targets \X Ports /\ fl \in FlowState /\ flow \in [Targets \X Ports -> FlowState]
  BY <1>1, FlowIs DEF Types
<1>3. flow' = [flow EXCEPT ![f].phase = "answered", ![f].total = fl.issued]
  BY <1>1 DEF NetworkAnswer
<1>4. PICK g : g = [phase |-> "answered", issued |-> fl.issued, total |-> fl.issued]
  OBVIOUS
<1>5. g \in FlowState
  BY <1>2, <1>4 DEF FlowState
<1>6. flow' = [flow EXCEPT ![f] = g]
  <2>1. PICK h : h = [flow EXCEPT ![f].phase = "answered"]
    OBVIOUS
  <2>2. flow' = [h EXCEPT ![f].total = fl.issued]
    BY <1>3, <2>1
  <2>3. PICK v : v = [phase |-> "answered", issued |-> fl.issued, total |-> fl.total]
    OBVIOUS
  <2>4. [fl EXCEPT !.phase = "answered"] = v
    BY <1>2, <2>3 DEF FlowState
  <2>5. h = [flow EXCEPT ![f] = v]
    BY <1>1, <1>2, <2>1, <2>4
  <2>6. h[f] = v /\ DOMAIN h = Targets \X Ports
    BY <1>2, <2>5
  <2>7. [v EXCEPT !.total = fl.issued] = g
    BY <1>4, <2>3
  <2>8. flow' = [h EXCEPT ![f] = g]
    BY <2>2, <2>6, <2>7
  <2> QED BY <1>2, <2>5, <2>8
<1>7. FlowBecomes(d, p, g)
  BY <1>1, <1>5, <1>6, FlowSet
<1>8. /\ serv_trans' = [serv_trans EXCEPT ![p] = Append(@, d)] /\ fl.phase = "gather"
      /\ UNCHANGED <<art_scheme, program, rob, noc, active_mult_twins, gather_barrier, active_forests,
                     active_gather_event, tran_buf, downBuffers, gatherBarrier, resp_queue>>
  BY <1>1 DEF NetworkAnswer, core, port
<1>9. serv_trans' \in [Ports -> Seq(Targets)]
  <2>1. Append(serv_trans[p], d) \in Seq(Targets)
    BY TypesOf
  <2> QED BY <1>8, <2>1 DEF Types
<1>10. Types'
  BY <1>7, <1>8, <1>9 DEF Types, FlowBecomes
<1> QED BY <1>1, <1>4, <1>7, <1>8, <1>10

LEMMA NetworkAnswerStep ==
  ASSUME HInv, NEW d \in Targets, NEW p \in Ports, NetworkAnswer(d, p)
  PROVE  HInv'
<1>1. /\ Types'
      /\ UNCHANGED <<rob, noc, active_mult_twins, active_gather_event, tran_buf, resp_queue>>
  BY NetworkAnswerIs DEF HInv
<1> QED BY <1>1, BehindPorts

LEMMA HoldersInit == Init => HInv
<1> SUFFICES ASSUME Init PROVE HInv
  OBVIOUS
<1>1. Types
  <2>1. program \in [Threads -> [target : Targets, updates : 0..MaxUpdates]]
    <3>1. 0 \in Targets /\ 0 \in 0..MaxUpdates
      BY PortFacts, BarrierAssumption
    <3> QED BY <3>1 DEF Init
  <2>2. gather_barrier \in [Targets -> Barrier] /\ flow \in [Targets \X Ports -> FlowState]
    BY IdleFlowIs DEF Init
  <2>3. gatherBarrier \in [Ports -> [Targets -> -1..0]]
    BY DEF Init
  <2>4. /\ art_scheme \in Schemes /\ rob \in [Threads -> Seq(Instr)] /\ noc \in SUBSET Message
        /\ active_mult_twins \in [Ports -> SUBSET Message]
        /\ active_forests \in [Targets -> SUBSET Ports]
        /\ active_gather_event \in [Ports -> SUBSET GatherEvent]
        /\ resp_queue \in [Ports -> SUBSET GatherEvent]
    BY DEF Init
  <2>5. /\ tran_buf \in [Ports -> Seq(Tran)] /\ downBuffers \in [Ports -> Seq(Tran)]
        /\ serv_trans \in [Ports -> Seq(Targets)]
    BY DEF Init
  <2> QED BY <2>1, <2>2, <2>3, <2>4, <2>5 DEF Types
<1>2. /\ \A t \in Threads : DOMAIN rob[t] = {} /\ Len(rob[t]) = 0
      /\ noc = {}
      /\ \A p \in Ports : /\ active_mult_twins[p] = {} /\ active_gather_event[p] = {} /\ resp_queue[p] = {}
                          /\ DOMAIN tran_buf[p] = {}
  BY DEF Init
<1>3. RobSound
  <2>1. RobSize \in Nat
    BY BarrierAssumption
  <2> QED BY <1>2, <2>1 DEF RobSound, RobNumbers, RobOrder
<1>4. Held
  BY <1>2 DEF Held, NocHeld, TwinsHeld, TransHeld, EventsHeld, RespHeld
<1>5. OneGather /\ OneUpdate
  BY <1>2 DEF OneGather, OneUpdate
<1>6. GathersKept
  BY <1>2 DEF GathersKept
<1> QED BY <1>1, <1>3, <1>4, <1>5, <1>6 DEF HInv

LEMMA HoldersStep ==
  ASSUME HInv, [Next]_vars
  PROVE  HInv'
<1>1. ASSUME NEW t \in Threads, NEW i \in DOMAIN rob[t], Issue(t, i) PROVE HInv'
  BY <1>1, IssueStep
<1>2. ASSUME NEW t \in Threads, Commit(t) PROVE HInv'
  BY <1>2, CommitStep
<1>3. ASSUME NEW m \in noc, Receive(m) PROVE HInv'
  BY <1>3, CompleteStep, TwinStep, UpdateStep, GatherStep, LastGatherStep DEF Receive
<1>4. ASSUME NEW p \in Ports, PortStep(p) PROVE HInv'
  BY <1>4, SendTranStep, AddRepStep, RespondStep, SendPacketStep DEF PortStep
<1>5. ASSUME NEW d \in Targets, NEW p \in Ports, NetworkAnswer(d, p) PROVE HInv'
  BY <1>5, NetworkAnswerStep
<1>6. ASSUME NEW p \in Ports, SendFails(p) PROVE HInv'
  BY <1>6, SendFailsStep
<1>7. ASSUME NEW t \in Threads, Fetch(t) PROVE HInv'
  BY <1>7, FetchStep
<1>8. CASE UNCHANGED vars
  <2>1. Types'
    BY <1>8 DEF HInv, Types, vars
  <2> QED BY <1>8, <2>1, BehindPorts DEF vars
<1>9. CASE Progress
  BY <1>1, <1>2, <1>3, <1>4, <1>5, <1>9 DEF Progress
<1> QED BY <1>6, <1>7, <1>8, <1>9 DEF Next

-----------------------------------------------------------------------------
(***************************************************************************)
(* Rounds: one step of one queue.                                          *)
(***************************************************************************)
(* A transaction for another target moves.                                 *)
LEMMA AppendOther ==
  ASSUME NEW q \in Seq(Tran), NEW x \in Tran, NEW d
  PROVE  /\ NoneFor(q, d) /\ x.dest # d => NoneFor(Append(q, x), d)
         /\ NoGather(q, d) /\ ~(x.dest = d /\ x.type = "get") => NoGather(Append(q, x), d)
         /\ SomeUpdate(q, d) => SomeUpdate(Append(q, x), d)
         /\ x.dest = d /\ x.type = "update" => SomeUpdate(Append(q, x), d)
<1>1. PICK r : r = Append(q, x)
  OBVIOUS
<1>2. /\ Len(q) \in Nat /\ DOMAIN q = 1..Len(q) /\ DOMAIN r = 1..(Len(q) + 1)
      /\ r[Len(q) + 1] = x /\ \A i \in DOMAIN q : r[i] = q[i]
  BY <1>1, AppendFacts
<1>3. Len(q) + 1 \in DOMAIN r /\ \A i \in DOMAIN r : i \in DOMAIN q \/ i = Len(q) + 1
  BY <1>2
<1>4. \A i \in DOMAIN q : i \in DOMAIN r
  BY <1>2
<1>5. /\ NoneFor(q, d) /\ x.dest # d => NoneFor(r, d)
      /\ NoGather(q, d) /\ ~(x.dest = d /\ x.type = "get") => NoGather(r, d)
  BY <1>2, <1>3 DEF NoneFor, NoGather
<1>6. /\ SomeUpdate(q, d) => SomeUpdate(r, d)
      /\ x.dest = d /\ x.type = "update" => SomeUpdate(r, d)
  BY <1>2, <1>3, <1>4 DEF SomeUpdate
<1> QED BY <1>1, <1>5, <1>6

LEMMA TailOther ==
  ASSUME NEW q \in Seq(Tran), q # <<>>, NEW d
  PROVE  /\ NoneFor(q, d) => NoneFor(Tail(q), d)
         /\ NoGather(q, d) => NoGather(Tail(q), d)
         /\ SomeUpdate(q, d) /\ ~(Head(q).dest = d /\ Head(q).type = "update") => SomeUpdate(Tail(q), d)
<1>1. PICK r : r = Tail(q)
  OBVIOUS
<1>2. /\ DOMAIN r = 1..(Len(q) - 1) /\ Len(q) \in Nat /\ DOMAIN q = 1..Len(q)
      /\ \A i \in DOMAIN r : i + 1 \in DOMAIN q /\ r[i] = q[i + 1]
      /\ Head(q) = q[1]
  BY <1>1, TailFacts
<1>3. /\ NoneFor(q, d) => NoneFor(r, d)
      /\ NoGather(q, d) => NoGather(r, d)
  BY <1>2 DEF NoneFor, NoGather
<1>4. \A i \in DOMAIN q : i # 1 => i - 1 \in DOMAIN r /\ r[i - 1] = q[i]
  <2>1. ASSUME NEW i \in DOMAIN q, i # 1 PROVE i - 1 \in DOMAIN r /\ r[i - 1] = q[i]
    <3>1. i - 1 \in DOMAIN r /\ (i - 1) + 1 = i
      BY <1>2, <2>1
    <3> QED BY <1>2, <3>1
  <2> QED BY <2>1
<1>5. SomeUpdate(q, d) /\ ~(Head(q).dest = d /\ Head(q).type = "update") => SomeUpdate(r, d)
  BY <1>2, <1>4 DEF SomeUpdate
<1> QED BY <1>1, <1>3, <1>5

(* The queues of target d at a port when a transaction of another target   *)
(* is appended to the port's.                                              *)
LEMMA AppendPort ==
  ASSUME NEW a \in Seq(Tran), NEW b, NEW fl, NEW c, NEW d, NEW x \in Tran, x.dest # d
  PROVE  /\ Quiet(a, b, fl, c, d) => Quiet(Append(a, x), b, fl, c, d)
         /\ Fed(a, b, fl, c, d) => Fed(Append(a, x), b, fl, c, d)
         /\ UnderWay(a, b, fl, c, d) => UnderWay(Append(a, x), b, fl, c, d)
<1>1. PICK r : r = Append(a, x)
  OBVIOUS
<1>2. /\ Len(a) \in Nat /\ DOMAIN a = 1..Len(a) /\ DOMAIN r = 1..(Len(a) + 1)
      /\ r[Len(a) + 1] = x /\ \A i \in DOMAIN a : r[i] = a[i]
  BY <1>1, AppendFacts
<1>3. /\ \A i \in DOMAIN a : i \in DOMAIN r
      /\ \A i \in DOMAIN r : i \in DOMAIN a \/ r[i] = x
  BY <1>2
<1>4. /\ NoneFor(a, d) => NoneFor(r, d)
      /\ NoGather(a, d) => NoGather(r, d)
      /\ SomeUpdate(a, d) => SomeUpdate(r, d)
  BY <1>1, AppendOther
<1>5. Quiet(a, b, fl, c, d) => Quiet(r, b, fl, c, d)
  BY <1>4 DEF Quiet
<1>6. Fed(a, b, fl, c, d) => Fed(r, b, fl, c, d)
  BY <1>4 DEF Fed
<1>7. InPort(a, b, fl, c, d) => InPort(r, b, fl, c, d)
  BY <1>2, <1>3 DEF InPort
<1>8. /\ InController(a, b, fl, c, d) => InController(r, b, fl, c, d)
      /\ InNetwork(a, b, fl, c, d) => InNetwork(r, b, fl, c, d)
      /\ InAnswer(a, b, fl, c, d) => InAnswer(r, b, fl, c, d)
  BY <1>4 DEF InController, InNetwork, InAnswer
<1> QED BY <1>1, <1>5, <1>6, <1>7, <1>8 DEF UnderWay

(* An update of d arrives while the threads are counted.                   *)
LEMMA UpdatePort ==
  ASSUME NEW a \in Seq(Tran), NEW b, NEW fl, NEW c, NEW d, NEW x \in Tran, x.dest = d, x.type = "update",
         Quiet(a, b, fl, c, d) \/ Fed(a, b, fl, c, d)
  PROVE  Fed(Append(a, x), b, fl, c, d)
<1>1. PICK r : r = Append(a, x)
  OBVIOUS
<1>2. NoGather(a, d) /\ NoGather(b, d) /\ fl.phase = "update" /\ NoAnswer(c, d)
  BY DEF Quiet, Fed, NoneFor, NoGather, IdleFlow
<1>3. NoGather(r, d) /\ SomeUpdate(r, d)
  BY <1>1, <1>2, AppendOther
<1> QED BY <1>1, <1>2, <1>3 DEF Fed

(* The gather of d is appended behind the updates of d that are left.      *)
LEMMA GatherPort ==
  ASSUME NEW a \in Seq(Tran), NEW b, NEW fl, NEW c, NEW d, NEW x \in Tran, x.dest = d, x.type = "get",
         Fed(a, b, fl, c, d), ~SomeUpdate(a, d)
  PROVE  InPort(Append(a, x), b, fl, c, d)
<1>1. PICK r : r = Append(a, x)
  OBVIOUS
<1>2. /\ Len(a) \in Nat /\ DOMAIN a = 1..Len(a) /\ DOMAIN r = 1..(Len(a) + 1)
      /\ r[Len(a) + 1] = x /\ \A i \in DOMAIN a : r[i] = a[i]
  BY <1>1, AppendFacts
<1>3. \A i \in DOMAIN a : a[i].dest # d
  <2>1. \A i \in DOMAIN a : a[i].type \in {"update", "get"}
    BY TranIs
  <2> QED BY <2>1 DEF Fed, NoGather, SomeUpdate
<1>4. Len(a) + 1 \in DOMAIN r /\ \A j \in DOMAIN r : j # Len(a) + 1 => r[j].dest # d
  BY <1>2, <1>3
<1> QED BY <1>1, <1>2, <1>4 DEF Fed, InPort

(* The port passes a transaction to the controller.                        *)
LEMMA PassPort ==
  ASSUME NEW a \in Seq(Tran), a # <<>>, NEW b \in Seq(Tran), NEW fl, NEW c, NEW d
  PROVE  LET r == Tail(a)  s == Append(b, Head(a))
         IN  /\ Quiet(a, b, fl, c, d) => Quiet(r, s, fl, c, d)
             /\ Fed(a, b, fl, c, d) => Fed(r, s, fl, c, d)
             /\ UnderWay(a, b, fl, c, d) => UnderWay(r, s, fl, c, d)
<1>1. PICK x : x = Head(a)
  OBVIOUS
<1>2. PICK r : r = Tail(a)
  OBVIOUS
<1>3. /\ DOMAIN r = 1..(Len(a) - 1) /\ Len(a) \in Nat /\ DOMAIN a = 1..Len(a)
      /\ \A i \in DOMAIN r : i + 1 \in DOMAIN a /\ r[i] = a[i + 1]
      /\ x = a[1] /\ 1 \in DOMAIN a
  BY <1>1, <1>2, TailFacts
<1>4. x \in Tran /\ x.type \in {"update", "get"}
  BY <1>3, TranIs
<1>5. PICK s : s = Append(b, x)
  OBVIOUS
<1>6. /\ Len(b) \in Nat /\ DOMAIN b = 1..Len(b) /\ DOMAIN s = 1..(Len(b) + 1)
      /\ s[Len(b) + 1] = x /\ \A i \in DOMAIN b : s[i] = b[i]
  BY <1>4, <1>5, AppendFacts
<1>7. /\ NoneFor(b, d) /\ x.dest # d => NoneFor(s, d)
      /\ NoGather(b, d) /\ ~(x.dest = d /\ x.type = "get") => NoGather(s, d)
      /\ SomeUpdate(b, d) => SomeUpdate(s, d)
      /\ x.dest = d /\ x.type = "update" => SomeUpdate(s, d)
  BY <1>4, <1>5, AppendOther
<1>8. /\ NoneFor(a, d) => NoneFor(r, d)
      /\ NoGather(a, d) => NoGather(r, d)
      /\ SomeUpdate(a, d) /\ ~(x.dest = d /\ x.type = "update") => SomeUpdate(r, d)
  BY <1>1, <1>2, TailOther
<1>9. NoneFor(a, d) => x.dest # d
  BY <1>3 DEF NoneFor
<1>10. NoGather(a, d) => ~(x.dest = d /\ x.type = "get")
  BY <1>3 DEF NoGather
<1>11. Quiet(a, b, fl, c, d) => Quiet(r, s, fl, c, d)
  BY <1>7, <1>8, <1>9 DEF Quiet
<1>12. Fed(a, b, fl, c, d) => Fed(r, s, fl, c, d)
  BY <1>7, <1>8, <1>10 DEF Fed
<1>13. ASSUME InPort(a, b, fl, c, d) PROVE UnderWay(r, s, fl, c, d)
  <2>1. PICK i \in DOMAIN a : a[i].type = "get" /\ a[i].dest = d /\ \A j \in DOMAIN a : j # i => a[j].dest # d
    BY <1>13 DEF InPort
  <2>2. NoGather(b, d) /\ fl.phase = "update" /\ NoAnswer(c, d) /\ (SomeUpdate(s, d) \/ fl.issued > 0)
    BY <1>7, <1>13 DEF InPort
  <2>3. CASE i = 1
    <3>1. x.type = "get" /\ x.dest = d
      BY <1>3, <2>1, <2>3
    <3>2. NoneFor(r, d)
      <4>1. ASSUME NEW j \in DOMAIN r PROVE r[j].dest # d
        <5>1. j + 1 \in DOMAIN a /\ j + 1 # 1 /\ r[j] = a[j + 1]
          BY <1>3
        <5> QED BY <2>1, <2>3, <5>1
      <4> QED BY <4>1 DEF NoneFor
    <3>3. Len(b) + 1 \in DOMAIN s /\ s[Len(b) + 1].type = "get" /\ s[Len(b) + 1].dest = d
      BY <1>6, <3>1
    <3>4. \A j \in DOMAIN s : ~(j > Len(b) + 1)
      BY <1>6
    <3>5. \A j \in DOMAIN s : j < Len(b) + 1 => ~(s[j].type = "get" /\ s[j].dest = d)
      <4>1. \A j \in DOMAIN s : j < Len(b) + 1 => j \in DOMAIN b
        BY <1>6
      <4> QED BY <1>6, <2>2, <4>1 DEF NoGather
    <3>6. InController(r, s, fl, c, d)
      BY <2>2, <3>2, <3>3, <3>4, <3>5 DEF InController
    <3> QED BY <3>6 DEF UnderWay
  <2>4. CASE i # 1
    <3>1. x.dest # d
      BY <1>3, <2>1, <2>4
    <3>2. i - 1 \in DOMAIN r /\ r[i - 1] = a[i]
      <4>1. i - 1 \in DOMAIN r /\ (i - 1) + 1 = i
        BY <1>3, <2>4
      <4> QED BY <1>3, <4>1
    <3>3. ASSUME NEW j \in DOMAIN r, j # i - 1 PROVE r[j].dest # d
      <4>1. j + 1 \in DOMAIN a /\ j + 1 # i /\ r[j] = a[j + 1]
        BY <1>3, <3>2, <3>3
      <4> QED BY <2>1, <4>1
    <3>4. NoGather(s, d)
      BY <1>7, <2>2, <3>1
    <3>5. InPort(r, s, fl, c, d)
      BY <2>1, <2>2, <3>2, <3>3, <3>4 DEF InPort
    <3> QED BY <3>5 DEF UnderWay
  <2> QED BY <2>3, <2>4
<1>14. ASSUME InController(a, b, fl, c, d) PROVE UnderWay(r, s, fl, c, d)
  <2>1. PICK i \in DOMAIN b :
          /\ b[i].type = "get" /\ b[i].dest = d
          /\ \A j \in DOMAIN b : j > i => b[j].dest # d
          /\ \A j \in DOMAIN b : j < i => ~(b[j].type = "get" /\ b[j].dest = d)
    BY <1>14 DEF InController
  <2>2. NoneFor(a, d) /\ fl.phase = "update" /\ NoAnswer(c, d) /\ (SomeUpdate(s, d) \/ fl.issued > 0)
    BY <1>7, <1>14 DEF InController
  <2>3. NoneFor(r, d) /\ x.dest # d
    BY <1>8, <1>9, <2>2
  <2>4. i \in DOMAIN s /\ s[i] = b[i]
    BY <1>6
  <2>5. \A j \in DOMAIN s : j > i => s[j].dest # d
    BY <1>6, <2>1, <2>3
  <2>6. \A j \in DOMAIN s : j < i => ~(s[j].type = "get" /\ s[j].dest = d)
    <3>1. \A j \in DOMAIN s : j < i => j \in DOMAIN b
      BY <1>6
    <3> QED BY <1>6, <2>1, <3>1
  <2>7. InController(r, s, fl, c, d)
    BY <2>1, <2>2, <2>3, <2>4, <2>5, <2>6 DEF InController
  <2> QED BY <2>7 DEF UnderWay
<1>15. /\ InNetwork(a, b, fl, c, d) => InNetwork(r, s, fl, c, d)
       /\ InAnswer(a, b, fl, c, d) => InAnswer(r, s, fl, c, d)
  BY <1>7, <1>8, <1>9 DEF InNetwork, InAnswer
<1>16. UnderWay(a, b, fl, c, d) => UnderWay(r, s, fl, c, d)
  BY <1>13, <1>14, <1>15 DEF UnderWay
<1> QED BY <1>1, <1>2, <1>5, <1>11, <1>12, <1>16

(* The controller sends the packet of another target.                      *)
LEMMA PacketOther ==
  ASSUME NEW a, NEW b \in Seq(Tran), b # <<>>, NEW fl, NEW c, NEW d, Head(b).dest # d
  PROVE  /\ Quiet(a, b, fl, c, d) => Quiet(a, Tail(b), fl, c, d)
         /\ Fed(a, b, fl, c, d) => Fed(a, Tail(b), fl, c, d)
         /\ UnderWay(a, b, fl, c, d) => UnderWay(a, Tail(b), fl, c, d)
<1>1. PICK s : s = Tail(b)
  OBVIOUS
<1>2. /\ DOMAIN s = 1..(Len(b) - 1) /\ Len(b) \in Nat /\ DOMAIN b = 1..Len(b)
      /\ \A i \in DOMAIN s : i + 1 \in DOMAIN b /\ s[i] = b[i + 1]
      /\ Head(b) = b[1] /\ 1 \in DOMAIN b
  BY <1>1, TailFacts
<1>3. /\ NoneFor(b, d) => NoneFor(s, d)
      /\ NoGather(b, d) => NoGather(s, d)
      /\ SomeUpdate(b, d) => SomeUpdate(s, d)
  BY <1>1, TailOther
<1>4. Quiet(a, b, fl, c, d) => Quiet(a, s, fl, c, d)
  BY <1>3 DEF Quiet
<1>5. Fed(a, b, fl, c, d) => Fed(a, s, fl, c, d)
  BY <1>3 DEF Fed
<1>6. /\ InPort(a, b, fl, c, d) => InPort(a, s, fl, c, d)
      /\ InNetwork(a, b, fl, c, d) => InNetwork(a, s, fl, c, d)
      /\ InAnswer(a, b, fl, c, d) => InAnswer(a, s, fl, c, d)
  BY <1>3 DEF InPort, InNetwork, InAnswer
<1>7. ASSUME InController(a, b, fl, c, d) PROVE InController(a, s, fl, c, d)
  <2>1. PICK i \in DOMAIN b :
          /\ b[i].type = "get" /\ b[i].dest = d
          /\ \A j \in DOMAIN b : j > i => b[j].dest # d
          /\ \A j \in DOMAIN b : j < i => ~(b[j].type = "get" /\ b[j].dest = d)
    BY <1>7 DEF InController
  <2>2. i # 1
    BY <1>2, <2>1
  <2>3. PICK k \in DOMAIN s : k = i - 1 /\ s[k] = b[i]
    <3>1. i - 1 \in DOMAIN s /\ (i - 1) + 1 = i
      BY <1>2, <2>2
    <3> QED BY <1>2, <3>1
  <2>4. ASSUME NEW j \in DOMAIN s
        PROVE  /\ j > k => s[j].dest # d
               /\ j < k => ~(s[j].type = "get" /\ s[j].dest = d)
    <3>1. j + 1 \in DOMAIN b /\ s[j] = b[j + 1] /\ (j > k => j + 1 > i) /\ (j < k => j + 1 < i)
      BY <1>2, <2>3
    <3> QED BY <2>1, <3>1
  <2>5. NoneFor(a, d) /\ fl.phase = "update" /\ NoAnswer(c, d) /\ (SomeUpdate(s, d) \/ fl.issued > 0)
    BY <1>3, <1>7 DEF InController
  <2> QED BY <2>1, <2>3, <2>4, <2>5 DEF InController
<1> QED BY <1>1, <1>4, <1>5, <1>6, <1>7 DEF UnderWay

(* It sends an update of d: the gather has not left.                       *)
LEMMA PacketUpdate ==
  ASSUME NEW a, NEW b \in Seq(Tran), b # <<>>, NEW fl, NEW c, NEW d, Head(b).dest = d,
         Head(b).type = "update", NEW g, g.phase = fl.phase, g.issued > 0
  PROVE  /\ ~Quiet(a, b, fl, c, d)
         /\ Fed(a, b, fl, c, d) => fl.phase = "update" /\ Fed(a, Tail(b), g, c, d)
         /\ UnderWay(a, b, fl, c, d) => fl.phase = "update" /\ UnderWay(a, Tail(b), g, c, d)
<1>1. PICK s : s = Tail(b)
  OBVIOUS
<1>2. /\ DOMAIN s = 1..(Len(b) - 1) /\ Len(b) \in Nat /\ DOMAIN b = 1..Len(b)
      /\ \A i \in DOMAIN s : i + 1 \in DOMAIN b /\ s[i] = b[i + 1]
      /\ Head(b) = b[1] /\ 1 \in DOMAIN b
  BY <1>1, TailFacts
<1>3. ~NoneFor(b, d)
  BY <1>2 DEF NoneFor
<1>4. NoGather(b, d) => NoGather(s, d)
  BY <1>1, TailOther
<1>5. ~Quiet(a, b, fl, c, d) /\ ~InNetwork(a, b, fl, c, d) /\ ~InAnswer(a, b, fl, c, d)
  BY <1>3 DEF Quiet, InNetwork, InAnswer
<1>6. Fed(a, b, fl, c, d) => fl.phase = "update" /\ Fed(a, s, g, c, d)
  BY <1>4 DEF Fed
<1>7. InPort(a, b, fl, c, d) => fl.phase = "update" /\ InPort(a, s, g, c, d)
  BY <1>4 DEF InPort
<1>8. ASSUME InController(a, b, fl, c, d) PROVE fl.phase = "update" /\ InController(a, s, g, c, d)
  <2>1. PICK i \in DOMAIN b :
          /\ b[i].type = "get" /\ b[i].dest = d
          /\ \A j \in DOMAIN b : j > i => b[j].dest # d
          /\ \A j \in DOMAIN b : j < i => ~(b[j].type = "get" /\ b[j].dest = d)
    BY <1>8 DEF InController
  <2>2. i # 1
    BY <1>2, <2>1
  <2>3. PICK k \in DOMAIN s : k = i - 1 /\ s[k] = b[i]
    <3>1. i - 1 \in DOMAIN s /\ (i - 1) + 1 = i
      BY <1>2, <2>2
    <3> QED BY <1>2, <3>1
  <2>4. ASSUME NEW j \in DOMAIN s
        PROVE  /\ j > k => s[j].dest # d
               /\ j < k => ~(s[j].type = "get" /\ s[j].dest = d)
    <3>1. j + 1 \in DOMAIN b /\ s[j] = b[j + 1] /\ (j > k => j + 1 > i) /\ (j < k => j + 1 < i)
      BY <1>2, <2>3
    <3> QED BY <2>1, <3>1
  <2>5. NoneFor(a, d) /\ fl.phase = "update" /\ NoAnswer(c, d)
    BY <1>8 DEF InController
  <2> QED BY <2>1, <2>3, <2>4, <2>5 DEF InController
<1> QED BY <1>1, <1>5, <1>6, <1>7, <1>8 DEF UnderWay

(* It sends the gather of d: every update of d is in the network, and      *)
(* there is one.                                                           *)
LEMMA PacketGather ==
  ASSUME NEW a, NEW b \in Seq(Tran), b # <<>>, NEW fl, NEW c, NEW d, Head(b).dest = d,
         Head(b).type = "get", NEW g, g.phase = "gather"
  PROVE  /\ ~Quiet(a, b, fl, c, d) /\ ~Fed(a, b, fl, c, d)
         /\ UnderWay(a, b, fl, c, d) =>
              fl.phase = "update" /\ fl.issued > 0 /\ UnderWay(a, Tail(b), g, c, d)
<1>1. PICK s : s = Tail(b)
  OBVIOUS
<1>2. /\ DOMAIN s = 1..(Len(b) - 1) /\ Len(b) \in Nat /\ DOMAIN b = 1..Len(b)
      /\ \A i \in DOMAIN s : i + 1 \in DOMAIN b /\ s[i] = b[i + 1]
      /\ Head(b) = b[1] /\ 1 \in DOMAIN b
  BY <1>1, TailFacts
<1>3. ~NoneFor(b, d) /\ ~NoGather(b, d)
  BY <1>2 DEF NoneFor, NoGather
<1>4. /\ ~Quiet(a, b, fl, c, d) /\ ~Fed(a, b, fl, c, d)
      /\ ~InPort(a, b, fl, c, d) /\ ~InNetwork(a, b, fl, c, d) /\ ~InAnswer(a, b, fl, c, d)
  BY <1>3 DEF Quiet, Fed, InPort, InNetwork, InAnswer
<1>5. ASSUME InController(a, b, fl, c, d)
      PROVE  fl.phase = "update" /\ fl.issued > 0 /\ InNetwork(a, s, g, c, d)
  <2>1. PICK i \in DOMAIN b :
          /\ b[i].type = "get" /\ b[i].dest = d
          /\ \A j \in DOMAIN b : j > i => b[j].dest # d
          /\ \A j \in DOMAIN b : j < i => ~(b[j].type = "get" /\ b[j].dest = d)
    BY <1>5 DEF InController
  <2>2. i = 1
    BY <1>2, <2>1
  <2>3. \A j \in DOMAIN b : j = 1 \/ b[j].dest # d
    BY <1>2, <2>1, <2>2
  <2>4. ~SomeUpdate(b, d)
    BY <2>1, <2>2, <2>3 DEF SomeUpdate
  <2>5. NoneFor(s, d)
    <3>1. \A j \in DOMAIN s : j + 1 \in DOMAIN b /\ j + 1 # 1 /\ s[j] = b[j + 1]
      BY <1>2
    <3> QED BY <2>3, <3>1 DEF NoneFor
  <2> QED BY <1>5, <2>4, <2>5 DEF InController, InNetwork
<1> QED BY <1>1, <1>4, <1>5 DEF UnderWay

(* The network answers another target, or this one.                        *)
LEMMA AnswerOther ==
  ASSUME NEW a, NEW b, NEW fl, NEW c \in Seq(Targets), NEW d \in Targets, NEW x \in Targets, x # d
  PROVE  /\ Quiet(a, b, fl, c, d) => Quiet(a, b, fl, Append(c, x), d)
         /\ Fed(a, b, fl, c, d) => Fed(a, b, fl, Append(c, x), d)
         /\ UnderWay(a, b, fl, c, d) => UnderWay(a, b, fl, Append(c, x), d)
<1>1. PICK s : s = Append(c, x)
  OBVIOUS
<1>2. /\ Len(c) \in Nat /\ DOMAIN c = 1..Len(c) /\ DOMAIN s = 1..(Len(c) + 1)
      /\ s[Len(c) + 1] = x /\ \A i \in DOMAIN c : s[i] = c[i]
  BY <1>1, AppendFacts
<1>3. /\ \A i \in DOMAIN c : i \in DOMAIN s
      /\ \A i \in DOMAIN s : i \in DOMAIN c \/ s[i] = x
  BY <1>2
<1>4. NoAnswer(c, d) => NoAnswer(s, d)
  BY <1>2, <1>3 DEF NoAnswer
<1>5. InAnswer(a, b, fl, c, d) => InAnswer(a, b, fl, s, d)
  BY <1>2, <1>3 DEF InAnswer
<1>6. /\ Quiet(a, b, fl, c, d) => Quiet(a, b, fl, s, d)
      /\ Fed(a, b, fl, c, d) => Fed(a, b, fl, s, d)
  BY <1>4 DEF Quiet, Fed
<1>7. /\ InPort(a, b, fl, c, d) => InPort(a, b, fl, s, d)
      /\ InController(a, b, fl, c, d) => InController(a, b, fl, s, d)
      /\ InNetwork(a, b, fl, c, d) => InNetwork(a, b, fl, s, d)
  BY <1>4 DEF InPort, InController, InNetwork
<1> QED BY <1>1, <1>5, <1>6, <1>7 DEF UnderWay

LEMMA AnswerThis ==
  ASSUME NEW a, NEW b, NEW fl, fl.phase = "gather", NEW c \in Seq(Targets), NEW d \in Targets,
         NEW g, g.phase = "answered"
  PROVE  /\ ~Quiet(a, b, fl, c, d) /\ ~Fed(a, b, fl, c, d)
         /\ UnderWay(a, b, fl, c, d) => UnderWay(a, b, g, Append(c, d), d)
<1>1. PICK s : s = Append(c, d)
  OBVIOUS
<1>2. /\ Len(c) \in Nat /\ DOMAIN c = 1..Len(c) /\ DOMAIN s = 1..(Len(c) + 1)
      /\ s[Len(c) + 1] = d /\ \A i \in DOMAIN c : s[i] = c[i]
  BY <1>1, AppendFacts
<1>3. /\ ~Quiet(a, b, fl, c, d) /\ ~Fed(a, b, fl, c, d) /\ ~InPort(a, b, fl, c, d)
      /\ ~InController(a, b, fl, c, d) /\ ~InAnswer(a, b, fl, c, d)
  BY DEF Quiet, Fed, InPort, InController, InAnswer, IdleFlow
<1>4. ASSUME InNetwork(a, b, fl, c, d) PROVE InAnswer(a, b, g, s, d)
  <2>1. Len(c) + 1 \in DOMAIN s /\ \A j \in DOMAIN s : j # Len(c) + 1 => s[j] # d
    BY <1>2, <1>4 DEF InNetwork, NoAnswer
  <2> QED BY <1>2, <1>4, <2>1 DEF InNetwork, InAnswer
<1> QED BY <1>1, <1>3, <1>4 DEF UnderWay

(* The port takes an answer for another target, or for this one.           *)
LEMMA TakeOther ==
  ASSUME NEW a, NEW b, NEW fl, NEW c \in Seq(Targets), c # <<>>, NEW d \in Targets, Head(c) # d
  PROVE  /\ Quiet(a, b, fl, c, d) => Quiet(a, b, fl, Tail(c), d)
         /\ Fed(a, b, fl, c, d) => Fed(a, b, fl, Tail(c), d)
         /\ UnderWay(a, b, fl, c, d) => UnderWay(a, b, fl, Tail(c), d)
<1>1. PICK s : s = Tail(c)
  OBVIOUS
<1>2. /\ DOMAIN s = 1..(Len(c) - 1) /\ Len(c) \in Nat /\ DOMAIN c = 1..Len(c)
      /\ \A i \in DOMAIN s : i + 1 \in DOMAIN c /\ s[i] = c[i + 1]
      /\ Head(c) = c[1] /\ 1 \in DOMAIN c
  BY <1>1, TailFacts
<1>3. NoAnswer(c, d) => NoAnswer(s, d)
  BY <1>2 DEF NoAnswer
<1>4. ASSUME InAnswer(a, b, fl, c, d) PROVE InAnswer(a, b, fl, s, d)
  <2>1. PICK i \in DOMAIN c : c[i] = d /\ \A j \in DOMAIN c : j # i => c[j] # d
    BY <1>4 DEF InAnswer
  <2>2. i # 1
    BY <1>2, <2>1
  <2>3. PICK k \in DOMAIN s : k = i - 1 /\ s[k] = c[i]
    <3>1. i - 1 \in DOMAIN s /\ (i - 1) + 1 = i
      BY <1>2, <2>2
    <3> QED BY <1>2, <3>1
  <2>4. ASSUME NEW j \in DOMAIN s, j # k PROVE s[j] # d
    <3>1. j + 1 \in DOMAIN c /\ j + 1 # i /\ s[j] = c[j + 1]
      BY <1>2, <2>3, <2>4
    <3> QED BY <2>1, <3>1
  <2> QED BY <1>4, <2>1, <2>3, <2>4 DEF InAnswer
<1>5. /\ Quiet(a, b, fl, c, d) => Quiet(a, b, fl, s, d)
      /\ Fed(a, b, fl, c, d) => Fed(a, b, fl, s, d)
  BY <1>3 DEF Quiet, Fed
<1>6. /\ InPort(a, b, fl, c, d) => InPort(a, b, fl, s, d)
      /\ InController(a, b, fl, c, d) => InController(a, b, fl, s, d)
      /\ InNetwork(a, b, fl, c, d) => InNetwork(a, b, fl, s, d)
  BY <1>3 DEF InPort, InController, InNetwork
<1> QED BY <1>1, <1>4, <1>5, <1>6 DEF UnderWay

LEMMA TakeThis ==
  ASSUME NEW a, NEW b, NEW fl, NEW c \in Seq(Targets), c # <<>>, NEW d \in Targets, Head(c) = d
  PROVE  /\ ~Quiet(a, b, fl, c, d) /\ ~Fed(a, b, fl, c, d)
         /\ UnderWay(a, b, fl, c, d) =>
              /\ fl.phase = "answered" /\ NoneFor(a, d) /\ NoneFor(b, d)
              /\ Quiet(a, b, IdleFlow, Tail(c), d)
<1>1. PICK s : s = Tail(c)
  OBVIOUS
<1>2. /\ DOMAIN s = 1..(Len(c) - 1) /\ Len(c) \in Nat /\ DOMAIN c = 1..Len(c)
      /\ \A i \in DOMAIN s : i + 1 \in DOMAIN c /\ s[i] = c[i + 1]
      /\ Head(c) = c[1] /\ 1 \in DOMAIN c
  BY <1>1, TailFacts
<1>3. ~NoAnswer(c, d)
  BY <1>2 DEF NoAnswer
<1>4. /\ ~Quiet(a, b, fl, c, d) /\ ~Fed(a, b, fl, c, d) /\ ~InPort(a, b, fl, c, d)
      /\ ~InController(a, b, fl, c, d) /\ ~InNetwork(a, b, fl, c, d)
  BY <1>3 DEF Quiet, Fed, InPort, InController, InNetwork
<1>5. ASSUME InAnswer(a, b, fl, c, d)
      PROVE  fl.phase = "answered" /\ NoneFor(a, d) /\ NoneFor(b, d) /\ Quiet(a, b, IdleFlow, s, d)
  <2>1. PICK i \in DOMAIN c : c[i] = d /\ \A j \in DOMAIN c : j # i => c[j] # d
    BY <1>5 DEF InAnswer
  <2>2. i = 1
    BY <1>2, <2>1
  <2>3. NoAnswer(s, d)
    <3>1. \A j \in DOMAIN s : j + 1 \in DOMAIN c /\ j + 1 # 1 /\ s[j] = c[j + 1]
      BY <1>2
    <3> QED BY <2>1, <2>2, <3>1 DEF NoAnswer
  <2> QED BY <1>5, <2>3 DEF InAnswer, Quiet
<1> QED BY <1>1, <1>4, <1>5 DEF UnderWay

-----------------------------------------------------------------------------
(***************************************************************************)
(* Rounds: the steps.                                                      *)
(***************************************************************************)
(* What a step leaves to target d: its gathers, its barrier, its ports.    *)
SameGathers(d) ==
  \A p \in Ports : \A e : e.dest = d => (e \in active_gather_event'[p] <=> e \in active_gather_event[p])

SameBarrier(d) ==
  gather_barrier'[d] = gather_barrier[d] /\ active_forests'[d] = active_forests[d] /\ SameGathers(d)

PortCarries(d, p) ==
  /\ QuietAt(d, p) => QuietAt(d, p)'
  /\ FedAt(d, p) => FedAt(d, p)'
  /\ UnderWayAt(d, p) => UnderWayAt(d, p)'

LEMMA RoundKeeps ==
  ASSUME NEW d \in Targets, Round(d), SameBarrier(d), \A p \in Ports : PortCarries(d, p)
  PROVE  Round(d)'
<1>1. \A p \in Ports : \A e : e.dest = d => (e \in active_gather_event'[p] <=> e \in active_gather_event[p])
  BY DEF SameBarrier, SameGathers
<1>2. Joined(d)' = Joined(d)
  BY <1>1 DEF Joined
<1>3. gather_barrier'[d] = gather_barrier[d] /\ active_forests'[d] = active_forests[d]
  BY DEF SameBarrier
<1>4. CASE Joined(d) = Threads
  <2>1. Answering(d)
    BY <1>4 DEF Round
  <2>2. Answering(d)'
    BY <1>3, <2>1 DEF Answering, PortCarries
  <2> QED BY <1>2, <1>4, <2>2 DEF Round
<1>5. CASE Joined(d) # Threads
  <2>1. Collecting(d)
    BY <1>5 DEF Round
  <2>2. Collecting(d)'
    BY <1>1, <1>2, <1>3, <2>1 DEF Collecting, PortCarries
  <2> QED BY <1>2, <1>5, <2>2 DEF Round
<1> QED BY <1>4, <1>5

(* Steps that leave the ports alone.                                       *)
LEMMA PortsKeep ==
  ASSUME Rounds, UNCHANGED <<gather_barrier, active_forests, active_gather_event, tran_buf, downBuffers,
                             flow, serv_trans>>
  PROVE  Rounds'
<1>1. ASSUME NEW d \in Targets PROVE Round(d)'
  <2>1. SameBarrier(d)
    BY DEF SameBarrier, SameGathers
  <2>2. ASSUME NEW p \in Ports PROVE PortCarries(d, p)
    BY DEF PortCarries, QuietAt, FedAt, UnderWayAt
  <2> QED BY <2>1, <2>2, RoundKeeps DEF Rounds
<1> QED BY <1>1 DEF Rounds

LEMMA RoundsInit == Init => Rounds
<1> SUFFICES ASSUME Init, NEW d \in Targets PROVE Round(d)
  BY DEF Rounds
<1>1. /\ gather_barrier[d] = NoBarrier /\ active_forests[d] = {}
      /\ \A p \in Ports : /\ active_gather_event[p] = {} /\ DOMAIN tran_buf[p] = {} /\ DOMAIN downBuffers[p] = {}
                          /\ DOMAIN serv_trans[p] = {} /\ flow[<<d, p>>] = IdleFlow
  BY DEF Init
<1>2. Joined(d) = {} /\ Leader \in Threads /\ Cardinality({}) = 0
  BY <1>1, BarrierAssumption, FS_EmptySet DEF Joined
<1>3. \A p \in Ports : QuietAt(d, p)
  BY <1>1 DEF QuietAt, Quiet, NoneFor, NoAnswer
<1>4. /\ gather_barrier[d].count = 0 /\ \A p \in Ports : gather_barrier[d].port[p] = 0
  BY <1>1 DEF NoBarrier
<1>5. \A p \in Ports : gather_barrier[d].port[p] \in 0..gather_barrier[d].count
  BY <1>4
<1>6. Collecting(d)
  <2>1. /\ \A p \in Ports : \A e \in active_gather_event[p] : e.dest = d => e.th # Nobody
        /\ \A p \in Ports : p \notin active_forests[d]
        /\ gather_barrier[d].count = Cardinality(Joined(d))
    BY <1>1, <1>2, <1>4
  <2> QED BY <1>1, <1>2, <1>3, <1>5, <2>1 DEF Collecting
<1> QED BY <1>2, <1>6 DEF Round

LEMMA SendTranRound ==
  ASSUME HInv, Rounds, NEW p \in Ports, SendTran(p)
  PROVE  Rounds'
<1>1. PICK a, b, x : a = tran_buf[p] /\ b = downBuffers[p] /\ x = Head(a)
  OBVIOUS
<1>2. /\ a \in Seq(Tran) /\ a # <<>>
      /\ downBuffers' = [downBuffers EXCEPT ![p] = Append(@, x)]
      /\ tran_buf' = [tran_buf EXCEPT ![p] = Tail(a)]
      /\ UNCHANGED <<gather_barrier, active_forests, active_gather_event, flow, serv_trans>>
  BY <1>1, SendTranIs
<1>3. b \in Seq(Tran) /\ downBuffers \in [Ports -> Seq(Tran)] /\ tran_buf \in [Ports -> Seq(Tran)]
  BY <1>1 DEF HInv, Types
<1>4. downBuffers'[p] = Append(b, x) /\ tran_buf'[p] = Tail(a)
  BY <1>1, <1>2, <1>3
<1>5. \A q \in Ports : q # p => downBuffers'[q] = downBuffers[q] /\ tran_buf'[q] = tran_buf[q]
  BY <1>2, <1>3
<1>6. ASSUME NEW d \in Targets PROVE Round(d)'
  <2>1. SameBarrier(d)
    BY <1>2 DEF SameBarrier, SameGathers
  <2>2. ASSUME NEW q \in Ports PROVE PortCarries(d, q)
    <3>1. CASE q = p
      <4>1. PICK fl, c : fl = flow[<<d, p>>] /\ c = serv_trans[p]
        OBVIOUS
      <4>2. PICK r, s : r = Tail(a) /\ s = Append(b, Head(a))
        OBVIOUS
      <4>3. /\ Quiet(a, b, fl, c, d) => Quiet(r, s, fl, c, d)
            /\ Fed(a, b, fl, c, d) => Fed(r, s, fl, c, d)
            /\ UnderWay(a, b, fl, c, d) => UnderWay(r, s, fl, c, d)
        BY <1>2, <1>3, <4>2, PassPort
      <4>4. /\ tran_buf'[p] = r /\ downBuffers'[p] = s /\ flow'[<<d, p>>] = fl /\ serv_trans'[p] = c
        BY <1>1, <1>2, <1>4, <4>1, <4>2
      <4> QED BY <1>1, <3>1, <4>1, <4>3, <4>4 DEF PortCarries, QuietAt, FedAt, UnderWayAt
    <3>2. CASE q # p
      BY <1>2, <1>5, <3>2 DEF PortCarries, QuietAt, FedAt, UnderWayAt
    <3> QED BY <3>1, <3>2
  <2> QED BY <2>1, <2>2, RoundKeeps DEF Rounds
<1> QED BY <1>6 DEF Rounds

LEMMA SendPacketRound ==
  ASSUME HInv, Rounds, NEW p \in Ports, SendPacket(p)
  PROVE  Rounds'
<1>1. PICK b, x, fl : b = downBuffers[p] /\ x = Head(b) /\ fl = flow[<<x.dest, p>>]
  OBVIOUS
<1>2. /\ b \in Seq(Tran) /\ b # <<>>
      /\ x.dest \in Targets /\ x.type \in {"update", "get"}
      /\ downBuffers' = [downBuffers EXCEPT ![p] = Tail(b)]
      /\ x.type = "get" => FlowBecomes(x.dest, p, [fl EXCEPT !.phase = "gather"])
      /\ x.type = "update" => FlowBecomes(x.dest, p, [fl EXCEPT !.issued = @ + 1])
      /\ UNCHANGED <<gather_barrier, active_forests, active_gather_event, tran_buf, serv_trans>>
  BY <1>1, SendPacketIs DEF HInv
<1>3. downBuffers \in [Ports -> Seq(Tran)] /\ fl \in FlowState
  BY <1>1, <1>2, FlowIs DEF HInv, Types
<1>4. downBuffers'[p] = Tail(b) /\ \A q \in Ports : q # p => downBuffers'[q] = downBuffers[q]
  BY <1>2, <1>3
<1>5. \A c \in Targets, q \in Ports : ~(c = x.dest /\ q = p) => flow'[<<c, q>>] = flow[<<c, q>>]
  BY <1>2 DEF FlowBecomes
<1>6. ASSUME NEW d \in Targets PROVE Round(d)'
  <2>1. SameBarrier(d)
    BY <1>2 DEF SameBarrier, SameGathers
  <2>2. ASSUME NEW q \in Ports PROVE PortCarries(d, q)
    <3>1. PICK a, c, s : a = tran_buf[p] /\ c = serv_trans[p] /\ s = Tail(b)
      OBVIOUS
    <3>2. tran_buf'[p] = a /\ downBuffers'[p] = s /\ serv_trans'[p] = c
      BY <1>2, <1>4, <3>1
    <3>3. CASE q = p /\ d # x.dest
      <4>1. PICK h : h = flow[<<d, p>>]
        OBVIOUS
      <4>2. flow'[<<d, p>>] = h
        BY <1>5, <3>3, <4>1
      <4>3. /\ Quiet(a, b, h, c, d) => Quiet(a, s, h, c, d)
            /\ Fed(a, b, h, c, d) => Fed(a, s, h, c, d)
            /\ UnderWay(a, b, h, c, d) => UnderWay(a, s, h, c, d)
        BY <1>1, <1>2, <3>1, <3>3, PacketOther
      <4> QED BY <1>1, <3>1, <3>2, <3>3, <4>1, <4>2, <4>3 DEF PortCarries, QuietAt, FedAt, UnderWayAt
    <3>4. CASE q = p /\ d = x.dest /\ x.type = "update"
      <4>1. PICK g : g = [fl EXCEPT !.issued = @ + 1]
        OBVIOUS
      <4>2. g.phase = fl.phase /\ g.issued > 0
        BY <1>3, <4>1 DEF FlowState
      <4>3. flow'[<<d, p>>] = g
        BY <1>2, <3>4, <4>1 DEF FlowBecomes
      <4>4. /\ ~Quiet(a, b, fl, c, d)
            /\ Fed(a, b, fl, c, d) => fl.phase = "update" /\ Fed(a, s, g, c, d)
            /\ UnderWay(a, b, fl, c, d) => fl.phase = "update" /\ UnderWay(a, s, g, c, d)
        <5>1. b \in Seq(Tran) /\ b # <<>> /\ Head(b).dest = d /\ Head(b).type = "update"
          BY <1>1, <1>2, <3>4
        <5>2. /\ ~Quiet(a, b, fl, c, d)
              /\ Fed(a, b, fl, c, d) => fl.phase = "update" /\ Fed(a, Tail(b), g, c, d)
              /\ UnderWay(a, b, fl, c, d) => fl.phase = "update" /\ UnderWay(a, Tail(b), g, c, d)
          BY <4>2, <5>1, PacketUpdate
        <5> QED BY <3>1, <5>2
      <4> QED BY <1>1, <3>1, <3>2, <3>4, <4>3, <4>4 DEF PortCarries, QuietAt, FedAt, UnderWayAt
    <3>5. CASE q = p /\ d = x.dest /\ x.type = "get"
      <4>1. PICK g : g = [fl EXCEPT !.phase = "gather"]
        OBVIOUS
      <4>2. g.phase = "gather"
        BY <1>3, <4>1 DEF FlowState
      <4>3. flow'[<<d, p>>] = g
        BY <1>2, <3>5, <4>1 DEF FlowBecomes
      <4>4. /\ ~Quiet(a, b, fl, c, d) /\ ~Fed(a, b, fl, c, d)
            /\ UnderWay(a, b, fl, c, d) =>
                 fl.phase = "update" /\ fl.issued > 0 /\ UnderWay(a, s, g, c, d)
        <5>1. b \in Seq(Tran) /\ b # <<>> /\ Head(b).dest = d /\ Head(b).type = "get"
          BY <1>1, <1>2, <3>5
        <5>2. /\ ~Quiet(a, b, fl, c, d) /\ ~Fed(a, b, fl, c, d)
              /\ UnderWay(a, b, fl, c, d) =>
                   fl.phase = "update" /\ fl.issued > 0 /\ UnderWay(a, Tail(b), g, c, d)
          BY <4>2, <5>1, PacketGather, ZenonT(60)
        <5> QED BY <3>1, <5>2
      <4> QED BY <1>1, <3>1, <3>2, <3>5, <4>3, <4>4 DEF PortCarries, QuietAt, FedAt, UnderWayAt
    <3>6. CASE q # p
      <4>1. flow'[<<d, q>>] = flow[<<d, q>>]
        BY <1>5, <3>6
      <4> QED BY <1>2, <1>4, <3>6, <4>1 DEF PortCarries, QuietAt, FedAt, UnderWayAt
    <3> QED BY <1>2, <3>3, <3>4, <3>5, <3>6
  <2> QED BY <2>1, <2>2, RoundKeeps DEF Rounds
<1> QED BY <1>6 DEF Rounds

LEMMA NetworkAnswerRound ==
  ASSUME HInv, Rounds, NEW x \in Targets, NEW p \in Ports, NetworkAnswer(x, p)
  PROVE  Rounds'
<1>1. PICK fl, g : fl = flow[<<x, p>>] /\ g = [phase |-> "answered", issued |-> fl.issued, total |-> fl.issued]
  OBVIOUS
<1>2. /\ fl.phase = "gather" /\ FlowBecomes(x, p, g)
      /\ serv_trans' = [serv_trans EXCEPT ![p] = Append(@, x)]
      /\ UNCHANGED <<gather_barrier, active_forests, active_gather_event, tran_buf, downBuffers>>
  BY <1>1, NetworkAnswerIs DEF HInv
<1>3. serv_trans \in [Ports -> Seq(Targets)] /\ g.phase = "answered"
  BY <1>1 DEF HInv, Types
<1>4. /\ flow'[<<x, p>>] = g
      /\ \A c \in Targets, q \in Ports : ~(c = x /\ q = p) => flow'[<<c, q>>] = flow[<<c, q>>]
  BY <1>2 DEF FlowBecomes
<1>5. ASSUME NEW d \in Targets PROVE Round(d)'
  <2>1. SameBarrier(d)
    BY <1>2 DEF SameBarrier, SameGathers
  <2>2. ASSUME NEW q \in Ports PROVE PortCarries(d, q)
    <3>1. PICK a, b, c, s : a = tran_buf[p] /\ b = downBuffers[p] /\ c = serv_trans[p] /\ s = Append(c, x)
      OBVIOUS
    <3>2. c \in Seq(Targets) /\ tran_buf'[p] = a /\ downBuffers'[p] = b /\ serv_trans'[p] = s
      BY <1>2, <1>3, <3>1
    <3>3. CASE q = p /\ d # x
      <4>1. PICK h : h = flow[<<d, p>>]
        OBVIOUS
      <4>2. flow'[<<d, p>>] = h
        BY <1>4, <3>3, <4>1
      <4>3. /\ Quiet(a, b, h, c, d) => Quiet(a, b, h, s, d)
            /\ Fed(a, b, h, c, d) => Fed(a, b, h, s, d)
            /\ UnderWay(a, b, h, c, d) => UnderWay(a, b, h, s, d)
        BY <3>1, <3>2, <3>3, AnswerOther
      <4> QED BY <3>1, <3>2, <3>3, <4>1, <4>2, <4>3 DEF PortCarries, QuietAt, FedAt, UnderWayAt
    <3>4. CASE q = p /\ d = x
      <4>1. /\ ~Quiet(a, b, fl, c, d) /\ ~Fed(a, b, fl, c, d)
            /\ UnderWay(a, b, fl, c, d) => UnderWay(a, b, g, s, d)
        <5>1. c \in Seq(Targets) /\ fl.phase = "gather" /\ g.phase = "answered" /\ s = Append(c, d)
          BY <1>2, <1>3, <3>1, <3>2, <3>4
        <5>2. /\ ~Quiet(a, b, fl, c, d) /\ ~Fed(a, b, fl, c, d)
              /\ UnderWay(a, b, fl, c, d) => UnderWay(a, b, g, Append(c, d), d)
          BY <5>1, AnswerThis
        <5> QED BY <5>1, <5>2
      <4> QED BY <1>1, <1>4, <3>1, <3>2, <3>4, <4>1 DEF PortCarries, QuietAt, FedAt, UnderWayAt
    <3>5. CASE q # p
      <4>1. flow'[<<d, q>>] = flow[<<d, q>>] /\ serv_trans'[q] = serv_trans[q]
        BY <1>2, <1>3, <1>4, <3>5
      <4> QED BY <1>2, <3>5, <4>1 DEF PortCarries, QuietAt, FedAt, UnderWayAt
    <3> QED BY <3>3, <3>4, <3>5
  <2> QED BY <2>1, <2>2, RoundKeeps DEF Rounds
<1> QED BY <1>5 DEF Rounds

(* A thread whose gather of d waits at a port has no update of d under     *)
(* way, and no gather that is not waiting.                                 *)
LEMMA JoinedIs ==
  ASSUME HInv, NEW d, NEW t \in Joined(d)
  PROVE  /\ t \in Threads
         /\ \A l : ~ExecUpdate(rob[t], l, d)
         /\ \A l, c : ExecGather(rob[t], l, c) =>
              \E p \in Ports : \E e \in active_gather_event[p] : e.th = t /\ e.id = l
<1>1. t \in Threads
  BY DEF Joined
<1>2. PICK p \in Ports : \E e \in active_gather_event[p] : e.dest = d /\ e.th = t
  BY DEF Joined
<1>3. PICK e \in active_gather_event[p] : e.dest = d /\ e.th = t
  BY <1>2
<1>4. t # Nobody
  BY <1>1, BarrierAssumption
<1>5. ExecGather(rob[t], e.id, d)
  BY <1>3, <1>4 DEF HInv, Held, EventsHeld
<1>6. rob[t] \in Seq(Instr) /\ RobOrder(rob[t])
  BY <1>1, TypesOf DEF HInv, RobSound
<1>7. \A l : ~ExecUpdate(rob[t], l, d)
  BY <1>5, <1>6, GatherAlone
<1>8. \A l, c : ExecGather(rob[t], l, c) => l = e.id
  BY <1>5, <1>6, GatherAlone
<1> QED BY <1>1, <1>3, <1>7, <1>8

LEMMA UpdateRound ==
  ASSUME HInv, Rounds, NEW m \in noc, AddReqUpdate(m)
  PROVE  Rounds'
<1>1. /\ m \in Message /\ m.type # "get" /\ m.port \in Ports /\ m.th \in Threads
      /\ m.dest \in Targets /\ m.id \in 0..RobSize-1
      /\ tran_buf' = [tran_buf EXCEPT ![m.port] = Append(@, UpdateTran(m))]
      /\ active_forests' = [active_forests EXCEPT ![m.dest] = @ \cup {m.port}]
      /\ UNCHANGED <<gather_barrier, active_gather_event, downBuffers, flow, serv_trans>>
  BY TypesOf, MessageIs DEF HInv, AddReqUpdate, core, memnet, UpdateTran
<1>2. /\ tran_buf \in [Ports -> Seq(Tran)] /\ active_forests \in [Targets -> SUBSET Ports]
  BY DEF HInv, Types
<1>3. PICK w, a, p : w = UpdateTran(m) /\ p = m.port /\ a = tran_buf[p]
  OBVIOUS
<1>4. w \in Tran /\ w.type = "update" /\ w.dest = m.dest /\ a \in Seq(Tran) /\ p \in Ports
  BY <1>1, <1>2, <1>3 DEF UpdateTran, Tran
<1>5. tran_buf'[p] = Append(a, w) /\ \A q \in Ports : q # p => tran_buf'[q] = tran_buf[q]
  BY <1>1, <1>2, <1>3
<1>6. ASSUME NEW d \in Targets, NEW q \in Ports, ~(q = p /\ d = m.dest) PROVE PortCarries(d, q)
  <2>1. CASE q = p
    <3>1. PICK b, fl, c, r : b = downBuffers[p] /\ fl = flow[<<d, p>>] /\ c = serv_trans[p] /\ r = Append(a, w)
      OBVIOUS
    <3>2. /\ Quiet(a, b, fl, c, d) => Quiet(r, b, fl, c, d)
          /\ Fed(a, b, fl, c, d) => Fed(r, b, fl, c, d)
          /\ UnderWay(a, b, fl, c, d) => UnderWay(r, b, fl, c, d)
      BY <1>4, <1>6, <2>1, <3>1, AppendPort
    <3> QED BY <1>1, <1>3, <1>5, <2>1, <3>1, <3>2 DEF PortCarries, QuietAt, FedAt, UnderWayAt
  <2>2. CASE q # p
    BY <1>1, <1>5, <2>2 DEF PortCarries, QuietAt, FedAt, UnderWayAt
  <2> QED BY <2>1, <2>2
<1>7. ASSUME NEW d \in Targets, d # m.dest PROVE Round(d)'
  <2>1. SameBarrier(d)
    BY <1>1, <1>2, <1>7 DEF SameBarrier, SameGathers
  <2>2. \A q \in Ports : PortCarries(d, q)
    BY <1>6, <1>7
  <2> QED BY <2>1, <2>2, RoundKeeps DEF Rounds
<1>8. ASSUME NEW d \in Targets, d = m.dest PROVE Round(d)'
  <2>1. m.th \notin Joined(d)
    <3>1. ExecUpdate(rob[m.th], m.id, d)
      BY <1>1, <1>8 DEF HInv, Held, NocHeld
    <3> QED BY <3>1, JoinedIs
  <2>2. Joined(d)' = Joined(d) /\ Joined(d) # Threads
    BY <1>1, <2>1 DEF Joined
  <2>3. Collecting(d)
    BY <2>2 DEF Round, Rounds
  <2>4. active_forests'[d] = active_forests[d] \cup {p}
    BY <1>1, <1>2, <1>3, <1>8
  <2>5. FedAt(d, p)'
    <3>1. PICK b, fl, c : b = downBuffers[p] /\ fl = flow[<<d, p>>] /\ c = serv_trans[p]
      OBVIOUS
    <3>2. Quiet(a, b, fl, c, d) \/ Fed(a, b, fl, c, d)
      BY <1>3, <1>4, <2>3, <3>1 DEF Collecting, QuietAt, FedAt
    <3>3. Fed(Append(a, w), b, fl, c, d)
      BY <1>4, <1>8, <3>2, UpdatePort
    <3> QED BY <1>1, <1>5, <3>1, <3>3 DEF FedAt
  <2>6. ASSUME NEW q \in Ports
        PROVE  /\ q \in active_forests'[d] => FedAt(d, q)'
               /\ q \notin active_forests'[d] => QuietAt(d, q)'
    <3>1. CASE q = p
      BY <2>4, <2>5, <3>1
    <3>2. CASE q # p
      <4>1. PortCarries(d, q)
        BY <1>6, <3>2
      <4> QED BY <2>3, <2>4, <3>2, <4>1 DEF Collecting, PortCarries
    <3> QED BY <3>1, <3>2
  <2>7. Collecting(d)'
    BY <1>1, <2>2, <2>3, <2>6 DEF Collecting
  <2> QED BY <2>2, <2>7 DEF Round
<1> QED BY <1>7, <1>8 DEF Rounds

(* The gather of m joins: its thread has not joined yet.                   *)
LEMMA NotJoined ==
  ASSUME HInv, NEW m \in noc, m.type = "get"
  PROVE  m.th \notin Joined(m.dest) /\ m.th \in Threads
<1>1. m \in Message /\ m.th \in Threads
  BY TypesOf, MessageIs DEF HInv
<1>2. ExecGather(rob[m.th], m.id, m.dest)
  BY DEF HInv, Held, NocHeld
<1>3. ASSUME m.th \in Joined(m.dest) PROVE FALSE
  <2>1. PICK p \in Ports : \E e \in active_gather_event[p] : e.th = m.th /\ e.id = m.id
    BY <1>2, <1>3, JoinedIs
  <2> QED BY <2>1 DEF HInv, OneGather, SameInstr
<1> QED BY <1>1, <1>3

(* While threads are missing the barrier counts those that have joined.    *)
LEMMA ArrivedCount ==
  ASSUME HInv, Rounds, NEW m \in noc, m.type = "get"
  PROVE  /\ m.dest \in Targets /\ m.port \in Ports /\ Collecting(m.dest)
         /\ Arrived(m).live
         /\ Arrived(m).count = Cardinality(Joined(m.dest) \cup {m.th})
         /\ Arrived(m).count = gather_barrier[m.dest].count + 1
         /\ gather_barrier[m.dest].count \in Nat
         /\ \A p \in Ports : Arrived(m).port[p] \in 0..Arrived(m).count
<1>1. m \in Message /\ m.dest \in Targets /\ m.port \in Ports
  BY TypesOf, MessageIs DEF HInv
<1>2. PICK d, g, J : d = m.dest /\ g = gather_barrier[m.dest] /\ J = Joined(m.dest)
  OBVIOUS
<1>3. m.th \notin J /\ m.th \in Threads /\ J \subseteq Threads
  BY <1>2, NotJoined DEF Joined
<1>4. Collecting(d)
  BY <1>1, <1>2, <1>3 DEF Rounds, Round
<1>5. g.count = Cardinality(J) /\ (J = {} => g = NoBarrier) /\ (J # {} => g.live)
  BY <1>2, <1>4 DEF Collecting
<1>6. g = IF g.live THEN g ELSE NoBarrier
  BY <1>5
<1>7. /\ Arrived(m).live /\ Arrived(m).count = g.count + 1
      /\ \A p \in Ports : Arrived(m).port[p] = IF p = m.port THEN g.port[p] + 1 ELSE g.port[p]
  BY <1>1, <1>2, <1>6, ArrivedIs DEF HInv
<1>8. IsFiniteSet(J) /\ Cardinality(J) \in Nat
  BY <1>3, FiniteFacts
<1>9. Cardinality(J \cup {m.th}) = Cardinality(J) + 1
  BY <1>3, <1>8, FS_AddElement
<1>10. \A p \in Ports : g.port[p] \in 0..g.count
  BY <1>2, <1>4 DEF Collecting
<1>11. ASSUME NEW p \in Ports PROVE Arrived(m).port[p] \in 0..Arrived(m).count
  <2>1. PICK x, n : x = g.port[p] /\ n = g.count
    OBVIOUS
  <2>2. n \in Nat /\ x \in 0..n
    BY <1>5, <1>8, <1>10, <2>1
  <2>3. x \in 0..(n + 1) /\ x + 1 \in 0..(n + 1)
    BY <2>2
  <2> QED BY <1>7, <2>1, <2>3
<1> QED BY <1>1, <1>2, <1>4, <1>5, <1>7, <1>8, <1>9, <1>11

LEMMA GatherRound ==
  ASSUME HInv, Rounds, NEW m \in noc, AddReqGather(m)
  PROVE  Rounds'
<1>1. m \in Message /\ m.dest \in Targets /\ m.port \in Ports /\ m.th \in Threads
  BY TypesOf, MessageIs DEF HInv
<1>2. /\ m.type = "get" /\ Arrived(m).count # nthreads
      /\ gather_barrier' = [gather_barrier EXCEPT ![m.dest] = Arrived(m)]
      /\ active_gather_event' = WithGather(m)
      /\ UNCHANGED <<active_forests, tran_buf, downBuffers, flow, serv_trans>>
  BY DEF AddReqGather, memnet
<1>3. \A p \in Ports : active_gather_event'[p] = IF p = m.port THEN active_gather_event[p] \cup {EventOf(m)}
                                                  ELSE active_gather_event[p]
  BY <1>1, <1>2, WithGatherIs DEF HInv
<1>4. EventOf(m).dest = m.dest /\ EventOf(m).th = m.th /\ EventOf(m).th # Nobody
  BY <1>1, EventOfIs
<1>5. gather_barrier \in [Targets -> Barrier]
  BY DEF HInv, Types
<1>6. ASSUME NEW d \in Targets, NEW q \in Ports PROVE PortCarries(d, q)
  BY <1>2 DEF PortCarries, QuietAt, FedAt, UnderWayAt
<1>7. ASSUME NEW d \in Targets, d # m.dest PROVE Round(d)'
  <2>1. SameBarrier(d)
    <3>1. SameGathers(d)
      BY <1>3, <1>4, <1>7 DEF SameGathers
    <3> QED BY <1>2, <1>5, <1>7, <3>1 DEF SameBarrier
  <2> QED BY <1>6, <2>1, RoundKeeps DEF Rounds
<1>8. ASSUME NEW d \in Targets, d = m.dest PROVE Round(d)'
  <2>1. /\ Collecting(d) /\ Arrived(m).live
        /\ Arrived(m).count = Cardinality(Joined(d) \cup {m.th})
        /\ \A p \in Ports : Arrived(m).port[p] \in 0..Arrived(m).count
    BY <1>2, <1>8, ArrivedCount
  <2>2. Joined(d)' = Joined(d) \cup {m.th}
    <3>1. m.th \in Joined(d)'
      <4>1. EventOf(m) \in active_gather_event'[m.port]
        BY <1>1, <1>3
      <4> QED BY <1>1, <1>4, <1>8, <4>1 DEF Joined
    <3>2. Joined(d) \subseteq Joined(d)'
      <4>1. \A q \in Ports : \A e \in active_gather_event[q] : e \in active_gather_event'[q]
        BY <1>3
      <4> QED BY <4>1 DEF Joined
    <3>3. Joined(d)' \subseteq Joined(d) \cup {m.th}
      <4>1. \A q \in Ports : \A e \in active_gather_event'[q] : e \in active_gather_event[q] \/ e = EventOf(m)
        BY <1>3
      <4> QED BY <1>4, <4>1 DEF Joined
    <3> QED BY <3>1, <3>2, <3>3
  <2>3. Joined(d)' # Threads /\ Joined(d)' # {}
    BY <1>2, <2>1, <2>2 DEF nthreads
  <2>4. gather_barrier'[d] = Arrived(m)
    BY <1>2, <1>5, <1>8
  <2>5. \A p \in Ports : \A e \in active_gather_event'[p] : e.dest = d => e.th # Nobody
    BY <1>3, <1>4, <2>1, ZenonT(60) DEF Collecting
  <2>6. \A p \in Ports : /\ p \in active_forests'[d] => FedAt(d, p)'
                         /\ p \notin active_forests'[d] => QuietAt(d, p)'
    BY <1>2, <1>6, <2>1 DEF Collecting, PortCarries
  <2>7. Collecting(d)'
    BY <2>1, <2>2, <2>3, <2>4, <2>5, <2>6 DEF Collecting
  <2> QED BY <2>3, <2>7 DEF Round
<1> QED BY <1>7, <1>8 DEF Rounds

(* The last gather finds no update of its target in the ports.             *)
LEMMA NoneUnsent ==
  ASSUME HInv, NEW d \in Targets, \A t \in Threads : \A k : ~ExecUpdate(rob[t], k, d), NEW p \in Ports
  PROVE  ~SomeUpdate(tran_buf[p], d)
<1>1. ASSUME NEW i \in DOMAIN tran_buf[p], tran_buf[p][i].type = "update", tran_buf[p][i].dest = d
      PROVE  FALSE
  <2>1. PICK q, x : q = tran_buf[p] /\ x = q[i]
    OBVIOUS
  <2>2. q \in Seq(Tran) /\ i \in DOMAIN q
    BY <2>1, TypesOf DEF HInv
  <2>3. x.th # Nobody /\ ExecUpdate(rob[x.th], x.id, d)
    BY <1>1, <2>1 DEF HInv, Held, TransHeld
  <2>4. x.th \in Threads
    BY <2>1, <2>2, <2>3, TranIs
  <2> QED BY <2>3, <2>4
<1> QED BY <1>1 DEF SomeUpdate

LEMMA LastGatherRound ==
  ASSUME HInv, Rounds, NEW m \in noc, AddReqLastGather(m)
  PROVE  Rounds'
<1>1. m \in Message /\ m.dest \in Targets /\ m.port \in Ports /\ m.th \in Threads
  BY TypesOf, MessageIs DEF HInv
<1>2. PICK w, x : w = m.dest /\ x = GatherTran(m)
  OBVIOUS
<1>3. /\ m.type = "get" /\ Arrived(m).count = nthreads
      /\ gather_barrier' = [gather_barrier EXCEPT ![w] = Released(m)]
      /\ UNCHANGED <<active_forests, downBuffers, flow, serv_trans>>
  BY <1>2, LastGatherIs DEF AddReqLastGather, HInv
<1>4. /\ \A p \in Ports : \A e \in active_gather_event'[p] :
            \/ e \in active_gather_event[p]
            \/ e = EventOf(m) /\ p = m.port
            \/ e = Dummy(m) /\ p \in active_forests[w]
      /\ \A p \in Ports : \A e \in active_gather_event[p] : e \in active_gather_event'[p]
      /\ EventOf(m) \in active_gather_event'[m.port]
  BY <1>2, LastGatherIs DEF HInv
<1>5. \A p \in Ports : tran_buf'[p] = IF p \in active_forests[w] THEN Append(tran_buf[p], x) ELSE tran_buf[p]
  BY <1>2, LastGatherIs DEF HInv
<1>6. /\ EventOf(m).dest = w /\ EventOf(m).th = m.th
      /\ Dummy(m).dest = w /\ x \in Tran /\ x.type = "get" /\ x.dest = w
  BY <1>1, <1>2, EventOfIs, DummyIs
<1>7. /\ gather_barrier \in [Targets -> Barrier] /\ \A p \in Ports : tran_buf[p] \in Seq(Tran)
      /\ active_forests[w] \subseteq Ports
  BY <1>1, <1>2 DEF HInv, Types
<1>8. ASSUME NEW d \in Targets, d # w PROVE Round(d)'
  <2>1. SameBarrier(d)
    <3>1. SameGathers(d)
      BY <1>4, <1>6, <1>8 DEF SameGathers
    <3> QED BY <1>3, <1>7, <1>8, <3>1 DEF SameBarrier
  <2>2. ASSUME NEW p \in Ports PROVE PortCarries(d, p)
    <3>1. CASE p \in active_forests[w]
      <4>1. PICK a, b, fl, c, r : /\ a = tran_buf[p] /\ b = downBuffers[p] /\ fl = flow[<<d, p>>]
                                  /\ c = serv_trans[p] /\ r = Append(a, x)
        OBVIOUS
      <4>2. /\ Quiet(a, b, fl, c, d) => Quiet(r, b, fl, c, d)
            /\ Fed(a, b, fl, c, d) => Fed(r, b, fl, c, d)
            /\ UnderWay(a, b, fl, c, d) => UnderWay(r, b, fl, c, d)
        BY <1>6, <1>7, <1>8, <4>1, AppendPort
      <4> QED BY <1>3, <1>5, <3>1, <4>1, <4>2 DEF PortCarries, QuietAt, FedAt, UnderWayAt
    <3>2. CASE p \notin active_forests[w]
      BY <1>3, <1>5, <3>2 DEF PortCarries, QuietAt, FedAt, UnderWayAt
    <3> QED BY <3>1, <3>2
  <2> QED BY <2>1, <2>2, RoundKeeps DEF Rounds
<1>9. Collecting(w) /\ Arrived(m).count = Cardinality(Joined(w) \cup {m.th})
  BY <1>2, <1>3, ArrivedCount
<1>10. Joined(w) \cup {m.th} = Threads
  <2>1. PICK J : J = Joined(w) \cup {m.th}
    OBVIOUS
  <2>2. J \in SUBSET Threads /\ Cardinality(J) = Cardinality(Threads) /\ IsFiniteSet(Threads)
    BY <1>1, <1>3, <1>9, <2>1, FiniteFacts DEF Joined, nthreads
  <2>3. J = Threads
    BY <2>2, FS_Subset
  <2> QED BY <2>1, <2>3
<1>11. Joined(w)' = Threads
  <2>1. Joined(w)' \subseteq Threads
    BY DEF Joined
  <2>2. m.th \in Joined(w)'
    BY <1>1, <1>4, <1>6 DEF Joined
  <2>3. Joined(w) \subseteq Joined(w)'
    BY <1>4 DEF Joined
  <2> QED BY <1>10, <2>1, <2>2, <2>3
<1>12. \A t \in Threads : \A k : ~ExecUpdate(rob[t], k, w)
  <2>1. ASSUME NEW k PROVE ~ExecUpdate(rob[m.th], k, w)
    <3>1. ExecGather(rob[m.th], m.id, w)
      BY <1>2, <1>3 DEF HInv, Held, NocHeld
    <3>2. rob[m.th] \in Seq(Instr) /\ RobOrder(rob[m.th])
      BY <1>1, TypesOf DEF HInv, RobSound
    <3> QED BY <3>1, <3>2, GatherAlone
  <2>2. ASSUME NEW t \in Joined(w), NEW k PROVE ~ExecUpdate(rob[t], k, w)
    BY JoinedIs
  <2> QED BY <1>10, <2>1, <2>2
<1>13. PICK g : g = Released(m)
  OBVIOUS
<1>14. /\ gather_barrier'[w] = g /\ g.live /\ g.count = Cardinality(active_forests[w])
       /\ \A p \in Ports : g.port[p] = IF p \in active_forests[w] THEN 1 ELSE 0
  BY <1>1, <1>2, <1>3, <1>7, <1>13 DEF Released
<1>15. Open(g) = active_forests[w]
  BY <1>7, <1>14 DEF Open
<1>16. ASSUME NEW p \in Ports, p \in active_forests[w] PROVE UnderWayAt(w, p)'
  <2>1. PICK a, b, fl, c : a = tran_buf[p] /\ b = downBuffers[p] /\ fl = flow[<<w, p>>] /\ c = serv_trans[p]
    OBVIOUS
  <2>2. Fed(a, b, fl, c, w) /\ a \in Seq(Tran)
    BY <1>7, <1>9, <1>16, <2>1 DEF Collecting, FedAt
  <2>3. ~SomeUpdate(a, w)
    BY <1>1, <1>2, <1>12, <2>1, NoneUnsent
  <2>4. InPort(Append(a, x), b, fl, c, w)
    BY <1>6, <2>2, <2>3, GatherPort
  <2> QED BY <1>3, <1>5, <1>16, <2>1, <2>4 DEF UnderWayAt, UnderWay
<1>17. ASSUME NEW p \in Ports, p \notin active_forests[w] PROVE QuietAt(w, p)'
  BY <1>3, <1>5, <1>9, <1>17 DEF Collecting, QuietAt
<1>18. Answering(w)'
  <2>1. \A p \in Ports : /\ g.port[p] \in {-1, 0, 1}
                         /\ g.port[p] = 1 => UnderWayAt(w, p)'
                         /\ g.port[p] # 1 => QuietAt(w, p)'
    BY <1>14, <1>16, <1>17
  <2> QED BY <1>14, <1>15, <2>1 DEF Answering
<1>19. Round(w)'
  BY <1>11, <1>18 DEF Round
<1> QED BY <1>8, <1>19 DEF Rounds

(* The network answers only ports that are waited for.                     *)
LEMMA AnswerIs ==
  ASSUME HInv, Rounds, NEW p \in Ports, serv_trans[p] # <<>>, NEW d, d = Head(serv_trans[p])
  PROVE  /\ d \in Targets /\ Joined(d) = Threads /\ Answering(d) /\ gather_barrier[d].port[p] = 1
         /\ flow[<<d, p>>].phase = "answered" /\ NoneFor(tran_buf[p], d) /\ NoneFor(downBuffers[p], d)
         /\ Quiet(tran_buf[p], downBuffers[p], IdleFlow, Tail(serv_trans[p]), d)
<1>1. PICK a, b, fl, c : a = tran_buf[p] /\ b = downBuffers[p] /\ fl = flow[<<d, p>>] /\ c = serv_trans[p]
  OBVIOUS
<1>2. c \in Seq(Targets) /\ c # <<>> /\ Head(c) = d
  BY <1>1, TypesOf DEF HInv
<1>3. d \in Targets
  BY <1>2, TailFacts
<1>4. /\ ~Quiet(a, b, fl, c, d) /\ ~Fed(a, b, fl, c, d)
      /\ UnderWay(a, b, fl, c, d) =>
           /\ fl.phase = "answered" /\ NoneFor(a, d) /\ NoneFor(b, d)
           /\ Quiet(a, b, IdleFlow, Tail(c), d)
  BY <1>2, <1>3, TakeThis
<1>5. ~QuietAt(d, p) /\ ~FedAt(d, p)
  BY <1>1, <1>4 DEF QuietAt, FedAt
<1>6. ~Collecting(d)
  BY <1>5 DEF Collecting
<1>7. Joined(d) = Threads /\ Answering(d)
  BY <1>3, <1>6 DEF Rounds, Round
<1>8. gather_barrier[d].port[p] = 1 /\ UnderWayAt(d, p)
  BY <1>5, <1>7 DEF Answering
<1>9. UnderWay(a, b, fl, c, d)
  BY <1>1, <1>8 DEF UnderWayAt
<1> QED BY <1>1, <1>3, <1>4, <1>7, <1>8, <1>9

(* The last answer finds every other port answered.                        *)
LEMMA LastIsLast ==
  ASSUME HInv, Rounds, NEW p \in Ports, serv_trans[p] # <<>>, NEW d, d = Head(serv_trans[p]),
         AllAnswered(d, p), NEW q \in Ports, q # p
  PROVE  gather_barrier[d].port[q] \in {-1, 0} /\ QuietAt(d, q)
<1>1. d \in Targets /\ Answering(d) /\ gather_barrier[d].port[p] = 1
  BY AnswerIs
<1>2. PICK g, S : g = gather_barrier[d] /\ S = Open(g)
  OBVIOUS
<1>3. Cardinality(S) = 1 /\ S \in SUBSET Ports /\ p \in S
  BY <1>1, <1>2 DEF AllAnswered, Answering, Open
<1>4. q \notin S
  <2>1. IsFiniteSet(S) /\ IsFiniteSet(S \ {p}) /\ Cardinality(S \ {p}) \in Nat
    BY <1>3, FiniteFacts
  <2>2. Cardinality(S \ {p}) = Cardinality(S) - 1
    BY <1>3, <2>1, FS_RemoveElement
  <2>3. Cardinality(S \ {p}) = 0
    BY <1>3, <2>2
  <2>4. S \ {p} = {}
    BY <2>1, <2>3, FS_EmptySet
  <2> QED BY <2>4
<1>5. g.port[q] # 1
  BY <1>2, <1>4 DEF Open
<1> QED BY <1>1, <1>2, <1>5 DEF Answering

LEMMA AddRepRound ==
  ASSUME HInv, Rounds, NEW p \in Ports, AddRep(p)
  PROVE  Rounds'
<1>1. PICK c, w : c = serv_trans[p] /\ w = Head(c)
  OBVIOUS
<1>2. /\ c \in Seq(Targets) /\ c # <<>> /\ w \in Targets
      /\ flow' = [flow EXCEPT ![<<w, p>>] = IdleFlow]
      /\ serv_trans' = [serv_trans EXCEPT ![p] = Tail(c)]
      /\ UNCHANGED <<tran_buf, downBuffers>>
  BY <1>1, AddRepIs DEF HInv
<1>3. FlowBecomes(w, p, IdleFlow)
  BY <1>2, FlowSet, IdleFlowIs DEF HInv
<1>4. serv_trans \in [Ports -> Seq(Targets)]
  BY DEF HInv, Types
<1>5. serv_trans'[p] = Tail(c) /\ \A q \in Ports : q # p => serv_trans'[q] = serv_trans[q]
  BY <1>2, <1>4
<1>6. ASSUME NEW d \in Targets, NEW q \in Ports, ~(d = w /\ q = p) PROVE PortCarries(d, q)
  <2>1. flow'[<<d, q>>] = flow[<<d, q>>]
    BY <1>3, <1>6 DEF FlowBecomes
  <2>2. CASE q = p
    <3>1. PICK a, b, fl, s : a = tran_buf[p] /\ b = downBuffers[p] /\ fl = flow[<<d, p>>] /\ s = Tail(c)
      OBVIOUS
    <3>2. c \in Seq(Targets) /\ c # <<>> /\ Head(c) # d
      BY <1>1, <1>2, <1>6, <2>2
    <3>3. /\ Quiet(a, b, fl, c, d) => Quiet(a, b, fl, s, d)
          /\ Fed(a, b, fl, c, d) => Fed(a, b, fl, s, d)
          /\ UnderWay(a, b, fl, c, d) => UnderWay(a, b, fl, s, d)
      BY <3>1, <3>2, TakeOther
    <3> QED BY <1>1, <1>2, <1>5, <2>1, <2>2, <3>1, <3>3 DEF PortCarries, QuietAt, FedAt, UnderWayAt
  <2>3. CASE q # p
    BY <1>2, <1>5, <2>1, <2>3 DEF PortCarries, QuietAt, FedAt, UnderWayAt
  <2> QED BY <2>2, <2>3
<1>7. /\ Joined(w) = Threads /\ Answering(w) /\ gather_barrier[w].port[p] = 1
      /\ Quiet(tran_buf[p], downBuffers[p], IdleFlow, Tail(serv_trans[p]), w)
  BY <1>1, <1>2, AnswerIs
<1>8. QuietAt(w, p)'
  BY <1>1, <1>2, <1>3, <1>5, <1>7 DEF QuietAt, FlowBecomes
<1>9. gather_barrier \in [Targets -> Barrier] /\ active_forests \in [Targets -> SUBSET Ports]
  BY DEF HInv, Types
<1>10. CASE AllAnswered(w, p)
  <2>1. /\ gather_barrier' = [gather_barrier EXCEPT ![w] = NoBarrier]
        /\ active_forests' = [active_forests EXCEPT ![w] = {}]
        /\ \A i \in Ports : active_gather_event'[i] = {e \in active_gather_event[i] : e.dest # w}
    <3>1. Types /\ w = Head(serv_trans[p]) /\ AllAnswered(w, p)
      BY <1>1, <1>10 DEF HInv
    <3>2. \A i \in Ports : active_gather_event'[i] = {e \in active_gather_event[i] : e.dest # w}
      BY <3>1, LastAnswerIs
    <3>3. /\ gather_barrier' = [gather_barrier EXCEPT ![w] = NoBarrier]
          /\ active_forests' = [active_forests EXCEPT ![w] = {}]
      BY <3>1, LastAnswerIs
    <3> QED BY <3>2, <3>3
  <2>2. ASSUME NEW d \in Targets, d # w PROVE Round(d)'
    <3>1. SameBarrier(d)
      BY <1>9, <2>1, <2>2 DEF SameBarrier, SameGathers
    <3> QED BY <1>6, <2>2, <3>1, RoundKeeps DEF Rounds
  <2>3. \A q \in Ports : QuietAt(w, q)'
    <3>1. ASSUME NEW q \in Ports, q # p PROVE QuietAt(w, q)'
      <4>1. QuietAt(w, q)
        BY <1>1, <1>2, <1>10, <3>1, LastIsLast
      <4> QED BY <1>2, <1>6, <3>1, <4>1 DEF PortCarries
    <3> QED BY <1>8, <3>1
  <2>4. Joined(w)' = {} /\ Threads # {} /\ Cardinality({}) = 0
    BY <2>1, BarrierAssumption, FS_EmptySet DEF Joined
  <2>5. /\ gather_barrier'[w] = NoBarrier /\ active_forests'[w] = {}
        /\ \A q \in Ports : \A e \in active_gather_event'[q] : e.dest # w
    BY <1>2, <1>9, <2>1
  <2>6. NoBarrier.count = 0 /\ \A q \in Ports : NoBarrier.port[q] \in 0..0
    BY DEF NoBarrier
  <2>7. Collecting(w)'
    <3>1. gather_barrier'[w].count = 0 /\ \A q \in Ports : gather_barrier'[w].port[q] \in 0..gather_barrier'[w].count
      BY <2>5, <2>6
    <3>2. \A q \in Ports : q \notin active_forests'[w]
      BY <2>5
    <3> QED BY <2>3, <2>4, <2>5, <3>1, <3>2 DEF Collecting
  <2>8. Round(w)'
    BY <2>4, <2>7 DEF Round
  <2> QED BY <2>2, <2>8 DEF Rounds
<1>11. CASE ~AllAnswered(w, p)
  <2>1. PICK g, h : g = gather_barrier[w] /\ h = gather_barrier'[w]
    OBVIOUS
  <2>2. /\ \A d \in Targets \ {w} : gather_barrier'[d] = gather_barrier[d]
        /\ h.live = g.live /\ h.count = g.count - g.port[p]
        /\ \A q \in Ports : h.port[q] = IF q = p THEN -1 ELSE g.port[q]
        /\ UNCHANGED <<active_forests, active_gather_event>>
    BY <1>1, <1>2, <1>11, <2>1, EarlyAnswerIs DEF HInv
  <2>3. ASSUME NEW d \in Targets, d # w PROVE Round(d)'
    <3>1. SameBarrier(d)
      BY <2>2, <2>3 DEF SameBarrier, SameGathers
    <3> QED BY <1>6, <2>3, <3>1, RoundKeeps DEF Rounds
  <2>4. Joined(w)' = Threads
    BY <1>7, <2>2 DEF Joined
  <2>5. h.live /\ g.port[p] = 1 /\ g.count = Cardinality(Open(g))
    BY <1>7, <2>1, <2>2 DEF Answering
  <2>6. h.count = Cardinality(Open(h))
    <3>1. Open(h) = Open(g) \ {p} /\ p \in Open(g) /\ Open(g) \in SUBSET Ports
      BY <2>2, <2>5 DEF Open
    <3>2. IsFiniteSet(Open(g))
      BY <3>1, FiniteFacts
    <3>3. Cardinality(Open(g) \ {p}) = Cardinality(Open(g)) - 1
      BY <3>1, <3>2, FS_RemoveElement
    <3> QED BY <2>2, <2>5, <3>1, <3>3
  <2>7. ASSUME NEW q \in Ports
        PROVE  /\ h.port[q] \in {-1, 0, 1}
               /\ h.port[q] = 1 => UnderWayAt(w, q)'
               /\ h.port[q] # 1 => QuietAt(w, q)'
    <3>1. CASE q = p
      BY <1>8, <2>2, <3>1
    <3>2. CASE q # p
      <4>1. PortCarries(w, q) /\ h.port[q] = g.port[q]
        BY <1>2, <1>6, <2>2, <3>2
      <4> QED BY <1>7, <2>1, <4>1 DEF Answering, PortCarries
    <3> QED BY <3>1, <3>2
  <2>8. Answering(w)'
    BY <2>1, <2>5, <2>6, <2>7 DEF Answering
  <2>9. Round(w)'
    BY <2>4, <2>8 DEF Round
  <2> QED BY <2>3, <2>9 DEF Rounds
<1> QED BY <1>10, <1>11

LEMMA RoundsStep ==
  ASSUME HInv, Rounds, [Next]_vars
  PROVE  Rounds'
<1>1. ASSUME NEW t \in Threads, NEW i \in DOMAIN rob[t], Issue(t, i) PROVE Rounds'
  BY <1>1, PortsKeep DEF Issue, port, memnet
<1>2. ASSUME NEW t \in Threads, Commit(t) PROVE Rounds'
  BY <1>2, PortsKeep DEF Commit, port, memnet
<1>3. ASSUME NEW m \in noc, Receive(m) PROVE Rounds'
  <2>1. CASE Complete(m)
    BY <2>1, PortsKeep DEF Complete, port, memnet
  <2>2. CASE AddReqTwin(m)
    BY <2>2, PortsKeep DEF AddReqTwin, memnet
  <2>3. CASE AddReqUpdate(m)
    BY <2>3, UpdateRound
  <2>4. CASE AddReqGather(m)
    BY <2>4, GatherRound
  <2>5. CASE AddReqLastGather(m)
    BY <2>5, LastGatherRound
  <2> QED BY <1>3, <2>1, <2>2, <2>3, <2>4, <2>5 DEF Receive
<1>4. ASSUME NEW p \in Ports, PortStep(p) PROVE Rounds'
  <2>1. CASE Respond(p)
    BY <2>1, PortsKeep DEF Respond, port, memnet
  <2> QED BY <1>4, <2>1, SendTranRound, AddRepRound, SendPacketRound DEF PortStep
<1>5. ASSUME NEW d \in Targets, NEW p \in Ports, NetworkAnswer(d, p) PROVE Rounds'
  BY <1>5, NetworkAnswerRound
<1>6. ASSUME NEW p \in Ports, SendFails(p) PROVE Rounds'
  BY <1>6, PortsKeep DEF SendFails, port
<1>7. ASSUME NEW t \in Threads, Fetch(t) PROVE Rounds'
  BY <1>7, PortsKeep DEF Fetch, FetchUpdate, FetchGather, port, memnet
<1>8. CASE UNCHANGED vars
  BY <1>8, PortsKeep DEF vars
<1>9. CASE Progress
  BY <1>1, <1>2, <1>3, <1>4, <1>5, <1>9 DEF Progress
<1> QED BY <1>6, <1>7, <1>8, <1>9 DEF Next

(* The invariant is inductive: reorder buffers, holders and rounds are as  *)
(* described in every reachable state, for any number of threads, targets  *)
(* and ports.                                                              *)
THEOREM BarrierInvariance == Spec => []IInv
<1>1. Init => IInv
  BY HoldersInit, RoundsInit DEF IInv
<1>2. IInv /\ [Next]_vars => IInv'
  BY HoldersStep, RoundsStep DEF IInv
<1> QED BY <1>1, <1>2, PTL DEF Spec

-----------------------------------------------------------------------------
(***************************************************************************)
(* What the barrier promises.                                              *)
(***************************************************************************)
LEMMA TypeFromInv == IInv => TypeOK
<1> SUFFICES ASSUME IInv PROVE TypeOK
  OBVIOUS
<1>1. Types /\ Rounds
  BY DEF IInv, HInv
<1>2. ASSUME NEW d \in Targets
      PROVE  /\ gather_barrier[d].live \in BOOLEAN
             /\ gather_barrier[d].count \in 0..(IF nthreads > NumPorts THEN nthreads ELSE NumPorts)
             /\ gather_barrier[d].port \in [Ports -> -1..nthreads]
  <2>1. PICK g : g = gather_barrier[d]
    OBVIOUS
  <2>2. g.live \in BOOLEAN /\ g.count \in Int /\ g.port \in [Ports -> Int]
    BY <1>1, <2>1 DEF Types, Barrier
  <2>3. nthreads \in Nat \ {0} /\ NumPorts \in Nat \ {0}
    BY FiniteFacts, BarrierAssumption
  <2>4. CASE Joined(d) = Threads
    <3>1. Answering(d)
      BY <1>1, <2>4 DEF Rounds, Round
    <3>2. Open(g) \in SUBSET Ports /\ g.count = Cardinality(Open(g))
      BY <2>1, <3>1 DEF Open, Answering
    <3>3. g.count \in Nat /\ g.count <= NumPorts
      BY <3>2, FiniteFacts
    <3>4. \A p \in Ports : g.port[p] \in -1..nthreads
      BY <2>1, <2>3, <3>1 DEF Answering
    <3>5. g.port \in [Ports -> -1..nthreads]
      BY <2>2, <3>4
    <3>6. g.count \in 0..(IF nthreads > NumPorts THEN nthreads ELSE NumPorts)
      BY <2>3, <3>3
    <3> QED BY <2>1, <2>2, <3>5, <3>6
  <2>5. CASE Joined(d) # Threads
    <3>1. Collecting(d)
      BY <1>1, <2>5 DEF Rounds, Round
    <3>2. Joined(d) \in SUBSET Threads /\ g.count = Cardinality(Joined(d))
      BY <2>1, <3>1 DEF Joined, Collecting
    <3>3. g.count \in Nat /\ g.count <= nthreads
      BY <3>2, FiniteFacts
    <3>4. ASSUME NEW p \in Ports PROVE g.port[p] \in -1..nthreads
      <4>1. PICK x, n : x = g.port[p] /\ n = g.count
        OBVIOUS
      <4>2. x \in 0..n /\ n \in Nat /\ n <= nthreads
        BY <2>1, <3>1, <3>3, <4>1 DEF Collecting
      <4>3. x \in -1..nthreads
        BY <2>3, <4>2
      <4> QED BY <4>1, <4>3
    <3>5. g.port \in [Ports -> -1..nthreads]
      BY <2>2, <3>4
    <3>6. g.count \in 0..(IF nthreads > NumPorts THEN nthreads ELSE NumPorts)
      BY <2>3, <3>3
    <3> QED BY <2>1, <2>2, <3>5, <3>6
  <2> QED BY <2>4, <2>5
<1> QED BY <1>1, <1>2 DEF TypeOK, Types, FlowState

(* Types and bounds: a barrier never counts more than all threads, nor     *)
(* more than all ports.                                                    *)
THEOREM BarrierTypes == Spec => []TypeOK
BY BarrierInvariance, TypeFromInv, PTL

LEMMA ApartFromInv == IInv => RoundsApart
<1> SUFFICES ASSUME IInv, NEW d \in Targets, Gathering(d)
             PROVE  /\ ~UpdateUnsent(d)
                    /\ \A m \in noc : m.kind = "req" => m.dest # d
                    /\ gather_barrier[d].live
  BY DEF RoundsApart
<1>1. HInv /\ Rounds
  BY DEF IInv
<1>2. Joined(d) = Threads /\ Answering(d)
  <2>1. PICK p \in Ports :
          \/ \E i \in DOMAIN tran_buf[p] : tran_buf[p][i].type = "get" /\ tran_buf[p][i].dest = d
          \/ \E i \in DOMAIN downBuffers[p] : downBuffers[p][i].type = "get" /\ downBuffers[p][i].dest = d
          \/ flow[<<d, p>>].phase # "update"
    BY DEF Gathering
  <2>2. IdleFlow.phase = "update"
    BY DEF IdleFlow
  <2>3. ~QuietAt(d, p) /\ ~FedAt(d, p)
    BY <2>1, <2>2 DEF QuietAt, FedAt, Quiet, Fed, NoneFor, NoGather
  <2>4. ~Collecting(d)
    BY <2>3 DEF Collecting
  <2> QED BY <1>1, <2>4 DEF Rounds, Round
<1>3. \A t \in Threads : \A k : ~ExecUpdate(rob[t], k, d)
  BY <1>1, <1>2, JoinedIs
<1>4. ASSUME NEW m \in noc PROVE m.dest # d \/ m.kind # "req"
  <2>1. m.th \in Threads /\ m.type \in {"add", "mult", "get"}
    BY <1>1, TypesOf, MessageIs DEF HInv
  <2>2. CASE m.type = "get"
    BY <1>1, <1>2, <2>1, <2>2, NotJoined
  <2>3. CASE m.type # "get"
    BY <1>1, <1>3, <2>1, <2>3 DEF HInv, Held, NocHeld
  <2> QED BY <2>2, <2>3
<1>5. ASSUME NEW p \in Ports, NEW m \in active_mult_twins[p] PROVE m.dest # d
  <2>1. m.th \in Threads
    BY <1>1, TypesOf, MessageIs DEF HInv
  <2> QED BY <1>1, <1>3, <2>1 DEF HInv, Held, TwinsHeld
<1>6. \A p \in Ports : ~SomeUpdate(tran_buf[p], d)
  BY <1>1, <1>3, NoneUnsent
<1>7. ~UpdateUnsent(d)
  <2>1. ~(\E m \in noc \cup UNION {active_mult_twins[p] : p \in Ports} :
            m.kind = "req" /\ m.type # "get" /\ m.dest = d)
    BY <1>4, <1>5
  <2> QED BY <1>6, <2>1 DEF UpdateUnsent, SomeUpdate
<1> QED BY <1>2, <1>4, <1>7 DEF Answering

(* The rounds of a target stay apart, however far the threads are from     *)
(* each other.                                                             *)
THEOREM BarrierRoundsApart == Spec => []RoundsApart
BY BarrierInvariance, ApartFromInv, PTL

LEMMA AssertsFromInv == IInv => AssertsHold
<1> SUFFICES ASSUME IInv PROVE AssertsHold
  OBVIOUS
<1>1. HInv /\ Rounds /\ Types
  BY DEF IInv, HInv
<1>2. ASSUME NEW m \in noc, m.kind = "req", m.type = "get"
      PROVE  /\ gather_barrier[m.dest].live => gather_barrier[m.dest].count < nthreads
             /\ \A p \in Ports : \A e \in active_gather_event[p] : e.dest = m.dest => e.th # Nobody
  <2>1. PICK J : J = Joined(m.dest) \cup {m.th}
    OBVIOUS
  <2>2. /\ Collecting(m.dest) /\ gather_barrier[m.dest].count \in Nat
        /\ Cardinality(J) = gather_barrier[m.dest].count + 1
    BY <1>1, <1>2, <2>1, ArrivedCount
  <2>3. J \in SUBSET Threads
    BY <1>1, <1>2, <2>1, NotJoined DEF Joined
  <2>4. Cardinality(J) <= nthreads /\ nthreads \in Nat
    BY <2>3, FiniteFacts
  <2> QED BY <2>2, <2>4 DEF Collecting
<1>3. ASSUME NEW m \in noc
      PROVE  \E i \in DOMAIN rob[m.th] : rob[m.th][i].id = m.id /\ rob[m.th][i].state = "executing"
  BY <1>1 DEF HInv, Held, NocHeld, ExecGather, ExecUpdate
<1>4. ASSUME NEW p \in Ports, serv_trans[p] # <<>>
      PROVE  LET b == gather_barrier[Head(serv_trans[p])]
             IN  /\ b.live
                 /\ b.count = b.port[p] => \A i \in Ports \ {p} : b.port[i] \in {-1, 0}
  <2>1. PICK d, b : d = Head(serv_trans[p]) /\ b = gather_barrier[d]
    OBVIOUS
  <2>2. b.live
    BY <1>1, <1>4, <2>1, AnswerIs DEF Answering
  <2>3. ASSUME b.count = b.port[p], NEW i \in Ports, i # p PROVE b.port[i] \in {-1, 0}
    <3>1. AllAnswered(d, p)
      BY <2>1, <2>3 DEF AllAnswered
    <3>2. gather_barrier[d].port[i] \in {-1, 0}
      BY <1>1, <1>4, <2>1, <2>3, <3>1, LastIsLast
    <3> QED BY <2>1, <3>2
  <2> QED BY <2>1, <2>2, <2>3
<1>5. ASSUME NEW p \in Ports, NEW d \in Targets PROVE gatherBarrier[p][d] < 1
  <2>1. gatherBarrier[p][d] \in -1..0
    BY <1>1 DEF Types
  <2> QED BY <2>1
<1> QED BY <1>2, <1>3, <1>4, <1>5 DEF AssertsHold

(* No assertion of the ports, of the inner barrier or of the reorder       *)
(* buffer fails.                                                           *)
THEOREM BarrierAsserts == Spec => []AssertsHold
BY BarrierInvariance, AssertsFromInv, PTL

(* The places of a gather that is under way.                               *)
LEMMA OnePlace ==
  ASSUME HInv, NEW t \in Threads, NEW k, GatherSomewhere(t, k)
  PROVE  \E x : PlacesOf(t, k) = {x}
<1>1. t # Nobody
  BY BarrierAssumption
<1>2. PICK A, B, C :
        /\ A = {m \in noc : m.type = "get" /\ m.th = t /\ m.id = k}
        /\ B = {p \in Ports : \E e \in active_gather_event[p] : e.th = t /\ e.id = k}
        /\ C = {p \in Ports : \E e \in resp_queue[p] : e.th = t /\ e.id = k}
  OBVIOUS
<1>3. PlacesOf(t, k) = {<<"noc", m.kind>> : m \in A} \cup {<<"waiting", p>> : p \in B} \cup {<<"resp", p>> : p \in C}
  BY <1>2 DEF PlacesOf
<1>4. CASE \E m \in noc : m.type = "get" /\ m.th = t /\ m.id = k
  <2>1. PICK m \in noc : m.type = "get" /\ m.th = t /\ m.id = k
    BY <1>4
  <2>2. A = {m}
    BY <1>2, <2>1 DEF HInv, OneGather, SameInstr
  <2>3. B = {} /\ C = {}
    BY <1>2, <2>1 DEF HInv, OneGather, SameInstr
  <2>4. {<<"noc", n.kind>> : n \in A} = {<<"noc", m.kind>>}
    BY <2>2
  <2>5. {<<"waiting", p>> : p \in B} = {} /\ {<<"resp", p>> : p \in C} = {}
    BY <2>3
  <2>6. PlacesOf(t, k) = {<<"noc", m.kind>>}
    BY <1>3, <2>4, <2>5
  <2> QED BY <2>6
<1>5. CASE \E p \in Ports : \E e \in active_gather_event[p] : e.th = t /\ e.id = k
  <2>1. PICK p \in Ports : \E e \in active_gather_event[p] : e.th = t /\ e.id = k
    BY <1>5
  <2>2. PICK e \in active_gather_event[p] : e.th = t /\ e.id = k
    BY <2>1
  <2>3. A = {}
    BY <1>2, <2>2 DEF HInv, OneGather, SameInstr
  <2>4. C = {}
    BY <1>1, <1>2, <2>2 DEF HInv, OneGather, SameInstr
  <2>5. B = {p}
    BY <1>1, <1>2, <2>2 DEF HInv, OneGather, SameInstr
  <2>6. {<<"waiting", q>> : q \in B} = {<<"waiting", p>>}
    BY <2>5
  <2>7. {<<"noc", n.kind>> : n \in A} = {} /\ {<<"resp", q>> : q \in C} = {}
    BY <2>3, <2>4
  <2>8. PlacesOf(t, k) = {<<"waiting", p>>}
    BY <1>3, <2>6, <2>7
  <2> QED BY <2>8
<1>6. CASE \E p \in Ports : \E e \in resp_queue[p] : e.th = t /\ e.id = k
  <2>1. PICK p \in Ports : \E e \in resp_queue[p] : e.th = t /\ e.id = k
    BY <1>6
  <2>2. PICK e \in resp_queue[p] : e.th = t /\ e.id = k
    BY <2>1
  <2>3. A = {}
    BY <1>2, <2>2 DEF HInv, OneGather, SameInstr
  <2>4. B = {}
    BY <1>1, <1>2, <2>2 DEF HInv, OneGather, SameInstr
  <2>5. C = {p}
    BY <1>2, <2>2 DEF HInv, OneGather, SameInstr
  <2>6. {<<"resp", q>> : q \in C} = {<<"resp", p>>}
    BY <2>5
  <2>7. {<<"noc", n.kind>> : n \in A} = {} /\ {<<"waiting", q>> : q \in B} = {}
    BY <2>3, <2>4
  <2>8. PlacesOf(t, k) = {<<"resp", p>>}
    BY <1>3, <2>6, <2>7
  <2> QED BY <2>8
<1> QED BY <1>4, <1>5, <1>6 DEF GatherSomewhere

LEMMA NoPlace ==
  ASSUME HInv, NEW t \in Threads, NEW i \in DOMAIN rob[t], rob[t][i].state # "executing"
  PROVE  PlacesOf(t, rob[t][i].id) = {}
<1>1. PICK r, k : r = rob[t] /\ k = r[i].id
  OBVIOUS
<1>2. r \in Seq(Instr) /\ RobNumbers(r) /\ i \in DOMAIN r /\ r[i].state # "executing"
  BY <1>1, TypesOf DEF HInv, RobSound
<1>3. \A j \in DOMAIN r : r[j].id = k => j = i
  BY <1>1, <1>2, DistinctIds
<1>4. \A d : ~ExecUpdate(r, k, d) /\ ~ExecGather(r, k, d)
  BY <1>2, <1>3 DEF ExecUpdate, ExecGather
<1>5. \A m : NothingBut(t, k, m)
  BY <1>1, <1>4, NotExecuting
<1>6. ASSUME NEW n \in noc PROVE ~(n.type = "get" /\ n.th = t /\ n.id = k)
  BY <1>1, <1>4 DEF HInv, Held, NocHeld
<1>7. \A p \in Ports : /\ \A e \in active_gather_event[p] : ~(e.th = t /\ e.id = k)
                       /\ \A e \in resp_queue[p] : ~(e.th = t /\ e.id = k)
  BY <1>5 DEF NothingBut
<1> QED BY <1>1, <1>6, <1>7 DEF PlacesOf

LEMMA OnceFromInv == IInv => GatherOnce
<1> SUFFICES ASSUME IInv, NEW t \in Threads, NEW i \in DOMAIN rob[t], rob[t][i].type = "get"
             PROVE  Cardinality(PlacesOf(t, rob[t][i].id)) = IF rob[t][i].state = "executing" THEN 1 ELSE 0
  BY DEF GatherOnce
<1>1. HInv
  BY DEF IInv
<1>2. CASE rob[t][i].state = "executing"
  <2>1. GatherSomewhere(t, rob[t][i].id)
    BY <1>1, <1>2 DEF HInv, GathersKept
  <2>2. PICK x : PlacesOf(t, rob[t][i].id) = {x}
    BY <1>1, <2>1, OnePlace
  <2>3. Cardinality({x}) = 1
    BY FS_Singleton
  <2> QED BY <1>2, <2>2, <2>3
<1>3. CASE rob[t][i].state # "executing"
  <2>1. PlacesOf(t, rob[t][i].id) = {}
    BY <1>1, <1>3, NoPlace
  <2> QED BY <1>3, <2>1, FS_EmptySet
<1> QED BY <1>2, <1>3

(* A gather is neither lost nor doubled between the core and the answer.   *)
THEOREM BarrierGatherOnce == Spec => []GatherOnce
BY BarrierInvariance, OnceFromInv, PTL

(* A barrier is erased by the last answer only.                            *)
LEMMA ErasedBy ==
  ASSUME HInv, Rounds, [Next]_vars, NEW d \in Targets, gather_barrier[d].live, ~gather_barrier'[d].live
  PROVE  \E p \in Ports : AddRep(p) /\ d = Head(serv_trans[p]) /\ AllAnswered(d, p)
<1>1. gather_barrier \in [Targets -> Barrier] /\ Types /\ gather_barrier'[d] # gather_barrier[d]
  BY DEF HInv, Types
<1>2. ASSUME NEW m \in noc, AddReqGather(m) PROVE FALSE
  <2>1. Arrived(m).live /\ m.dest \in Targets
    BY <1>2, ArrivedCount DEF AddReqGather
  <2>2. gather_barrier' = [gather_barrier EXCEPT ![m.dest] = Arrived(m)]
    BY <1>2 DEF AddReqGather
  <2> QED BY <1>1, <2>1, <2>2
<1>3. ASSUME NEW m \in noc, AddReqLastGather(m) PROVE FALSE
  <2>1. gather_barrier' = [gather_barrier EXCEPT ![m.dest] = Released(m)]
    BY <1>3 DEF AddReqLastGather
  <2>2. Released(m).live
    BY DEF Released
  <2> QED BY <1>1, <2>1, <2>2
<1>4. ASSUME NEW m \in noc, Receive(m) PROVE FALSE
  BY <1>1, <1>2, <1>3, <1>4 DEF Receive, Complete, AddReqTwin, AddReqUpdate, port
<1>5. ASSUME NEW p \in Ports, AddRep(p)
      PROVE  d = Head(serv_trans[p]) /\ AllAnswered(d, p)
  <2>1. PICK w \in Targets : w = Head(serv_trans[p])
    BY <1>1, <1>5, AddRepIs
  <2>2. CASE AllAnswered(w, p)
    <3>1. gather_barrier' = [gather_barrier EXCEPT ![w] = NoBarrier]
      BY <1>1, <1>5, <2>1, <2>2, LastAnswerIs
    <3>2. d = w
      BY <1>1, <3>1
    <3> QED BY <2>1, <2>2, <3>2
  <2>3. CASE ~AllAnswered(w, p)
    <3>1. /\ \A c \in Targets \ {w} : gather_barrier'[c] = gather_barrier[c]
          /\ gather_barrier'[w].live = gather_barrier[w].live
      BY <1>1, <1>5, <2>1, <2>3, EarlyAnswerIs
    <3> QED BY <1>1, <3>1
  <2> QED BY <2>2, <2>3
<1>6. ASSUME NEW p \in Ports, PortStep(p)
      PROVE  AddRep(p) /\ d = Head(serv_trans[p]) /\ AllAnswered(d, p)
  BY <1>1, <1>5, <1>6 DEF PortStep, SendTran, Respond, SendPacket, port
<1>7. CASE Progress
  BY <1>1, <1>4, <1>6, <1>7 DEF Progress, Issue, Commit, NetworkAnswer, port
<1>8. ASSUME NEW p \in Ports, SendFails(p) PROVE FALSE
  BY <1>1, <1>8 DEF SendFails, port
<1>9. ASSUME NEW t \in Threads, Fetch(t) PROVE FALSE
  BY <1>1, <1>9 DEF Fetch, FetchUpdate, FetchGather, port
<1>10. CASE UNCHANGED vars
  BY <1>1, <1>10 DEF vars
<1> QED BY <1>7, <1>8, <1>9, <1>10 DEF Next

LEMMA CompleteFromInv ==
  ASSUME IInv, [Next]_vars, NEW d \in Targets, gather_barrier[d].live, ~gather_barrier'[d].live
  PROVE  /\ ~UpdateUnsent(d)
         /\ \A p \in Ports :
              /\ flow'[<<d, p>>] = IdleFlow
              /\ \A i \in DOMAIN downBuffers[p] : downBuffers[p][i].dest # d
         /\ \A t \in Threads, i \in 1..RobSize : i <= Len(rob[t]) /\ rob[t][i].dest = d =>
              rob[t][i].type = "get" \/ rob[t][i].state = "completed"
<1>1. HInv /\ Rounds /\ Types
  BY DEF IInv, HInv
<1>2. PICK p \in Ports : AddRep(p) /\ d = Head(serv_trans[p]) /\ AllAnswered(d, p)
  BY <1>1, ErasedBy
<1>3. serv_trans[p] # <<>>
  BY <1>2 DEF AddRep
<1>4. Joined(d) = Threads /\ flow[<<d, p>>].phase = "answered" /\ NoneFor(downBuffers[p], d)
  BY <1>1, <1>2, <1>3, AnswerIs
<1>5. ~UpdateUnsent(d)
  <2>1. Gathering(d)
    BY <1>4 DEF Gathering
  <2> QED BY <2>1, ApartFromInv DEF RoundsApart
<1>6. ASSUME NEW q \in Ports
      PROVE  /\ flow'[<<d, q>>] = IdleFlow
             /\ \A i \in DOMAIN downBuffers[q] : downBuffers[q][i].dest # d
  <2>1. flow' = [flow EXCEPT ![<<d, p>>] = IdleFlow]
    BY <1>1, <1>2, AddRepIs
  <2>2. FlowBecomes(d, p, IdleFlow)
    BY <1>1, <2>1, FlowSet, IdleFlowIs
  <2>3. CASE q = p
    BY <1>4, <2>2, <2>3 DEF FlowBecomes, NoneFor
  <2>4. CASE q # p
    <3>1. QuietAt(d, q)
      BY <1>1, <1>2, <1>3, <2>4, LastIsLast
    <3>2. flow[<<d, q>>] = IdleFlow /\ NoneFor(downBuffers[q], d)
      BY <3>1 DEF QuietAt, Quiet
    <3> QED BY <2>2, <2>4, <3>2 DEF FlowBecomes, NoneFor
  <2> QED BY <2>3, <2>4
<1>7. ASSUME NEW t \in Threads, NEW i \in 1..RobSize, i <= Len(rob[t]), rob[t][i].dest = d
      PROVE  rob[t][i].type = "get"
  <2>1. PICK q \in Ports : \E e \in active_gather_event[q] : e.dest = d /\ e.th = t
    BY <1>4 DEF Joined
  <2>2. PICK e \in active_gather_event[q] : e.dest = d /\ e.th = t
    BY <2>1
  <2>3. ExecGather(rob[t], e.id, d)
    BY <1>1, <2>2, BarrierAssumption DEF HInv, Held, EventsHeld
  <2>4. PICK r : r = rob[t]
    OBVIOUS
  <2>5. r \in Seq(Instr) /\ RobOrder(r) /\ i \in DOMAIN r
    <3>1. r \in Seq(Instr) /\ RobOrder(r) /\ RobSize \in Nat
      BY <1>1, <2>4, TypesOf, BarrierAssumption DEF HInv, RobSound
    <3> QED BY <1>7, <2>4, <3>1
  <2>6. PICK j \in DOMAIN r : r[j].state = "executing" /\ r[j].dest = d /\ r[j].type = "get"
    BY <2>3, <2>4 DEF ExecGather
  <2>7. j = 1 /\ (1 < i => r[i].dest # d)
    BY <2>5, <2>6 DEF RobOrder
  <2> QED BY <1>7, <2>4, <2>5, <2>6, <2>7
<1> QED BY <1>5, <1>6, <1>7

(* The gathers are answered only when every update of the round is in the  *)
(* sum.                                                                    *)
THEOREM BarrierAnswerComplete == Spec => AnswerComplete
<1>1. IInv /\ [Next]_vars =>
        [\A d \in Targets : gather_barrier[d].live /\ ~gather_barrier'[d].live =>
           /\ ~UpdateUnsent(d)
           /\ \A p \in Ports :
                /\ flow'[<<d, p>>] = IdleFlow
                /\ \A i \in DOMAIN downBuffers[p] : downBuffers[p][i].dest # d
           /\ \A t \in Threads, i \in 1..RobSize : i <= Len(rob[t]) /\ rob[t][i].dest = d =>
                rob[t][i].type = "get" \/ rob[t][i].state = "completed"]_vars
  BY CompleteFromInv
<1> QED BY <1>1, BarrierInvariance, PTL DEF Spec, AnswerComplete

-----------------------------------------------------------------------------
(***************************************************************************)
(* The ports use every sub-flow as Reduction expects.                      *)
(***************************************************************************)
Subs == Targets \X Ports
Phases == [f \in Subs |-> flow[f].phase]
Sent == [f \in Subs |-> flow[f].issued]
Totals == [f \in Subs |-> flow[f].total]

(* One sub-flow becomes g.                                                 *)
LEMMA SubflowMaps ==
  ASSUME NEW d \in Targets, NEW p \in Ports, NEW g, FlowBecomes(d, p, g), NEW f, f = <<d, p>>
  PROVE  /\ f \in Subs
         /\ Phases' = [Phases EXCEPT ![f] = g.phase]
         /\ Sent' = [Sent EXCEPT ![f] = g.issued]
         /\ Totals' = [Totals EXCEPT ![f] = g.total]
<1>1. f \in Subs
  BY DEF Subs
<1>2. \A e \in Subs : flow'[e] = IF e = f THEN g ELSE flow[e]
  BY DEF FlowBecomes, Subs
<1> QED BY <1>1, <1>2 DEF Phases, Sent, Totals

LEMMA SubflowStutter ==
  ASSUME flow' = flow
  PROVE  UNCHANGED Subflows!vars
BY DEF Subflows!vars

(* A packet enters a sub-flow as Reduction allows.                         *)
LEMMA PacketIsReduction ==
  ASSUME IInv, NEW p \in Ports, SendPacket(p)
  PROVE  Subflows!Next
<1>1. HInv /\ Rounds /\ Types
  BY DEF IInv, HInv
<1>2. PICK b, x, d, fl, f : b = downBuffers[p] /\ x = Head(b) /\ d = x.dest /\ fl = flow[f] /\ f = <<d, p>>
  OBVIOUS
<1>3. /\ b \in Seq(Tran) /\ b # <<>>
      /\ d \in Targets /\ x.type \in {"update", "get"}
      /\ x.type = "get" => FlowBecomes(d, p, [fl EXCEPT !.phase = "gather"])
      /\ x.type = "update" => FlowBecomes(d, p, [fl EXCEPT !.issued = @ + 1])
  BY <1>1, <1>2, SendPacketIs
<1>4. fl \in FlowState /\ f \in Subs
  BY <1>1, <1>2, <1>3, FlowIs DEF Subs
<1>5. PICK a, c : a = tran_buf[p] /\ c = serv_trans[p]
  OBVIOUS
<1>6. Quiet(a, b, fl, c, d) \/ Fed(a, b, fl, c, d) \/ UnderWay(a, b, fl, c, d)
  <2>1. QuietAt(d, p) \/ FedAt(d, p) \/ UnderWayAt(d, p)
    BY <1>1, <1>3 DEF Rounds, Round, Collecting, Answering
  <2> QED BY <1>2, <1>5, <2>1 DEF QuietAt, FedAt, UnderWayAt
<1>7. Phases[f] = fl.phase /\ Sent[f] = fl.issued /\ Totals[f] = fl.total
  BY <1>2, <1>4 DEF Phases, Sent, Totals
<1>8. /\ Phases \in [Subs -> {"update", "gather", "answered"}] /\ Sent \in [Subs -> Nat]
      /\ Totals \in [Subs -> Nat]
  <2>1. \A e \in Subs : flow[e] \in FlowState
    BY <1>1 DEF Types, Subs
  <2>2. \A e \in Subs : /\ flow[e].phase \in {"update", "gather", "answered"} /\ flow[e].issued \in Nat
                        /\ flow[e].total \in Nat
    BY <2>1 DEF FlowState
  <2> QED BY <2>2 DEF Phases, Sent, Totals
<1>9. CASE x.type = "update"
  <2>1. PICK g : g = [fl EXCEPT !.issued = @ + 1]
    OBVIOUS
  <2>2. g.phase = fl.phase /\ g.issued = fl.issued + 1 /\ g.total = fl.total /\ g.issued > 0
    BY <1>4, <2>1 DEF FlowState
  <2>3. fl.phase = "update"
    <3>1. Head(b).dest = d /\ Head(b).type = "update"
      BY <1>2, <1>9
    <3>2. /\ ~Quiet(a, b, fl, c, d)
          /\ Fed(a, b, fl, c, d) => fl.phase = "update" /\ Fed(a, Tail(b), g, c, d)
          /\ UnderWay(a, b, fl, c, d) => fl.phase = "update" /\ UnderWay(a, Tail(b), g, c, d)
      BY <1>3, <2>2, <3>1, PacketUpdate
    <3> QED BY <1>6, <3>2
  <2>4. FlowBecomes(d, p, g)
    BY <1>3, <1>9, <2>1
  <2>5. /\ Phases' = [Phases EXCEPT ![f] = g.phase]
        /\ Sent' = [Sent EXCEPT ![f] = g.issued]
        /\ Totals' = [Totals EXCEPT ![f] = g.total]
    BY <1>2, <1>3, <2>4, SubflowMaps
  <2>6. Phases' = Phases /\ Totals' = Totals /\ Sent' = [Sent EXCEPT ![f] = @ + 1]
    BY <1>4, <1>7, <1>8, <2>2, <2>5
  <2>7. Subflows!Update(f)
    BY <1>7, <2>3, <2>6 DEF Subflows!Update, Phases, Sent, Totals, Subs
  <2> QED BY <1>4, <2>7 DEF Subflows!Next, Subs
<1>10. CASE x.type = "get"
  <2>1. PICK g : g = [fl EXCEPT !.phase = "gather"]
    OBVIOUS
  <2>2. g.phase = "gather" /\ g.issued = fl.issued /\ g.total = fl.total
    BY <1>4, <2>1 DEF FlowState
  <2>3. fl.phase = "update" /\ fl.issued > 0
    <3>1. b \in Seq(Tran) /\ b # <<>> /\ Head(b).dest = d /\ Head(b).type = "get" /\ g.phase = "gather"
      BY <1>2, <1>3, <1>10, <2>2
    <3>2. /\ ~Quiet(a, b, fl, c, d) /\ ~Fed(a, b, fl, c, d)
          /\ UnderWay(a, b, fl, c, d) =>
               fl.phase = "update" /\ fl.issued > 0 /\ UnderWay(a, Tail(b), g, c, d)
      BY <3>1, PacketGather, ZenonT(60)
    <3> QED BY <1>6, <3>2
  <2>4. FlowBecomes(d, p, g)
    BY <1>3, <1>10, <2>1
  <2>5. /\ Phases' = [Phases EXCEPT ![f] = g.phase]
        /\ Sent' = [Sent EXCEPT ![f] = g.issued]
        /\ Totals' = [Totals EXCEPT ![f] = g.total]
    BY <1>2, <1>3, <2>4, SubflowMaps
  <2>6. Phases' = [Phases EXCEPT ![f] = "gather"] /\ Totals' = Totals /\ Sent' = Sent
    BY <1>4, <1>7, <1>8, <2>2, <2>5
  <2>7. Subflows!Gather(f)
    BY <1>7, <2>3, <2>6 DEF Subflows!Gather, Phases, Sent, Totals, Subs
  <2> QED BY <1>4, <2>7 DEF Subflows!Next, Subs
<1> QED BY <1>3, <1>9, <1>10

LEMMA AnswerIsReduction ==
  ASSUME IInv, NEW d \in Targets, NEW p \in Ports, NetworkAnswer(d, p)
  PROVE  Subflows!Next
<1>1. Types
  BY DEF IInv, HInv
<1>2. PICK fl, f, g : /\ fl = flow[f] /\ f = <<d, p>>
                      /\ g = [phase |-> "answered", issued |-> fl.issued, total |-> fl.issued]
  OBVIOUS
<1>3. fl.phase = "gather" /\ FlowBecomes(d, p, g)
  BY <1>1, <1>2, NetworkAnswerIs
<1>4. f \in Subs /\ g.phase = "answered" /\ g.issued = fl.issued /\ g.total = fl.issued
  BY <1>2 DEF Subs
<1>5. /\ Phases' = [Phases EXCEPT ![f] = "answered"]
      /\ Sent' = [Sent EXCEPT ![f] = fl.issued]
      /\ Totals' = [Totals EXCEPT ![f] = fl.issued]
  BY <1>2, <1>3, <1>4, SubflowMaps
<1>6. Phases[f] = fl.phase /\ Sent[f] = fl.issued
  BY <1>2, <1>4 DEF Phases, Sent
<1>7. Sent' = Sent /\ Totals' = [Totals EXCEPT ![f] = Sent[f]]
  BY <1>5, <1>6 DEF Sent
<1>8. Subflows!Answer(f)
  BY <1>3, <1>5, <1>6, <1>7 DEF Subflows!Answer, Phases, Sent, Totals, Subs
<1> QED BY <1>4, <1>8 DEF Subflows!Next, Subs

LEMMA TakenIsReduction ==
  ASSUME IInv, NEW p \in Ports, AddRep(p)
  PROVE  Subflows!Next
<1>1. HInv /\ Rounds /\ Types
  BY DEF IInv, HInv
<1>2. PICK d, fl, f : d = Head(serv_trans[p]) /\ fl = flow[f] /\ f = <<d, p>>
  OBVIOUS
<1>3. serv_trans[p] # <<>>
  BY DEF AddRep
<1>4. d \in Targets /\ fl.phase = "answered"
  BY <1>1, <1>2, <1>3, AnswerIs
<1>5. flow' = [flow EXCEPT ![<<d, p>>] = IdleFlow]
  BY <1>1, <1>2, AddRepIs
<1>6. FlowBecomes(d, p, IdleFlow)
  BY <1>1, <1>4, <1>5, FlowSet, IdleFlowIs
<1>7. f \in Subs /\ IdleFlow.phase = "update" /\ IdleFlow.issued = 0 /\ IdleFlow.total = 0
  BY <1>2, <1>4 DEF Subs, IdleFlow
<1>8. /\ Phases' = [Phases EXCEPT ![f] = "update"]
      /\ Sent' = [Sent EXCEPT ![f] = 0]
      /\ Totals' = [Totals EXCEPT ![f] = 0]
  BY <1>2, <1>4, <1>6, <1>7, SubflowMaps
<1>9. Phases[f] = "answered"
  BY <1>2, <1>4, <1>7 DEF Phases
<1>10. Subflows!Finish(f)
  BY <1>8, <1>9 DEF Subflows!Finish, Phases, Sent, Totals, Subs
<1> QED BY <1>7, <1>10 DEF Subflows!Next, Subs

LEMMA SubflowStep == IInv /\ [Next]_vars => [Subflows!Next]_(Subflows!vars)
<1> SUFFICES ASSUME IInv, [Next]_vars PROVE Subflows!Next \/ UNCHANGED Subflows!vars
  OBVIOUS
<1>1. ASSUME NEW m \in noc, Receive(m) PROVE flow' = flow
  BY <1>1 DEF Receive, Complete, AddReqTwin, AddReqUpdate, AddReqGather, AddReqLastGather, memnet
<1>2. ASSUME NEW p \in Ports, PortStep(p) PROVE Subflows!Next \/ flow' = flow
  BY <1>2, PacketIsReduction, TakenIsReduction DEF PortStep, SendTran, Respond, memnet
<1>3. CASE Progress
  BY <1>1, <1>2, <1>3, AnswerIsReduction, SubflowStutter DEF Progress, Issue, Commit, memnet
<1>4. CASE \E p \in Ports : SendFails(p)
  BY <1>4, SubflowStutter DEF SendFails
<1>5. CASE \E t \in Threads : Fetch(t)
  BY <1>5, SubflowStutter DEF Fetch, FetchUpdate, FetchGather, memnet
<1>6. CASE UNCHANGED vars
  BY <1>6, SubflowStutter DEF vars
<1> QED BY <1>3, <1>4, <1>5, <1>6 DEF Next

LEMMA SubflowInit == Init => Subflows!Init
<1> SUFFICES ASSUME Init PROVE Subflows!Init
  OBVIOUS
<1>1. \A f \in Targets \X Ports : flow[f] = IdleFlow
  BY DEF Init
<1>2. IdleFlow.phase = "update" /\ IdleFlow.issued = 0 /\ IdleFlow.total = 0
  BY DEF IdleFlow
<1> QED BY <1>1, <1>2 DEF Subflows!Init

(* Every sub-flow the ports feed into the network is a Reduction: its      *)
(* gather behind the last update and after at least one, nothing between   *)
(* the gather and the answer.                                              *)
THEOREM BarrierImplementsReduction == Spec => SubflowsAreReductions
<1>1. Init => Subflows!Init
  BY SubflowInit
<1>2. IInv /\ [Next]_vars => [Subflows!Next]_(Subflows!vars)
  BY SubflowStep
<1> QED BY <1>1, <1>2, BarrierInvariance, PTL DEF Spec, SubflowsAreReductions, Subflows!Spec
=============================================================================
