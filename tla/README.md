# Active-Routing: a verification project

Active-Routing computes reductions *in the memory network*: a program sends
`update` commands (add `*a`, or multiply-accumulate `*a * *b`, into `target`)
and one `gather`; the cubes of a network of Hybrid Memory Cubes read the
operands near where they lie, keep partial sums, and answer the gather when the
whole sum has been added to the target.  The repository is a simulator of such a
machine: McSimA+ (cores, caches, directory, `McSimART/`) on top of CasHMC (the
memory network, `CasHMC/`).

The project models the memory network, with its links and vaults, and the way the
chip uses it, checks them with TLC on small instances, and proves with TLAPS for all
values of the constants how the network counts and carries operands and closes the tree
of a flow, that the answer of a gather stands for exactly the updates before it, that the
barrier of the threads uses the network as agreed, that the links are channels, and that
a vault issues legal commands and loses no response.

## 1. Inventory

| part | state | operations | interacts with |
|---|---|---|---|
| crossbar switch, `CasHMC/sources/CrossbarSwitch.cpp`, `ArtModule.h` | input buffers, `flowTable`, `operandBuffers`, `freeOperandBufIDs`, `multPipeOccupancy` | one scan per cycle over responses, requests, operand buffers, flow table | links, vaults |
| routing and wiring, `RoutingFunction.cpp`, `Network.cpp`, `HMC.cpp` | `neighborCubeID`, pointers master to slave | `findNextLink`, constructors | crossbar, host controllers |
| links, `LinkMaster.cpp`, `LinkSlave.cpp`, `Link.cpp` | token counts, sequence numbers, retry buffer and pointers, state of a retry | send, receive, return tokens and pointers, start, serve and end a retry, time-out | crossbar, host controllers |
| vaults, `VaultController.cpp`, `CommandQueue.cpp`, `DRAM.cpp` | packet buffers, command queues, atomic locks, bank states, `pendingDataSize` | packet to commands, pop, issue, atomic write-back, response, refresh, power-down and -up | crossbar |
| host controllers, `HMCController.cpp`, `McSimART/PTSHMCController.cc` | `gather_barrier`, `active_forests`, `tran_buf`, `resp_queue` | take requests of the chip, barrier of the threads' gathers, answer | cores through the on-chip network, network ports |
| cores, `McSimART/PTSO3Core.cc` | reorder buffer | issue updates freely, the gather at the head only | host controllers, caches |
| vault-level variant, `VLPCrossbarSwitch.cpp`, `VLPVaultController.cpp` | operand buffers in the vaults | as the crossbar, with a compute vault | |
| caches, directory, on-chip crossbar (`PTSCache`, `PTSDirectory`, `PTSXbar`) | line states, sharers, queues | coherence | cores, controllers |
| user-level threads, `Pthread/` | mutexes, conditions, barriers | pthread calls of the simulated program | cores |
| reporting, traces, benchmarks, `pin/`, the older `McSim/` | none of its own that matters here | | |

What is hard here:

* Nothing acknowledges an update.  A cube knows that a flow is complete only by
  comparing two counters (`req_count`, `rep_count`) that four kinds of event move
  in any order, and the answer of a child carries *no number*: the parent credits
  its own `children_count`.
* The tree of a flow is never sent; each cube recomputes its parent from the
  packet.  Forward route and reverse route must agree in every topology.
* A two-operand update is taken apart in several steps, with an operand buffer
  held from the first; a page-sized one goes through them once per line in the
  same packet object.
* Every buffer is bounded, requests wait for operand buffers, links, vaults and
  room for their own copies.
* The gather must stay behind the updates, through reordering buffers and ports.
* A link pays for room in the far buffer with tokens that come back inside
  unrelated packets, and two retries, one per direction, can meet.
* A vault makes the response of a write or an atomic exactly once and ignores
  whether it was taken; only a counter of reserved flits stands in between.
  Refresh and power-down are decided on state that a command on the bus is about
  to change.

`PROJECT.json` lists the hazards line by line, with the properties that would
catch each.

## 2. Modules

| module | models | role |
|---|---|---|
| `Topology` | `dFlyRF`, `meshRF`, `DFly::DFly`, `MeshNet::MeshNet`, `get_src_cubeID` | pure operators |
| `RouteWalk`, `MCRouteWalk` | one packet hopping through a topology | checks the operators |
| `ActiveRouting` | `CrossbarSwitch::Update` of all cubes, links, vaults, host ports | the core |
| `Reduction` | what a flow promises | abstract specification of `ActiveRouting` |
| `MCActiveRouting` | instances for TLC, wired and routed by `Topology` | |
| `GatherBarrier` | reorder buffers of the cores, ports of `PTSHMCController`, `HMCController` | the chip side; uses the network as `Reduction` |
| `MCGatherBarrier` | instances for TLC | |
| `LinkFlowControl` | `LinkMaster`, `LinkSlave`, `Link` of two neighbours, both directions | the links in detail |
| `LinkChannel` | what a pair of links promises: FIFO channels | abstract specification of `LinkFlowControl`; what `ActiveRouting` uses |
| `MCLink` | instances for TLC | |
| `Vault`, `MCVault` | `VaultController`, `CommandQueue`, `DRAM` of one vault | the vaults in detail; `ActiveRouting` uses a bounded set of reads |
| `ActiveRoutingProofs` | type correctness, counters and operand buffers of a cube | proofs |
| `ActiveRoutingFlight` | how a step moves packets between links, buffers and vaults; packets as the cubes make them | lemmas, extends `ActiveRoutingProofs` |
| `ActiveRoutingOnce` | what is under way is under way once | proofs, extends `ActiveRoutingFlight` |
| `ActiveRoutingTree` | the tree of a flow and how the gather closes it | proofs, extends `ActiveRoutingOnce` |
| `ActiveRoutingExact` | the lines of a flow over the whole network; `ActiveRouting` implements `Reduction` | proofs, extends `ActiveRoutingTree` |
| `BarrierProofs` | reorder buffers, barrier and rounds of a target, use of `Reduction` | proofs |
| `LinkProofs` | tokens, sequence numbers, refinement of `LinkChannel` | proofs |
| `VaultProofs` | legality of commands, room for responses | proofs |

### How `ActiveRouting` corresponds to the code

`CrossbarSwitch::Update` scans in every cycle all responses, all requests, all
operand buffers and the flow table.  One iteration of a scan on one element is
one action; TLA+'s interleaving covers every order in which the scans, and the
switches of different cubes, can meet.

| code | model |
|---|---|
| `inputBuffers[l]->downBuffers` | `downBuffers[c][l]`, a sequence (the gather looks at the packets ahead) |
| `inputBuffers[p]->upBuffers` and the links that lead there | `upBuffers[c][p]`, a set: no step depends on the order of responses |
| link master, wire, link slave (requests) | `link[c][l]`, a FIFO of at most `LinkCap` packets |
| vaults of a cube | `vault[c]`, at most `VaultCap` reads, finished in any order |
| `flowTable`, `operandBuffers`, `freeOperandBufIDs`, `multPipeOccupancy` | the variables of the same names |
| `*dest += flowEntry.result` | `memory[f]`; every operand (or product) is 1, so a sum is the number of its terms |
| `halfPkt1`, `halfPkt2` | `half`, 0, 1 or 2 |
| `PTSHMCController`, `HMCController` | `HostUpdate`, `HostGather`, `HostRead`, `HostReceive` |

Actions of requests: `AddLocal`, `AddForward`, `MultLocal`, `MultHalfLocal`,
`MultSplit`, `MultForward`, `MultHalfForward`, `GetReplicate`, `GetMark`,
`Forward`, `ReadLocal`; of responses: `OperandReturn`, `ChildReply`,
`ForwardResponse`; of the processing: `AddFinish`, `MultStart`, `MultStep`,
`GatherReply`.  Each is the whole branch of the code with its counting,
reservation and hand-over.

Decisions a reader should know:

* Any free operand buffer may be taken; the code takes the one freed first.
* What only delays is left out: `vault_mask`, `bufPopDelay`, one addition and one
  multiplication started per cycle, and on the links flits, tokens and retry, which
  `LinkFlowControl` shows to amount to channels (`IsChannel`).
* The guards `Expected` of `OperandReturn` and `valid` of the gather actions are
  assertions in the code.  `AssertsHold` says that they never fail, so the guards
  hide nothing.
* A host sends updates, then one gather, and waits for the answer before it uses
  the flow again.  This is an assumption about the chip side; `GatherBarrier` shows
  that the chip keeps to it (`SubflowsAreReductions`).  `flow_id = dest_addr << k | port`
  makes each port's sub-flow a flow with one `Root`.
* A response for a host is always taken (`responseQ`); the program empties it.
* Requests larger than `ADDRESS_MAPPING` (segment packets) are not modelled.

### How `GatherBarrier` corresponds to the code

A gather is a barrier of all threads.  Each thread's gather goes to the port of
the thread; the updates of the target went to ports chosen by the scheme (always
port 0, the thread's port, or the port of the operand's address).  The last gather
makes every port that carried updates send one to the network, a dummy where no
thread waits; the last answer answers all threads.

| code | model |
|---|---|
| `o3rob`, `o3rob_head`, `o3rob_size` | `rob[t]`, oldest first; `id` is the ring index |
| messages through `NoC` and directory, or direct ones | `noc`, a set: any order |
| `gather_barrier`, `active_forests` (static, shared by the ports) | the variables of the same names; `live` says the key is present |
| `active_mult_twins`, `active_gather_event`, `tran_buf`, `resp_queue` | the same, per port |
| `HMCController::downBuffers`, `gatherBarrier`, `serv_trans` | the same, per port |
| the network | `flow[<<target, port>>]`, external to this module: what `Reduction` says |

* Dispatch, issue, completion and commit are `FetchUpdate`/`FetchGather`, `Issue`,
  `Complete`, `Commit`; `add_req_event` is `AddReqTwin`, `AddReqUpdate`,
  `AddReqGather`, `AddReqLastGather`; `process_event` is `SendTran`, `AddRep` (with
  `add_rep_event`) and `Respond`; `HMCController::Update` is `SendPacket`,
  `SendFails` and, upstream, `NetworkAnswer`.
* `tran_buf` is ordered by time of arrival, so a FIFO.
* What the program owes: threads reduce the targets in the same order, none uses a
  target again before its own gather of it returns, and some thread (`Leader`) has
  an update in every round.  Nothing in the chip enforces the second: the reorder
  buffer lets a younger update of the same target overtake a waiting gather.
* `et_art_dot`, PEI operations, ordinary reads and writes of a port, statistics and
  latencies are left out.

### How `LinkFlowControl` corresponds to the code

Between two neighbours there are two links; at each end a `LinkMaster` sends and a
`LinkSlave` receives, and each slave calls methods of the master beside it.  Each
such method is an operator from the record of a master to its next value; the
branches of `LinkMaster::Update`, `Link::Update` and `LinkSlave::Update` are the
actions.

| code | model |
|---|---|
| `LinkMaster`, `LinkSlave` at end `e` | the records `master[e]`, `slave[e]`, fields with the code's names |
| a packet of `n` flits, `n - 1` places of the buffer `NULL` | one element with `LNG = n` |
| `Link::inFlightPacket` | `inFlightPacket[e]` |
| `NoisePacket` | `Arrive` may invert the CRC, `MaxNoise` times, never of a gather |
| the crossbar or controller at the end | `Accept`, `TakeUp`, `TakeDown` |

* `bufPopDelay` and the countdown of a CRC only delay and are left out; a slave works
  on the first packet that has arrived.
* The `NUM_OF_IRTRY` copies travel back to back and all but the first change nothing,
  so the instances use one.
* The CRC of `IRTRY` and `PRET` is never checked in the code; corrupting it has no
  effect and is not a choice of the model.
* `Accept` is guarded by `currentState # "LINK_RETRY"`, as every caller is
  (`CrossbarSwitch.cpp:248, 648, 780, 867`, `HMCController.cpp:165`).
* The retry timer is longer than any answer takes (the comment at
  `LinkMaster.cpp:651`), so it fires only when no answer is on its way.
* `MaxSEQ` is 7 in the code and 2 in the instances: enough for a number to count and
  then to stop counting.
* `pending[e][k]` is history, for the refinement of `LinkChannel` and for `InStep`: the
  packets of kind `k` that the master of `e` took and the slave at the other end has not
  accepted, oldest first.
* The build has `CRC_CHECK` off; then the retry buffer is never written and no packet
  is corrupted.  `link_tokens` is that case, `link_retry` the other.

### How `Vault` corresponds to the code

`VaultController::Update` runs the same blocks in every cycle; each block is an
action, and every duration (bank timing, countdowns, delays of buffers) is left to the
interleaving.  The commands of a request, the search of `CmdPop`, the reservation and
the bank states are kept.

| code | model |
|---|---|
| `downBuffers`, `upBuffers`, `pcuPacket`, `pendingDataSize` | the same; a response is named by its request |
| `CommandQueue::queue`, `atomicLock`/`atomicLockTag`, `issuedBank`, `refreshWaiting` | the same, the two locks in one |
| `cmdBus`, `writeDataToSend` with `dataBus`, `atomicCMD` | the same |
| `DRAM::readReturnDATA` with `readData`, `bankStates` | the same |
| `tRFC` after a REFRESH | `refreshCycle`, history |

* Commands treated alike are one: `RD` for all reads, `ADD16` for the atomics that
  answer with one flit, `XOR16` for those that answer with two, and so on.
* `PRECHARGING` begins with the auto-precharge command; in the code the bank is
  `ROW_ACTIVE` a little longer, during which `nextRead` and `nextWrite` keep it from
  taking commands.
* The pass of `Update` over `downBuffers` is a fold of `Convert`, which keeps the
  code's slip of the index: the packet behind one that was removed is skipped.
* `MayPop` has `~powerDown`: a queue that fills while the DRAM is down has `POPCYCLE` 1,
  so `EnablePowerdown` runs before the first pop.  `PowerUp` has `cmdBus = NULL`
  because `tCKE` is longer than `tCMD`.  `RefreshDue` waits for `tRFC`, as
  `REFRESH_PERIOD` is a hundred times longer.
* The exits on a collision of the data bus, `pendingReadData`, and `rowAccessCounter`,
  which counts only under the open-page policy, are left out, and so are that policy
  and the single queue for all banks (`OPEN_PAGE`, `QUE_PER_BANK`: not the defaults).

## 3. Runs

| run | instance | shows |
|---|---|---|
| `add_tree` | cubes 0, 1, 2, 4 of the dragonfly, 1 flow, 2 updates, an ordinary read, 1 operand buffer per cube | `CountsBalance`, `TreeEdges`, `NoLateUpdate`, `ReadInFlight` |
| `mult_split` | the same cubes, 2 two-operand updates with operands in cubes 1, 2, 4 | `OperandsInFlight`, `OperandAtHome`, `AssertsHold`, `ReplyComplete`; `GatherAnswered` under fairness |
| `page` | two cubes, updates of up to 2 lines, 3 lines, 2 operand buffers, pipeline of depth 1 | `BuffersSound`, `GatherExact` |
| `two_hosts` | path 0-1-4-5 with hosts at both ends, one multiplying and one adding flow | `IsReduction` (refinement of `Reduction`), `AssertsHold`, `EntriesSound` |
| `split_page` | updates of 2 lines with operands in cubes 2 and 4 | the first finding |
| `gather_targets` | each of the three schemes, 2 threads, 2 ports, 2 targets, reorder buffer of 2 | `SubflowsAreReductions` (refinement of `Reduction`), `RoundsApart`, `GatherOnce`, `AssertsHold` |
| `gather_barrier_live` | each scheme, one- and two-operand updates, both threads gather at port 0 | `AnswerComplete`; `GatherReturns` under fairness |
| `routes` | every source and destination of the dragonflies of 16 and 64 cubes and of the 4x4 mesh | `ParentIsSender`, `NeighbourIsDirect`, `LinksArePaired`, `Minimal` |
| `link_tokens` | a request of two flits one way, two responses the other way, buffers of two flits, no CRC | `TokensConserved`, `IsChannel` (refinement of `LinkChannel`); `PacketsArrive` under fairness |
| `link_retry` | two requests, one of them a gather, CRC, retry buffer of three places, two packets corrupted | `NoExit`, `InStep`, `IsChannel`; `PacketsArrive` under fairness |
| `vault` | two banks; a read of 64 bytes, a write and an atomic add of one bank, a PEI read; three requests at a time; refresh, power-down | `NoResponseLost`, `ReservationExact`, `CommandLegal`; `RefreshIssued`, `Answered` under fairness |
| `vault_refresh` | the read and the write | the second finding |

Deadlock is checked in every run but `link_tokens`, where a packet that is stuck
violates `PacketsArrive`.

Bounds.  `MaxUpdates` lines per gather, `MaxLines` per update, `LinkCap`,
`CrossCap`, `VaultCap` packets, `Bufs` operand buffers.  The four-cube corner has
a root with two children, a child that is on the way to another quad, and the
split points that matter (at an operand, at the root, at an inner cube).  An
operand in the root itself is met in `add_tree` and `two_hosts`.  One
operand buffer with two or more updates makes every reservation contended, two
buffers with a pipeline of depth 1 contend for the pipeline, and a link that
holds one packet makes both branches of `MultSplit` happen.  Rounds are not
bounded: after the answer a host starts again, so stale state of a round would
be met in the next.  In `GatherBarrier` two threads, two ports and two targets are
the least with which a port has updates and no gather, a gather and no updates, or
both, and with which one target is gathered while the other is updated.  Symmetry
is used for operand buffers in `page`.

On the links the packets of an end are sent again and again, so token counts,
sequence numbers and retry pointers pass all their values, and the pointers go round.
A buffer of two flits is full with one long packet; a retry buffer of three places is
nearly full with two.  `TokensConserved` is stated without retry: a retry pays tokens
back before it spends them again.  `MaxNoise` of 2 lets a packet be corrupted again
while it is being sent again.  In `Vault` at most `MaxOpen` requests are in the vault at a
time, without end; `MAX_CMD_QUE` of 4 is full with the read and its ACTIVATE and one
more command, and `MAX_VLT_BUF` of 6 has room for the largest response and one flit.

Fairness.  `FairSpec` of `ActiveRouting` is weak fairness of the network as a whole:
every component is updated in every cycle, so as long as some step is possible some
step happens.  Hosts need not send.  This is weaker than fairness of each component,
and enough because each round has finitely many steps.  In `GatherBarrier` every thread
also goes on with its program, and a link is not full for ever (the network drains:
`mult_split`, `link_tokens`).  In `LinkFlowControl` each of master, link and slave is
treated weakly fairly, as each is updated in every cycle, and what lies behind a slave
drains; nobody has to send.  In `Vault` each block of `Update` is weakly fair; the pop
of a bank is strongly fair, because the search of `CmdPop` starts behind the bank that
was served last, so that a bank that is passed over comes first later.

### Findings

`split_page`: when the link of operand 1 takes the first packet of a split,
`CrossbarSwitch.cpp:647-704` leaves `DESTCUB` as it was in the packet that was
copied.  From the second line of a page on that is `DESTCUB2` (set at line 699),
so operand 1 of that line is asked of, and read in, the cube of operand 2, unless
the next hop happens to be `DESTCUB1`.  The other branch sets `DESTCUB`
(line 715).  The counters are not affected, so the gather is still answered; the
address is looked up in the wrong cube.

`vault_refresh`: `CmdPop` clears `refreshWaiting` when it pops a REFRESH, and
`EnablePowerdown` at the end of the same `Update` sees idle banks and empty queues and
powers the DRAM down while the REFRESH is still on `cmdBus`.  The REFRESH sets
`nextActivate` to `tRFC` from then, but a request that comes meanwhile calls `powerUp`,
which overwrites it with `tXP` (`DRAM.cpp:209`): a row is opened inside the refresh.

Limits of the code that the passing runs keep clear of, each found with the model on
an instance of its own and recorded with its hazard in `PROJECT.json`:

* Both links of a pair noisy: retries cross, and one end is left dropping packets
  (`LinkSlave.cpp:131`).  The build has `CRC_CHECK` off.
* `PEI_DOT` or `ACT_MULT` of fewer than 16 bytes in a nearly full vault: one flit is
  kept and two are needed, so the response of a write can be lost
  (`VaultController.cpp:237, 250, 276`).  What is kept for a `PEI_DOT` is given up before
  its result has room, so its result can take what is kept for a write as well.  A
  `PEI_DOT` may wait for ever for room; `Answered` leaves it out.
* `EQ8`, `EQ16` under the close-page policy: nobody closes the row.
* A read whose response is as large as `upBuffers` can be passed for ever.

## 4. Proofs

Each theorem holds for every value of the constants that satisfies the named
assumption of its module.

### The cubes: `ActiveRoutingProofs`

Assumed: `ARTAssumption`, finitely many operand buffers and constants of the right
shape.  No property of the routing is used.

* `TypeCorrect`: `Spec => []TypeOK`, one lemma per action.
* `Invariance`: `Spec => []IInv`, with `IInv == TypeOK /\ \A c : CubeSound(c)`.
  `CountsBalance` alone is not inductive.  When a result is added, one buffer is
  released: that lowers the number of reserved buffers only if the buffer *was*
  reserved for that flow, which is `BuffersSound` (a free buffer is clean, hence
  not ready).  When an entry is erased, the counters of the next round start from
  zero, which needs that an absent entry is the empty one (`EntriesSound`), and
  that pipeline and opcode go together.
* `BalanceCorrect`, `BuffersCorrect`, `EntriesCorrect`: the three invariants.
* `ReplyCorrect`: `Spec => ReplyComplete`.  When a cube answers, `req_count =
  rep_count`; with the balance, the reserved buffers and all children's counts are
  natural numbers that sum to zero, so each is zero.

### Operands under way: `ActiveRoutingFlight`, `ActiveRoutingOnce`

Assumed besides: `RouteAssumption`, the link towards another cube is not the link of
the host.  `Topology` has this property and TLC evaluates it for the instances.

* `FlightInvariance`: `Spec => []FInv`, with
  `FInv == IInv /\ PacketsGood /\ BuffersGood /\ ReadsOnce /\ OperandsOnce`.
  `OperandsInFlight` counts carriers and is not inductive: a response fills the buffer
  it was read for only if packet and buffer agree on the flow (`OperandsOnce` speaks of
  one buffer, operand and flow); a buffer is released with nothing under way for it
  because the operands of a ready buffer are there (`BuffersGood`); a response is not
  taken by another cube or a host because of what commands say of their packets
  (`PacketsGood`).
* The argument is by places.  A family of sets gives for each link, buffer, vault and
  queue the items that are looked for; `OneAtMost` says that one place holds one item,
  and each action keeps, moves, makes or consumes the item.  The same lemmas serve
  ordinary reads and operands.
* `OperandsCorrect`, `ReadsCorrect`: `OperandsInFlight` and `ReadInFlight` follow by
  counting the places.  `ResponseAsserts`: the assertions on a returning operand
  (`CrossbarSwitch.cpp:190-193`), one part of `AssertsHold`.
* `AtHomeCorrect`: `OperandAtHome` under `MaxLines = 1`.  With more lines it is false;
  that is the first finding.

### The tree of a flow: `ActiveRoutingTree`

Assumed besides: `TreeAssumption`, what the topologies guarantee of wiring and routes.
The two directions of a link join the same two ports, a neighbour is reached by the link
to it, a cube reaches the host by the host's link only if it is the host's cube, and along
the way of an update from its host to an operand the parent link of a cube leads back to
the cube before it.  `RouteWalk` checks these facts of the three topologies of the code,
and TLC evaluates the assumption for the instances of `ActiveRouting`.  No finiteness and
no distance is assumed: routes may be of any length.

* `TreeInvariance`: `Spec => []TInv`, with `TInv == FInv /\ \A f : FlowTree(f)`.  The
  parent of a cube `c` in the tree of a flow is fixed by the routes (`Above(f, c)`), and all
  updates and gathers of the flow that reach `c` come by one lane: the link from the parent
  and the input buffer behind it.  `FlowTree` says of each lane that nothing of the flow is
  behind a gather (`InOrderLane`) and that packets keep to the way of their operand
  (`Packets`), and of each pair of parent and child that both agree on where the child is
  in its round (`Edge`).  Not counted by the parent, it is idle; counted and not called, it
  grows; called, the copy of the gather waits in the parent's buffer, or is on the lane
  behind all updates, or has marked the entry; answered, it is idle again and the answer is
  under way.  `HostEdge` says the same of the root and its host.
* `TreeEdges` compares flags with packets and entries and is not inductive: that a new
  update finds its way to an entry that may still grow, and that the answer of a child is
  the last thing of it, is what the four states add.  The induction is over steps, not over
  the tree: an action changes one cube, its lanes and the edges to its children.
* `TreeCorrect`: `TreeEdges`, with updates of any number of lines.
* `AssertsCorrect`: `AssertsHold`, where `MaxLines = 1` or every flow adds.  A page-sized
  update that multiplies is excluded as in `AtHomeCorrect`: the last part of
  `RequestAsserts` fails for it with the first finding.
* `LateCorrect`: `NoLateUpdate`, an action property.  An update that is counted is on the
  lane, and a marked entry has none there (`Marked`).

### The sum of a flow: `ActiveRoutingExact`

Assumed: what the tree assumes, and nothing of the number of lines of an update.

* `ExactInvariance`: `Spec => []EInv`, with
  `EInv == TInv /\ \A f : Reach(f) /\ Accounted(f)`.  `Accounted` says where the lines are
  that a host has issued: in the target, in the results and reserved operand buffers of
  the cubes (`Cells`), or still to be offloaded from the updates on the links and in the
  input buffers (`Fill`).  Each step moves a line or leaves all where they are: an update
  that is counted reserves a buffer, one line of a page leaves the packet that stays, a
  finished buffer adds to a result, and a cube that answers adds its result to the target
  and clears it.  That the sum is one of natural numbers with finitely many that are not 0
  is part of the invariant, since the constants may be infinite sets; a sum is the number of
  elements of a set (`Units`), so that one changed number changes it by as much
  (`CellChange`), and no recursion is needed.
* `ExactCorrect`: `GatherExact`.  By `Accounted` it is left to show that an answered flow
  has no line anywhere else.  The root is then idle, by `HostEdge`; the children of an idle
  cube are idle, by `Edge`; so the idle cubes on the way to an operand are closed under
  the next hop and hold the whole way (`IdleWay`).  An entry is only made on the way to
  an operand (`Reach`), so no cube has one (`AllIdle`), and a packet under way would need
  an entry or an operand buffer that waits for it (`NoRequest`, `NoResponse`).  Neither half
  does without the other: the counters of one cube do not show that a subtree is done, and
  an idle tree alone would allow a lost line.
* `NetworkImplementsReduction`: `Spec => IsReduction`, initial states and steps mapped to
  those of `Reduction`.  A step of a host is an update, a gather or the end of a round, the
  answer of the root is the answer, where `GatherExact` gives the sum, and every other
  step of a cube, link or vault is a stutter.

### The gather barrier: `BarrierProofs`

Assumed: `BarrierAssumption`, at least one thread, target and port, and constants of the
right shape.  That the leader has an update in every round is needed for liveness only;
no theorem uses it.

* `BarrierInvariance`: `Spec => []IInv`, with `IInv == HInv /\ Rounds`.  `RoundsApart` is
  not inductive: it is the reorder buffers that keep an update from meeting its own gather,
  and the barrier that keeps it from meeting the gathers of other threads.
* `HInv` is about the instructions.  The numbers in a reorder buffer follow each other
  modulo its size, so that a number names one instruction (`RobNumbers`); a gather that was
  issued is the oldest and nothing behind it is for its target (`RobOrder`).  Every request,
  half of a two-operand update, transaction, waiting gather and answer is for an
  instruction that is executing, of its kind and target (`Held`), is in one place
  (`OneGather`, `OneUpdate`), and no gather is dropped (`GathersKept`).
* `Rounds` is about the targets.  `Joined(d)` are the threads whose gather of `d` waits at
  a port.  While it is not all of them the barrier counts them, the ports of the flow hold
  updates and no gather, the others nothing (`Collecting`).  Once it is, the counter is the
  number of ports whose answer is still due, and each of these has one gather, behind its
  updates, in the port, in the controller, in the network or answered (`Answering`).  An
  update cannot arrive then, since its thread would have a gather of the target executing
  in front of it.
* `BarrierTypes`, `BarrierRoundsApart`, `BarrierAsserts`, `BarrierGatherOnce`,
  `BarrierAnswerComplete`: every safety property of the runs.
* `BarrierImplementsReduction`: `Spec => SubflowsAreReductions`, initial states and steps
  mapped to those of `Reduction`.

### The links: `LinkProofs`

Assumed: `LinkAssumption`, with requests and responses apart, commands of the flow
control apart from both, no packet sent from both ends, and no packet longer than a
buffer.  The theorems speak of links on which no packet that is checked has been
corrupted, `Clean == CRC_CHECK => noise = 0`; without `CRC_CHECK`, the build's setting,
that is every behaviour.

* `LinkInvariance`: `Spec => [](noise \in 0..MaxNoise /\ (Clean => LInv))`.  `LInv` has
  four parts: `Quiet`, masters and slaves outside a retry and packets of known kinds;
  `Linked(e)`, the lane from the slave's buffer over the link to the master's buffer
  read as one sequence, on which the sequence numbers count up from the slave's to the
  master's, stopping where the code stops, and whose packets of each kind are the
  pending ones in order; `Balanced(e)`, tokens of a kind out plus tokens on the way back
  make `MAX_LINK_BUF`; `Offered(e)`, what is pending is what the end sends.  Balance is
  not inductive without the lane: a token count is safe to lower only because what was
  put into the buffers was paid for, and to raise only because what comes back was taken.
* `TokensCorrect`, `StepCorrect`, `ExitCorrect`, `LinkTypeCorrect`: the four invariants.
* `ChannelCorrect`: `Spec /\ []Clean => IsChannel`, initial states and steps mapped
  to those of `LinkChannel`.

### The vault: `VaultProofs`

Assumed: `VaultAssumption`, with finitely many requests, none of them `NULL`, and `NULL`
no command.

* `VaultInvariance`: `Spec => []VInv`; `CommandsCorrect`: `Spec => []CommandLegal`.  A
  pop looks at the bank, but precharge, refresh, power-down and power-up may come before
  the command is there.  `VInv` adds that every ACTIVATE in a queue is followed by a
  command of its request (`Followed`) and so one on the bus finds its queue filled
  (`Awaited`), which keeps the DRAM from being powered down under it, and that refresh,
  power-down and power-up concern all banks at once (`Uniform`).
* `ResponseInvariance`: `Spec => [](VInv /\ RInv)`.  `RInv` names the places a request
  can be in, from `AsPacket` to `AsResponse`, by the kind of its command there (one that
  opens the row, carries data, is final, or writes back).  A request is in one place at
  most (`Separate`) and its commands are in order in the queue (`InOrder`).  The lock of
  a bank belongs to the request that owes a write-back, and only to it (`Locked`); so
  the one place that `AvailableSpace` leaves in a locked queue is still there when the
  write-back is inserted (`Fits`).  What is kept is at least what the requests that wait
  for their response need (`Enough`), and every request is somewhere (`Answerable`).
* `VaultTypeCorrect`: `Spec => []TypeOK`, with requests of every kind: no queue outgrows
  `MAX_CMD_QUE`, `upBuffers` never outgrows `MAX_VLT_BUF`, `pendingDataSize` stays a
  natural number.
* `ReservationCorrect`, `ResponsesCorrect`: `ReservationExact` and `NoResponseLost`
  under `Sound`: there is no `PEI_DOT`, and `XOR16` and `ACT_MULT` have at least 16 bytes.
  `Sound` is what the argument needs and no more than the limit listed above: with it a
  response takes no more than is kept for it, and what is kept no more than `RoomFor` has
  looked for.  Without it TLC finds a lost response of a write on a small buffer (a
  `WR`, a `PEI_DOT` and `MAX_VLT_BUF = 2`).

Sums over buffers and the pass over `downBuffers` are folds of the community modules.
Their definitions choose a recursive function over subsets; that such a function exists
and what it yields for one more element is proved by induction over numbers in the form
"a set of numbers that holds 0 and with `n` also `n + 1` holds all", which follows from
the least element of a set of numbers (`NumberInduction`) and needs no operator as a
parameter.  `RInv`, `VInv`, `LInv`, `FInv`, `TInv`, `EInv` and the invariant of the barrier were checked
with TLC before they were proved.

Every safety property of the runs of `ActiveRouting`, `GatherBarrier`, `LinkFlowControl`
and `Vault` is thus a theorem, under the conditions named above.  Only model-checked: the
routing facts of `RouteWalk`, which are about given tables; the links with corrupted packets
(`link_retry`); and liveness, which is outside what the proof system does.

## 5. Plan

1. Theorems: the links with corrupted packets, that is, `LInv` through a retry.
2. The vault-level variants (`VLPCrossbarSwitch`, `VLPVaultController`): operands are
   combined in the vaults; the properties of `ActiveRouting` carry over.
3. Coherence (`PTSCache`, `PTSDirectory`) as extended for updates, and the thread
   library.

Not modelled: the open-page policy and the single command queue of a vault, requests
larger than a block, the address mapping of the chip (all switched off or not used by
the defaults or the active commands); the event loop and the processes of the front
end, which only order what the modules interleave freely; and, with no state that a
property of the system depends on, `pin/`, statistics and state printing, traces,
benchmarks, plotting and the older `McSim/`.
