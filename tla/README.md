# Verification of R2P2

TLA+ models of R2P2 (`src/`), a transport for remote procedure calls over UDP,
of its software router, of HovercRaft, the replication built into it, and of
the user-level network stack below it.  TLC checks the models on small
instances; TLAPS proves for all sizes every safety property that these runs
check, the refinement of the RPC contract included.

`PROJECT.json` lists the components, the runs, which lines of the source each
definition models, the hazards the properties are aimed at, and the places
where code and text disagree.

## The system

| part | source | state it keeps | what makes it hard |
| --- | --- | --- | --- |
| router, FC policy (JBSQ) | `dpdk-apps/r2p2-router.c` | tokens, sent, pending requests, cached target groups | two cores share the counters; the cache is stale while it is used |
| router, RAND, RR, JSQ | `dpdk-apps/r2p2-router.c` | tokens, sent, stack of idle targets, 16-bit index | feedback arrives during a scan; the index wraps |
| RPC protocol | `r2p2/r2p2-common.c` | client and server pairs, request ids | loss, reordering, duplicates; a timeout against a late reply; sockets and ids are reused |
| messages | `r2p2/r2p2-common.c` | buffers of a message, a reader's position | boundaries of iovecs and buffers coincide, empty iovecs |
| pools and lists | `r2p2/mempool.c` | taken flags, counter, links | an unbounded search that trusts a counter; removal in any order |
| Linux backend | `r2p2/linux-backend.c` | sockets, timerfds, the epoll batch | a callback of one event changes what a later event of the batch is about |
| HovercRaft | `r2p2/hovercraft.c`, `hovercraft-log.c` | unordered requests, log ring, reply assignment | two threads per node, lost copies, retried messages, bounded queues |
| DPDK backend, network stack | `netstack/dp`, `netstack/net` | packet buffers and who owns them | every branch of every layer must free, keep or send a buffer |

How they interact: an application calls the RPC protocol, which cuts messages
into buffers and sends them through a backend; with FC, requests go through
the router, and servers send it feedback; with HovercRaft, requests are
multicast, and Raft messages are themselves R2P2 requests.  Pools hold pairs,
buffers, timers and contexts everywhere.

## Modules

Each module models one part.  An action is named after the function it models
where there is one, and a comment says what is abstracted.

* **`RouterFC`** (proofs in `RouterFC_proofs`).
  `fc_fw_main` as a loop with a program counter: `PollDone`, `ScanTarget` (one
  target per step, since the control core may run in between), `SendDirect`,
  `ServeIdle`, `ServeBusy`.  `CtrlIn` is the control core.  `Finish` and
  `Vanish` are the servers; a request that vanishes never gives its slot back.
  `CachedSlots` is what the unused entries of the cached groups stand for.
* **`RouterBasic`** (`RouterBasic_proofs`).  The policies without a queue;
  `JsqScan` reads one target per step.  `IdxSpace` stands for 2^16.  Requests are
  counted by flow: those routed to each target, and the FIXED_ROUTE ones, which
  all go to `targets[0]` and return a token although `sent` was not charged.
  In both router modules a FEEDBACK comes from a target; for any other sender
  `update_tokens` increments `tokens[worker_count]`, one past the array, which
  is not modelled.
* **`R2P2`**, **`RPC`** (runs with `MCR2P2`; `R2P2_proofs`).  `SendReq`,
  `ResponsePart`, `ResponseFull`, `ResponseBad`, `RecvAck`, `RecvDrop`,
  `TimerFires` for the client, `RequestFirst`, `RequestRest`, `SendResponse`
  and the rest for the servers; failed asserts are steps to `crashed`.  For
  requests in `Kept` the application may keep the reply after `success_cb` and
  call `r2p2_recv_resp_done` later (`RecvRespDone`).  The field `event` of a pair
  says that its timer is armed, or that its expiry is already in the batch that
  `r2p2_poll` works on, which disarming does not take back; so `timeout_cb` may
  follow `success_cb` for a pair that is kept.  `RPC` is the contract: run at most
  once, conclude at most once, success only of what ran, a dropped request never
  runs.  `Contract` is the refinement mapping; it takes the first callback as the
  conclusion.
* **`Network`**: packets in flight as a function to the number of copies, used
  by `R2P2` and `Hovercraft`.
* **`Message`** (runs with `MCMessage`; `Message_proofs`).
  `r2p2_prepare_msg` loop by loop (`Count`, `NewBuffer`, `Copy`, `Finish`), then
  calls of `gbuffer_read` and `gbuffer_skip` on the result.  A byte is its
  position in the message.  Sizes are payload sizes, without the header; the
  16-bit width of `p_order` is not modelled.
* **`Mempool`** (`Mempool_proofs`).  `alloc_object` with its search one object
  per step, `free_object`, `add_to_list`, `remove_from_list`.  `list` is a
  history variable: the linked objects in order.
* **`EventLoop`** (`EventLoop_proofs`).  `r2p2_poll` of the Linux backend:
  `EpollWait` takes a batch from the ready list, each `Handle...` action runs
  one event up to its callback, each `...Returns` action what follows the
  callback.  In between the application may send requests (`SendInCallback`) or
  give a reply back (`RecvRespDone`), also after the callback for requests in
  `Kept`.  `Expire`, `Answer` and `BadDatagram` are the kernel and the network;
  `Refused` are the requests that are answered with DROP.  Requests have one
  packet and unique ids here; `R2P2` has the rest, and no batches.
* **`Hovercraft`** (runs with `MCHovercraft`; `Hovercraft_proofs`).  The builds
  with `LB_REPLIES` and `SKIP_NO_SE`, with and without `ACCELERATED`, and with
  either choice of the replier (`SmartLb`).  `HandleReplicatedReq`,
  `DoRaftDuties`, `SendAppendEntries` (assignment of repliers included), the
  `Receive...` actions for each Raft message, `AppendEntriesTimeout`, and
  `ApplyLog` of the worker thread, which interleaves with the others.  The Raft
  library is external: `Taken`, `Missing`, `CommitTo`, `MajorityHas`,
  `CommitIndex`, `Follow` are what `hovercraft.c` needs of it.  Any node may
  campaign, so terms grow and the leader steps down, but only `Leader` is
  elected (again): `BecomeLeader`.  `replied` counts the replies of each node to
  each request.  `ApplyLog` takes `last_applied` and `done` in one step.
  `aborted` names the assert that failed.
* **`NetStack`** (runs with `MCNetStack`; `NetStack_proofs`).  Who has each
  mbuf: the pool, the batch being received, a server or client pair, the
  application, the send buffer, the driver.  A frame is the branch that the
  handlers take for it. `RxBurst`, `EndPoll`, one action per kind of input,
  `SendReq`, `SendResponse`, `Timeout`.  With `Feedback` (FDIR or ACCELERATED) a
  reply needs one more buffer, for `router_notify`.  A chain is freed in one
  step, although the code reads `next` of a buffer it has just freed.  The
  history variable `lost` collects the buffers that the code is known not to
  free: those of ARP replies and TCP segments, and the unsent packets of a
  request that ends before its ACK.

The modules share no state.  They meet in assumptions one makes and another
checks: `R2P2` has packets in sequence numbers as `Message` cuts them, lists of
pairs as sequences as `Mempool` proves them to be, and sockets as `EventLoop`
hands them out.

## Runs

Passing runs:

| run | shows | bounds |
| --- | --- | --- |
| `router_fc` | no slot is lost or counted twice, at most `n` routed requests at a worker, rows of the group table do not overflow, least loaded first; a queued request is forwarded in the end | 2 workers, JBSQ(3), 7 routed requests (one more than the slots), one of them lost: groups are rebuilt several times and are stale in between |
| `router_basic` | what the JSQ counters count, how stale the idle stack may be, shortest queue joined, round robin rotates | 3 workers, 6 routed and 2 FIXED_ROUTE requests, one lost per flow, index wraps at 4, which is no multiple of 3 |
| `rpc_lossy` | one callback per request, and for a kept reply at most a timeout after the success; whole replies, no assert fails, at most once, the contract `RPC`, and every request is concluded | 3 requests on 2 sockets (so sockets are reused while packets are in flight), 2 servers, 1 to 2 packets each way, at most one DROP, the reply to request 1 may be kept; nothing need be delivered |
| `rpc_duplicates` | requests reach the application whole, with duplicated packets too | 2 requests of 3 packets (so later packets come in the wrong order), 2 duplicates |
| `segmentation` | a message is cut without gap or overlap; reads return its bytes in order and in full | all short iovec lists, empty ones included, around sizes 2 and 3 |
| `pool` | exact counter, sound list, the search ends | 4 objects: head, middle and tail removal, full pool |
| `event_loop` | one callback per request, and for a kept reply at most a timeout after the success; a timeout only by its own timer, exact socket count, every request is concluded even if batches are given up | 3 requests, one refused and one whose reply may be kept, 2 sockets, batches of 2, one failed receive; callbacks send no requests |
| `replication` | logs agree on requests and repliers, exactly one reply, exact load, bounded queues | 3 nodes, 2 requests, one of them without side effects, 2 append-entries messages, 1 timeout, every lost copy; ACCELERATED, repliers picked by `smart_lb`, no election |
| `replication_flow` | the leader's ring keeps what is not applied, also when requests queued before it stepped down are ordered after it is elected again | 3 nodes, 4 requests, ring 3 with threshold 1 and batches of 3 (the smallest ring allowed), one append-entries message, up to 2 elections; without ACCELERATED, repliers picked by `bounded_rand` |
| `buffers` | no buffer has two owners, and none is lost but those in `lost` | 5 buffers, 4 frames of any kind, a 2-packet request, batched sending (the run passes with `NO_BATCH = TRUE` too) |

Runs that TLC refutes, each against a line of the source:

| run | what happens |
| --- | --- |
| `event_loop_reuse` | the timer event of an answered request times out the request that has reused its socket, if callbacks send requests |
| `replication_recovery` | a late original copy makes the recovery reply fail an assert |

Limits of what holds.  Some properties hold only under a condition that the
code does not enforce.  TLC shows each of these when the constants of a run
are changed as given:

* `RotatesTargets` has an exception: where the 16-bit index has wrapped the
  rotation starts again at `targets[0]`, which is out of turn unless
  `worker_count` divides 2^16.
* `IdleStackTruthful` does not say that a stacked target is idle.  A token that a
  FIXED_ROUTE request has returned makes `targets[0]` look idle while it holds a
  routed request, although the comment at `r2p2-router.c:172` says "There are
  idle workers -> no need to read"; `BacklogExact` tells by how much.
* `OneOutcome` of `R2P2` leaves out the requests in `Kept`; `KeptOutcome` says
  what these may get.  What an application that still holds such a reply does
  after `timeout_cb` is not modelled; calling `r2p2_recv_resp_done` then would
  free the pair a second time.
* `NoAssertFailure` and `ReplyIntegrity` need a network that does not duplicate:
  refuted with `MaxDup = 1`.  A second ACK meets a pair that has left
  `R2P2_W_ACK`; a repeated first packet of a reply stays in its buffers.
* `JoinsShortest` needs backlogs below 0xFFFFFF, the start value of `min`; the
  theorem states it as `BacklogsFit`.
* `LoadExact` and `QueueBounded` are about the time up to the first election:
  `r2p2_became_leader` resets the counters while replies that count in them may
  still be in flight.
* The aborts of `Hovercraft`.  `"pending"`, `"role"`, `"candidate"` and
  `"response"` are reached in `replication_flow`, `"recovery"` in
  `replication_recovery`.  `"candidate"`: `check_available_slots` asks for one
  free slot, and several entries are then assigned.  `"entry"` is reached from
  `Hovercraft_recovery.cfg` with five nodes and a request that has side effects:
  with all queues full, an append-entries message without entries becomes one
  with an entry beyond the log.  `"apply"` is reached from
  `Hovercraft_flow.cfg` with three requests, a ring of 2 with threshold and
  messages of 1 entry, one request a batch, `PENDING_LIMIT = 2`, no election and
  six append-entries messages: flow control protects the leader's ring, not
  that of a slow follower.  The safety properties hold up to the abort.
* `NoOtherLeak` excepts the buffers in `lost`, so each of its three cases takes
  buffers out of the pool for good.

`CHECK_DEADLOCK FALSE` is given where the bound on requests, a failed assert or
the end of all traffic lets the system stop.

## Fairness

* `RouterFC`: both cores loop forever and a server answers what it holds, so the
  app core, the control core and `Finish` are weakly fair.  A request that
  vanishes takes one slot with it; the run loses fewer than there are.
* `R2P2`: only `TimerFires` is fair.  The kernel expires an armed timerfd and
  the application keeps polling; nothing is assumed of the network.
* `EventLoop`: the application keeps calling `r2p2_poll`, its callbacks return
  and give replies back, armed timers expire.  Nothing is assumed of answers.
* `Mempool`: the loop of `alloc_object` keeps running.

## Proofs

Every invariant and every action property of a passing run is proved, for all
values of the constants that the named assumption of the module allows
(`WorkerCountAssumption`, `R2P2Assumption`, `ParamsAssumption` and so on, each
evaluated by TLC in the runs).  Where a theorem needs more than that, its
statement says so.

* **`RouterFC_proofs`**: any number of workers and slots.  `BoundedQueues` is not
  inductive: the router spends cached entries, not counters.  `IInv` adds
  `PromisedSlots` (an unused entry of group g stands for g + 1 slots that its
  worker has left), `UsedFromTop` and `RowsDistinct` (a worker's entries are
  used from the top group down, one in each), which hold although tokens grow
  during the scan.  `SlotsAccounted` says what `avail_slots` and `idle_slots`
  count.  The slots of an unused entry are taken as a set (`EntrySlots`); sets of
  different entries are disjoint because a row names a worker once, so each step
  of the scan adds, and each request served removes, exactly the slots of its
  entry, and `avail_slots` is the cardinality of the union (`Counted`).
* **`RouterBasic_proofs`**: up to 64 workers, any traffic.  `BacklogIsExact` and
  `StackNeverStale`: the invariant ties `sent - tokens` to requests held,
  feedback in flight, losses and the tokens of FIXED_ROUTE requests.  A stacked
  target has backlog zero or less from the scan on, since only being taken from
  the stack charges it, and it is there once; so it holds no routed request
  beyond those that such tokens hide.
  `ScanJoinsShortest`: `ScanSound` says that `min` is the least of the backlogs
  already read, and stays so while the control core changes the counters behind
  the scan; it assumes `BacklogsFit`.  `RoundRobinRotates`: unless it has
  wrapped, the index is one more than one that led to the last target
  (`InOrder`), for any number of targets and any width of the index.
* **`R2P2_proofs`**: any number of requests, sockets, servers and packets.
  `TypesKept` (proved, not model-checked) and `ReportedOnce` assume nothing of the
  network or of the ids; `ReportedOnce` is about requests that are not in `Kept`,
  as those of the applications of the repository, whatever happens to the others.
  `WholeRequests` holds with duplicates too, if request ids do not wrap
  (`NReq < RidSpace`): `Whole` says of each packet, pair and request in the
  application's hands which request it belongs to, by a map from ids to
  requests.  Without duplicates (`MaxDup = 0`), and for any `Kept`, follow
  `ImplementsRPC`, `RunsAtMostOnce`, `WholeReplies`, `AssertsHold` and
  `KeptReported`.  Their invariant `Once` has three
  parts besides `Whole`.  `Stages`: a request is in one place, which is its first
  packet, a server pair, executed, or dropped.  `Replies`: an ACK, the rest of
  the request and the packets of a reply only follow one another, and a client
  pair that has the first packets of a reply has none of those in flight.
  `Calls`: a pair is open for a request without outcome or kept for one with a
  whole reply.  Each step that preserves them is a step of `RPC` or none.
* **`Message_proofs`**: all payload sizes and messages.  `Segmentation`: `CutInv`
  relates the bytes already copied to the position of the loop
  (`off[iov_idx] + copied`), and the room left to the capacity of the buffer,
  also while sizes are not yet set.  `InOrder` and `Complete` for the reader:
  `ReaderInv` says that what was passed over ends where `left_in_buffer` says,
  so the next byte is the right one on either side of a packet boundary.
* **`Mempool_proofs`**: `CountIsExact`, `ListIsSound`, and `SearchFinds`, which
  says that the search of `alloc_object` has something to find.  The
  invariant adds that linked objects are taken and linked once.
* **`EventLoop_proofs`**: any number of requests, sockets and events in a batch.
  `Typed`, `ReportedOnce` and `ExactCount` hold whatever callbacks do.
  `Holders`, `Waiting`, `Calling` and `Reported` say that a socket has at most
  one request, and which callbacks that request has had: none, or `success_cb`
  if its reply is being handled or kept.  `Delivery` says that a request or its
  answer is on its way once, and no longer after its reply was handled, so no
  second reply or DROP can meet a pair that is kept; only a timer event can.
  `TimeoutsOwn` assumes that callbacks send no requests: only then is a timer
  event in the batch about the request that now has the socket (`TimersOwn`).
  `event_loop_reuse` shows that this is needed.
* **`NetStack_proofs`**: any pool, ring and batch sizes.  Every mbuf has a home:
  the pool, the batch, the send buffer, the driver, a pair, the application or
  `lost` (`Partition`).  Each action moves sets of mbufs from home to home, so
  `OwnedOnce` and `KnownLeaks` follow from one lemma about moving.
* **`Hovercraft_proofs`**: any number of nodes, requests and elections, with and
  without ACCELERATED.  `IInv` is about the logs and everything that was copied
  from them: `LogsAgree` (followers hold a prefix, with the repliers),
  `MessagesTrue` (messages in flight, however old, tell only what the leader's
  log says), `CommitAssigned` (only entries with a replier are committed),
  `MarksTrue` and `AnswersExact` (SHOULD_REPLY and the answers given are those
  of the replier, one for each request), `Once` (no request is ordered twice)
  and `RingFits`.  `Agreement`, `AtMostOneReply`, `AnsweredWhenApplied` and
  `RingKeeps` follow.  `RingKeeps` is where `FC_THRESHOLD + PENDING_LIMIT <=
  LOG_ENTRY_COUNT + 1` of `ParamsAssumption` is needed; the code has 2^14, 128
  and 2^15.  `LoadsExact` and `QueuesBounded` rest on `LoadInv`, which holds
  until the first election: `assigned - done` is the number of entries that a
  node has still to execute, the leader and the replies in flight never tell
  more to be done than is, and a request given to a follower by `smart_lb` found
  a free place in its queue.

Proofs name the prover where it matters; `Hovercraft_proofs` and `R2P2_proofs`
use Zenon unless a leaf says otherwise.

Left to TLC: liveness, which is `RoutedForwarded` of `RouterFC`, `Concluded` of
`R2P2` and of `EventLoop`, and `AllocEnds` of `Mempool`.  The proof system does not
reason about fairness.  For `AllocEnds` it proves the safety part,
`SearchFinds`.

## Not modelled

* HovercRaft: a leader change to another node, SWITCH_AGG, VIEW_CHANGE_EXP, the
  statistics, and the inside of the Raft library.
* The rte_timer objects of the DPDK backend, header fields and checksums, the
  ARP table, set-up of ports and cores.
* Timestamps, the configuration parser, traces and statistics, the sample
  applications: no protocol state.

## Plan

1. A module for rte_timer: objects returned to the pool while pending.
2. HovercRaft with leaders that differ, SWITCH_AGG, and its liveness.
3. Refinement of the FIFO of `pending_routed` by its chain of buffers.
