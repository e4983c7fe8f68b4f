# TradeSystem: a verification project in TLA+

TradeSystem is a small low-latency exchange and a trading client in C++. This
directory models its core as TLA+ modules, checks them with TLC on small
instances, and proves theorems about seven of them (the ring, the matching engine,
the audit trail, the client's order path, the byte stream, the order session and
the market-data path) with TLAPS for every value of their constants. `PROJECT.json` maps every definition to the lines it
models.

## 1. The system

Two processes, each with several threads that talk through single-producer
single-consumer rings (`LFQueue`):

```
 exchange   OrderServer --sort--> requests --> MatchingEngine --> responses --> OrderServer
                                                     |
                                                     +--> updates --> MarketDataPublisher --> UDP incremental
                                                                          |
                                                                          +--> SnapshotSynthesizer --> UDP snapshot

 client     MarketDataConsumer --> updates --> TradeEngine --> requests --> OrderGateway <--TCP--> OrderServer
                                                   ^------------ responses --------'
            main thread: RANDOM orders, quiesce, stop
```

`ASSERT` and `FATAL` end the process. The design is fail-closed: where a queue
that must not lose anything is full, or an internal check fails, the exchange
exits. The models keep this as a variable `halted`.

### Inventory

| Part (source) | State | Operations | What is hard | What makes it correct | Module |
|---|---|---|---|---|---|
| `LFQueue` (`common/lf_queue.h`) | ring, head, tail, watermark, full count | push, batch push, peek (a pointer into the ring), pop | two threads, each deciding on a cursor value that may be old; cursors that wrap; batches | no slot written while it can be read; FIFO; a batch is visible all or not at all | `LFQueue`, `BoundedQueue` |
| `MEOrderBook`, `MatchingEngine` (`exchange/matcher`) | price rings, FIFO per level, client index, positions, last response per order, next market id | new, match loop, rest, cancel, query | long sequences of legal requests, partial fills, pools at their limit, two output queues | price-time priority, book never crossed, update stream replays the book, responses add up | `MatchingEngine` |
| `SnapshotSynthesizer` (`exchange/market_data`) | its own copy of the orders, last sequence number, cycle | addToSnapshot, publishSnapshot | must never disagree with the book | its assertions never fire | `MatchingEngine` (replica), `MarketData` (cycles) |
| `MarketDataPublisher` | next sequence number | number, send, forward | none by itself | numbers without gap | `MarketData` |
| `MarketDataConsumer`, `MarketRecovery` (`trading/market_data`) | recovering flag, expected number, snapshot and incremental caches, generation | live path, caching, build, commit, retry | lost, repeated, reordered datagrams, altered snapshot frames; snapshot cycles that overlap; full output queue | the engine trusts a book only if it is the true one; recovery ends | `MarketData` |
| `TradeEngine` market-data half | local book, `market_generation_` / `applied_generation_` | apply, refuse, commit marker | generation changed by one thread while another commits | as above | `MarketData` |
| `TradeEngine` order half, `RiskManager`, `OrderManager`, strategies (`trading/strategy`) | reservations, pending sums, position, order per side, admitting/reconciled flags | moveOrders, sendClientRequest, onOrderUpdate, quiesce | main thread and engine thread admit at once, request queue full after the reservation, fills racing cancels, repeated responses | limits hold for the true exposure, no order is forgotten, quiesce cancels everything | `TradeEngine` |
| `OrderGateway` (`trading/order_gw`), `OrderServer`, `FIFOSequencer` (`exchange/order_server`) | sequence numbers both ways, session owner and epoch, pending batch, buffers of bounded size | send, receive, accept, reject, take over, sort, publish, respond, quiesce, stop | back pressure in every buffer, retained frames, reconnect, a QUERY that takes a dead session over, shutdown in steps with deadlines | every request and response exactly once and in order; a clean stop leaves nothing open | `OrderSession` |
| `exchange_main`, `trading_main` | phases of shutdown | quiesce, stop | order of the steps | accepted requests are answered | `OrderSession`, `TradeEngine` |
| `MarketOrderBook` (local book, `trading/strategy`) | orders and levels in pool blocks, a ring of prices per side, a FIFO ring per level, two indices, BBO | onMarketUpdate: add, modify, cancel, clear, markers | pointers followed long after they were set, branches for first, last and only nodes, exhausted pools | all structures describe the same orders; they are a price-time book; the BBO is its quote | `LocalBook`, `PriceTimeBook` |
| `MemPool` (`common/mem_pool.h`) | used flags, free stack | allocate, deallocate | exhaustion, double release | no block handed out twice, none lost | `MemPool` (in `LocalBook`) |
| `TCPSocket`, `TCPServer` (`common`) | send and receive buffers with offsets, list of connections | send, flushSend, sendAndRecv, poll | short writes, frames cut in two, compaction, both directions full, an edge-triggered listener, connections never reclaimed | the frames accepted arrive as they are; back pressure never becomes a deadlock | `TcpStream` |
| `CriticalJournal` (`common/critical_journal.h`) | a file and its mutex | create, append with fsync | two writers, partial writes, a crash between any two steps | what a client may have seen is on record; the record can be replayed | `AuditTrail` |
| `McastSocket` | datagram buffers | send, receive | loss, repetition, order | | the faults only (`MarketData`) |
| `PositionKeeper` | position, VWAP, P&L | addFill, updateBBO | floating point | | the position only (`TradeEngine`) |
| Wire protocols | none | encode, decode, validate | field limits | a message survives the trip | refusals (`MatchingEngine`, `OrderSession`), frames as bytes (`TcpStream`) |
| `Logger`, configuration, `FeatureEngine`, hash-map book, helpers, benchmarks | | | | | not modelled, see section 7 |

`PROJECT.json` lists the hazards of this code at their lines, each with the
properties that would reveal it or the reason why none does yet.

## 2. Modules

| Module | Models | Variables and actions |
|---|---|---|
| `BoundedQueue` | the promise of a ring | the contents `q` and the last element taken; `Push(vs)` is all or nothing |
| `LFQueue` | `lf_queue.h` at the grain of one atomic access per step | `PushLoad, PushWrite, PushRelease, PushMark` are the parts of `push`; `Peek`, `Read`, `Pop` those of the consumer. A load of the other side's cursor may return any value it has had since the last load: release/acquire permits that |
| `MatchingEngine` | one ticker's book, its client requests, both output queues, the snapshot replica | `RejectNew, AcceptNew, Match, Rest, Cancel, Query`. One pass of the match loop is one step, so that queues fill in the middle of a request; within a step `Emit` pushes the messages one by one in the code's order and ends the process at the first that does not fit |
| `MarketData` | the feed from the engine's update stream to the client's local book | exchange: `PublishIncremental, Synchronize, PublishSnapshot`; network: `Lose, Garble` and delivery within a window; consumer: `Receive..., ObserveGeneration, PublishRecovery`; engine: `EngineUpdate, EngineCheckMarker, EngineStoreMarker` (the check of the generation and the store of it are separate steps) |
| `TradeEngine` | one ticker of the client's order path | `MoveBid`, `MoveAsk` (the two halves of moveOrders; the other thread and the other side of the queues may act in between), `OnOrderUpdate, RandomNew, RandomCancel`, the five steps of quiesce, and the exchange at the far end of the queues |
| `OrderSession` | gateways, server, sequencer, an engine that answers | gateway: `GatewaySend, GatewayRecv, GatewayStop, GatewayDone, GatewayLost`; server: `ServerRead, ServerNoticeClose, ServerAccept, ServerReject, ServerBind` (a frame that must wait may already have bound its connection), `SequenceAndPublish, ServerRespond`; shutdown: `ExchangeQuiesce, ExchangeQuiesced, ExchangeEngineStopped, ExchangeStopped, ExchangeDeadline`; `Crash`; a second connection: `PeerSend, PeerRecv` |
| `MemPool` | `mem_pool.h` as operators on a pool `[used, free]` | `Allocate, Deallocate`, the assertions `MayDeallocate`, the free stack in its order |
| `PriceTimeBook` | the promise of a local book | a queue per side and price, and its `Quote`; `Add, Modify, Cancel, Clear` |
| `LocalBook` | `market_order_book` by its pointers, over two `MemPool`s | `OnAdd, OnModify, OnCancel, OnClear, OnMarker`, built from `AddOrder, AddOrdersAtPrice, RemoveOrder, RemoveOrdersAtPrice, BBO`. Each step also makes the same update to an instance of `PriceTimeBook` |
| `TcpStream` | one connection, byte by byte, and the list it is accepted into | `PollAccepts, PollNothing`; per end `FlushWrite, FlushDone, FlushError, FlushRefused, Retry, RecvRead, RecvDone, RecvClosed, NextRound`, one system call each; `Request, Respond, Take, Die` |
| `AuditTrail` | the journal, the two threads that append, the disk below | `Lock, Write, Sync` (with what the caller then does, `Continue`), `Start, SyncDirectory, Archive`, `Receive, Reject, Respond, Flush, ApplyRequest`, `ProcessCrash, MachineCrash` |
| `LFQueueProofs`, `MatchingEngineProofs`, `AuditTrailProofs`, `TradeEngineProofs`, `TcpStreamProofs`, `OrderSessionProofs`, `MarketDataProofs` | | the theorems about the module each is named after |
| `CommonLemmas` | | what several proofs need: least elements and induction, sums over finite sets, sequences with an element more or less |
| `MC_*` | | symmetry sets, batches and update streams for TLC |

Operators that stand next to a definition and describe a plausible slip in the
same lines (`ReleaseBeforeCopy`, `CapacityOffByOne`, `CommitOneEarly`, ...) are
mutants: each property is known to fail when the definition is replaced by one
of them.

### Abstractions a reader should know

* `LFQueue`: cursors run modulo 2 * Capacity, as in the code; the capacity is a
  power of two, which the code enforces, so `%` agrees with its masks.
  `seenHead` and `seenTail` are ghosts: the newest value of the other side's
  cursor that a thread has loaded. Elsewhere an `LFQueue` is a bounded sequence,
  which is what the refinement theorem justifies.
* `MatchingEngine`: the price rings and the per-level FIFOs are sequences (the
  client's book, which links them in the same way, is modelled by its pointers
  in `LocalBook`). The run also evaluates an assumption, `AddOrdersAtPriceSorts`:
  inserting a price into any sorted ring of up to four prices keeps it sorted,
  which goes beyond the three prices of the instance. The cap on market order ids is the code's own
  check, with a small constant. A ledger of what each client has been told and
  the replica of the synthesizer read the queues' input, so that they are
  compared with the book at every step. When a full queue ends the process
  (`halted`), what was pushed before the stop remains visible: the replica has met
  no assertion, no client has been contradicted, and no client takes less of an
  order to be open than is. The memory of the ended process is otherwise of no
  account, as nothing reads it again.
* `MarketData`: a datagram carries one frame, so losing a datagram of several
  frames is several losses. The book hash is taken to be free of collisions.
  "garble" alters a snapshot frame that still decodes; "damage" is a datagram
  that does not. An incremental that is altered and still decodes is outside the
  fault model: the live path applies it as it is (`market_data_consumer.cpp:113`),
  nothing in the protocol could tell, and `TrustedBookIsTrue` would not hold. `LocalOrders = 1` makes the local book refuse an update, which
  the equal pool sizes of the two processes rule out in the build: the run
  exercises that defensive path, and with it the generations that the engine
  starts. When the last incremental is lost and nothing follows, nothing reveals
  the loss: a live consumer stays trusted, with a true but old book.
  `TrustedBookIsTrue` says exactly this. `bestSeq` is a ghost, how far the
  trusted book had come; it starts again where the consumer forgets that too, by
  a damaged datagram, an overflowing cache or an event the engine refused.
  `refused` is a ghost too: the local book refused an event since the last CLEAR
  because its pool was full. Until that CLEAR the local book lacks an order, and
  later updates of this order are refused as well, which `EngineNeverRejects`
  leaves out; such a book is never trusted. `Streams` may be any sequences of
  updates that replay a book (`StreamsAssumption`), which is what
  `FeedIsTheBook` proves of the matching engine. Generations start at 2,
  since the consumer's constructor begins one, so the bound on them is at least 2.
* `TradeEngine`: prices only matter as equal or different. The strategies'
  signals choose among quotes arbitrarily. The loss limit, a floating-point
  test, is an arbitrary input. Order ids are never reused by this client, so the
  DUPLICATE_ID refusal cannot occur; STATE answers are left out, because no code
  of the client sends QUERY. `Reorders` lets the exchange take a cancel before
  the order it is about: `FIFOSequencer` sorts by receive time, and a wall clock
  that is set back between two reads has that effect. Such a cancel is refused,
  and quiesce does not repeat it, so `Flattens` leaves this case out; the limits
  hold in it.
* `OrderSession`: receive times may be equal (`MaxTime` bounds them) but never step
  back, where the code's are those of the wall clock: `RequestsExactlyOnce` holds
  only as long as the clock is not set back, since the sort may otherwise exchange
  two requests of one client. What that does to the client's limits is checked
  in `TradeEngine` (`Reorders`). `rid` is a ghost counter
  per client that identifies a response; the code's `response_id_` is global,
  and only its order matters. Any accepted request gets an answer and perhaps
  fills for either party. The second connection speaks for the same client, at any
  time: before the client's first request, when it may bind the id that is still
  free, during the session, and after the client's crash, when a query takes the
  session over, also one that is then refused as ill-formed; a connection
  that changes the client it names is refused with IDENTITY whatever it sends,
  and is left out. A takeover starts the numbering of responses at 1 even if the
  connection was refused before and had used that number, so on such a
  connection numbers repeat (compare the comment at `order_server.h:317`); no
  gateway of this repository ever queries, so no property is stated about it.
* `LocalBook`: a refused update changes nothing and is not an action. Priorities
  are stored by the code and read by nothing in this book. A released block
  holds no object, so following a stale pointer would be noticed at once.
* `TcpStream`: both ends use frames of the same size, where the code has 50 and
  79 bytes. Every request gets one response with its number. A loop may end
  after each call, which includes the budget of eight calls. The other
  connections only take places in the list. Frames that are still in the
  receive buffer when the peer closes are never handled, as in the code.
* `AuditTrail`: a record has two parts, so that a write, or a crash, can end
  inside one. Each request has one response; `Reject` buffers it before it is
  audited and `Flush` runs on the same thread. The operator who reconciles and
  moves a journal away is part of the model, because the constructor refuses to
  start over an existing one.

## 3. Runs

Each run asks one question. Bounds are the smallest at which the cases of the
question occur; larger ones mostly repeat them.

| Run | Instance | What it shows |
|---|---|---|
| `lfqueue` | 2 slots, 2 values, single pushes and batches of 2 | `NoDataRace, BorrowStable`, refinement of the bounded FIFO (`QueueSpec`) and `Drains`. Two slots suffice for wrap-around, full, empty and stale views of both sides; the theorems cover all sizes |
| `matching` | 2 clients (symmetric), 2 order ids each, 3 prices, quantities 1 and 2, 3 market ids, 2 levels, queues of 2 | `BookConsistent, NeverCrossed, FeedReplaysBook, ClientsReconcile, PriceTimePriority`. Partial fills, sweeps of two orders, self-trades, refusals, queues and ids exhausted. With more prices than pooled levels, `BookConsistent` also says that the capacity test before matching suffices for the level taken after it |
| `marketdata` | the streams ADD, ADD, CANCEL and ADD, MODIFY; 2 snapshot cycles, one in flight at a time; a loss, a repetition, an altered snapshot frame or a damaged datagram; reordering within a window of 2; caches and queue of 6, a local book of 1 order, so that the second ADD is refused and its CANCEL as well | `TrustedBookIsTrue, TrustedFeedIsGapless, EngineNeverRejects, NoRegress`, also when caches overflow, the queue is full and the engine itself starts generations. The theorems cover any number of faults and any stream |
| `marketdata_live` | ADD, CANCEL; 2 cycles that may overlap, one loss | `CatchesUp` |
| `tradeengine` | market maker or taker, 2 prices, clip 2, limit 2, request queue of 1, one repeated response | `PendingIsSum, NeverUnreconciled, NoOrphans, QuiesceCoversAll`. The queue of 1 makes the second request of moveOrders fail after the first was sent; the taker withdraws a side |
| `tradeengine_random` | the main thread as second producer, 2 orders of quantity 1 or 2, limit 1 (after a fill of one side an order of 2 on the other is within it, and partly filled); a cancel may overtake its order | `WithinLimits, TrueExposure, Flattens` |
| `tradeengine_move` | market maker | **a violation**, see section 6 |
| `ordersession` | 2 clients, 2 requests each, fills, all buffers of 1 to 3, 2 receive times, so that requests arrive at the same or at different ones | `RequestsExactlyOnce, PendingExact` under back pressure everywhere, and `EventuallyAnswered` |
| `ordersession_restart` | 1 client, 2 epochs, 2 requests and then 1, buffers of 1, a response queue of 3 so that a fill fits; a second connection with 2 frames, at any time, among a query, an ill-formed query and an order with numbers of the first session (the other refusals, which the model also has, are left out to keep the run small), one receive time; client and exchange may stop at any time, deadlines may pass | `RequestsExactlyOnce, ResponsesExactlyOnce`: frames and answers of the old session never reach the new one, and no takeover lets an order in twice; `CleanStop, ShutdownAnswers`; and `SessionSurvives`: the second connection ends the client's session only by having bound its id first |
| `localbook` | 3 order ids, 3 prices, 2 quantities, a pool of 2 or of 3 levels | `BookSound, BookImplements`. Three prices are needed for a level between others, three orders for a FIFO with a middle; 2 levels make the pool run out |
| `tcpstream` | frames of 2 bytes, user buffers of 3, kernel buffers of 2, queues of 1, 3 requests, 2 places in the list, 2 other connections | `StreamIntact, AllAnswered`. The odd capacity makes frames wrap at every offset and compaction necessary; all buffers are smaller than the frames under way |
| `audittrail` | 4 requests, 3 starts | `SeenIsDurable, JournalReplays`, with crashes of both kinds at any point, also while a journal is created |

Each module's `TypeOK` is checked in its main run. Most runs switch off deadlock
checking, because the instances are finite: clients run out of order ids, the
update stream ends, a process halts or has stopped, starts are used up. The ring
and the local book never stop, and their runs check deadlock.

`NoRegress` does not reach across a damaged datagram or a cache overflow. After
one of these the cache holds no incremental to connect to, so a late snapshot
with an older watermark may be committed and the trusted book goes back in time,
though it is a true book of the past, and the following incrementals bring it
forward again or reveal a gap.

## 4. Fairness

Weak fairness only, and only of what a polling thread does unconditionally:

* `LFQueue`: a push that was begun continues; the consumer keeps peeking and
  popping. Nobody has to call push.
* `MarketData`: all threads poll; the snapshot timer fires as long as cycles
  remain. `CatchesUp` is stated for a consumer that is recovering when the
  faults are over and one cycle is still to come, since in the model (not in the
  code) cycles are limited.
* `TradeEngine`: the engine handles responses, the exchange answers, quiesce
  goes on and its deadline passes. Nothing has to trade and nobody has to stop.
* `OrderSession`: gateways, server, sequencer and engine poll. No client has to
  submit, stop or crash. The socket actions are fair one by one, as the server
  visits every ready socket in each round. `EventuallyAnswered` leaves out an
  exchange that has stopped fail-closed, and its run has no second connection,
  which could hold the client's id for ever.
* `TcpStream`: each of the two polling threads goes on, as one loop (weak fairness
  of `Gateway` and of `Server` as a whole, not of their steps), and the trading
  engine takes responses. Within a loop the kernel may always take the smallest
  amount. Sending requests, dying and other connections are not fair.

## 5. Proofs

### The ring (`LFQueueProofs`)

Assumptions: Capacity is a positive power of two (`CapacityAssumption`,
`PowerOfTwoAssumption`), and batches are non-empty sequences of values
(`ValuesAssumption`).

* `Inductive`: `Spec => []IndInv`. `NoDataRace` is not inductive, since it says
  nothing of the cursor copies with which the threads decide. `IndInv` adds
  `CursorOrder` (seenHead, head, seenTail, tail follow each other around the
  ring, and together span at most Capacity), `BatchFits` (after the check there
  is room for the batch, although head may have moved on since) and
  `WatermarkInv` (the watermark is taken from the stale head, hence an upper
  bound). The arithmetic modulo 2 * Capacity is in the first lemmas.
* `Safety`: `IndInv` implies `NoDataRace`, `BorrowStable`, `WatermarkCovers`.
* `Refinement`: `Spec => QueueSpec`. `PushRelease` appends the whole batch,
  `Pop` removes the head, every other step leaves `Contents` alone. The
  sequences are compared element by element from `IndInv`.

### Common lemmas (`CommonLemmas`)

The library's induction theorems take an operator, which the provers here cannot
instantiate. `SetInduction` and `SubsetInduction` state the same facts with a set
in place of the operator: a set of numbers that holds 0 and successors holds
`Nat`, a set of subsets that holds {} and is closed under adding an element
holds every finite subset. They are proved from the existence of a least element
and of a cardinality. From them follow what `SumFunction` of the community
modules computes: the empty sum, one element taken apart in any order, a changed
element.

### The matching engine (`MatchingEngineProofs`)

Assumptions: prices, quantities and order ids are positive numbers, the pools and
queues have sizes (`BookAssumption`), and the value for "no order being matched"
is not an order (`NoOrderAssumption`). Clients, prices and quantities may be any
sets.

* `EngineInductive`: `Spec => []EngineInv`. `BookInv` is what every operation on
  the book keeps: `BookConsistent`'s parts (rings sorted and exactly the
  non-empty levels, levels exactly the live orders, index exact, FIFOs in order
  of market id) and `Uncrossed`, which unlike `NeverCrossed` holds in the middle
  of a request too, because the taker is not in the book. `TakerInv` is what
  is known of the order being matched between two passes of the loop, above all
  that a level is left in the pool for its rest: `add()` tests this once, before
  the loop, and the loop only releases levels.
* `BookIsConsistent`, `BookIsUncrossed`, and `FillsHavePriority`
  (`PriceTimePriority`, an action property) follow.
* `QueuesInductive`: the output queues stay within their capacity (`QueueTypes`).
  Under it the lemmas `EmitResponse, EmitUpdate, EmitCancel, EmitFill` say what the
  receivers have after a step: all of its messages, or the first of them and the
  process has ended. `TypeCorrect` follows from both invariants.
* `ClientsAreReconciled`: `LedgerInv` adds `Remembered`, that
  `last_order_response_` and the clients' ledger agree on what is open of every
  order ever accepted. Without it a cancel of an order that is gone could
  contradict what the client knows. Where the process ends in mid-match the
  invariant keeps the lower bound only: what a client takes to be open is at least
  what rests.
* `FeedIsTheBook`: `FeedInv`, the replica is the projection of the live orders
  and no assertion of the synthesizer fired, for every step that sends an update;
  if the step stops in between, the replica has a TRADE more at most.

### The audit trail (`AuditTrailProofs`)

Assumptions: the numbers of requests and starts are naturals (`AuditAssumption`);
`None` is neither a thread nor a file (`NoneAssumption`).

Both theorems, `JournalCanBeReplayed` and `AnswersAreDurable`, come from one
invariant `AuditInv`. `ThreadInv` and `TailInv` say that the owner of the mutex
is the only one with a part of a record in the file, that this part is the file's
tail and exactly what a machine crash may take away: so records never mix and
a crash leaves whole ones. `LifeInv` ties the threads to the life of the process
and covers a crash while the journal is being created. `OrderInv` (no record
twice, received before applied before answered) is not inductive by itself:
`FreshInv` and `RequestInv` say which records are not yet in the file for a
request on its way through the queue. `DurableInv` follows a response from the
engine's queue over the outbound buffer to the client: in each place its record is
synced, or, for a refusal, the server thread is still appending it and cannot
flush before.

### The client's order path (`TradeEngineProofs`)

Assumption: `TradeEngineAssumption` (types and signs of the constants).

* `RiskInductive`: `Spec => []RiskInv`, with
  `RiskInv == Types /\ WithinLimits /\ GateClosed /\ QuiesceCoversAll`.
  `GateClosed` is the strengthening that `QuiesceCoversAll` needs: after quiesce
  has closed the gate no reservation is added. `Reserve` keeps the limits by the
  pre-trade check, `Rollback` after a full queue undoes exactly what `Reserve`
  did, `Release` moves quantity from pending to position. `LimitsHold` and
  `QuiesceIsComplete` follow, for every algorithm, limit, capacity and
  interleaving of both threads.
* `OrderInductive`: `Spec => [](RiskInv /\ OrderInv)`. `OrderInv` relates the
  client to the exchange. Its heart is `ChainInv`: for each order there is a
  sequence of quantities, one per response in flight, that leads from what
  the client has reserved for it (`Known`) to what the exchange can still fill
  (`AtExchange`), and each response changes it as the client will. Then whatever
  response comes next finds the reservation it needs. `Numbering` makes a
  repeated response recognisable, `QueueInv` and `NewsInv` describe the
  orders on their way, `IdInv` that no two orders have the same id.
* `TypeCorrect`, `PendingIsTheSum`, `OrdersAreKept` follow, so
  the subtractions from `pending_buy_` and `pending_sell_`, which are unsigned in
  the code, never wrap around.
* `NeverLosesTrack`: `NeverUnreconciled`, assuming `~Reorders`. The assumption is
  needed: a cancel that overtakes its order is refused with nothing left of it,
  which contradicts the reservation, and the client rightly stops trading. The run
  that checks the property has `Reorders = FALSE` as well.
* `ExposureIsBounded`: `TrueExposure`. `FlowInv` adds up the chains over all
  orders: the responses in flight lead from the pending sums to the sums at the
  exchange, and from the client's position to the true one, so that the limits the
  client keeps bound the true position whatever is filled.

### The byte stream (`TcpStreamProofs`)

Assumption: `TcpStreamAssumption`; sizes are positive and a frame fits the user
buffer.

`StreamInductive` and `StreamStaysIntact`. Every byte of a direction has an
absolute position, `Byte(k)` being the k-th byte of the frames 1, 2, ...
`Carried` says that the receive buffer, the network and the unsent bytes are the
segments of these positions that follow the frames handed on, one directly after
the other, and end with the last frame accepted. A write, a read or a compaction
at any offset moves a border between two segments; only whole frames are added
at the end and taken at the front. `Waiting` adds that the server's responses
carry the numbers of the requests. `Inside` keeps every index within its buffer.

### The order session (`OrderSessionProofs`)

Assumption: `OrderSessionAssumption` (capacities and bounds are positive, a later
session has no more requests than the first). The frames of the second connection
are any subset of the five kinds, with any epoch and number, at any time.

`SessionInductive`: `Spec => []SessionInv`, with one lemma per action and, under
it, one step per conjunct. None of the properties is inductive: each depends on
what is still on its way. `SessionInv` is, for each client:

* `GatewayInv`: the queue of the gateway holds the numbers that come next, and
  pending is what was sent less what was answered. For the second half the
  clamp at zero in the gateway must never act, which is `SettleInv`: for every
  answer given or on its way (down the connection, in the response queue, or still
  to be made of a request or a frame) the session has sent a request.
* `SocketInv`: a connection carries the frames of one session; those not yet
  opened carry none, and the server finds closed only what is closed.
* `NumberInv`: the frames on their way to the gateway have the numbers it
  expects, and the server's next number continues them. The number comes from
  the owner's sequence or the connection's own, and binding hands over from
  the one to the other.
* `ReplyInv`: the engine's responses to the client are numbered through from
  the gateway over the connection to the response queue.
* `OrderInv`: the client's orders ascend from the engine back to the sequencer,
  all of the bound session and below the next number expected; receive times in
  the sequencer ascend with them, which is why the sort cannot exchange two.
  `TimeInv` gives the times. After a takeover (`unknown`) no order is accepted
  any more, so the bound on their numbers may be given up.
* `WholeInv`: without a second connection no number is missing, so the request
  the engine takes is the one after the last.
* `AbsentInv`: of a client that has not been bound nothing is at the exchange.
* `SteadyInv`: a first session that goes on is always at the number the server
  expects, so nothing of it is refused, unless the second connection has bound
  the client's id while no one had. The second connection changes neither the
  client's expected number nor its session then: what it sends for an id that the
  client's own connection has bound is refused on the second connection.

`AcceptInv` counts what was accepted over sequencer, queue and engine, and says
that the shutdown empties them in this order. The totals are counted with
`Count(q, S, n)`, how many of the first n elements of q are in S, and the lemmas
say what appending, removing, concatenating and sorting do to it. That
`std::stable_sort` keeps every element and the order of equal times is
proved of `StableSort` (a permutation by rank). From `SessionInv` follow
`SessionTypeCorrect`, `RequestsOnceAndInOrder`, `ResponsesOnceAndInOrder`,
`PendingIsExact`, `StopsClean`, `SessionsSurvive` (an action property: no response
ends a first session) and `ShutdownIsComplete`.

### The market-data path (`MarketDataProofs`)

Assumptions: sizes and bounds are numbers, the cache holds at least a START, an
END and one more and is no larger than the queue (`MarketDataAssumption`; in
the code both are `ME_MAX_MARKET_UPDATES`), and the streams replay a book
(`StreamsAssumption`).

The first lemmas say what `FoldLeft` computes when it folds `Apply`, step by step,
so that `BookAt(n + 1)` is `BookAt(n)` with one update more; that the ADDs of
a snapshot, in the order of their ids, build the book they are taken from; and
what `build()` needs to succeed.

`MarketDataInductive`: `Spec => []MarketDataInv`, with one lemma per action.
`TrustedBookIsTrue` speaks of one thread's book, but whether it will hold was
decided several hand-overs earlier, so the invariant follows the path:

* `NetInv`, `RecOK`: incrementals in flight and in the cache are those of the
  stream; snapshot frames carry the hash of the book at their watermark. Nothing
  is said of what else a frame contains, since it may have been altered: the hash
  check in `build()` is what makes the batch true.
* `CandidateInv`: a batch waiting to be committed starts with CLEAR, applies
  event by event, has the book of its watermark before its marker, and is of the
  generation the consumer has observed.
* `ScriptInv`: there are books `B[0], B[1], ...` along the queue, from the local
  one to the one the live consumer has reached, in which every event applies and
  every marker stands at the book of its number. This is what makes a marker's
  commit safe long after it was queued, also when events of an abandoned
  generation precede it.
* `Markers`: behind a marker of the current generation the queue continues the
  stream without a gap up to what the consumer expects; while the consumer
  recovers, every marker is of an older generation. `Stored` and `Generations`
  carry this over the two steps of the engine between which the other thread may
  start a generation.
* `RegressInv`, with `Ascending`: either some incremental in the cache is at or
  beyond the book once trusted, and every batch has to reach it, or every
  snapshot that can still be used is. Cycles with later numbers cover at least as
  much, which is why dropping the older cycle is safe.

`MarketDataTypeCorrect`, `TrustedBooksAreTrue`, `TrustedFeedsAreGapless`,
`EngineAcceptsAll` and `NeverBackwards` follow. The proof is what showed that
`EngineNeverRejects` needs `refused`: after an ADD refused for want of room, the
events queued behind it are not those of the local book.

### Only model-checked

* Liveness: `Drains`, `CatchesUp`, `Flattens`, `EventuallyAnswered`,
  `AllAnswered`. TLAPS here has neither fairness nor ENABLED.
* `BookSound` and `BookImplements` of `LocalBook`. Both speak of rings followed
  pointer by pointer; a proof would need an induction along every ring for each
  of the insertions and removals. The run covers all positions in a ring (first,
  middle, last, only), and from there on a longer ring repeats the same pointer
  updates.

## 6. Finding

The comment on `OrderManager::moveOrders` (`trading/strategy/order_manager.h:99`)
says that an order whose price *or quantity* does not match is cancelled first.
`moveOrder` compares only the price. The run `tradeengine_move` reaches, by a
partial fill, a live bid of quantity 1 with a clip of 2 at the asked price, which
stays. The limits do not depend on it: `WithinLimits` holds all the same.

## 7. Not modelled

* `FeatureEngine`, volume-weighted prices and P&L: floating point without
  control state.
* `Logger`, clocks, configuration, sockets as system calls, benchmarks,
  notebooks, and the hash-map book and `opt_mem_pool.h`, which no process uses.
* Fields of frames: encoding and decoding are fixed layouts without state.
* `McastSocket`'s buffers, which pack several frames into a datagram: a lost
  datagram of several frames is several losses in `MarketData`.
* An `accept()` that fails while connections wait (no descriptors left): with the
  edge-triggered listener they then wait for the next connection, and `AllAnswered`
  says nothing of them.
* More than one ticker: tickers share no state except the queues and the order
  pool of the synthesizer.

## 8. Plan

Done so far: the ring, matching, the market-data feed, the client's order path,
the order session with takeover and refusals, the local book over its pools, the
byte stream, the audit trail. What is left, the most valuable first:

1. Proofs: `BookSound` of `LocalBook`, and with it `BookImplements`.
2. `ClientSession`: `TradeEngine` composed with the session, so that a lost
   session meets reservations, quiesce and the gateway's drain at stop.
3. The synthesizer's pool shared by all tickers, over `MemPool`; `McastSocket`
   packing.

## 9. Running

`tlc -config MC_LFQueue.cfg MC_LFQueue` and likewise for the other runs (module
and configuration of each are in `PROJECT.json`); `tlapm LFQueueProofs.tla` and
likewise for `CommonLemmas` and the other `*Proofs` modules. The longest runs take
less than two minutes on two cores, the proofs of `TradeEngineProofs`
and of `OrderSessionProofs` from nothing about ten, those of `MarketDataProofs`
about five.
