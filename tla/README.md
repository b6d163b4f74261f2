# TLA+ verification of Kalshi_Cpp

TLA+ models of the trading client and exchange simulator in this repository,
the TLC configurations that model-check them and TLAPS proofs about them.
Source paths below are relative to the repository.

## The system

| Part | State | Operations | What makes it hard |
|---|---|---|---|
| SPSC queue, `src/core/spsc_queue.h` | two counters, a cached copy of each, the slots | `try_push`, `try_emplace`, `try_pop`, `front`, `pop` | two threads without locks, stale loads, counters that wrap |
| Flat hash map, `src/core/flat_hash_map.h` | slots, size | `insert`, `find`, `erase` | Robin Hood displacement, backward shift, full table, clusters that wrap |
| Pool, `src/core/pool_alloc.h` | blocks, free list inside them | `allocate`, `deallocate` | recycled memory |
| Matching engine, `sim/domain/matching_engine.cpp` | price levels (intrusive lists), order map, best prices | `place_limit`, `cancel` | pointers into recycled blocks, cached best prices, small integers |
| Reactor, `sim/reactor.cpp` | epoll set, callbacks, pending removals | `add_fd`, `remove_fd`, `run` | edge-triggered events, deferred removal, reused descriptors |
| REST server, `sim/http/rest_server.cpp` | buffer per descriptor | listener and connection callbacks, dispatch, response | fragments, aborted clients, accept errors, responses cut off |
| Handlers, market registry, `sim/http/handlers.cpp`, `sim/domain/market_registry.cpp` | engines by ticker | place order | validation in front of the engine |
| REST client, serializer, `src/net` | socket, response buffer | `connect`, `post`, `serialize_action` | failing and interrupted calls, partial responses, wire formats that must agree |
| Book, Signal, OrderManager, `src/feed`, `src/strategy` | levels, best bids, open orders | `apply`, `evaluate`, `reconcile`, `on_*_sent` | actions of several steps, incremental state |
| Hot-path programs, `bench/bench_hotpath*.cpp`, with the parser | payload pool, schedule, barrier, counters, samples | warm up, arm, measure, report | three threads that spin on each other, partial parser output, honest latencies |

The simulator is one thread: the reactor calls the server, the server a
handler, the handler an engine. The client side is two threads joined by the
queue: one parses messages, the other looks up the market, applies the delta,
evaluates the signal, reconciles the orders and serializes the actions. The
hot-path programs are the only place where it is put together; `main.cpp`
of the client is empty.

`PROJECT.json` lists every part, every hazard at its line, and the source
lines each definition stands for.

## Modules

| Module | Models | Checked against |
|---|---|---|
| `SPSCQueue` | the ring, a step per access to shared memory | `BoundedFifo` |
| `MatchingEngine` | the engine with its pool, a step per loop iteration | `PriceTimeBook` |
| `FlatHashMap` (`MCFlatHashMap` adds the symmetry) | the table, a step per loop iteration | `KeyValueMap` |
| `Reactor`, `RestServer` | event loop, server, its clients and the kernel | properties |
| `OrderEntry` (`MCOrderEntry` adds the symmetry) | serializer, REST client, dispatch, handler and registry around the book | properties, `PriceTimeBook` |
| `Quoter` | Book, Signal and OrderManager on one market | properties |
| `HotPath` | the four hot-path programs, their threads and the parser | properties |
| `...Proofs` (eight modules) | theorems about the module they are named after; `MatchingBookProofs` about `MatchingEngine` as a book, `OrderEntryProofs` also about `PriceTimeBook` | |

`BoundedFifo`, `PriceTimeBook` and `KeyValueMap` are the abstract
specifications: what a user of the component may rely on. They are also how
the models are composed: `HotPath` runs its threads over `BoundedFifo`, which
`SPSCQueue` is shown to implement, and `OrderEntry` extends `PriceTimeBook`,
which `MatchingEngine` is shown to implement.

Definitions named after a mutation (`FullOffByOne`, `NeverShifts`, ...) are not
part of the models. Each is a plausible bug that, put in place of the
definition after it, makes TLC report the property `PROJECT.json` names.

### SPSCQueue

A thread reads its own counter exactly. An acquire load of the other one may
return any value that counter has had since this thread last read it
(`Between`): coherence allows stale values but not older ones than seen
before. Counters are modulo `Width`, a multiple of `Capacity`, as 2^64 is.
The slots are `Unwritten` at first (`data_` has no initializer); that the
consumer never gets hold of one is the point of `TypeOK`.
`held` is true from a successful `front` until the next call; `Deref` is the
consumer's use of the pointer. The three push operations differ only in how
the item reaches the slot and share their actions. A call that fails is a
stuttering step of `BoundedFifo`: it may fail spuriously.

### MatchingEngine

`mem` is the pool's memory: the link of a free block overlays `order_id`, as in
the code. `place_limit` is split at its iterations; `cancel` is one step.
`level` is `bids_` and `asks_`, `total` is reduced modulo `QtyModulus`
(2^32). `orders_` is a partial function, justified by `FlatHashMap`'s own check
and by its having twice as many slots as the pool has blocks. Timestamps and
the ids in fills are left out.

As in the code, a NO order at price p is an offer at p: it meets YES orders
at p and above. By `DESIGN.md:271` a NO bid at p is an offer of YES at 1.00 - p;
neither the handler nor the engine converts, so the model does not either.

### FlatHashMap

The hash function is a variable chosen by `Init`, so TLC checks every one. The
sentinel is not a key; the callers keep it out. `MaxLoad` is how many keys the
callers ask for: `Capacity` for callers that never overfill the table, more for
the runs about a full one.

### Reactor and RestServer

A request is `Parts` fragments and complete when all are buffered. `accept`
returns the lowest free descriptor, as POSIX demands, so descriptors are reused.
The order within a batch is open. Clients may stop or close at any time; a
close with unread data may reach the server as an error. `AcceptDrop` is a
failing `fcntl` or `epoll_ctl`. `accept` looks for a descriptor before it looks
at the backlog: once the last one is in use it fails with `EMFILE` even when
nobody waits. Clients are numbered in the order in which they connect, which
costs no behaviour, since they are alike. What the request says and what becomes of the
response is the subject of `OrderEntry`.

### OrderEntry

Posters are processes with one `RestClient` each, used for one request, as the
client closes nothing and the server closes after every response. `api` is
where a poster is in `connect`, `post`, `send_request_` or `recv_response_`, and
then what it returned: `"whole"`, `"cut"` (a body that ended early, which the
client cannot tell), `"empty"`, `"failed"` (to connect) or `"undefined"` (the stream ended
before the status, where `rest_client.cpp:123` searches past the end). Messages
are the fields the handler looks at; a response is how much of it was written
(`written`, four levels) and what it says. The server handles one request at a
time and, while an order is being matched, nothing else, as its one thread does.

`Faulty` is a bound: only these posters meet failing calls, broken connections
and truncated responses, and only these send bad requests and the client's own
serialized actions. The others send good requests over a good connection, out of
`Offers`, a bound as well: bids and offers at both prices that fill each other
wholly and in part. `MaxOpen` bounds how many posters have a connection at a
time; the server handles one request after the other, so a third one that waits
adds only its place in the order of service, and that is open with two. The
proofs are for any `Faulty`, `Offers` and `MaxOpen`.

### Quoter

The venue is external: it announces each change of its book once, in order,
never takes a level below zero, and does what the actions say. At any time it
may also fill, refuse or drop one of our orders (`VenueTakes`); nothing in the
code tells the order manager, whose record stays open, so `gone` has the orders
that are believed open and are not there. The strategy handles a delta completely,
including the actions that follow from it, before the next one, as the
consumer loop of the hot-path programs does. That loop does not report actions
back; the model does so after each one, as `test/test_order_manager.cpp` does.
YES and NO bids trade when they add up to `Par`, which is how `Signal` computes
its spread.

### HotPath

`program` chooses one of `bench_hotpath` (one thread), `bench_hotpath_pipe`
(producer, consumer, main), `bench_hotpath_multi` (with dispatch by ticker) and
`bench_hotpath_paced` (with an arrival schedule). `Init` chooses the payload
pool, the schedule and the hash of the tickers, so TLC checks all of them.
`parse_orderbook_delta` writes its output field by field and stops at the first
bad one, and its result is ignored, as in the callers. A payload longer than all
before makes the parser allocate. `hash_ticker` is injective: the 256 names the
program generates have different hashes. A book is the sequence of the changes
applied to it; `Quoter` says what is computed from one, but only for changes
that keep the levels at zero or above. The programs' payloads are random
(`bench_hotpath.cpp:92-93`) and do take levels below zero, where nothing is
stated of the best bid; the programs only time what follows from it. Time passes
only through `Tick`, at any point of the measured window. Printing, sorting and
percentiles are left out.

## Runs

| Run | Shows | Instance |
|---|---|---|
| `spsc_queue` | no data race, counters in order, no unwritten slot handed out, ring implements the FIFO queue | 4 slots, counters modulo 8, 2 items |
| `spsc_queue_spin` | pushes and pops never stop | 2 slots, modulo 6, 1 item |
| `matching_engine` | blocks, lists, totals, best prices, quantity; implements the book; calls end | 3 blocks, 2 prices, quantities to 2, 5 orders |
| `flat_hash_map` | size, Robin Hood order, implements a map | 4 slots, 5 keys, 2 values, load to 4 |
| `flat_hash_map_ends` | every call ends | 4 slots, 5 keys, 1 value, load beyond full |
| `rest_server` | buffers, single execution, no lost edge, nothing left behind, callbacks end | 3 clients, 3 connection descriptors, 2 parts |
| `quoter` | exact best bids, no orphaned or self-crossing orders, convergence, whatever the venue fills | prices 1 to 6, 6 changes, 2 in flight |
| `hot_path` | no allocation in the window, warm-up outside it, honest samples, exact books, termination | 2 + 4 messages, 2 payloads, 2 markets, queue of 2 |
| `order_entry` | responses are true, orders are traced to requests, what was bought was sold, nobody is overtaken | 4 posters, one faulty, 2 at a time, 2 prices, 3 resting |

The bounds are chosen so that the hard cases occur: the ring wraps, and the
counters with it every second lap; blocks are recycled and a level has a head, a
middle and a tail; the table is completely full and clusters wrap; two clients
share a descriptor one after the other while a third waits; both quotes become
active, move and are withdrawn; the queue of the hot-path programs is full
before, at and after the barrier, and the paced producer falls behind its
schedule and catches up; a third order sweeps two,
and a fourth finds the book full.

Three runs are expected to be violated, each by something the repository says:

* `flat_hash_map_full`: an insert into a full table can return false with
  another key lost (`flat_hash_map.h:67`), against the comment in
  `test/test_flat_hash_map.cpp:211`. The limit of 70% in `DESIGN.md:256` would
  have kept tables from filling up; the code has none. The engine never fills
  its table.
* `rest_server_reuse`: a connection accepted on a descriptor that was closed
  earlier in the same batch loses its callback at the end of the batch
  (`reactor.cpp:73`) and is never served.
* `order_entry_protocol`: the client writes the side as "yes" or "no"
  (`serialize.cpp:45`), the simulator accepts "YES" or "NO" only and answers
  400, against `DESIGN.md:9` and `DESIGN.md:587`.

Deadlock is checked except in the server, quoter and order-entry runs, where
everything stops once the clients or the venue have nothing more to do.

### Fairness

* Sequential code goes on once called: weak fairness of the steps inside a call
  (`MatchingEngine`, `FlatHashMap`), of the server's thread, of the strategy.
  Nothing is assumed of clients or of the venue. `OrderEntry` has no fairness:
  its properties are safety properties.
* `SpinSpec`: weak fairness of both threads, which are pinned to cores and never
  block, and strong fairness of a load returning the current counter: a store
  becomes visible in finite time.
* `HotPath`: weak fairness of main, producer and consumer, which run pinned to
  cores of their own, and of the time-stamp counter.
* `ReturnsToWait` excepts the accept loop without a free descriptor. There
  `accept` reports the same error for ever and the loop at
  `rest_server.cpp:158-162` does not return: the server spins from the moment
  its last descriptor is in use. The property says that this is the only way for
  a callback not to end; that it happens is not a run, since nothing in the
  repository says otherwise.

## Proofs

Proved by TLAPS for every value of the constants that satisfies the named
assumptions. TLC has checked every inductive invariant on the instance of the
component's run first, except `FeedLeads` of the quoter, whose existential
quantifier over sequences of books is too large to enumerate, and `FreeStack` of
the engine, which says that some numbering of the blocks exists; TLC checks there
that the walk along the free list reaches each free block once.

**SPSCQueueProofs**, from `QueueAssumption` (positive capacity, a counter range
that holds the ring at least twice): type correctness, `CountersOrdered`,
`NoDataRace`, and that the ring implements `BoundedFifo`. `CountersOrdered` is
not inductive: whether a store keeps the order depends on the test made before
it. `IInv` adds what each thread knows at its program counter: the producer,
before writing and publishing, that there is room through its stale view, and
that the slot it wrote still holds the item; that every slot between the
counters has been written (`WindowWritten`), hence every value handed out; the consumer, before reading and
storing, that there is an item, and that the value it read is still in the slot.
Race freedom follows because two different counters less than `Capacity` apart
have different slots. The refinement is a case per action: only the stores of
the counters and `Deref` change what the abstract queue sees.

**MatchingEngineProofs**, from `EngineAssumption`: `TypeOK`, in particular that
the scan never leaves the arrays; `BlocksApart`, free list, book and the order
in flight share no block; `Linked`, the lists are linked in both directions and
in arrival order; `HeadIsOldest`, matching begins with the oldest order of a
price; `FreeStack`, the free list is a stack that holds every free block. TLC's
properties follow the lists from the head on; `MemInv` says the same of each
link alone, which is inductive, since a step looks no further than the
neighbours of one block. `FreeLinked` is the free list (every link leads to a
free block, none is reached twice), `Registered` the map, `Linked` the lists,
`Held` the order in flight and the cursor, which is always the head of the level
that is scanned. One lemma, `Unlinked`, serves the fill and the cancel. That the
head is oldest follows from the links and the smallest id of a level: the block
before it would have a smaller one. Links alone do not exclude a cycle of free
blocks beside the list; `FreeStack` does, with a numbering of the blocks that
`allocate` shortens and `deallocate` extends at the top.

**MatchingBookProofs**, on top of it and from `QtyFits` (`PoolSize * MaxQty` is
below the modulus: 2048 blocks, at most 1000000 contracts each, 2^32):
`QuantityConserved`, `BestsExact`, `NoBlockLostOrShared`, `LevelsSound`, and that
the engine implements `PriceTimeBook`. The first part is about
`SumFunctionOnSet`: a sum over a finite set does not depend on the order, changes
by what is added, removed or changed, and is at most the number of members times
the largest, so that `total_qty` stays below its modulus. These are inductions over finite sets, made by taking a smallest set for which
the claim fails. `BookInv` is what holds at every iteration of `place_limit`: the
totals (`Totals`), no order beyond the cached best prices (`BestBound`), nothing
crossed in the book (`Uncrossed`), the cached prices in use between calls
(`Live`), nothing left in the levels already swept (`Swept`), and the quantity
asked for made up of fills and remainder (`Counted`). `Swept` is what makes the
rest follow: an order rests, and a best price moves, only after the scan has
passed every level that could trade. The lemmas about the cached prices need no
sums and are at the end of `MatchingEngineProofs`. In the refinement `Match` is the trade with
the oldest order of the best price (by `Swept` and `HeadIsOldest`),
`RestIncoming` the resting, `FreeIncoming` the end of a filled order, `Cancel`
the removal; every other step leaves the abstract book alone. `NullAssumption`
(the null pointer is no order) is for the mapping of the empty hand.

In these two modules most leaves name Zenon or leave it to `USE Zenon`: they are
about links and equalities, and the SMT encoding of the records is the slower
way. Each takes under twenty minutes on two cores.

**FlatHashMapProofs**, from `MapAssumption`, for every hash function: `TypeOK`,
`SizeExact`, `RobinHood`, and, if no more keys are asked for than there are
slots (`MaxLoad <= Capacity`), that the table implements `KeyValueMap`. The
order of neighbours, `RobinHood`, is not inductive. `MInv` has its consequence
for a whole search path instead (`Path`): every slot between the home of an
entry and the entry is occupied, by an entry at least as far from its own home
as the path has come. `Probing` and `Shifting` say the same of the entry in the
hand of insert and of the hole that erase moves. Without the assumption on
`MaxLoad` the refinement is false: `flat_hash_map_full`.

**RestServerProofs**, from `ReactorAssumption` and `ServerAssumption`: `TypeOK`,
`BuffersOwn`, `ServedOnce`, `NoLostEdge`, `NothingLeftBehind`. `SInv` adds what
these depend on: epoll watches exactly the open descriptors and a callback of
any other is about to be removed (`Registered`), where the loop is (`Loop`), a
descriptor belongs to one open connection (`Owned`), the backlog (`Queued`),
where each part of a request is (`Counted`), and that unread data is announced
by an event that is ready, in the batch or being handled (`Edges`).

**QuoterProofs**, from `QuoterAssumption`, for any price range and any minimum
spread of 3 or more: `TypeOK`, `BestExact`, `NoOrphans`, `NeverSelfCrossed`. `QInv` adds that the deltas on their way
lead from our book to the venue's without a negative level (`FeedLeads`), and
what is open and what is still to be sent at each point of a bundle (`Phase`),
and that what the venue took had been placed (`GoneKnown`). `BundlesFit` needs no
invariant: from any two records, reachable or not, and to any quote, `reconcile`
makes at most the four actions an `ActionBundle` has room for, and four exactly
when both orders are replaced.

**HotPathProofs**, from `HotPathAssumption`, in particular that the warm-up is at
least as long as the payload pool and that pool and map have room for every
ticker (256 tickers, 256 books and 1024 slots at `bench_hotpath_multi.cpp:75-78`):
`TypeOK`, `WarmupDrained`, `ZeroAlloc`, `BooksExact`, `SamplesHonest`. `HInv` says
what the threads have done at each place around the barrier (`SinglePhase`,
`WorkersPhase`) and that the parser has seen every payload it has been given
(`ParserGrown`); at the end of the warm-up these are all payloads. `Flow` counts:
what was produced is what was handled, what a thread has in its hands and what
is in the queue, and each of these is the message of its number, parsed
completely, although the parser's result is ignored and one message is reused
(`IsMessage`). `Registry` is the map from tickers to books while it is being
filled. From these, by one more message at a time, `Booked`: each book is the
sequence of its own messages. `Times` is about the clock: a handled message
ended no later than now, so due time plus latency cannot decrease (`Delays`),
and the worst lateness belongs to a message that is either sampled or still in
flight, where it can only get later (`Charged`).

**OrderEntryProofs**, first about the book alone, from `BookAssumption` and
`NoneAssumption`: type correctness, and that the book is never crossed. With the
uniqueness of ids the two are inductive: a trade keeps side, price and id of
what stays, and an order rests only when nothing crosses it. Then, from
`EntryAssumption` and `OffersAssumption`: `EntryTypeOK`, `ResponseTruthful`, `OrdersTraced`,
`BoughtIsSold`, `PriorityKept`, and that order entry takes only steps the book allows, so the
theorems about the book hold here too. `EInv` adds that the order being matched
is the request of the one poster being served and what it has traded and has
left make up its quantity (`Serving`), what a reply says (`Answered`), and where
ids come from (`Traced`). `BoughtIsSold` counts single contracts, each a pair of
its poster or its order and a number, so that it is about the sizes of finite
sets (there are finitely many posters, by `EntryAssumption`) and needs no sums:
with `EInv` and a finite book it is inductive, since one more order on a side is
as many more contracts as it is for (`OneMore`), and a trade takes the same number
from what is left on either side (`MatchBalanced`). `PriorityKept` is inductive
with `EInv` and the order being matched having the newest id (`Newest`): if that
order is behind one in the book it cannot cross what it trades with, since the
book is not crossed; the order it trades with is the best of its side and so
behind nothing that stays; and nothing is behind the order that comes to rest.

Every safety property of the passing runs is a theorem. Only model-checked is
liveness (`KeepsFlowing`, `CallEnds`, `ReturnsToWait`, `Converges`,
`Terminates`), which is out of the prover's reach.

## Not modelled

* Faults the code has no answer to: a feed that loses or repeats deltas (the
  sequence number is parsed and not looked at), and sends that fail in the
  strategy (no program sends its actions). There is no behaviour to state as
  right; both are listed as hazards.
* A second request on a connection, on either side, and the descriptor that
  `RestClient` keeps after a failed connect.
* Batches of more than 64 events, `mod_fd` and `stop` of the reactor, which have
  no caller.
* HTTP and JSON syntax: what matters of it is whether a request is complete and
  which fields it has.
* The arena, which no other file includes. Clock, tuning and the kqueue shim are
  system calls without state of their own.
* Authentication, WebSocket, rate limiter, exchange service, scenarios and
  account book: empty files or declarations.
* The programs in `experiments/` and the microbenchmarks of single structures.
