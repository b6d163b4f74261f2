------------------------------- MODULE HotPath -------------------------------
(***************************************************************************)
(* The four hot-path benchmarks, the only programs that put the client     *)
(* together: bench_hotpath (one thread), bench_hotpath_pipe (two threads   *)
(* and a queue), bench_hotpath_multi (the same with many markets) and      *)
(* bench_hotpath_paced (the same with an arrival schedule).                *)
(*                                                                         *)
(* Each warms up, arms the allocation counter, measures, and reports the   *)
(* latency of every message and the number of allocations.  The queue is   *)
(* the abstract one, which SPSCQueue implements.  A book is the sequence   *)
(* of the changes applied to it.  Quoter models what is computed from one, *)
(* for changes that keep the levels at zero or above; the payloads here    *)
(* are random and do not.                                                  *)
(***************************************************************************)
EXTENDS Integers, Sequences, FiniteSets, FiniteSetsExt, Functions

CONSTANTS
    N_WARMUP,       \* messages before the measured window
    N_MEASURE,      \* messages in it
    N_PAYLOADS,     \* distinct payloads, used in turn
    QUEUE_CAP,
    N_TICKERS,      \* markets of bench_hotpath_multi
    POOL_CAP,       \* blocks for their states: as many as markets in the code
    MAP_CAP,        \* slots of the map of markets
    MAX_PRICE,      \* 99
    Lead,           \* cycles from arming to the anchor of the schedule: 10000
    MaxGap,         \* bound: cycles between scheduled messages
    MaxTsc          \* bound: cycles that pass, apart from those waited for

ASSUME HotPathAssumption ==
    /\ {N_WARMUP, N_MEASURE, N_PAYLOADS, QUEUE_CAP, N_TICKERS, POOL_CAP, MAP_CAP, MAX_PRICE}
          \subseteq Nat \ {0}
    /\ {Lead, MaxGap, MaxTsc} \subseteq Nat
    /\ N_WARMUP >= N_PAYLOADS
    /\ N_TICKERS <= POOL_CAP /\ N_TICKERS <= MAP_CAP

N_TOTAL == N_WARMUP + N_MEASURE
Samples == 0 .. N_MEASURE - 1

Tickers == 1 .. N_TICKERS
kTicker == 1

\* hash_ticker: what is known of it is that the names of the markets have
\* different keys (the 256 names of the program do).
hash_ticker_choices == Injection(Tickers, Tickers)

VARIABLES
    program,            \* which benchmark runs
    g_pool,             \* the payloads
    g_offsets,          \* paced: when each message is due, after the anchor
    hash_ticker,        \* multi: ticker -> key
    g_markets,          \* key -> the market whose MarketState is registered
    main, prod, cons,   \* where the three threads are
    i, j,               \* messages produced, messages handled
    msg,                \* the producer's message
    q, out,             \* g_queue, and the message the consumer has popped
    longest,            \* the payload size the parser has buffers for
    g_threads_ready, g_alloc_armed, g_alloc_count,
    tsc,                \* the time-stamp counter
    g_t0,               \* start of the measured window
    g_max_lateness,     \* paced: how far behind its schedule the producer fell
    g_latencies,
    g_throughput_end_tsc,
    books               \* ticker -> changes applied, in order

setup == <<program, g_pool, g_offsets, hash_ticker>>
vars == <<program, g_pool, g_offsets, hash_ticker, g_markets, main, prod, cons, i, j, msg, q, out,
          longest, g_threads_ready, g_alloc_armed, g_alloc_count, tsc, g_t0,
          g_max_lateness, g_latencies, g_throughput_end_tsc, books>>

g_queue == INSTANCE BoundedFifo WITH Capacity <- QUEUE_CAP, Items <- {}

------------------------------------------------------------------------------
(* Payloads and schedules                                                   *)

\* Mutation: prices are drawn from 0 on.
PayloadFromZero(ts) == [ticker : ts, price : 0 .. MAX_PRICE, size : {1, 2}]

\* A generated payload: a ticker, a price that is drawn from 1 on, and one of
\* several lengths.  Its other fields always parse.
Payload(ts) == [ticker : ts, price : 1 .. MAX_PRICE, size : {1, 2}]

Pools(ts) == [0 .. N_PAYLOADS - 1 -> Payload(ts)]

\* build_payload_pool of the four programs.
SinglePools == Pools({kTicker})
PipePools == Pools({kTicker})
MultiPools == Pools(Tickers)
PacedPools == PipePools

\* What parse_args lets through, in terms of the mean gap between messages.
Arguments == [mode : {"uniform", "poisson", "burst"}, gap : 0 .. MaxGap, burst : 1 .. N_MEASURE]

\* The schedules build_schedule may return: evenly spaced, with random gaps
\* (here up to the given one), or in bursts at the same mean rate.
build_schedule(a) ==
    CASE a.mode = "uniform" -> {[s \in Samples |-> s * a.gap]}
      [] a.mode = "poisson" ->
            {off \in [Samples -> 0 .. a.gap * (N_MEASURE - 1)] :
                off[0] = 0 /\ \A s \in Samples \ {0} : off[s] - off[s - 1] \in 0 .. a.gap}
      [] a.mode = "burst" -> {[s \in Samples |-> (s \div a.burst) * a.burst * a.gap]}

Schedules == UNION {build_schedule(a) : a \in Arguments}

\* The payload of message n: taken in turn, where the measured messages have a
\* loop of their own anew from the first of them on.
PayloadOf(n) ==
    (IF program \in {"single", "paced"} /\ n >= N_WARMUP THEN n - N_WARMUP ELSE n) % N_PAYLOADS

NoDelta == [ticker |-> 0, change |-> 0]

Init ==
    /\ \/ program = "single" /\ g_pool \in SinglePools /\ g_offsets = <<>>
       \/ program = "pipe" /\ g_pool \in PipePools /\ g_offsets = <<>>
       \/ program = "multi" /\ g_pool \in MultiPools /\ g_offsets = <<>>
       \/ program = "paced" /\ g_pool \in PacedPools /\ g_offsets \in Schedules
    /\ hash_ticker \in IF program = "multi" THEN hash_ticker_choices ELSE {<<>>}
    /\ g_markets = <<>>
    /\ main = "start"
    /\ prod = "idle"
    /\ cons = "idle"
    /\ i = 0
    /\ j = 0
    /\ msg = [delta |-> NoDelta, tsc |-> 0]
    /\ q = <<>>
    /\ out = [delta |-> NoDelta, tsc |-> 0]
    /\ longest = 0
    /\ g_threads_ready = 0
    /\ g_alloc_armed = FALSE
    /\ g_alloc_count = 0
    /\ tsc = 0
    /\ g_t0 = 0
    /\ g_max_lateness = 0
    /\ g_latencies = [s \in Samples |-> 0]
    /\ g_throughput_end_tsc = 0
    /\ books = [t \in Tickers |-> <<>>]

------------------------------------------------------------------------------
(* What a message goes through                                              *)

\* OrderbookParser::parse_orderbook_delta writes the fields one after the
\* other and gives up at the first bad one: a bad price leaves the new ticker
\* in front of the old change.  The result, ignored by the callers, says so.
parse_orderbook_delta(n, old) ==
    LET p == g_pool[PayloadOf(n)]
    IN  IF p.price \in 1 .. MAX_PRICE
        THEN [ticker |-> p.ticker, change |-> PayloadOf(n)]
        ELSE [old EXCEPT !.ticker = p.ticker]

\* simdjson allocates when a payload is longer than every one before, and
\* operator new counts while the counter is armed.
operator_new(n) ==
    LET size == g_pool[PayloadOf(n)].size
    IN  /\ longest' = IF size > longest THEN size ELSE longest
        /\ g_alloc_count' = g_alloc_count + (IF size > longest /\ g_alloc_armed THEN 1 ELSE 0)

\* Message n is parsed and stamped.
Parsed(n, stamp) ==
    /\ msg' = [delta |-> parse_orderbook_delta(n, msg.delta), tsc |-> stamp]
    /\ operator_new(n)

\* Book::apply, for the market of the message, and all that is computed from it.
Apply(t, m) == books' = [books EXCEPT ![t] = Append(@, m.delta.change)]

\* Mutation: the index is not reduced by the warm-up.
SampleShifted(n, m) ==
    g_latencies' = IF n >= N_WARMUP
                   THEN [s \in Samples \cup {n} |-> IF s = n THEN tsc - m.tsc ELSE g_latencies[s]]
                   ELSE g_latencies

\* The latency of message n is noted, unless it is part of the warm-up.
Sample(n, m) ==
    g_latencies' = IF n >= N_WARMUP
                   THEN [g_latencies EXCEPT ![n - N_WARMUP] = tsc - m.tsc]
                   ELSE g_latencies

------------------------------------------------------------------------------
(* bench_hotpath: one thread does everything                                *)

SingleWarmup ==
    /\ main \in {"start", "warm"}
    /\ i < N_WARMUP
    /\ Parsed(i, 0)
    /\ Apply(kTicker, msg')
    /\ i' = i + 1
    /\ j' = j + 1
    /\ main' = IF i + 1 = N_WARMUP THEN "arm" ELSE "warm"
    /\ UNCHANGED <<setup, g_markets, prod, cons, q, out, g_threads_ready, g_alloc_armed, tsc,
                   g_t0, g_max_lateness, g_latencies, g_throughput_end_tsc>>

SingleArm ==
    /\ main = "arm"
    /\ g_alloc_armed' = TRUE
    /\ main' = "begin"
    /\ UNCHANGED <<setup, g_markets, prod, cons, i, j, msg, q, out, longest, g_threads_ready,
                   g_alloc_count, tsc, g_t0, g_max_lateness, g_latencies, g_throughput_end_tsc, books>>

SingleBegin ==
    /\ main = "begin"
    /\ Parsed(i, tsc)
    /\ i' = i + 1
    /\ main' = "end"
    /\ UNCHANGED <<setup, g_markets, prod, cons, j, q, out, g_threads_ready, g_alloc_armed, tsc,
                   g_t0, g_max_lateness, g_latencies, g_throughput_end_tsc, books>>

SingleEnd ==
    /\ main = "end"
    /\ Apply(kTicker, msg)
    /\ Sample(j, msg)
    /\ j' = j + 1
    /\ IF j + 1 = N_TOTAL
       THEN main' = "done" /\ g_alloc_armed' = FALSE
       ELSE main' = "begin" /\ UNCHANGED g_alloc_armed
    /\ UNCHANGED <<setup, g_markets, prod, cons, i, msg, q, out, longest, g_threads_ready,
                   g_alloc_count, tsc, g_t0, g_max_lateness, g_throughput_end_tsc>>

SingleMain == program = "single" /\ (SingleWarmup \/ SingleArm \/ SingleBegin \/ SingleEnd)

------------------------------------------------------------------------------
(* The producer thread                                                      *)

\* The closed loop: as fast as the queue takes it.  The stamp is read before
\* parsing.
Produce ==
    /\ prod = "produce"
    /\ Parsed(i, tsc)
    /\ prod' = "push"
    /\ UNCHANGED <<setup, g_markets, main, cons, i, j, q, out, g_threads_ready, g_alloc_armed, tsc,
                   g_t0, g_max_lateness, g_latencies, g_throughput_end_tsc, books>>

\* try_push, retried until it succeeds; the warm-up ends at the barrier.
PushMsg ==
    /\ prod = "push"
    /\ g_queue!Push(msg)
    /\ i' = i + 1
    /\ prod' = CASE i + 1 = N_TOTAL -> "done"
                 [] i + 1 = N_WARMUP -> "ready"
                 [] i + 1 \in N_WARMUP + 1 .. N_TOTAL - 1 /\ program = "paced" -> "due"
                 [] OTHER -> "produce"
    /\ UNCHANGED <<setup, g_markets, main, cons, j, msg, longest, g_threads_ready, g_alloc_armed,
                   g_alloc_count, tsc, g_t0, g_max_lateness, g_latencies, g_throughput_end_tsc, books>>

ProducerReady ==
    /\ prod = "ready"
    /\ g_threads_ready' = g_threads_ready + 1
    /\ prod' = "spin"
    /\ UNCHANGED <<setup, g_markets, main, cons, i, j, msg, q, out, longest, g_alloc_armed,
                   g_alloc_count, tsc, g_t0, g_max_lateness, g_latencies, g_throughput_end_tsc, books>>

ProducerReleased ==
    /\ prod = "spin"
    /\ g_alloc_armed
    /\ prod' = "produce"
    /\ UNCHANGED <<setup, g_markets, main, cons, i, j, msg, q, out, longest, g_threads_ready,
                   g_alloc_armed, g_alloc_count, tsc, g_t0, g_max_lateness, g_latencies,
                   g_throughput_end_tsc, books>>

PipeProducer == program = "pipe" /\ (Produce \/ PushMsg \/ ProducerReady \/ ProducerReleased)
MultiProducer == program = "multi" /\ (Produce \/ PushMsg \/ ProducerReady \/ ProducerReleased)

\* The paced producer, released, anchors its schedule a little ahead of now.
PacedReleased ==
    /\ prod = "spin"
    /\ g_alloc_armed
    /\ g_t0' = tsc + Lead
    /\ prod' = "due"
    /\ UNCHANGED <<setup, g_markets, main, cons, i, j, msg, q, out, longest, g_threads_ready,
                   g_alloc_armed, g_alloc_count, tsc, g_max_lateness, g_latencies,
                   g_throughput_end_tsc, books>>

Deadline(n) == g_t0 + g_offsets[n - N_WARMUP]

\* Mutation: the message is stamped when it is sent, not when it was due.
PacedProduceActual ==
    /\ prod = "due"
    /\ tsc >= Deadline(i)
    /\ g_max_lateness' = IF tsc - Deadline(i) > g_max_lateness THEN tsc - Deadline(i) ELSE g_max_lateness
    /\ Parsed(i, tsc)
    /\ prod' = "push"
    /\ UNCHANGED <<setup, g_markets, main, cons, i, j, q, out, g_threads_ready, g_alloc_armed, tsc,
                   g_t0, g_latencies, g_throughput_end_tsc, books>>

\* It spins until the message is due and stamps it with the time it was due.
PacedProduce ==
    /\ prod = "due"
    /\ tsc >= Deadline(i)
    /\ g_max_lateness' = IF tsc - Deadline(i) > g_max_lateness THEN tsc - Deadline(i) ELSE g_max_lateness
    /\ Parsed(i, Deadline(i))
    /\ prod' = "push"
    /\ UNCHANGED <<setup, g_markets, main, cons, i, j, q, out, g_threads_ready, g_alloc_armed, tsc,
                   g_t0, g_latencies, g_throughput_end_tsc, books>>

PacedProducer ==
    program = "paced" /\ (Produce \/ PushMsg \/ ProducerReady \/ PacedReleased \/ PacedProduce)

Producer == PipeProducer \/ MultiProducer \/ PacedProducer

------------------------------------------------------------------------------
(* The consumer thread                                                      *)

PopMsg ==
    /\ cons = "pop"
    /\ g_queue!Take
    /\ cons' = "handle"
    /\ UNCHANGED <<setup, g_markets, main, prod, i, j, msg, longest, g_threads_ready, g_alloc_armed,
                   g_alloc_count, tsc, g_t0, g_max_lateness, g_latencies, g_throughput_end_tsc, books>>

\* Mutation: one message more than there are.
ConsumerNextOneMore(n) == CASE n = N_TOTAL + 1 -> "end" [] n = N_WARMUP -> "ready" [] OTHER -> "pop"

\* Where the consumer's loop goes after n messages.
ConsumerNext(n) == CASE n = N_TOTAL -> "end" [] n = N_WARMUP -> "ready" [] OTHER -> "pop"

HandleMsg(t) ==
    /\ Apply(t, out)
    /\ Sample(j, out)
    /\ j' = j + 1
    /\ cons' = ConsumerNext(j + 1)
    /\ UNCHANGED <<setup, g_markets, main, prod, i, msg, q, out, longest, g_threads_ready,
                   g_alloc_armed, g_alloc_count, tsc, g_t0, g_max_lateness, g_throughput_end_tsc>>

ConsumerReady ==
    /\ cons = "ready"
    /\ g_threads_ready' = g_threads_ready + 1
    /\ cons' = "spin"
    /\ UNCHANGED <<setup, g_markets, main, prod, i, j, msg, q, out, longest, g_alloc_armed,
                   g_alloc_count, tsc, g_t0, g_max_lateness, g_latencies, g_throughput_end_tsc, books>>

\* In the closed loop the window starts when the consumer is released.
ConsumerReleased ==
    /\ cons = "spin"
    /\ g_alloc_armed
    /\ cons' = "pop"
    /\ g_t0' = IF program = "paced" THEN g_t0 ELSE tsc
    /\ UNCHANGED <<setup, g_markets, main, prod, i, j, msg, q, out, longest, g_threads_ready,
                   g_alloc_armed, g_alloc_count, tsc, g_max_lateness, g_latencies,
                   g_throughput_end_tsc, books>>

ConsumerEnd ==
    /\ cons = "end"
    /\ g_throughput_end_tsc' = tsc
    /\ cons' = "done"
    /\ UNCHANGED <<setup, g_markets, main, prod, i, j, msg, q, out, longest, g_threads_ready,
                   g_alloc_armed, g_alloc_count, tsc, g_t0, g_max_lateness, g_latencies, books>>

\* One book, whatever the ticker of the message.
PipeConsumer ==
    /\ program = "pipe"
    /\ \/ PopMsg \/ ConsumerReady \/ ConsumerReleased \/ ConsumerEnd
       \/ cons = "handle" /\ HandleMsg(kTicker)

PacedConsumer ==
    /\ program = "paced"
    /\ \/ PopMsg \/ ConsumerReady \/ ConsumerReleased \/ ConsumerEnd
       \/ cons = "handle" /\ HandleMsg(kTicker)

\* The market of the message is looked up; a miss aborts the program.
Dispatch ==
    IF hash_ticker[out.delta.ticker] \in DOMAIN g_markets
    THEN HandleMsg(g_markets[hash_ticker[out.delta.ticker]])
    ELSE /\ cons' = "aborted"
         /\ UNCHANGED <<setup, g_markets, main, prod, i, j, msg, q, out, longest, g_threads_ready,
                        g_alloc_armed, g_alloc_count, tsc, g_t0, g_max_lateness, g_latencies,
                        g_throughput_end_tsc, books>>

MultiConsumer ==
    /\ program = "multi"
    /\ \/ PopMsg \/ ConsumerReady \/ ConsumerReleased \/ ConsumerEnd
       \/ cons = "handle" /\ Dispatch

Consumer == PipeConsumer \/ PacedConsumer \/ MultiConsumer

------------------------------------------------------------------------------
(* main                                                                     *)

\* register_markets: the next ticker gets a block of the pool and is entered in
\* the map under its key; no block or no slot left aborts the program.
register_market ==
    LET n == Cardinality(DOMAIN g_markets)
        key == hash_ticker[n + 1]
    IN  /\ main = "start"
        /\ n < N_TICKERS
        /\ IF n < POOL_CAP /\ n < MAP_CAP
           THEN /\ g_markets' = [k \in DOMAIN g_markets \cup {key} |->
                                   IF k = key THEN n + 1 ELSE g_markets[k]]
                /\ main' = main
           ELSE main' = "aborted" /\ UNCHANGED g_markets
        /\ UNCHANGED <<setup, prod, cons, i, j, msg, q, out, longest, g_threads_ready, g_alloc_armed,
                       g_alloc_count, tsc, g_t0, g_max_lateness, g_latencies, g_throughput_end_tsc, books>>

StartThreads ==
    /\ main = "start"
    /\ main' = "wait"
    /\ prod' = "produce"
    /\ cons' = "pop"
    /\ UNCHANGED <<setup, g_markets, i, j, msg, q, out, longest, g_threads_ready, g_alloc_armed,
                   g_alloc_count, tsc, g_t0, g_max_lateness, g_latencies, g_throughput_end_tsc, books>>

ArmAfter(n) ==
    /\ main = "wait"
    /\ g_threads_ready >= n
    /\ g_alloc_armed' = TRUE
    /\ main' = "join"
    /\ UNCHANGED <<setup, g_markets, prod, cons, i, j, msg, q, out, longest, g_threads_ready,
                   g_alloc_count, tsc, g_t0, g_max_lateness, g_latencies, g_throughput_end_tsc, books>>

\* Mutations: main waits for no worker, or for one of them.
ArmAtOnce == ArmAfter(0)
ArmAfterOne == ArmAfter(1)

\* Both workers have finished their warm-up: arming releases them.
Arm == ArmAfter(2)

\* main has joined both threads; it disarms and reads the results.
JoinThreads ==
    /\ main = "join"
    /\ prod = "done"
    /\ cons = "done"
    /\ g_alloc_armed' = FALSE
    /\ main' = "done"
    /\ UNCHANGED <<setup, g_markets, prod, cons, i, j, msg, q, out, longest, g_threads_ready,
                   g_alloc_count, tsc, g_t0, g_max_lateness, g_latencies, g_throughput_end_tsc, books>>

PipeMain == program = "pipe" /\ (StartThreads \/ Arm \/ JoinThreads)
PacedMain == program = "paced" /\ (StartThreads \/ Arm \/ JoinThreads)
MultiMain ==
    /\ program = "multi"
    /\ \/ register_market
       \/ Cardinality(DOMAIN g_markets) = N_TICKERS /\ StartThreads
       \/ Arm
       \/ JoinThreads

Main == SingleMain \/ PipeMain \/ MultiMain \/ PacedMain

\* Time passes in the measured window: MaxTsc cycles at any point of it, and
\* always up to the deadline the producer waits for.
Tick ==
    /\ g_alloc_armed
    /\ tsc < MaxTsc \/ (prod = "due" /\ tsc < Deadline(i))
    /\ tsc' = tsc + 1
    /\ UNCHANGED <<setup, g_markets, main, prod, cons, i, j, msg, q, out, longest, g_threads_ready,
                   g_alloc_armed, g_alloc_count, g_t0, g_max_lateness, g_latencies,
                   g_throughput_end_tsc, books>>

Exit == main = "done" /\ UNCHANGED vars

Next == Main \/ Producer \/ Consumer \/ Tick \/ Exit

\* The threads run pinned to cores of their own, so each of them makes progress,
\* and the time-stamp counter does not stop.
Spec == Init /\ [][Next]_vars /\ WF_vars(Main) /\ WF_vars(Producer) /\ WF_vars(Consumer) /\ WF_vars(Tick)

------------------------------------------------------------------------------
(* Properties                                                               *)

Deltas == [ticker : 0 .. N_TICKERS, change : 0 .. N_PAYLOADS - 1]

\* The state of the benchmarks has its type; in particular samples are only
\* ever written inside g_latencies.
TypeOK ==
    /\ program \in {"single", "pipe", "multi", "paced"}
    /\ DOMAIN g_markets \subseteq Tickers /\ Range(g_markets) \subseteq Tickers
    /\ main \in {"start", "warm", "arm", "begin", "end", "wait", "join", "done", "aborted"}
    /\ prod \in {"idle", "produce", "push", "ready", "spin", "due", "done"}
    /\ cons \in {"idle", "pop", "handle", "ready", "spin", "end", "done", "aborted"}
    /\ i \in 0 .. N_TOTAL
    /\ j \in 0 .. i
    /\ msg \in [delta : Deltas, tsc : Nat]
    /\ q \in Seq([delta : Deltas, tsc : Nat])
    /\ out \in [delta : Deltas, tsc : Nat]
    /\ g_threads_ready \in 0 .. 2
    /\ g_alloc_armed \in BOOLEAN
    /\ {longest, g_alloc_count, tsc, g_t0, g_max_lateness, g_throughput_end_tsc} \subseteq Nat
    /\ DOMAIN g_latencies = Samples
    /\ DOMAIN books = Tickers

\* No allocation is counted: the warm-up has made the parser grow to the longest
\* payload before the counter is armed, in each of the programs.  It is the
\* check the benchmarks report, for every choice of payloads.
ZeroAlloc == g_alloc_count = 0

\* The barrier separates the warm-up from the window: once the counter is armed
\* every warm-up message has been handled, so none is in the queue or in a thread.
WarmupDrained == g_alloc_armed => i >= N_WARMUP /\ j >= N_WARMUP

\* No difference of two time stamps is negative (they are unsigned): no sample,
\* and not the length of the window.  In the paced program a delay is charged to
\* every message it holds up: message by message, due time plus latency does not
\* decrease, and the producer's worst lateness is within the worst latency.
SamplesHonest ==
    LET taken == {s \in Samples : s < j - N_WARMUP}
    IN  /\ \A s \in taken : g_latencies[s] >= 0
        /\ main = "done" /\ program # "single" => g_throughput_end_tsc >= g_t0
        /\ program = "paced" =>
             /\ \A s \in taken : s > 0 =>
                   g_offsets[s - 1] + g_latencies[s - 1] <= g_offsets[s] + g_latencies[s]
             /\ main = "done" => g_max_lateness <= Max({g_latencies[s] : s \in Samples})

\* The messages for market t among the first n.
For(t, n) == {m \in 0 .. n - 1 : g_pool[PayloadOf(m)].ticker = t}

\* Every book holds exactly the changes of its own market's messages, each once
\* and in the order produced (message m is preceded by those for t before it),
\* although the producer ignores whether a payload parsed and reuses one message;
\* and no lookup and no registration aborts.
BooksExact ==
    /\ main # "aborted"
    /\ cons # "aborted"
    /\ \A t \in Tickers :
          /\ Len(books[t]) = Cardinality(For(t, j))
          /\ \A m \in For(t, j) : books[t][Cardinality(For(t, m)) + 1] = PayloadOf(m)

\* Every benchmark comes to its end: no thread waits at the barrier, for the
\* queue or for a deadline for ever.
Terminates == <>(main = "done")
==============================================================================
