---------------------------- MODULE HotPathProofs ----------------------------
(***************************************************************************)
(* Proofs about the four benchmarks, for any number of messages, payloads  *)
(* and markets, any queue capacity and any schedule.                       *)
(*                                                                         *)
(* The barrier: arming the counter separates the warm-up from the measured *)
(* window, and nothing is allocated in that window.                        *)
(* The markets: every one is found under its key.                          *)
(* The messages: what is produced and not handled is in the queue, in      *)
(* order, or in a thread, and carries the right change and the right time. *)
(* From these follow what the books hold and what the samples say.         *)
(***************************************************************************)
EXTENDS HotPath, FiniteSetTheorems, TLAPS

------------------------------------------------------------------------------
(* The barrier: the inductive invariant                                     *)

\* The payloads, and the types of what the barrier is made of.
BarrierTypes ==
    /\ g_pool \in [0 .. N_PAYLOADS - 1 -> Payload(Tickers)]
    /\ i \in Nat /\ j \in Nat
    /\ longest \in Nat

\* The single thread arms when it has handled the warm-up messages.
SinglePhase ==
    program = "single" =>
        /\ prod = "idle" /\ cons = "idle"
        /\ main \in {"start", "warm", "arm", "begin", "end", "done"}
        /\ main \in {"start", "warm"} => i = j /\ i < N_WARMUP
        /\ main \in {"arm", "begin", "end", "done"} => i >= N_WARMUP /\ j >= N_WARMUP
        /\ g_alloc_armed => main \in {"begin", "end"}

\* A worker that has been at the barrier with its warm-up done.
ProducerPast == i >= N_WARMUP /\ prod # "ready"
ConsumerPast == j >= N_WARMUP /\ cons # "ready"

\* main counts the workers that have been there, and arms after both.
WorkersPhase ==
    program # "single" =>
        /\ main \in {"start", "wait", "join", "done", "aborted"}
        /\ main = "start" => prod = "idle" /\ cons = "idle"
        /\ prod \in {"ready", "spin", "due", "done"} => i >= N_WARMUP
        /\ prod = "idle" => i = 0
        /\ cons \in {"ready", "spin", "end", "done"} => j >= N_WARMUP
        /\ cons = "idle" => j = 0
        /\ g_threads_ready = (IF ProducerPast THEN 1 ELSE 0) + (IF ConsumerPast THEN 1 ELSE 0)
        /\ g_alloc_armed => ProducerPast /\ ConsumerPast

\* The parser has buffers for every payload it has seen.
ParserGrown ==
    \A k \in 0 .. N_PAYLOADS - 1 :
        k < i \/ (k = i /\ prod = "push") => g_pool[k].size <= longest

HInv == BarrierTypes /\ SinglePhase /\ WorkersPhase /\ ParserGrown /\ ZeroAlloc

\* The constants are positive, and every payload occurs in the warm-up.
LEMMA Constants ==
    /\ N_WARMUP \in Nat \ {0} /\ N_MEASURE \in Nat \ {0} /\ N_PAYLOADS \in Nat \ {0}
    /\ N_TICKERS \in Nat \ {0}
    /\ N_WARMUP >= N_PAYLOADS
BY HotPathAssumption

\* Payloads are used in turn, beginning with the first.
LEMMA PayloadInPool ==
    ASSUME NEW n \in Nat
    PROVE  /\ PayloadOf(n) \in 0 .. N_PAYLOADS - 1
           /\ n < N_PAYLOADS => PayloadOf(n) = n
<1>1. \A m \in Nat : m % N_PAYLOADS \in 0 .. N_PAYLOADS - 1
  BY Constants
<1>2. \A m \in 0 .. N_PAYLOADS - 1 : m % N_PAYLOADS = m
  BY Constants
<1>3. CASE program \in {"single", "paced"} /\ n >= N_WARMUP
  BY <1>1, <1>3, Constants DEF PayloadOf
<1>4. CASE ~ (program \in {"single", "paced"} /\ n >= N_WARMUP)
  BY <1>1, <1>2, <1>4, Constants DEF PayloadOf
<1>. QED
  BY <1>3, <1>4

\* Parsing message i grows the parser, which is counted in the window only, and
\* by then every payload has been seen.
LEMMA ParsedGrown ==
    ASSUME HInv, operator_new(i), g_alloc_armed => i >= N_WARMUP
    PROVE  /\ longest' \in Nat
           /\ g_alloc_count' = 0
           /\ \A k \in 0 .. N_PAYLOADS - 1 : k <= i => g_pool[k].size <= longest'
<1>. DEFINE p == PayloadOf(i)
<1>1. p \in 0 .. N_PAYLOADS - 1 /\ (i < N_PAYLOADS => p = i)
  BY PayloadInPool DEF HInv, BarrierTypes
<1>2. \A k \in 0 .. N_PAYLOADS - 1 : g_pool[k].size \in {1, 2}
  BY DEF HInv, BarrierTypes, Payload
<1>3. /\ longest' = IF g_pool[p].size > longest THEN g_pool[p].size ELSE longest
      /\ g_alloc_count' = g_alloc_count + (IF g_pool[p].size > longest /\ g_alloc_armed THEN 1 ELSE 0)
  BY DEF operator_new
<1>4. i \in Nat /\ longest \in Nat /\ g_alloc_count = 0
  BY DEF HInv, BarrierTypes, ZeroAlloc
<1>. HIDE DEF p
<1>5. longest' \in Nat /\ longest' >= longest /\ longest' >= g_pool[p].size
  BY <1>1, <1>2, <1>3, <1>4
<1>6. ASSUME NEW k \in 0 .. N_PAYLOADS - 1, k <= i PROVE g_pool[k].size <= longest'
  <2>1. CASE k < i
    BY <1>2, <1>4, <1>5, <2>1 DEF HInv, ParserGrown
  <2>2. CASE k = i
    BY <1>1, <1>5, <2>2, Constants
  <2>. QED
    BY <1>4, <1>6, <2>1, <2>2, Constants
<1>7. g_alloc_armed => g_pool[p].size <= longest
  BY <1>1, <1>4, Constants DEF HInv, ParserGrown
<1>8. g_alloc_count' = 0
  BY <1>1, <1>2, <1>3, <1>4, <1>7
<1>. QED
  BY <1>5, <1>6, <1>8

------------------------------------------------------------------------------
(* Every step preserves it                                                  *)

\* Parsing outside the warm-up's one-thread loop leaves the phases alone.
LEMMA SingleInv ==
    ASSUME HInv, SingleMain
    PROVE  HInv'
<1>. USE Constants DEF HInv, BarrierTypes
<1>1. program = "single" /\ prod = "idle" /\ cons = "idle"
  BY DEF SingleMain, SinglePhase
<1>2. CASE SingleWarmup
  <2>1. /\ i' = i + 1 /\ j' = j + 1
        /\ UNCHANGED <<program, g_pool, prod, cons, g_alloc_armed>>
        /\ main \in {"start", "warm"} /\ i < N_WARMUP
        /\ main' = IF i + 1 = N_WARMUP THEN "arm" ELSE "warm"
        /\ operator_new(i)
    BY <1>2 DEF SingleWarmup, Parsed, setup
  <2>2. ~ g_alloc_armed
    BY <1>1, <2>1 DEF SinglePhase
  <2>3. longest' \in Nat /\ g_alloc_count' = 0
          /\ \A k \in 0 .. N_PAYLOADS - 1 : k <= i => g_pool[k].size <= longest'
    BY <2>1, <2>2, ParsedGrown
  <2>4. ParserGrown'
    BY <1>1, <2>1, <2>3 DEF ParserGrown
  <2>. QED
    BY <1>1, <2>1, <2>2, <2>3, <2>4 DEF SinglePhase, WorkersPhase, ZeroAlloc
<1>3. CASE SingleArm
  BY <1>1, <1>3 DEF SingleArm, setup, SinglePhase, WorkersPhase, ParserGrown, ZeroAlloc
<1>4. CASE SingleBegin
  <2>1. /\ i' = i + 1
        /\ UNCHANGED <<program, g_pool, prod, cons, j, g_alloc_armed>>
        /\ main = "begin" /\ main' = "end"
        /\ operator_new(i)
    BY <1>4 DEF SingleBegin, Parsed, setup
  <2>2. i >= N_WARMUP
    BY <1>1, <2>1 DEF SinglePhase
  <2>3. longest' \in Nat /\ g_alloc_count' = 0
          /\ \A k \in 0 .. N_PAYLOADS - 1 : k <= i => g_pool[k].size <= longest'
    BY <2>1, <2>2, ParsedGrown
  <2>4. ParserGrown'
    BY <1>1, <2>1, <2>3 DEF ParserGrown
  <2>. QED
    BY <1>1, <2>1, <2>2, <2>3, <2>4 DEF SinglePhase, WorkersPhase, ZeroAlloc
<1>5. CASE SingleEnd
  BY <1>1, <1>5 DEF SingleEnd, setup, SinglePhase, WorkersPhase, ParserGrown, ZeroAlloc
<1>. QED
  BY <1>2, <1>3, <1>4, <1>5 DEF SingleMain

\* The producer counts itself once, after its last warm-up message.
LEMMA ProducerInv ==
    ASSUME HInv, Producer
    PROVE  HInv'
<1>. USE Constants DEF HInv, BarrierTypes
<1>1. program # "single" /\ (Produce \/ PushMsg \/ ProducerReady \/ ProducerReleased
                               \/ PacedReleased \/ PacedProduce)
  BY DEF Producer, PipeProducer, MultiProducer, PacedProducer
<1>2. CASE Produce \/ PacedProduce
  <2>1. /\ UNCHANGED <<program, g_pool, main, cons, i, j, g_threads_ready, g_alloc_armed>>
        /\ prod \in {"produce", "due"} /\ prod' = "push"
        /\ operator_new(i)
    BY <1>2 DEF Produce, PacedProduce, Parsed, setup
  <2>2. g_alloc_armed => i >= N_WARMUP
    BY <1>1 DEF WorkersPhase, ProducerPast
  <2>3. longest' \in Nat /\ g_alloc_count' = 0
          /\ \A k \in 0 .. N_PAYLOADS - 1 : k <= i => g_pool[k].size <= longest'
    BY <2>1, <2>2, ParsedGrown
  <2>4. ParserGrown'
    BY <2>1, <2>3 DEF ParserGrown
  <2>5. WorkersPhase'
    BY <1>1, <2>1 DEF WorkersPhase, ProducerPast, ConsumerPast
  <2>. QED
    BY <1>1, <2>1, <2>3, <2>4, <2>5 DEF SinglePhase, ZeroAlloc
<1>3. CASE PushMsg
  <2>1. /\ UNCHANGED <<program, g_pool, main, cons, j, longest, g_threads_ready, g_alloc_armed, g_alloc_count>>
        /\ prod = "push" /\ i' = i + 1
        /\ prod' = CASE i + 1 = N_TOTAL -> "done"
                     [] i + 1 = N_WARMUP -> "ready"
                     [] i + 1 \in N_WARMUP + 1 .. N_TOTAL - 1 /\ program = "paced" -> "due"
                     [] OTHER -> "produce"
    BY <1>3 DEF PushMsg, setup
  <2>2. /\ i + 1 = N_WARMUP => prod' = "ready"
        /\ i + 1 < N_WARMUP => prod' = "produce"
        /\ i + 1 > N_WARMUP => prod' \in {"done", "due", "produce"}
    BY SMTT(30), <2>1 DEF N_TOTAL
  <2>3. ParserGrown'
    BY <2>1, <2>2 DEF ParserGrown
  <2>4. WorkersPhase'
    <3>1. /\ prod' \in {"ready", "due", "done"} => i + 1 >= N_WARMUP
          /\ prod' # "idle" /\ prod' # "spin" /\ ProducerPast' <=> ProducerPast
      BY <1>1, <2>1, <2>2 DEF ProducerPast, WorkersPhase
    <3>. QED
      BY <1>1, <2>1, <3>1 DEF WorkersPhase, ConsumerPast
  <2>. QED
    BY <1>1, <2>1, <2>3, <2>4 DEF SinglePhase, ZeroAlloc
<1>4. CASE ProducerReady
  BY <1>1, <1>4 DEF ProducerReady, setup, SinglePhase, WorkersPhase, ProducerPast, ConsumerPast, ParserGrown, ZeroAlloc
<1>5. CASE ProducerReleased \/ PacedReleased
  BY <1>1, <1>5 DEF ProducerReleased, PacedReleased, setup, SinglePhase, WorkersPhase, ProducerPast,
                    ConsumerPast, ParserGrown, ZeroAlloc
<1>. QED
  BY <1>1, <1>2, <1>3, <1>4, <1>5

\* The consumer counts itself once, after it has handled the last warm-up message.
LEMMA ConsumerInv ==
    ASSUME HInv, Consumer
    PROVE  HInv'
<1>. USE Constants DEF HInv, BarrierTypes
<1>1. program # "single" /\ UNCHANGED <<program, g_pool, main, prod, i, longest, g_alloc_armed, g_alloc_count>>
  BY Zenon DEF Consumer, PipeConsumer, PacedConsumer, MultiConsumer, PopMsg, ConsumerReady, ConsumerReleased,
         ConsumerEnd, HandleMsg, Dispatch, setup
<1>2. \/ /\ cons = "pop" /\ cons' = "handle"
         /\ UNCHANGED <<j, g_threads_ready>>
      \/ /\ cons = "ready" /\ cons' = "spin" /\ g_threads_ready' = g_threads_ready + 1
         /\ UNCHANGED j
      \/ /\ cons = "spin" /\ cons' = "pop"
         /\ UNCHANGED <<j, g_threads_ready>>
      \/ /\ cons = "end" /\ cons' = "done"
         /\ UNCHANGED <<j, g_threads_ready>>
      \/ /\ cons = "handle" /\ cons' = ConsumerNext(j + 1) /\ j' = j + 1
         /\ UNCHANGED g_threads_ready
      \/ /\ cons = "handle" /\ cons' = "aborted"
         /\ UNCHANGED <<j, g_threads_ready>>
  BY Zenon DEF Consumer, PipeConsumer, PacedConsumer, MultiConsumer, PopMsg, ConsumerReady, ConsumerReleased,
         ConsumerEnd, HandleMsg, Dispatch
<1>3. /\ j + 1 = N_WARMUP => ConsumerNext(j + 1) = "ready"
      /\ j + 1 < N_WARMUP => ConsumerNext(j + 1) = "pop"
      /\ j + 1 > N_WARMUP => ConsumerNext(j + 1) \in {"end", "pop"}
  BY DEF ConsumerNext, N_TOTAL
<1>4. j' \in Nat
  BY <1>2
<1>5. WorkersPhase'
  BY SMTT(30), <1>1, <1>2, <1>3 DEF WorkersPhase, ProducerPast, ConsumerPast
<1>6. ParserGrown' /\ ZeroAlloc' /\ SinglePhase'
  BY <1>1 DEF ParserGrown, ZeroAlloc, SinglePhase
<1>. QED
  BY <1>1, <1>4, <1>5, <1>6

\* main arms after both workers.
LEMMA MainInv ==
    ASSUME HInv, PipeMain \/ PacedMain \/ MultiMain
    PROVE  HInv'
<1>. USE Constants DEF HInv, BarrierTypes
<1>1. program # "single" /\ (register_market \/ StartThreads \/ Arm \/ JoinThreads)
  BY Zenon DEF PipeMain, PacedMain, MultiMain
<1>2. CASE register_market
  BY Zenon, <1>1, <1>2 DEF register_market, setup, SinglePhase, WorkersPhase, ProducerPast, ConsumerPast, ParserGrown, ZeroAlloc
<1>3. CASE StartThreads
  BY Zenon, <1>1, <1>3 DEF StartThreads, setup, SinglePhase, WorkersPhase, ProducerPast, ConsumerPast, ParserGrown, ZeroAlloc
<1>4. CASE Arm \/ JoinThreads
  BY SMTT(30), <1>1, <1>4 DEF Arm, ArmAfter, JoinThreads, setup, SinglePhase, WorkersPhase, ProducerPast, ConsumerPast,
                    ParserGrown, ZeroAlloc
<1>. QED
  BY <1>1, <1>2, <1>3, <1>4

\* Every step of the four programs preserves it.
LEMMA NextInv == HInv /\ [Next]_vars => HInv'
<1>. SUFFICES ASSUME HInv, [Next]_vars PROVE HInv'
  OBVIOUS
<1>1. CASE Tick \/ Exit \/ UNCHANGED vars
  <2>1. UNCHANGED <<program, g_pool, main, prod, cons, i, j, longest, g_threads_ready, g_alloc_armed,
                    g_alloc_count>>
    BY <1>1 DEF Tick, Exit, vars, setup
  <2>. QED
    BY Zenon, <2>1 DEF HInv, BarrierTypes, SinglePhase, WorkersPhase, ProducerPast, ConsumerPast, ParserGrown, ZeroAlloc
<1>. QED
  BY <1>1, SingleInv, ProducerInv, ConsumerInv, MainInv DEF Next, Main

\* It holds in the beginning.
LEMMA InitInv == Init => HInv
<1>. SUFFICES ASSUME Init PROVE HInv
  OBVIOUS
<1>1. g_pool \in [0 .. N_PAYLOADS - 1 -> Payload(Tickers)]
  <2>1. kTicker \in Tickers
    BY Constants DEF kTicker, Tickers
  <2>2. Payload({kTicker}) \subseteq Payload(Tickers)
    BY <2>1 DEF Payload
  <2>3. g_pool \in Pools({kTicker}) \cup Pools(Tickers)
    BY Zenon DEF Init, SinglePools, PipePools, MultiPools, PacedPools
  <2>. QED
    BY Zenon, <2>2, <2>3 DEF Pools
<1>. QED
  BY <1>1, Constants DEF Init, HInv, BarrierTypes, SinglePhase, WorkersPhase, ProducerPast, ConsumerPast,
                         ParserGrown, ZeroAlloc

------------------------------------------------------------------------------
(* What the barrier gives                                                   *)

\* The invariant holds in every state of the four programs.
THEOREM HotPathInvariance == Spec => []HInv
BY InitInv, NextInv, PTL DEF Spec

\* Once the counter is armed both threads have finished the warm-up: no warm-up
\* message is measured, or waits in the queue.
THEOREM BarrierSeparates == Spec => []WarmupDrained
<1>1. HInv => WarmupDrained
  BY DEF HInv, SinglePhase, WorkersPhase, ProducerPast, ConsumerPast, WarmupDrained
<1>. QED
  BY <1>1, HotPathInvariance, PTL

\* What the programs report, no allocation in the window, holds because the
\* warm-up is at least as long as the pool of payloads.
THEOREM NothingAllocated == Spec => []ZeroAlloc
<1>1. HInv => ZeroAlloc
  BY DEF HInv
<1>. QED
  BY <1>1, HotPathInvariance, PTL

------------------------------------------------------------------------------
(* The markets                                                              *)

\* The tickers of the markets that have been registered.
Entered == Cardinality(DOMAIN g_markets)

\* Every registered market is found under its key, and nothing else is; the
\* programs with one book have payloads for one ticker.
Registry ==
    /\ main # "aborted"
    /\ program # "multi" => g_markets = <<>> /\ \A k \in 0 .. N_PAYLOADS - 1 : g_pool[k].ticker = kTicker
    /\ program = "multi" =>
          /\ hash_ticker \in Injection(Tickers, Tickers)
          /\ IsFiniteSet(DOMAIN g_markets) /\ Entered \in 0 .. N_TICKERS
          /\ \A t \in 1 .. Entered : hash_ticker[t] \in DOMAIN g_markets /\ g_markets[hash_ticker[t]] = t
          /\ \A k \in DOMAIN g_markets : \E t \in 1 .. Entered : k = hash_ticker[t]
          /\ main # "start" => Entered = N_TICKERS

\* A market is entered under a key no earlier market has.
LEMMA RegisterInv ==
    ASSUME Registry, program = "multi", register_market
    PROVE  Registry'
<1>1. PICK n, h, key, D, g :
         /\ n = Entered /\ h = hash_ticker /\ key = h[n + 1]
         /\ D = DOMAIN g_markets /\ g = g_markets
  BY Zenon
<1>2. /\ n \in 0 .. N_TICKERS /\ n < N_TICKERS
      /\ main = "start" /\ UNCHANGED <<program, g_pool, hash_ticker>>
      /\ IF n < POOL_CAP /\ n < MAP_CAP
         THEN g_markets' = [k \in D \cup {key} |-> IF k = key THEN n + 1 ELSE g[k]] /\ main' = main
         ELSE main' = "aborted" /\ UNCHANGED g_markets
  BY Zenon, <1>1 DEF register_market, Entered, Registry, setup
<1>3. n < POOL_CAP /\ n < MAP_CAP
  BY <1>2, HotPathAssumption
<1>4. g_markets' = [k \in D \cup {key} |-> IF k = key THEN n + 1 ELSE g[k]] /\ main' = "start"
  BY Zenon, <1>2, <1>3
<1>5. /\ h \in [Tickers -> Tickers] /\ \A s, t \in Tickers : h[s] = h[t] => s = t
      /\ IsFiniteSet(D) /\ n = Cardinality(D)
      /\ \A t \in 1 .. n : h[t] \in D /\ g[h[t]] = t
      /\ \A k \in D : \E t \in 1 .. n : k = h[t]
  BY Zenon, <1>1 DEF Registry, Entered, Injection, IsInjective
<1>6. n + 1 \in Tickers /\ n \in Nat /\ \A t \in 1 .. n : t \in Tickers /\ t # n + 1
  BY <1>2, Constants DEF Tickers
<1>7. key \notin D
  <2>1. SUFFICES ASSUME key \in D PROVE FALSE
    BY Zenon
  <2>2. PICK t \in 1 .. n : key = h[t]
    BY Zenon, <1>5, <2>1
  <2>3. t \in Tickers /\ t # n + 1 /\ n + 1 \in Tickers /\ h[n + 1] = h[t]
    BY Zenon, <1>1, <1>6, <2>2
  <2>. QED
    BY Zenon, <1>5, <2>3
<1>8. DOMAIN g_markets' = D \cup {key}
  BY Zenon, <1>4
<1>9. IsFiniteSet(D \cup {key}) /\ Cardinality(D \cup {key}) = n + 1
  BY Zenon, <1>5, <1>7, FS_AddElement
<1>10. Entered' = n + 1 /\ n + 1 \in 0 .. N_TICKERS
  <2>1. Entered' = n + 1
    BY Zenon, <1>8, <1>9 DEF Entered
  <2>. QED
    BY <1>2, <2>1, Constants
<1>11. \A t \in 1 .. n + 1 : t = n + 1 \/ t \in 1 .. n
  BY <1>6
<1>12. ASSUME NEW t \in 1 .. n + 1 PROVE h[t] \in D \cup {key} /\ g_markets'[h[t]] = t
  <2>1. CASE t = n + 1
    BY Zenon, <1>1, <1>4, <2>1
  <2>2. CASE t \in 1 .. n
    <3>1. h[t] \in D /\ g[h[t]] = t
      BY Zenon, <1>5, <2>2
    <3>2. h[t] # key
      BY Zenon, <1>7, <3>1
    <3>. QED
      BY <1>4, <3>1, <3>2
  <2>. QED
    BY Zenon, <1>11, <2>1, <2>2
<1>13. ASSUME NEW k \in D \cup {key} PROVE \E t \in 1 .. n + 1 : k = h[t]
  <2>1. CASE k = key
    <3>1. n + 1 \in 1 .. n + 1
      BY <1>6
    <3>. QED
      BY Zenon, <1>1, <2>1, <3>1
  <2>2. CASE k \in D
    <3>1. PICK t \in 1 .. n : k = h[t]
      BY Zenon, <1>5, <2>2
    <3>2. t \in 1 .. n + 1
      BY <1>6
    <3>. QED
      BY Zenon, <3>1, <3>2
  <2>. QED
    BY Zenon, <2>1, <2>2
<1>14. main' # "aborted" /\ program' = "multi" /\ hash_ticker' = h
       /\ h \in Injection(Tickers, Tickers)
  BY Zenon, <1>1, <1>2, <1>4 DEF Registry
<1>. QED
  <2>1. \A t \in 1 .. Entered' : hash_ticker'[t] \in DOMAIN g_markets' /\ g_markets'[hash_ticker'[t]] = t
    BY Zenon, <1>8, <1>10, <1>12, <1>14
  <2>2. \A k \in DOMAIN g_markets' : \E t \in 1 .. Entered' : k = hash_ticker'[t]
    BY Zenon, <1>8, <1>10, <1>13, <1>14
  <2>3. IsFiniteSet(DOMAIN g_markets') /\ Entered' \in 0 .. N_TICKERS /\ main' = "start"
    BY Zenon, <1>4, <1>8, <1>9, <1>10
  <2>. QED
    BY Zenon, <1>14, <2>1, <2>2, <2>3 DEF Registry

\* The other steps leave the markets alone; threads start when all are there.
LEMMA RegistryInv ==
    ASSUME HInv, Registry, [Next]_vars
    PROVE  Registry'
<1>1. CASE register_market /\ program = "multi"
  BY Zenon, <1>1, RegisterInv
<1>2. ASSUME UNCHANGED <<program, g_pool, hash_ticker, g_markets>>, main' # "aborted",
             main' # "start" => main # "start" \/ Entered = N_TICKERS \/ program # "multi"
      PROVE  Registry'
  BY Zenon, <1>2 DEF Registry, Entered
<1>3. CASE SingleMain
  <2>1. program = "single" /\ UNCHANGED <<program, g_pool, hash_ticker, g_markets>>
    BY Zenon, <1>3 DEF SingleMain, SingleWarmup, SingleArm, SingleBegin, SingleEnd, setup
  <2>2. main' \in {"arm", "warm", "begin", "end", "done"}
    BY Zenon, <1>3 DEF SingleMain, SingleWarmup, SingleArm, SingleBegin, SingleEnd
  <2>. QED
    BY <1>2, <2>1, <2>2
<1>4. CASE Producer
  <2>1. UNCHANGED <<program, g_pool, hash_ticker, g_markets, main>>
    BY Zenon, <1>4 DEF Producer, PipeProducer, MultiProducer, PacedProducer, Produce, PushMsg, ProducerReady,
       ProducerReleased, PacedReleased, PacedProduce, setup
  <2>. QED
    BY Zenon, <1>2, <2>1 DEF Registry
<1>5. CASE Consumer
  <2>1. UNCHANGED <<program, g_pool, hash_ticker, g_markets, main>>
    BY Zenon, <1>5 DEF Consumer, PipeConsumer, PacedConsumer, MultiConsumer, PopMsg, ConsumerReady,
       ConsumerReleased, ConsumerEnd, HandleMsg, Dispatch, setup
  <2>. QED
    BY Zenon, <1>2, <2>1 DEF Registry
<1>6. CASE PipeMain \/ PacedMain \/ (MultiMain /\ ~ register_market)
  BY <1>2, <1>6 DEF PipeMain, PacedMain, MultiMain, StartThreads, Arm, ArmAfter, JoinThreads, setup, Entered, Registry
<1>7. CASE Tick \/ Exit \/ UNCHANGED vars
  <2>1. UNCHANGED <<program, g_pool, hash_ticker, g_markets, main>>
    BY Zenon, <1>7 DEF Tick, Exit, vars, setup
  <2>. QED
    BY Zenon, <1>2, <2>1 DEF Registry
<1>. QED
  BY Zenon, <1>1, <1>3, <1>4, <1>5, <1>6, <1>7 DEF Next, Main, MultiMain

\* In the beginning no market is registered.
LEMMA RegistryInit == Init => Registry
<1>. SUFFICES ASSUME Init PROVE Registry
  OBVIOUS
<1>1. main = "start" /\ g_markets = <<>>
  BY Zenon DEF Init
<1>2. program # "multi" => g_pool \in Pools({kTicker})
  BY DEF Init, SinglePools, PipePools, PacedPools
<1>3. program # "multi" => \A k \in 0 .. N_PAYLOADS - 1 : g_pool[k].ticker = kTicker
  BY <1>2 DEF Pools, Payload
<1>4. program = "multi" => hash_ticker \in Injection(Tickers, Tickers)
  BY Zenon DEF Init, hash_ticker_choices
<1>5. DOMAIN g_markets = {}
  BY <1>1
<1>6. IsFiniteSet(DOMAIN g_markets) /\ Entered = 0
  BY Zenon, <1>5, FS_EmptySet DEF Entered
<1>7. 0 \in 0 .. N_TICKERS /\ 1 .. 0 = {}
  BY Constants
<1>. QED
  BY Zenon, <1>1, <1>3, <1>4, <1>5, <1>6, <1>7 DEF Registry

------------------------------------------------------------------------------
(* The messages                                                             *)

\* What message n is parsed to, and a message that is the n-th: its stamp lies
\* in the past and is, in the window of the paced program, the time it was due.
DeltaOf(n) == [ticker |-> g_pool[PayloadOf(n)].ticker, change |-> PayloadOf(n)]
Messages == [delta : Deltas, tsc : Nat]
IsMessage(m, n) ==
    /\ m \in Messages
    /\ m.delta = DeltaOf(n)
    /\ m.tsc <= tsc
    /\ program = "paced" /\ n >= N_WARMUP => m.tsc = Deadline(n)

\* The messages the consumer has taken out of the queue.
Popped == IF cons = "handle" THEN j + 1 ELSE j

FlowTypes ==
    /\ i \in 0 .. N_TOTAL /\ j \in 0 .. N_TOTAL
    /\ msg \in Messages /\ out \in Messages /\ q \in Seq(Messages)
    /\ tsc \in Nat /\ g_t0 \in Nat /\ g_max_lateness \in Nat /\ g_throughput_end_tsc \in Nat
    /\ g_alloc_armed \in BOOLEAN
    /\ program = "paced" => g_offsets \in [Samples -> Nat]

\* One thread: a message is handled before the next is parsed.
SingleFlow ==
    program = "single" =>
        /\ i = IF main = "end" THEN j + 1 ELSE j
        /\ main \in {"start", "warm"} => j < N_WARMUP
        /\ main = "arm" => j = N_WARMUP
        /\ main \in {"begin", "end"} => j < N_TOTAL
        /\ main = "done" => j = N_TOTAL
        /\ main = "end" => IsMessage(msg, j)

\* The message the consumer works on, and those in the queue behind it.
InFlight ==
    /\ cons = "handle" => IsMessage(out, j)
    /\ \A k \in 1 .. Len(q) : IsMessage(q[k], Popped + k - 1)

\* Two threads: what is produced and not handled is in the queue, in order, or
\* with the consumer.
WorkersFlow ==
    program # "single" =>
        /\ prod \in {"idle", "produce", "push", "ready", "spin", "due", "done"}
        /\ cons \in {"idle", "pop", "handle", "ready", "spin", "end", "done"}
        /\ i = Popped + Len(q)
        /\ prod \in {"produce", "push", "due"} => i < N_TOTAL
        /\ prod \in {"ready", "spin"} => i = N_WARMUP
        /\ prod = "done" => i = N_TOTAL
        /\ prod = "due" => program = "paced"
        /\ prod = "produce" /\ program = "paced" => i < N_WARMUP
        /\ cons \in {"pop", "handle"} => j < N_TOTAL
        /\ cons \in {"ready", "spin"} => j = N_WARMUP
        /\ cons \in {"end", "done"} => j = N_TOTAL
        /\ main = "done" => prod = "done" /\ cons = "done"
        /\ prod = "push" => IsMessage(msg, i)
        /\ InFlight

Flow == FlowTypes /\ SingleFlow /\ WorkersFlow

\* The measured window is not empty, and has one sample per message.
LEMMA MoreConstants ==
    /\ N_TOTAL \in Nat /\ N_WARMUP < N_TOTAL /\ N_TOTAL = N_WARMUP + N_MEASURE
    /\ Samples = 0 .. N_MEASURE - 1
BY Constants DEF N_TOTAL, Samples

\* A message stays what it is while time passes.
LEMMA MessageKept ==
    ASSUME NEW m, NEW n \in Nat, IsMessage(m, n), UNCHANGED <<program, g_pool, g_offsets>>,
           tsc \in Nat, tsc' \in Nat, tsc <= tsc',
           UNCHANGED g_t0 \/ program # "paced" \/ n < N_WARMUP
    PROVE  IsMessage(m, n)'
<1>1. DeltaOf(n)' = DeltaOf(n)
  BY Zenon DEF DeltaOf, PayloadOf
<1>2. program = "paced" /\ n >= N_WARMUP => Deadline(n)' = Deadline(n)
  BY Constants DEF Deadline
<1>3. m \in Messages /\ m.tsc \in Nat /\ m.tsc <= tsc
  BY DEF IsMessage, Messages
<1>4. m.tsc <= tsc'
  BY <1>3
<1>. QED
  BY Zenon, <1>1, <1>2, <1>3, <1>4 DEF IsMessage

\* Every payload parses, so the message parsed is the next one, whatever the
\* message was before.
LEMMA ParsedMessage ==
    ASSUME BarrierTypes, NEW n \in Nat, NEW stamp \in Nat, Parsed(n, stamp),
           UNCHANGED <<program, g_pool, g_offsets, g_t0, tsc>>,
           tsc \in Nat, stamp <= tsc, program = "paced" /\ n >= N_WARMUP => stamp = Deadline(n)
    PROVE  msg' \in Messages /\ \A m : m = msg' => IsMessage(m, n)'
<1>1. PICK k, p : k = PayloadOf(n) /\ p = g_pool[k]
  BY Zenon
<1>2. k \in 0 .. N_PAYLOADS - 1 /\ p.ticker \in Tickers /\ p.price \in 1 .. MAX_PRICE
  BY Zenon, <1>1, PayloadInPool DEF BarrierTypes, Payload
<1>3. msg' = [delta |-> [ticker |-> p.ticker, change |-> k], tsc |-> stamp]
  BY Zenon, <1>1, <1>2 DEF Parsed, parse_orderbook_delta
<1>4. p.ticker \in 0 .. N_TICKERS
  BY <1>2, Constants DEF Tickers
<1>5. msg' \in Messages
  BY <1>2, <1>3, <1>4 DEF Messages, Deltas
<1>6. DeltaOf(n)' = [ticker |-> p.ticker, change |-> k]
  <2>1. PayloadOf(n)' = k
    BY Zenon, <1>1 DEF PayloadOf
  <2>. QED
    BY Zenon, <1>1, <2>1 DEF DeltaOf
<1>7. program = "paced" /\ n >= N_WARMUP => Deadline(n)' = Deadline(n)
  BY Zenon DEF Deadline
<1>8. msg'.delta = DeltaOf(n)' /\ msg'.tsc = stamp
  BY <1>3, <1>6
<1>. QED
  BY Zenon, <1>5, <1>7, <1>8 DEF IsMessage

\* The single thread parses a message and handles it before the next.
LEMMA SingleFlowInv ==
    ASSUME HInv, Flow, SingleMain
    PROVE  Flow'
<1>1. /\ program = "single"
      /\ UNCHANGED <<program, g_pool, g_offsets, tsc, g_t0, g_max_lateness, g_throughput_end_tsc, out, q>>
  BY Zenon DEF SingleMain, SingleWarmup, SingleArm, SingleBegin, SingleEnd, setup
<1>2. BarrierTypes /\ FlowTypes
  BY Zenon DEF HInv, Flow
<1>3. WorkersFlow'
  BY Zenon, <1>1 DEF WorkersFlow
<1>4. i = (IF main = "end" THEN j + 1 ELSE j) /\ i \in Nat /\ j \in Nat /\ tsc \in Nat
  BY Zenon, <1>1, <1>2 DEF Flow, SingleFlow, BarrierTypes, FlowTypes
<1>5. ASSUME i' \in 0 .. N_TOTAL, j' \in 0 .. N_TOTAL, msg' \in Messages, g_alloc_armed' \in BOOLEAN
      PROVE  FlowTypes'
  BY Zenon, <1>1, <1>2, <1>5 DEF FlowTypes
<1>6. CASE SingleWarmup
  <2>1. /\ main \in {"start", "warm"} /\ i < N_WARMUP /\ Parsed(i, 0) /\ i' = i + 1 /\ j' = j + 1
        /\ main' = (IF i + 1 = N_WARMUP THEN "arm" ELSE "warm") /\ UNCHANGED g_alloc_armed
    BY Zenon, <1>6 DEF SingleWarmup
  <2>2. program # "paced" /\ 0 \in Nat /\ 0 <= tsc
    BY <1>1, <1>4
  <2>3. msg' \in Messages
    BY Zenon, <1>1, <1>2, <1>4, <2>1, <2>2, ParsedMessage
  <2>4. /\ i' = j' /\ i' \in 0 .. N_TOTAL /\ (main' = "arm" => j' = N_WARMUP)
        /\ (main' = "warm" => j' < N_WARMUP) /\ main' \in {"arm", "warm"}
    BY <1>4, <2>1, Constants, MoreConstants
  <2>5. SingleFlow'
    BY Zenon, <2>4 DEF SingleFlow
  <2>. QED
    BY Zenon, <1>2, <1>3, <1>5, <2>1, <2>3, <2>4, <2>5 DEF Flow, FlowTypes
<1>7. CASE SingleArm
  <2>1. main = "arm" /\ main' = "begin" /\ g_alloc_armed' = TRUE /\ UNCHANGED <<i, j, msg>>
    BY Zenon, <1>7 DEF SingleArm
  <2>2. j = N_WARMUP
    BY Zenon, <1>1, <2>1 DEF Flow, SingleFlow
  <2>3. SingleFlow'
    BY <1>4, <2>1, <2>2, MoreConstants DEF SingleFlow
  <2>. QED
    BY Zenon, <1>2, <1>3, <1>5, <2>1, <2>3 DEF Flow, FlowTypes
<1>8. CASE SingleBegin
  <2>1. /\ main = "begin" /\ main' = "end" /\ Parsed(i, tsc) /\ i' = i + 1 /\ UNCHANGED <<j, g_alloc_armed>>
    BY Zenon, <1>8 DEF SingleBegin
  <2>2. i = j /\ j < N_TOTAL /\ program # "paced" /\ tsc <= tsc
    BY <1>1, <1>4, <2>1 DEF Flow, SingleFlow
  <2>3. PICK n \in Nat : n = i /\ n = j
    BY Zenon, <1>4, <2>2
  <2>4. msg' \in Messages /\ \A m : m = msg' => IsMessage(m, n)'
    BY Zenon, <1>1, <1>2, <1>4, <2>1, <2>2, <2>3, ParsedMessage
  <2>5. IsMessage(msg, j)'
    BY Zenon, <2>1, <2>3, <2>4
  <2>6. i' \in 0 .. N_TOTAL /\ j' < N_TOTAL
    BY <1>4, <2>1, <2>2, MoreConstants
  <2>7. SingleFlow'
    BY <2>1, <2>2, <2>5, <2>6 DEF SingleFlow
  <2>. QED
    BY Zenon, <1>2, <1>3, <1>5, <2>1, <2>4, <2>6, <2>7 DEF Flow, FlowTypes
<1>9. CASE SingleEnd
  <2>1. /\ main = "end" /\ j' = j + 1 /\ UNCHANGED <<i, msg>>
        /\ IF j + 1 = N_TOTAL THEN main' = "done" /\ g_alloc_armed' = FALSE
                              ELSE main' = "begin" /\ UNCHANGED g_alloc_armed
    BY Zenon, <1>9 DEF SingleEnd
  <2>2. i = j + 1 /\ j < N_TOTAL
    BY <1>1, <1>4, <2>1 DEF Flow, SingleFlow
  <2>3. /\ j' \in 0 .. N_TOTAL /\ i' = j' /\ main' \in {"begin", "done"}
        /\ (main' = "begin" => j' < N_TOTAL) /\ (main' = "done" => j' = N_TOTAL)
    BY <1>4, <2>1, <2>2, MoreConstants
  <2>4. SingleFlow'
    BY Zenon, <2>3 DEF SingleFlow
  <2>5. g_alloc_armed' \in BOOLEAN
    BY Zenon, <1>2, <2>1 DEF FlowTypes
  <2>. QED
    BY Zenon, <1>2, <1>3, <1>5, <2>1, <2>3, <2>4, <2>5 DEF Flow, FlowTypes
<1>. QED
  BY Zenon, <1>6, <1>7, <1>8, <1>9 DEF SingleMain

\* The messages on their way stay what they are.
LEMMA InFlightKept ==
    ASSUME Flow, program # "single", UNCHANGED <<program, g_pool, g_offsets, q, out, j>>,
           cons = "handle" <=> cons' = "handle", tsc' \in Nat, tsc <= tsc',
           UNCHANGED g_t0 \/ program # "paced" \/ i <= N_WARMUP
    PROVE  InFlight' /\ Popped' = Popped
<1>1. /\ tsc \in Nat /\ j \in Nat /\ Popped \in Nat /\ i = Popped + Len(q) /\ q \in Seq(Messages)
      /\ InFlight
  BY DEF Flow, FlowTypes, WorkersFlow, Popped
<1>2. Popped' = Popped
  BY Zenon DEF Popped
<1>3. PICK p, s, o, c, l : p = Popped /\ s = q /\ o = out /\ c = j /\ l = Len(q)
  BY Zenon
<1>4. l \in Nat
  BY <1>1, <1>3
<1>5. ASSUME NEW k \in 1 .. l PROVE IsMessage(s[k], p + k - 1)'
  <2>1. PICK n \in Nat : n = p + k - 1 /\ n < i
    BY <1>1, <1>3, <1>4
  <2>2. IsMessage(s[k], n)
    BY Zenon, <1>1, <1>3, <2>1 DEF InFlight
  <2>3. UNCHANGED g_t0 \/ program # "paced" \/ n < N_WARMUP
    BY <2>1, <1>1, <1>3, <1>4, Constants
  <2>4. IsMessage(s[k], n)'
    BY Zenon, <1>1, <2>2, <2>3, MessageKept
  <2>. QED
    BY Zenon, <2>1, <2>4
<1>6. ASSUME cons = "handle" PROVE IsMessage(o, c)'
  <2>1. c \in Nat /\ c < i
    BY <1>1, <1>3, <1>4, <1>6 DEF Popped
  <2>2. UNCHANGED g_t0 \/ program # "paced" \/ c < N_WARMUP
    BY <2>1, <1>1, <1>3, <1>4, Constants
  <2>3. IsMessage(o, c)
    BY Zenon, <1>1, <1>3, <1>6 DEF InFlight
  <2>. QED
    BY Zenon, <1>1, <2>1, <2>2, <2>3, MessageKept
<1>7. Len(q)' = l /\ q' = s /\ out' = o /\ j' = c /\ Popped' = p
  BY Zenon, <1>2, <1>3
<1>8. InFlight'
  BY Zenon, <1>5, <1>6, <1>7 DEF InFlight
<1>. QED
  BY Zenon, <1>2, <1>8

\* What every step of a worker relies on.
LEMMA WorkerFacts ==
    ASSUME HInv, Flow, program # "single"
    PROVE  /\ i \in Nat /\ j \in Nat /\ tsc \in Nat /\ Popped \in Nat /\ Len(q) \in Nat /\ q \in Seq(Messages)
           /\ i = Popped + Len(q) /\ j <= Popped /\ Popped <= i /\ i <= N_TOTAL /\ BarrierTypes /\ FlowTypes
<1>1. q \in Seq(Messages) /\ i \in 0 .. N_TOTAL /\ j \in 0 .. N_TOTAL /\ tsc \in Nat
      /\ i = Popped + Len(q) /\ BarrierTypes /\ FlowTypes
  BY Zenon DEF HInv, Flow, FlowTypes, WorkersFlow
<1>2. Len(q) \in Nat
  BY <1>1
<1>3. Popped \in Nat /\ j <= Popped
  BY <1>1, MoreConstants DEF Popped
<1>. QED
  BY <1>1, <1>2, <1>3, MoreConstants

\* The producer stamps and parses message i, in the paced program when it is due.
LEMMA ProduceFlow ==
    ASSUME HInv, Flow, program # "single", Produce \/ (program = "paced" /\ PacedProduce)
    PROVE  Flow'
<1>1. PICK n, stamp :
         /\ n = i /\ Parsed(n, stamp) /\ prod' = "push"
         /\ \/ prod = "produce" /\ stamp = tsc /\ UNCHANGED g_max_lateness
            \/ /\ prod = "due" /\ tsc >= Deadline(n) /\ stamp = Deadline(n) /\ program = "paced"
               /\ g_max_lateness' = IF tsc - Deadline(n) > g_max_lateness THEN tsc - Deadline(n) ELSE g_max_lateness
         /\ UNCHANGED <<program, g_pool, g_offsets, main, cons, i, j, q, out, g_alloc_armed, tsc, g_t0,
                        g_throughput_end_tsc>>
  BY Zenon DEF Produce, PacedProduce, setup
<1>2. /\ n \in Nat /\ tsc \in Nat /\ n < N_TOTAL /\ g_t0 \in Nat /\ g_max_lateness \in Nat
      /\ BarrierTypes /\ FlowTypes /\ prod \in {"produce", "due"}
  BY <1>1, WorkerFacts DEF Flow, FlowTypes, WorkersFlow
<1>3. prod = "due" => Deadline(n) \in Nat
  <2>1. prod = "due" => n >= N_WARMUP /\ program = "paced"
    BY <1>1 DEF HInv, WorkersPhase
  <2>2. prod = "due" => n - N_WARMUP \in Samples /\ g_offsets \in [Samples -> Nat]
    BY <1>2, <2>1, Constants, MoreConstants DEF FlowTypes
  <2>3. prod = "due" => g_offsets[n - N_WARMUP] \in Nat
    BY Zenon, <2>2
  <2>. QED
    BY <1>2, <2>3 DEF Deadline
<1>4. prod = "produce" /\ program = "paced" => n < N_WARMUP
  BY Zenon, <1>1 DEF Flow, WorkersFlow
<1>5. stamp \in Nat /\ stamp <= tsc /\ g_max_lateness' \in Nat
  BY <1>1, <1>2, <1>3
<1>6. program = "paced" /\ n >= N_WARMUP => stamp = Deadline(n)
  BY <1>1, <1>2, <1>4, Constants
<1>7. msg' \in Messages /\ \A m : m = msg' => IsMessage(m, n)'
  BY Zenon, <1>1, <1>2, <1>5, <1>6, ParsedMessage
<1>8. InFlight' /\ Popped' = Popped
  <2>1. tsc' \in Nat /\ tsc <= tsc'
    BY <1>1, <1>2
  <2>. QED
    BY Zenon, <1>1, <2>1, InFlightKept
<1>9. IsMessage(msg, i)'
  BY Zenon, <1>1, <1>7
<1>10. FlowTypes'
  BY Zenon, <1>1, <1>2, <1>5, <1>7 DEF FlowTypes
<1>11. SingleFlow'
  BY Zenon, <1>1 DEF SingleFlow
<1>12. main' # "done"
  BY <1>1, <1>2 DEF Flow, WorkersFlow
<1>13. WorkersFlow'
  BY <1>1, <1>2, <1>8, <1>9, <1>12 DEF Flow, WorkersFlow
<1>. QED
  BY Zenon, <1>10, <1>11, <1>13 DEF Flow

\* The message enters the queue behind those produced before it.
LEMMA PushFlow ==
    ASSUME HInv, Flow, program # "single", PushMsg
    PROVE  Flow'
<1>1. /\ prod = "push" /\ q' = Append(q, msg) /\ i' = i + 1
      /\ prod' = CASE i + 1 = N_TOTAL -> "done"
                   [] i + 1 = N_WARMUP -> "ready"
                   [] i + 1 \in N_WARMUP + 1 .. N_TOTAL - 1 /\ program = "paced" -> "due"
                   [] OTHER -> "produce"
      /\ UNCHANGED <<program, g_pool, g_offsets, main, cons, j, msg, out, g_alloc_armed, tsc, g_t0,
                     g_max_lateness, g_throughput_end_tsc>>
  BY Zenon DEF PushMsg, setup, g_queue!Push
<1>2. /\ i \in Nat /\ Popped \in Nat /\ q \in Seq(Messages) /\ i = Popped + Len(q) /\ FlowTypes
      /\ tsc \in Nat /\ msg \in Messages
  BY WorkerFacts DEF FlowTypes
<1>3. IsMessage(msg, i) /\ i < N_TOTAL /\ InFlight /\ main # "done"
  BY <1>1 DEF Flow, WorkersFlow
<1>4. /\ prod' \in {"done", "ready", "due", "produce"} /\ i' \in 0 .. N_TOTAL
      /\ (prod' = "done" => i' = N_TOTAL) /\ (prod' = "ready" => i' = N_WARMUP)
      /\ (prod' \in {"due", "produce"} => i' < N_TOTAL) /\ (prod' = "due" => program = "paced")
      /\ (prod' = "produce" /\ program = "paced" => i' < N_WARMUP)
  <2>1. PICK n \in Nat : n = i + 1 /\ n <= N_TOTAL
    BY <1>2, <1>3, MoreConstants
  <2>2. prod' = CASE n = N_TOTAL -> "done"
                  [] n = N_WARMUP -> "ready"
                  [] n \in N_WARMUP + 1 .. N_TOTAL - 1 /\ program = "paced" -> "due"
                  [] OTHER -> "produce"
    BY Zenon, <1>1, <2>1
  <2>3. n = N_TOTAL \/ n < N_TOTAL
    BY <2>1, MoreConstants
  <2>4. n < N_TOTAL => n = N_WARMUP \/ n < N_WARMUP \/ n \in N_WARMUP + 1 .. N_TOTAL - 1
    BY <2>1, Constants, MoreConstants
  <2>5. N_WARMUP # N_TOTAL /\ n \in 0 .. N_TOTAL
    BY <2>1, Constants, MoreConstants
  <2>6. /\ prod' \in {"done", "ready", "due", "produce"}
        /\ (prod' = "done" => n = N_TOTAL) /\ (prod' = "ready" => n = N_WARMUP)
        /\ (prod' \in {"due", "produce"} => n # N_TOTAL) /\ (prod' = "due" => program = "paced")
        /\ (prod' = "produce" /\ program = "paced" =>
               n # N_TOTAL /\ n # N_WARMUP /\ n \notin N_WARMUP + 1 .. N_TOTAL - 1)
    BY <2>2
  <2>7. i' = n
    BY Zenon, <1>1, <2>1
  <2>. QED
    BY Zenon, <2>3, <2>4, <2>5, <2>6, <2>7
<1>5. Popped' = Popped
  BY Zenon, <1>1 DEF Popped
<1>6. /\ q' \in Seq(Messages) /\ Len(q') = Len(q) + 1
      /\ \A k \in 1 .. Len(q') : q'[k] = IF k <= Len(q) THEN q[k] ELSE msg
  BY <1>1, <1>2
<1>7. PICK p, s, l, m, o, c : p = Popped /\ s = q /\ l = Len(q) /\ m = msg /\ o = out /\ c = j
  BY Zenon
<1>8. tsc' \in Nat /\ tsc <= tsc' /\ l \in Nat /\ c \in Nat
  BY <1>1, <1>2, <1>7, WorkerFacts
<1>9. ASSUME NEW k \in 1 .. l + 1 PROVE IsMessage(IF k <= l THEN s[k] ELSE m, p + k - 1)'
  <2>1. PICK n \in Nat : n = p + k - 1
    BY <1>2, <1>7, <1>8
  <2>2. CASE k <= l
    <3>1. k \in 1 .. l
      BY <1>8, <2>2
    <3>2. IsMessage(s[k], n)
      BY Zenon, <1>3, <1>7, <2>1, <3>1 DEF InFlight
    <3>3. IsMessage(s[k], n)'
      BY Zenon, <1>1, <1>2, <1>8, <3>2, MessageKept
    <3>. QED
      BY Zenon, <2>1, <2>2, <3>3
  <2>3. CASE ~ (k <= l)
    <3>1. n = i
      BY <1>2, <1>7, <1>8, <2>1, <2>3
    <3>2. IsMessage(m, n)
      BY Zenon, <1>3, <1>7, <3>1
    <3>3. IsMessage(m, n)'
      BY Zenon, <1>1, <1>2, <1>8, <3>2, MessageKept
    <3>. QED
      BY Zenon, <2>1, <2>3, <3>3
  <2>. QED
    BY Zenon, <2>2, <2>3
<1>10. ASSUME cons = "handle" PROVE IsMessage(o, c)'
  <2>1. IsMessage(o, c)
    BY Zenon, <1>3, <1>7, <1>10 DEF InFlight
  <2>. QED
    BY Zenon, <1>1, <1>2, <1>8, <2>1, MessageKept
<1>11. InFlight'
  <2>1. Len(q)' = l + 1 /\ Popped' = p /\ out' = o /\ j' = c /\ UNCHANGED cons
    BY Zenon, <1>1, <1>5, <1>6, <1>7
  <2>2. \A k \in 1 .. Len(q)' : q'[k] = IF k <= l THEN s[k] ELSE m
    BY Zenon, <1>6, <1>7
  <2>. QED
    BY Zenon, <1>9, <1>10, <2>1, <2>2 DEF InFlight
<1>12. FlowTypes'
  BY Zenon, <1>1, <1>2, <1>4, <1>6 DEF FlowTypes
<1>13. SingleFlow'
  BY Zenon, <1>1 DEF SingleFlow
<1>14. i' = Popped' + Len(q')
  BY <1>1, <1>2, <1>5, <1>6
<1>15. WorkersFlow'
  BY <1>1, <1>3, <1>4, <1>11, <1>14 DEF Flow, WorkersFlow
<1>. QED
  BY Zenon, <1>12, <1>13, <1>15 DEF Flow

\* At the barrier: nothing moves.
LEMMA BarrierFlow ==
    ASSUME HInv, Flow, program # "single",
           \/ ProducerReady \/ (ProducerReleased /\ program # "paced") \/ (PacedReleased /\ program = "paced")
           \/ ConsumerReady \/ ConsumerReleased \/ ConsumerEnd
    PROVE  Flow'
<1>1. UNCHANGED <<program, g_pool, g_offsets, main, i, j, msg, q, out, g_alloc_armed, tsc, g_max_lateness>>
  BY Zenon DEF ProducerReady, ProducerReleased, PacedReleased, ConsumerReady, ConsumerReleased, ConsumerEnd, setup
<1>2. \/ /\ prod = "ready" /\ prod' = "spin" /\ UNCHANGED <<cons, g_t0, g_throughput_end_tsc>>
      \/ /\ prod = "spin" /\ prod' = "produce" /\ program # "paced" /\ UNCHANGED <<cons, g_t0, g_throughput_end_tsc>>
      \/ /\ prod = "spin" /\ prod' = "due" /\ program = "paced" /\ g_t0' = tsc + Lead
         /\ UNCHANGED <<cons, g_throughput_end_tsc>>
      \/ /\ cons = "ready" /\ cons' = "spin" /\ UNCHANGED <<prod, g_t0, g_throughput_end_tsc>>
      \/ /\ cons = "spin" /\ cons' = "pop" /\ g_t0' = (IF program = "paced" THEN g_t0 ELSE tsc)
         /\ UNCHANGED <<prod, g_throughput_end_tsc>>
      \/ /\ cons = "end" /\ cons' = "done" /\ g_throughput_end_tsc' = tsc /\ UNCHANGED <<prod, g_t0>>
  BY Zenon DEF ProducerReady, ProducerReleased, PacedReleased, ConsumerReady, ConsumerReleased, ConsumerEnd
<1>3. i \in Nat /\ tsc \in Nat /\ FlowTypes /\ WorkersFlow
  BY Zenon, WorkerFacts DEF Flow
<1>4. g_t0' \in Nat /\ g_throughput_end_tsc' \in Nat
  <2>1. g_t0 \in Nat /\ g_throughput_end_tsc \in Nat /\ Lead \in Nat
    BY <1>3, HotPathAssumption DEF FlowTypes
  <2>2. g_t0' \in {g_t0, tsc, tsc + Lead} /\ g_throughput_end_tsc' \in {tsc, g_throughput_end_tsc}
    BY Zenon, <1>2
  <2>. QED
    BY <1>3, <2>1, <2>2
<1>5. FlowTypes'
  BY Zenon, <1>1, <1>3, <1>4 DEF FlowTypes
<1>6. InFlight' /\ Popped' = Popped
  <2>1. tsc' \in Nat /\ tsc <= tsc'
    BY <1>1, <1>3
  <2>2. cons = "handle" <=> cons' = "handle"
    BY <1>2
  <2>3. UNCHANGED g_t0 \/ program # "paced" \/ i <= N_WARMUP
    BY <1>2, <1>3, Constants DEF WorkersFlow
  <2>. QED
    BY Zenon, <1>1, <2>1, <2>2, <2>3, InFlightKept
<1>7. SingleFlow'
  BY Zenon, <1>1 DEF SingleFlow
<1>8. prod' = "push" => IsMessage(msg, i)'
  <2>1. prod' = "push" => (prod = "push" /\ UNCHANGED g_t0) \/ program # "paced"
    BY <1>2
  <2>2. PICK m, n : m = msg /\ n = i
    BY Zenon
  <2>3. prod' = "push" => prod = "push"
    BY <1>2
  <2>4. prod' = "push" => IsMessage(m, n)
    BY Zenon, <1>3, <2>2, <2>3 DEF WorkersFlow
  <2>5. tsc' \in Nat /\ tsc <= tsc'
    BY <1>1, <1>3
  <2>6. prod' = "push" => IsMessage(m, n)'
    BY Zenon, <1>1, <1>3, <2>1, <2>2, <2>4, <2>5, MessageKept
  <2>. QED
    BY Zenon, <1>1, <2>2, <2>6
<1>9. WorkersFlow'
  <2>1. i' = Popped' + Len(q')
    BY Zenon, <1>1, <1>3, <1>6 DEF WorkersFlow
  <2>2. main # "done"
    BY <1>2, <1>3 DEF WorkersFlow
  <2>. QED
    BY <1>1, <1>2, <1>3, <1>6, <1>8, <2>1, <2>2, MoreConstants, Constants DEF WorkersFlow
<1>. QED
  BY Zenon, <1>5, <1>7, <1>9 DEF Flow

\* The consumer takes the oldest message out.
LEMMA PopFlow ==
    ASSUME HInv, Flow, program # "single", PopMsg
    PROVE  Flow'
<1>1. /\ cons = "pop" /\ cons' = "handle" /\ q # <<>> /\ out' = Head(q) /\ q' = Tail(q)
      /\ UNCHANGED <<program, g_pool, g_offsets, main, prod, i, j, msg, g_alloc_armed, tsc, g_t0,
                     g_max_lateness, g_throughput_end_tsc>>
  BY Zenon DEF PopMsg, setup, g_queue!Take
<1>2. /\ i \in Nat /\ j \in Nat /\ q \in Seq(Messages) /\ i = Popped + Len(q) /\ FlowTypes /\ tsc \in Nat
      /\ InFlight /\ WorkersFlow
  BY Zenon, WorkerFacts DEF Flow, WorkersFlow
<1>3. Popped = j /\ Popped' = j + 1
  BY <1>1 DEF Popped
<1>4. /\ Len(q) \in Nat \ {0} /\ q' \in Seq(Messages) /\ Len(q') = Len(q) - 1 /\ out' = q[1] /\ out' \in Messages
      /\ \A k \in 1 .. Len(q') : q'[k] = q[k + 1]
  BY <1>1, <1>2
<1>5. PICK s, l, c : s = q /\ l = Len(q) /\ c = j
  BY Zenon
<1>6. tsc' \in Nat /\ tsc <= tsc' /\ l \in Nat /\ l > 0 /\ c \in Nat
  BY <1>1, <1>2, <1>4, <1>5
<1>7. ASSUME NEW k \in 1 .. l PROVE IsMessage(s[k], c + k - 1)'
  <2>1. PICK n \in Nat : n = c + k - 1
    BY <1>6
  <2>2. IsMessage(s[k], n)
    BY Zenon, <1>2, <1>3, <1>5, <2>1 DEF InFlight
  <2>3. IsMessage(s[k], n)'
    BY Zenon, <1>1, <1>2, <1>6, <2>2, MessageKept
  <2>. QED
    BY Zenon, <2>1, <2>3
<1>8. IsMessage(out, j)'
  <2>1. 1 \in 1 .. l /\ c + 1 - 1 = c
    BY <1>6
  <2>2. IsMessage(s[1], c)'
    BY Zenon, <1>7, <2>1
  <2>3. out' = s[1] /\ j' = c
    BY Zenon, <1>1, <1>4, <1>5
  <2>. QED
    BY Zenon, <2>2, <2>3
<1>9. ASSUME NEW k \in 1 .. Len(q') PROVE IsMessage(q[k], Popped + k - 1)'
  <2>1. k + 1 \in 1 .. l /\ c + (k + 1) - 1 = c + 1 + k - 1
    BY <1>4, <1>5, <1>6
  <2>2. IsMessage(s[k + 1], c + 1 + k - 1)'
    BY Zenon, <1>7, <2>1
  <2>3. q'[k] = s[k + 1] /\ Popped' = c + 1
    BY Zenon, <1>3, <1>4, <1>5
  <2>. QED
    BY Zenon, <2>2, <2>3
<1>10. InFlight'
  BY Zenon, <1>8, <1>9 DEF InFlight
<1>11. FlowTypes'
  BY Zenon, <1>1, <1>2, <1>4 DEF FlowTypes
<1>12. SingleFlow'
  BY Zenon, <1>1 DEF SingleFlow
<1>13. prod' = "push" => IsMessage(msg, i)'
  <2>1. PICK m, n : m = msg /\ n = i
    BY Zenon
  <2>2. prod' = "push" => IsMessage(m, n)
    BY Zenon, <1>1, <1>2, <2>1 DEF WorkersFlow
  <2>3. prod' = "push" => IsMessage(m, n)'
    BY Zenon, <1>1, <1>2, <1>6, <2>1, <2>2, MessageKept
  <2>. QED
    BY Zenon, <1>1, <2>1, <2>3
<1>14. i' = Popped' + Len(q') /\ main # "done"
  BY <1>1, <1>2, <1>3, <1>4 DEF WorkersFlow
<1>15. WorkersFlow'
  BY <1>1, <1>2, <1>10, <1>13, <1>14 DEF WorkersFlow
<1>. QED
  BY Zenon, <1>11, <1>12, <1>15 DEF Flow

\* The consumer is done with message j.
LEMMA HandleFlow ==
    ASSUME HInv, Flow, program # "single", cons = "handle", NEW t, HandleMsg(t)
    PROVE  Flow'
<1>1. /\ j' = j + 1 /\ cons' = ConsumerNext(j + 1)
      /\ UNCHANGED <<program, g_pool, g_offsets, main, prod, i, msg, q, out, g_alloc_armed, tsc, g_t0,
                     g_max_lateness, g_throughput_end_tsc>>
  BY Zenon DEF HandleMsg, setup
<1>2. /\ i \in Nat /\ j \in Nat /\ q \in Seq(Messages) /\ i = Popped + Len(q) /\ FlowTypes /\ tsc \in Nat
      /\ Len(q) \in Nat /\ InFlight /\ WorkersFlow
  BY Zenon, WorkerFacts DEF Flow, WorkersFlow
<1>3. j < N_TOTAL /\ main # "done"
  BY <1>2 DEF WorkersFlow
<1>4. /\ cons' \in {"end", "ready", "pop"} /\ j' \in 0 .. N_TOTAL
      /\ (cons' = "end" => j' = N_TOTAL) /\ (cons' = "ready" => j' = N_WARMUP) /\ (cons' = "pop" => j' < N_TOTAL)
  BY <1>1, <1>2, <1>3, MoreConstants DEF ConsumerNext
<1>5. Popped = j + 1 /\ Popped' = j + 1
  BY <1>1, <1>4 DEF Popped
<1>6. tsc' \in Nat /\ tsc <= tsc'
  BY <1>1, <1>2
<1>7. PICK s, l, p : s = q /\ l = Len(q) /\ p = Popped
  BY Zenon
<1>8. ASSUME NEW k \in 1 .. l PROVE IsMessage(s[k], p + k - 1)'
  <2>1. PICK n \in Nat : n = p + k - 1
    BY <1>2, <1>5, <1>7
  <2>2. IsMessage(s[k], n)
    BY Zenon, <1>2, <1>7, <2>1 DEF InFlight
  <2>3. IsMessage(s[k], n)'
    BY Zenon, <1>1, <1>2, <1>6, <2>2, MessageKept
  <2>. QED
    BY Zenon, <2>1, <2>3
<1>9. InFlight'
  <2>1. q' = s /\ Len(q)' = l /\ Popped' = p
    BY Zenon, <1>1, <1>5, <1>7
  <2>2. cons' # "handle"
    BY <1>4
  <2>. QED
    BY Zenon, <1>8, <2>1, <2>2 DEF InFlight
<1>10. FlowTypes'
  BY Zenon, <1>1, <1>2, <1>4 DEF FlowTypes
<1>11. SingleFlow'
  BY Zenon, <1>1 DEF SingleFlow
<1>12. prod' = "push" => IsMessage(msg, i)'
  <2>1. PICK m, n : m = msg /\ n = i
    BY Zenon
  <2>2. prod' = "push" => IsMessage(m, n)
    BY Zenon, <1>1, <1>2, <2>1 DEF WorkersFlow
  <2>3. prod' = "push" => IsMessage(m, n)'
    BY Zenon, <1>1, <1>2, <1>6, <2>1, <2>2, MessageKept
  <2>. QED
    BY Zenon, <1>1, <2>1, <2>3
<1>13. i' = Popped' + Len(q')
  BY <1>1, <1>2, <1>5
<1>14. WorkersFlow'
  BY <1>1, <1>2, <1>3, <1>4, <1>9, <1>12, <1>13 DEF WorkersFlow
<1>. QED
  BY Zenon, <1>10, <1>11, <1>14 DEF Flow

\* No lookup fails: every market has been entered before the threads start.
LEMMA MarketFound ==
    ASSUME HInv, Registry, Flow, program = "multi", cons = "handle"
    PROVE  /\ hash_ticker[out.delta.ticker] \in DOMAIN g_markets
           /\ g_markets[hash_ticker[out.delta.ticker]] = out.delta.ticker
<1>1. IsMessage(out, j) /\ j \in Nat /\ BarrierTypes /\ main # "start"
  <2>1. IsMessage(out, j) /\ j \in Nat /\ BarrierTypes
    BY Zenon, WorkerFacts DEF Flow, WorkersFlow, InFlight
  <2>2. main # "start"
    BY DEF HInv, WorkersPhase
  <2>. QED
    BY Zenon, <2>1, <2>2
<1>2. PICK k : k = PayloadOf(j)
  BY Zenon
<1>3. k \in 0 .. N_PAYLOADS - 1
  BY Zenon, <1>1, <1>2, PayloadInPool
<1>4. out.delta.ticker = g_pool[k].ticker
  BY <1>1, <1>2 DEF IsMessage, DeltaOf
<1>5. out.delta.ticker \in 1 .. N_TICKERS
  BY <1>1, <1>3, <1>4 DEF BarrierTypes, Payload, Tickers
<1>. QED
  BY Zenon, <1>1, <1>5 DEF Registry

\* Whatever the consumer does, the messages stay in order; its lookups succeed.
LEMMA ConsumerFlow ==
    ASSUME HInv, Registry, Flow, Consumer
    PROVE  Flow'
<1>1. program # "single"
  BY DEF Consumer, PipeConsumer, PacedConsumer, MultiConsumer
<1>2. CASE PopMsg
  BY Zenon, <1>1, <1>2, PopFlow
<1>3. CASE ConsumerReady \/ ConsumerReleased \/ ConsumerEnd
  BY Zenon, <1>1, <1>3, BarrierFlow
<1>4. CASE cons = "handle" /\ HandleMsg(kTicker)
  BY Zenon, <1>1, <1>4, HandleFlow
<1>5. CASE program = "multi" /\ cons = "handle" /\ Dispatch
  BY Zenon, <1>1, <1>5, HandleFlow, MarketFound DEF Dispatch
<1>. QED
  BY Zenon, <1>2, <1>3, <1>4, <1>5 DEF Consumer, PipeConsumer, PacedConsumer, MultiConsumer

\* main starts the threads, arms and joins them; time passes.
LEMMA MainFlow ==
    ASSUME HInv, Registry, Registry', Flow, PipeMain \/ PacedMain \/ MultiMain \/ Tick \/ UNCHANGED vars
    PROVE  Flow'
<1>1. /\ UNCHANGED <<program, g_pool, g_offsets, i, j, msg, q, out, g_t0, g_max_lateness, g_throughput_end_tsc>>
      /\ program = "single" => UNCHANGED main
  BY Zenon DEF PipeMain, PacedMain, MultiMain, register_market, StartThreads, Arm, ArmAfter, JoinThreads, Tick,
     vars, setup
<1>2. \/ UNCHANGED <<main, prod, cons>>
      \/ main = "start" /\ main' = "wait" /\ prod' = "produce" /\ cons' = "pop" /\ program # "single"
      \/ main' = "join" /\ UNCHANGED <<prod, cons>>
      \/ main' = "done" /\ prod = "done" /\ cons = "done" /\ UNCHANGED <<prod, cons>>
  BY Zenon DEF PipeMain, PacedMain, MultiMain, register_market, StartThreads, Arm, ArmAfter, JoinThreads, Tick,
     vars, Registry
<1>3. FlowTypes /\ tsc \in Nat /\ SingleFlow /\ WorkersFlow
  BY Zenon DEF Flow, FlowTypes
<1>4. tsc' \in Nat /\ tsc <= tsc' /\ g_alloc_armed' \in BOOLEAN
  <2>1. tsc' = tsc \/ tsc' = tsc + 1
    BY Zenon DEF PipeMain, PacedMain, MultiMain, register_market, StartThreads, Arm, ArmAfter, JoinThreads, Tick, vars
  <2>2. g_alloc_armed' \in {g_alloc_armed, TRUE, FALSE}
    BY Zenon DEF PipeMain, PacedMain, MultiMain, register_market, StartThreads, Arm, ArmAfter, JoinThreads, Tick, vars
  <2>3. g_alloc_armed' \in BOOLEAN
    BY Zenon, <1>3, <2>2 DEF FlowTypes
  <2>4. tsc' \in Nat /\ tsc <= tsc'
    BY <1>3, <2>1
  <2>. QED
    BY Zenon, <2>3, <2>4
<1>5. FlowTypes'
  BY Zenon, <1>1, <1>3, <1>4 DEF FlowTypes
<1>6. CASE program = "single"
  <2>1. main' = "end" => IsMessage(msg, j)'
    <3>1. PICK m, n : m = msg /\ n = j
      BY Zenon
    <3>2. n \in Nat
      BY <1>3, <3>1, MoreConstants DEF FlowTypes
    <3>3. main = "end" => IsMessage(m, n)
      BY Zenon, <1>3, <1>6, <3>1 DEF SingleFlow
    <3>4. main = "end" => IsMessage(m, n)'
      BY Zenon, <1>1, <1>3, <1>4, <3>2, <3>3, MessageKept
    <3>. QED
      BY Zenon, <1>1, <1>6, <3>1, <3>4
  <2>. QED
    BY Zenon, <1>1, <1>3, <1>5, <1>6, <2>1 DEF Flow, SingleFlow, WorkersFlow
<1>7. CASE program # "single"
  <2>1. cons = "handle" <=> cons' = "handle"
    BY <1>2, <1>7 DEF HInv, WorkersPhase
  <2>2. InFlight' /\ Popped' = Popped
    BY Zenon, <1>1, <1>4, <1>7, <2>1, InFlightKept
  <2>3. prod' = "push" => IsMessage(msg, i)'
    <3>1. PICK m, n : m = msg /\ n = i
      BY Zenon
    <3>2. n \in Nat
      BY <1>3, <3>1, MoreConstants DEF FlowTypes
    <3>3. prod' = "push" => prod = "push"
      BY <1>2
    <3>4. prod' = "push" => IsMessage(m, n)
      BY Zenon, <1>3, <1>7, <3>1, <3>3 DEF WorkersFlow
    <3>5. prod' = "push" => IsMessage(m, n)'
      BY Zenon, <1>1, <1>3, <1>4, <3>2, <3>4, MessageKept
    <3>. QED
      BY Zenon, <1>1, <3>1, <3>5
  <2>4. main = "start" => i = 0 /\ j = 0
    BY <1>7 DEF HInv, WorkersPhase
  <2>5. i' = Popped' + Len(q')
    BY Zenon, <1>1, <1>3, <1>7, <2>2 DEF WorkersFlow
  <2>6. /\ prod' \in {"idle", "produce", "push", "ready", "spin", "due", "done"}
        /\ cons' \in {"idle", "pop", "handle", "ready", "spin", "end", "done"}
        /\ prod' \in {"produce", "push", "due"} => i < N_TOTAL
        /\ prod' \in {"ready", "spin"} => i = N_WARMUP
        /\ prod' = "done" => i = N_TOTAL
        /\ prod' = "due" => program = "paced"
        /\ prod' = "produce" /\ program = "paced" => i < N_WARMUP
        /\ cons' \in {"pop", "handle"} => j < N_TOTAL
        /\ cons' \in {"ready", "spin"} => j = N_WARMUP
        /\ cons' \in {"end", "done"} => j = N_TOTAL
        /\ main' = "done" => prod' = "done" /\ cons' = "done"
    <3>1. CASE prod' = prod /\ cons' = cons /\ (main' = "done" => prod = "done" /\ cons = "done")
      <4>1. WorkersFlow /\ prod' = prod /\ cons' = cons
        BY Zenon, <1>3, <3>1
      <4>2. /\ prod' \in {"idle", "produce", "push", "ready", "spin", "due", "done"}
            /\ prod' \in {"produce", "push", "due"} => i < N_TOTAL
            /\ prod' \in {"ready", "spin"} => i = N_WARMUP
            /\ prod' = "done" => i = N_TOTAL
            /\ prod' = "due" => program = "paced"
            /\ prod' = "produce" /\ program = "paced" => i < N_WARMUP
        BY Zenon, <1>7, <4>1 DEF WorkersFlow
      <4>3. /\ cons' \in {"idle", "pop", "handle", "ready", "spin", "end", "done"}
            /\ cons' \in {"pop", "handle"} => j < N_TOTAL
            /\ cons' \in {"ready", "spin"} => j = N_WARMUP
            /\ cons' \in {"end", "done"} => j = N_TOTAL
        BY Zenon, <1>7, <4>1 DEF WorkersFlow
      <4>. QED
        BY Zenon, <3>1, <4>2, <4>3
    <3>2. CASE main = "start" /\ main' = "wait" /\ prod' = "produce" /\ cons' = "pop"
      <4>1. i = 0 /\ j = 0 /\ 0 < N_WARMUP /\ 0 < N_TOTAL
        BY <2>4, <3>2, Constants, MoreConstants
      <4>. QED
        BY <3>2, <4>1
    <3>3. main = "done" => prod = "done" /\ cons = "done"
      BY Zenon, <1>3, <1>7 DEF WorkersFlow
    <3>4. \/ prod' = prod /\ cons' = cons /\ (main' = "done" => prod = "done" /\ cons = "done")
          \/ main = "start" /\ main' = "wait" /\ prod' = "produce" /\ cons' = "pop"
      BY <1>2, <3>3
    <3>. QED
      BY Zenon, <3>1, <3>2, <3>4
  <2>7. program' = program /\ i' = i /\ j' = j
    BY Zenon, <1>1
  <2>8. WorkersFlow'
    BY Zenon, <2>2, <2>3, <2>5, <2>6, <2>7 DEF WorkersFlow
  <2>. QED
    BY Zenon, <1>1, <1>5, <1>7, <2>8 DEF Flow, SingleFlow
<1>. QED
  BY Zenon, <1>6, <1>7

\* A schedule never goes below its anchor.
LEMMA SchedulesTyped == Schedules \subseteq [Samples -> Nat]
<1>1. SUFFICES ASSUME NEW a \in Arguments, NEW off \in build_schedule(a) PROVE off \in [Samples -> Nat]
  BY Zenon DEF Schedules
<1>2. /\ a.mode \in {"uniform", "poisson", "burst"} /\ a.gap \in Nat /\ a.burst \in Nat \ {0}
      /\ \A s \in Samples : s \in Nat
  BY HotPathAssumption, Constants DEF Arguments, Samples
<1>3. CASE a.mode = "uniform"
  <2>1. off = [s \in Samples |-> s * a.gap]
    BY <1>3 DEF build_schedule
  <2>2. \A s \in Samples : s * a.gap \in Nat
    BY <1>2
  <2>. QED
    BY Zenon, <2>1, <2>2
<1>4. CASE a.mode = "poisson"
  <2>1. off \in [Samples -> 0 .. a.gap * (N_MEASURE - 1)]
    BY <1>4 DEF build_schedule
  <2>. QED
    BY <2>1
<1>5. CASE a.mode = "burst"
  <2>1. off = [s \in Samples |-> (s \div a.burst) * a.burst * a.gap]
    BY <1>5 DEF build_schedule
  <2>2. \A x, y, z \in Nat : x * y * z \in Nat
    OBVIOUS
  <2>3. \A s \in Samples : s \div a.burst \in Nat
    BY <1>2
  <2>4. \A s \in Samples : (s \div a.burst) * a.burst * a.gap \in Nat
    BY Zenon, <1>2, <2>2, <2>3
  <2>. QED
    BY Zenon, <2>1, <2>4
<1>. QED
  BY Zenon, <1>2, <1>3, <1>4, <1>5

\* In the beginning there is no message.
LEMMA FlowInit == Init => Flow
<1>. SUFFICES ASSUME Init PROVE Flow
  OBVIOUS
<1>1. /\ main = "start" /\ prod = "idle" /\ cons = "idle" /\ i = 0 /\ j = 0 /\ q = <<>>
      /\ msg = [delta |-> NoDelta, tsc |-> 0] /\ out = [delta |-> NoDelta, tsc |-> 0]
      /\ tsc = 0 /\ g_t0 = 0 /\ g_max_lateness = 0 /\ g_throughput_end_tsc = 0 /\ g_alloc_armed = FALSE
  BY Zenon DEF Init
<1>2. program = "paced" => g_offsets \in [Samples -> Nat]
  <2>1. program = "paced" => g_offsets \in Schedules
    BY DEF Init
  <2>. QED
    BY Zenon, <2>1, SchedulesTyped
<1>3. msg \in Messages /\ out \in Messages /\ q \in Seq(Messages)
  BY <1>1, Constants DEF Messages, Deltas, NoDelta
<1>4. FlowTypes
  <2>1. 0 \in 0 .. N_TOTAL /\ 0 \in Nat
    BY MoreConstants
  <2>. QED
    BY Zenon, <1>1, <1>2, <1>3, <2>1 DEF FlowTypes
<1>5. SingleFlow
  BY <1>1, Constants DEF SingleFlow
<1>6. InFlight /\ Len(q) = 0 /\ Popped = 0
  BY <1>1 DEF InFlight, Popped
<1>7. WorkersFlow
  <2>1. prod = "idle" /\ cons = "idle" /\ i = 0 /\ main # "done"
    BY <1>1
  <2>2. i = Popped + Len(q)
    BY <1>6, <2>1
  <2>. QED
    BY <1>6, <2>1, <2>2 DEF WorkersFlow
<1>. QED
  BY Zenon, <1>4, <1>5, <1>7 DEF Flow

\* Every step preserves the flow.
LEMMA FlowInv ==
    ASSUME HInv, Registry, Registry', Flow, [Next]_vars
    PROVE  Flow'
<1>1. CASE Producer
  <2>1. program # "single"
    BY <1>1 DEF Producer, PipeProducer, MultiProducer, PacedProducer
  <2>2. \/ Produce \/ (program = "paced" /\ PacedProduce) \/ PushMsg
        \/ ProducerReady \/ (ProducerReleased /\ program # "paced") \/ (PacedReleased /\ program = "paced")
    BY <1>1 DEF Producer, PipeProducer, MultiProducer, PacedProducer
  <2>. QED
    BY Zenon, <2>1, <2>2, ProduceFlow, PushFlow, BarrierFlow
<1>. QED
  <2>1. SingleMain \/ Producer \/ Consumer \/ PipeMain \/ PacedMain \/ MultiMain \/ Tick \/ UNCHANGED vars
    BY Zenon DEF Next, Main, Exit
  <2>2. CASE SingleMain
    BY Zenon, <2>2, SingleFlowInv
  <2>3. CASE Consumer
    BY Zenon, <2>3, ConsumerFlow
  <2>4. CASE PipeMain \/ PacedMain \/ MultiMain \/ Tick \/ UNCHANGED vars
    BY Zenon, <2>4, MainFlow
  <2>. QED
    BY Zenon, <1>1, <2>1, <2>2, <2>3, <2>4

\* What every message goes through, in every state of the four programs.
THEOREM FlowInvariance == Spec => [](Registry /\ Flow)
<1>1. Init => Registry /\ Flow
  BY RegistryInit, FlowInit
<1>2. HInv /\ Registry /\ Flow /\ [Next]_vars => (Registry /\ Flow)'
  BY Zenon, RegistryInv, FlowInv
<1>. QED
  BY <1>1, <1>2, HotPathInvariance, PTL DEF Spec

------------------------------------------------------------------------------
(* The books                                                                *)

\* The books hold the changes of the handled messages, market by market.
Booked ==
    /\ books \in [Tickers -> Seq(0 .. N_PAYLOADS - 1)]
    /\ \A t \in Tickers :
          /\ Len(books[t]) = Cardinality(For(t, j))
          /\ \A m \in For(t, j) : books[t][Cardinality(For(t, m)) + 1] = PayloadOf(m)

\* The messages for a market, one message further.
LEMMA ForNext ==
    ASSUME NEW t, NEW n \in Nat
    PROVE  /\ IsFiniteSet(For(t, n)) /\ Cardinality(For(t, n)) \in Nat
           /\ n \notin For(t, n) /\ \A m \in For(t, n) : m \in Nat
           /\ For(t, n + 1) = IF g_pool[PayloadOf(n)].ticker = t THEN For(t, n) \cup {n} ELSE For(t, n)
<1>1. For(t, n) \subseteq 0 .. n - 1 /\ IsFiniteSet(0 .. n - 1)
  BY FS_Interval DEF For
<1>2. IsFiniteSet(For(t, n)) /\ Cardinality(For(t, n)) \in Nat
  BY <1>1, FS_Subset, FS_CardinalityType
<1>3. n \notin For(t, n) /\ \A m \in For(t, n) : m \in Nat
  BY <1>1
<1>4. 0 .. (n + 1) - 1 = (0 .. n - 1) \cup {n}
  OBVIOUS
<1>5. For(t, n + 1) = {m \in (0 .. n - 1) \cup {n} : g_pool[PayloadOf(m)].ticker = t}
  BY Zenon, <1>4 DEF For
<1>6. For(t, n + 1) = IF g_pool[PayloadOf(n)].ticker = t THEN For(t, n) \cup {n} ELSE For(t, n)
  BY <1>5 DEF For
<1>. QED
  BY Zenon, <1>2, <1>3, <1>6

\* Of two messages for a market the later one has more before it.
LEMMA ForFewer ==
    ASSUME NEW t, NEW n \in Nat, NEW m \in For(t, n)
    PROVE  Cardinality(For(t, m)) \in Nat /\ Cardinality(For(t, m)) < Cardinality(For(t, n))
<1>1. m \in Nat /\ m < n
  BY DEF For
<1>2. m \notin For(t, m) /\ For(t, m) \subseteq For(t, n)
  BY <1>1 DEF For
<1>3. /\ IsFiniteSet(For(t, n)) /\ Cardinality(For(t, n)) \in Nat
      /\ IsFiniteSet(For(t, m)) /\ Cardinality(For(t, m)) \in Nat
  BY Zenon, <1>1, ForNext
<1>4. Cardinality(For(t, m)) <= Cardinality(For(t, n)) /\ Cardinality(For(t, m)) # Cardinality(For(t, n))
  BY <1>2, <1>3, FS_Subset
<1>. QED
  BY <1>3, <1>4

\* A sequence stays one of the set its elements come from when another is appended.
LEMMA AppendedTo ==
    ASSUME NEW S, NEW s \in Seq(S), NEW e \in S
    PROVE  Append(s, e) \in Seq(S)
OBVIOUS

\* The change of message j goes to the book of its market.
LEMMA AppliedInv ==
    ASSUME Booked, j \in Nat, UNCHANGED <<program, g_pool>>, j' = j + 1,
           NEW u \in Tickers, u = g_pool[PayloadOf(j)].ticker, PayloadOf(j) \in 0 .. N_PAYLOADS - 1,
           books' = [books EXCEPT ![u] = Append(@, PayloadOf(j))]
    PROVE  Booked'
<1>1. PICK n \in Nat, k \in 0 .. N_PAYLOADS - 1 : n = j /\ k = PayloadOf(j)
  BY Zenon
<1>2. PICK b, c : b = books /\ c = books'
  BY Zenon
<1>3. /\ b \in [Tickers -> Seq(0 .. N_PAYLOADS - 1)] /\ c = [b EXCEPT ![u] = Append(b[u], k)]
      /\ \A t \in Tickers : /\ Len(b[t]) = Cardinality(For(t, n))
                            /\ \A m \in For(t, n) : b[t][Cardinality(For(t, m)) + 1] = PayloadOf(m)
  BY Zenon, <1>1, <1>2 DEF Booked
<1>4. /\ c \in [Tickers -> Seq(0 .. N_PAYLOADS - 1)] /\ c[u] = Append(b[u], k)
      /\ \A t \in Tickers : t # u => c[t] = b[t]
  <2>1. b[u] \in Seq(0 .. N_PAYLOADS - 1)
    BY Zenon, <1>3
  <2>2. PICK v : v = Append(b[u], k)
    BY Zenon
  <2>3. v \in Seq(0 .. N_PAYLOADS - 1)
    BY Zenon, <1>1, <2>1, <2>2, AppendedTo
  <2>4. b \in [Tickers -> Seq(0 .. N_PAYLOADS - 1)] /\ c = [b EXCEPT ![u] = v]
    BY Zenon, <1>3, <2>2
  <2>5. c[u] = v /\ \A t \in Tickers : t # u => c[t] = b[t]
    BY <2>4
  <2>6. c \in [Tickers -> Seq(0 .. N_PAYLOADS - 1)]
    BY <2>3, <2>4
  <2>. QED
    BY Zenon, <2>2, <2>5, <2>6
<1>5. \A t, m : For(t, m)' = For(t, m) /\ PayloadOf(m)' = PayloadOf(m)
  BY Zenon DEF For, PayloadOf
<1>6. ASSUME NEW t \in Tickers
      PROVE  /\ Len(c[t]) = Cardinality(For(t, n + 1))
             /\ \A m \in For(t, n + 1) : c[t][Cardinality(For(t, m)) + 1] = PayloadOf(m)
  <2>1. CASE t # u
    <3>1. For(t, n + 1) = For(t, n)
      BY Zenon, <1>1, <2>1, ForNext
    <3>. QED
      BY Zenon, <1>3, <1>4, <2>1, <3>1
  <2>2. CASE t = u
    <3>1. /\ For(t, n + 1) = For(t, n) \cup {n} /\ n \notin For(t, n) /\ IsFiniteSet(For(t, n))
          /\ Cardinality(For(t, n)) \in Nat
      BY Zenon, <1>1, <2>2, ForNext
    <3>2. Cardinality(For(t, n + 1)) = Cardinality(For(t, n)) + 1
      BY Zenon, <3>1, FS_AddElement
    <3>3. PICK l \in Nat, s \in Seq(0 .. N_PAYLOADS - 1) : l = Cardinality(For(t, n)) /\ s = b[t] /\ Len(s) = l
      BY Zenon, <1>3, <3>1
    <3>4. c[t] = Append(s, k)
      BY Zenon, <1>4, <2>2, <3>3
    <3>5. Len(c[t]) = l + 1 /\ c[t][l + 1] = k /\ \A x \in 1 .. l : c[t][x] = s[x]
      <4>1. Len(s) = l
        BY Zenon, <3>3
      <4>2. /\ Len(Append(s, k)) = l + 1 /\ Append(s, k)[l + 1] = k
            /\ \A x \in 1 .. l : Append(s, k)[x] = s[x]
        BY <4>1
      <4>. QED
        BY Zenon, <3>4, <4>2
    <3>6. ASSUME NEW m \in For(t, n) PROVE c[t][Cardinality(For(t, m)) + 1] = PayloadOf(m)
      <4>1. Cardinality(For(t, m)) \in Nat /\ Cardinality(For(t, m)) < l
        BY Zenon, <3>3, ForFewer
      <4>2. Cardinality(For(t, m)) + 1 \in 1 .. l
        BY <4>1
      <4>3. s[Cardinality(For(t, m)) + 1] = PayloadOf(m)
        BY Zenon, <1>3, <3>3
      <4>. QED
        BY Zenon, <3>5, <4>2, <4>3
    <3>7. c[t][Cardinality(For(t, n)) + 1] = PayloadOf(n)
      BY Zenon, <1>1, <3>3, <3>5
    <3>. QED
      BY Zenon, <3>1, <3>2, <3>3, <3>5, <3>6, <3>7
  <2>. QED
    BY Zenon, <2>1, <2>2
<1>7. j' = n + 1 /\ books' = c
  BY Zenon, <1>1, <1>2
<1>8. \A t : For(t, j)' = For(t, n + 1) /\ Cardinality(For(t, j))' = Cardinality(For(t, n + 1))
  BY Zenon, <1>5, <1>7
<1>9. \A t, m : Cardinality(For(t, m))' = Cardinality(For(t, m))
  BY Zenon, <1>5
<1>10. ASSUME NEW t \in Tickers
       PROVE  /\ Len(books'[t]) = Cardinality(For(t, j))'
              /\ \A m \in For(t, j)' : books'[t][Cardinality(For(t, m))' + 1] = PayloadOf(m)'
  <2>1. Len(books'[t]) = Cardinality(For(t, j))'
    BY Zenon, <1>6, <1>7, <1>8
  <2>2. ASSUME NEW m \in For(t, j)' PROVE books'[t][Cardinality(For(t, m))' + 1] = PayloadOf(m)'
    <3>1. m \in For(t, n + 1)
      BY Zenon, <1>8
    <3>2. c[t][Cardinality(For(t, m)) + 1] = PayloadOf(m)
      BY Zenon, <1>6, <3>1
    <3>3. Cardinality(For(t, m))' = Cardinality(For(t, m)) /\ PayloadOf(m)' = PayloadOf(m)
      BY Zenon, <1>5, <1>9
    <3>. QED
      BY Zenon, <1>7, <3>2, <3>3
  <2>. QED
    BY Zenon, <2>1, <2>2
<1>. QED
  BY Zenon, <1>4, <1>7, <1>10 DEF Booked

\* Every step preserves what the books hold.
LEMMA BookedInv ==
    ASSUME HInv, Registry, Flow, Booked, [Next]_vars
    PROVE  Booked'
<1>1. UNCHANGED <<program, g_pool>>
  BY Zenon DEF Next, Main, SingleMain, SingleWarmup, SingleArm, SingleBegin, SingleEnd,
     PipeMain, PacedMain, MultiMain, register_market, StartThreads, Arm, ArmAfter, JoinThreads,
     Producer, PipeProducer, MultiProducer, PacedProducer, Produce, PushMsg, ProducerReady, ProducerReleased,
     PacedReleased, PacedProduce, Consumer, PipeConsumer, PacedConsumer, MultiConsumer, PopMsg, ConsumerReady,
     ConsumerReleased, ConsumerEnd, HandleMsg, Dispatch, Tick, Exit, vars, setup
<1>2. \/ UNCHANGED <<books, j>>
      \/ program = "single" /\ SingleWarmup
      \/ program = "single" /\ SingleEnd
      \/ program # "single" /\ program # "multi" /\ cons = "handle" /\ HandleMsg(kTicker)
      \/ program = "multi" /\ cons = "handle" /\ HandleMsg(g_markets[hash_ticker[out.delta.ticker]])
  <2>1. CASE SingleMain
    BY Zenon, <2>1 DEF SingleMain, SingleArm, SingleBegin
  <2>2. CASE Producer
    BY Zenon, <2>2 DEF Producer, PipeProducer, MultiProducer, PacedProducer, Produce, PushMsg, ProducerReady,
       ProducerReleased, PacedReleased, PacedProduce
  <2>3. CASE Consumer
    BY Zenon, <2>3 DEF Consumer, PipeConsumer, PacedConsumer, MultiConsumer, PopMsg, ConsumerReady,
       ConsumerReleased, ConsumerEnd, Dispatch
  <2>4. CASE PipeMain \/ PacedMain \/ MultiMain
    BY Zenon, <2>4 DEF PipeMain, PacedMain, MultiMain, register_market, StartThreads, Arm, ArmAfter, JoinThreads
  <2>5. CASE Tick \/ Exit \/ UNCHANGED vars
    BY Zenon, <2>5 DEF Tick, Exit, vars
  <2>. QED
    BY Zenon, <2>1, <2>2, <2>3, <2>4, <2>5 DEF Next, Main
<1>3. j \in Nat /\ kTicker \in Tickers /\ i \in Nat
  BY Constants, MoreConstants DEF Flow, FlowTypes, kTicker, Tickers
<1>4. PICK k : k = PayloadOf(j) /\ k \in 0 .. N_PAYLOADS - 1
  BY Zenon, <1>3, PayloadInPool
<1>5. g_pool[k].ticker \in Tickers
  BY <1>4 DEF HInv, BarrierTypes, Payload
<1>6. program # "multi" => g_pool[k].ticker = kTicker
  BY Zenon, <1>4 DEF Registry
<1>7. ASSUME j' = j + 1, NEW u, u = g_pool[k].ticker, NEW m, m.delta = DeltaOf(j), Apply(u, m)
      PROVE  Booked'
  <2>1. m.delta.change = k
    BY <1>4, <1>7 DEF DeltaOf
  <2>2. books' = [books EXCEPT ![u] = Append(@, k)]
    BY Zenon, <1>7, <2>1 DEF Apply
  <2>. QED
    BY Zenon, <1>1, <1>3, <1>4, <1>5, <1>7, <2>2, AppliedInv
<1>8. CASE UNCHANGED <<books, j>>
  <2>1. \A t, m : For(t, m)' = For(t, m) /\ PayloadOf(m)' = PayloadOf(m)
    BY Zenon, <1>1 DEF For, PayloadOf
  <2>. QED
    BY Zenon, <1>8, <2>1 DEF Booked
<1>9. CASE program = "single" /\ SingleWarmup
  <2>1. i = j /\ j' = j + 1 /\ Parsed(i, 0) /\ Apply(kTicker, msg')
    BY <1>9 DEF SingleWarmup, Flow, SingleFlow
  <2>2. PICK m : m = msg'
    BY Zenon
  <2>3. g_pool[k].price \in 1 .. MAX_PRICE
    BY <1>4 DEF HInv, BarrierTypes, Payload
  <2>4. m.delta = DeltaOf(j)
    BY <1>4, <2>1, <2>2, <2>3 DEF Parsed, parse_orderbook_delta, DeltaOf
  <2>. QED
    BY Zenon, <1>6, <1>7, <1>9, <2>1, <2>2, <2>4
<1>10. CASE program = "single" /\ SingleEnd
  <2>1. j' = j + 1 /\ Apply(kTicker, msg) /\ msg.delta = DeltaOf(j)
    BY <1>10 DEF SingleEnd, Flow, SingleFlow, IsMessage
  <2>2. PICK m : m = msg
    BY Zenon
  <2>. QED
    BY Zenon, <1>6, <1>7, <1>10, <2>1, <2>2
<1>11. ASSUME program # "single", cons = "handle", HandleMsg(g_pool[k].ticker) PROVE Booked'
  <2>1. j' = j + 1 /\ Apply(g_pool[k].ticker, out)
    BY Zenon, <1>11 DEF HandleMsg
  <2>2. out.delta = DeltaOf(j)
    BY Zenon, <1>11 DEF Flow, WorkersFlow, InFlight, IsMessage
  <2>3. PICK m, u : m = out /\ u = g_pool[k].ticker
    BY Zenon
  <2>. QED
    BY Zenon, <1>7, <2>1, <2>2, <2>3
<1>12. CASE program # "single" /\ program # "multi" /\ cons = "handle" /\ HandleMsg(kTicker)
  BY Zenon, <1>6, <1>11, <1>12
<1>13. CASE program = "multi" /\ cons = "handle" /\ HandleMsg(g_markets[hash_ticker[out.delta.ticker]])
  <2>1. out.delta.ticker = g_pool[k].ticker
    <3>1. out.delta = DeltaOf(j)
      BY Zenon, <1>13 DEF Flow, WorkersFlow, InFlight, IsMessage
    <3>. QED
      BY <1>4, <3>1 DEF DeltaOf
  <2>2. g_markets[hash_ticker[out.delta.ticker]] = out.delta.ticker
    BY Zenon, <1>13, MarketFound
  <2>3. program # "single"
    BY <1>13
  <2>. QED
    BY Zenon, <1>11, <1>13, <2>1, <2>2, <2>3
<1>. QED
  BY Zenon, <1>2, <1>8, <1>9, <1>10, <1>12, <1>13

\* In the beginning the books are empty.
LEMMA BookedInit == Init => Booked
<1>. SUFFICES ASSUME Init PROVE Booked
  OBVIOUS
<1>1. j = 0 /\ books = [t \in Tickers |-> <<>>]
  BY Zenon DEF Init
<1>2. \A t : For(t, 0) = {}
  BY DEF For
<1>3. Cardinality({}) = 0
  BY Zenon, FS_EmptySet
<1>4. books \in [Tickers -> Seq(0 .. N_PAYLOADS - 1)] /\ \A t \in Tickers : Len(books[t]) = 0
  BY <1>1
<1>. QED
  BY Zenon, <1>1, <1>2, <1>3, <1>4 DEF Booked

\* So the books hold the handled messages in every state.
LEMMA BookedInvariance == Spec => []Booked
<1>1. HInv /\ Registry /\ Flow /\ Booked /\ [Next]_vars => Booked'
  BY Zenon, BookedInv
<1>. QED
  BY <1>1, BookedInit, HotPathInvariance, FlowInvariance, PTL DEF Spec

\* Every market's book gets the changes of its own messages, each once and in
\* the order of the feed, through parser, queue and map of markets, in all four
\* programs; and neither a registration nor a lookup aborts them.
THEOREM BooksStayExact == Spec => []BooksExact
<1>1. HInv /\ Registry /\ Flow /\ Booked => BooksExact
  <2>1. SUFFICES ASSUME HInv, Registry, Flow, Booked PROVE BooksExact
    BY Zenon
  <2>2. cons # "aborted"
    BY <2>1 DEF HInv, SinglePhase, Flow, WorkersFlow
  <2>. QED
    BY Zenon, <2>1, <2>2 DEF Registry, Booked, BooksExact
<1>. QED
  BY <1>1, HotPathInvariance, FlowInvariance, BookedInvariance, PTL

------------------------------------------------------------------------------
(* The times                                                                *)

\* The messages that have been stamped.
Sent == IF prod = "push" THEN i + 1 ELSE i

\* The window has begun when a measured message is stamped, and when it ends.
Window ==
    /\ program # "paced" => g_t0 <= tsc
    /\ program = "paced" /\ Sent > N_WARMUP => g_t0 <= tsc
    /\ cons = "done" => g_t0 <= g_throughput_end_tsc

\* The samples that have been taken.
Taken == {s \in Samples : s < j - N_WARMUP}

\* The producer's worst lateness is within the latency of a message: of one that
\* has been handled, or of one still in flight, however soon it will be handled.
Charged ==
    \/ g_max_lateness = 0
    \/ \E n \in N_WARMUP .. Sent - 1 :
          IF n < j THEN g_max_lateness <= g_latencies[n - N_WARMUP]
          ELSE Deadline(n) + g_max_lateness <= tsc

\* A message is handled, at the latest, now; and not before the one in front.
Delays ==
    program = "paced" =>
        /\ \A s \in Taken : g_t0 + g_offsets[s] + g_latencies[s] <= tsc
        /\ \A s \in Taken : s > 0 => g_offsets[s - 1] + g_latencies[s - 1] <= g_offsets[s] + g_latencies[s]
        /\ Charged

\* All that is known of the times.
Times ==
    /\ g_latencies \in [Samples -> Nat] /\ \A s \in Samples : g_latencies[s] <= tsc
    /\ Window
    /\ Delays

\* Steps that neither handle a message nor move the window.
LEMMA QuietTimes ==
    ASSUME Times, FlowTypes, tsc' \in Nat, Sent \in 0 .. N_TOTAL, Sent' \in Nat,
           UNCHANGED <<program, g_offsets, j, g_t0, g_max_lateness, g_latencies, g_throughput_end_tsc>>,
           tsc <= tsc', Sent <= Sent',
           program = "paced" /\ Sent' > N_WARMUP => Sent > N_WARMUP,
           cons' = "done" => cons = "done"
    PROVE  Times'
<1>1. /\ tsc \in Nat /\ g_t0 \in Nat /\ g_max_lateness \in Nat /\ N_WARMUP \in Nat
      /\ \A s \in Samples : g_latencies[s] \in Nat /\ g_latencies[s] <= tsc
  BY Constants DEF FlowTypes, Times
<1>2. \A s \in Samples : g_latencies[s] <= tsc'
  BY <1>1
<1>3. Window'
  BY <1>1 DEF Times, Window, FlowTypes
<1>4. Taken' = Taken /\ \A s : s \in Taken => s \in Samples
  BY Zenon DEF Taken
<1>5. ASSUME program = "paced" PROVE Delays'
  <2>1. \A s \in Samples : g_offsets[s] \in Nat
    BY <1>5 DEF FlowTypes
  <2>2. \A s \in Taken : g_t0 + g_offsets[s] + g_latencies[s] <= tsc'
    <3>1. \A s \in Taken : g_t0 + g_offsets[s] + g_latencies[s] <= tsc
      BY Zenon, <1>5 DEF Times, Delays
    <3>. QED
      BY <1>1, <1>4, <2>1, <3>1
  <2>3. Charged'
    <3>1. CASE g_max_lateness = 0
      BY Zenon, <3>1 DEF Charged
    <3>2. CASE g_max_lateness # 0
      <4>1. PICK n \in N_WARMUP .. Sent - 1 :
               IF n < j THEN g_max_lateness <= g_latencies[n - N_WARMUP]
               ELSE Deadline(n) + g_max_lateness <= tsc
        BY Zenon, <1>5, <3>2 DEF Times, Delays, Charged
      <4>2. n \in N_WARMUP .. Sent' - 1
        <5>1. PICK a, b : a = Sent /\ b = Sent'
          BY Zenon
        <5>2. a \in Nat /\ b \in Nat /\ a <= b /\ n \in N_WARMUP .. a - 1
          BY <5>1, MoreConstants
        <5>3. n \in N_WARMUP .. b - 1
          BY <1>1, <5>2
        <5>. QED
          BY Zenon, <5>1, <5>3
      <4>3. Deadline(n)' = Deadline(n)
        BY Zenon DEF Deadline
      <4>4. ~ (n < j) => Deadline(n) + g_max_lateness <= tsc'
        <5>1. n - N_WARMUP \in Samples
          BY <1>1, MoreConstants, Constants
        <5>2. Deadline(n) \in Nat
          BY <1>1, <2>1, <5>1 DEF Deadline
        <5>. QED
          BY <1>1, <4>1, <5>2
      <4>. QED
        <5>1. IF n < j' THEN g_max_lateness' <= g_latencies'[n - N_WARMUP]
              ELSE Deadline(n)' + g_max_lateness' <= tsc'
          BY Zenon, <4>1, <4>3, <4>4
        <5>. QED
          BY Zenon, <4>2, <5>1 DEF Charged
    <3>. QED
      BY Zenon, <3>1, <3>2
  <2>. QED
    BY Zenon, <1>4, <1>5, <2>2, <2>3 DEF Times, Delays
<1>. QED
  BY Zenon, <1>2, <1>3, <1>5 DEF Times, Delays

\* What the flow says of a message that is handled.
LEMMA Flowing ==
    ASSUME HInv, Flow
    PROVE  /\ Sent \in 0 .. N_TOTAL /\ i \in 0 .. N_TOTAL /\ j \in 0 .. N_TOTAL /\ j <= i
           /\ tsc \in Nat /\ g_t0 \in Nat /\ g_max_lateness \in Nat
           /\ program = "paced" => \A s \in Samples : g_offsets[s] \in Nat
<1>1. i \in 0 .. N_TOTAL /\ j \in 0 .. N_TOTAL /\ Len(q) \in Nat
  BY DEF Flow, FlowTypes
<1>2. CASE program = "single"
  BY <1>1, <1>2, MoreConstants DEF Flow, SingleFlow, HInv, SinglePhase, Sent, FlowTypes
<1>3. CASE program # "single"
  <2>1. i = Popped + Len(q) /\ (prod = "push" => i < N_TOTAL)
    BY <1>3 DEF Flow, WorkersFlow
  <2>2. j <= i /\ Sent \in 0 .. N_TOTAL
    BY <1>1, <2>1, MoreConstants DEF Popped, Sent
  <2>. QED
    BY <1>1, <2>2 DEF Flow, FlowTypes
<1>. QED
  BY Zenon, <1>2, <1>3

\* Message j is handled.  In the paced program its latency counts from the time
\* it was due, so what held up the messages in front of it holds it up too.
LEMMA SampledTimes ==
    ASSUME HInv, Flow, Times, j < N_TOTAL, j' = j + 1, NEW d \in Nat, d <= tsc,
           program = "paced" /\ j >= N_WARMUP => d = Deadline(j),
           g_latencies' = IF j >= N_WARMUP THEN [g_latencies EXCEPT ![j - N_WARMUP] = tsc - d] ELSE g_latencies,
           UNCHANGED <<program, g_offsets, g_t0, g_max_lateness, tsc, g_throughput_end_tsc>>,
           program = "paced" => Sent' = Sent, cons' # "done"
    PROVE  Times'
<1>1. /\ Sent \in 0 .. N_TOTAL /\ i \in 0 .. N_TOTAL /\ j \in 0 .. N_TOTAL /\ j <= i
      /\ tsc \in Nat /\ g_t0 \in Nat /\ g_max_lateness \in Nat
      /\ program = "paced" => \A s \in Samples : g_offsets[s] \in Nat
  BY Zenon, Flowing
<1>2. /\ N_WARMUP \in Nat /\ N_TOTAL \in Nat /\ N_TOTAL = N_WARMUP + N_MEASURE /\ N_MEASURE \in Nat
      /\ Samples = 0 .. N_MEASURE - 1
  BY Constants, MoreConstants
<1>3. g_latencies \in [Samples -> Nat] /\ \A s \in Samples : g_latencies[s] <= tsc
  BY Zenon DEF Times
<1>4. PICK k : k = j - N_WARMUP
  BY Zenon
<1>5. j >= N_WARMUP => k \in Samples
  BY <1>1, <1>2, <1>4
<1>6. /\ g_latencies' \in [Samples -> Nat]
      /\ \A s \in Samples : g_latencies'[s] = IF j >= N_WARMUP /\ s = k THEN tsc - d ELSE g_latencies[s]
  BY <1>1, <1>3, <1>4, <1>5
<1>7. \A s \in Samples : g_latencies'[s] <= tsc'
  BY <1>1, <1>3, <1>6
<1>8. Window'
  BY Zenon DEF Times, Window
<1>9. ASSUME program = "paced" PROVE Delays'
  <2>1. ASSUME NEW s \in Taken' PROVE s \in Samples /\ (s \in Taken \/ (s = k /\ j >= N_WARMUP))
    <3>1. s \in Samples /\ s < j' - N_WARMUP
      BY Zenon DEF Taken
    <3>2. s \in Nat /\ j \in Nat /\ N_WARMUP \in Nat
      BY <1>1, <1>2, <3>1
    <3>3. s < j - N_WARMUP \/ (s = k /\ j >= N_WARMUP)
      BY <1>4, <3>1, <3>2
    <3>. QED
      BY Zenon, <3>1, <3>3 DEF Taken
  <2>2. \A s \in Taken : s \in Samples /\ s # k /\ s < k
    <3>1. SUFFICES ASSUME NEW s \in Taken PROVE s \in Samples /\ s # k /\ s < k
      BY Zenon
    <3>2. s \in Samples /\ s < k
      BY Zenon, <1>4 DEF Taken
    <3>3. s # k
      BY <1>1, <1>2, <1>4, <3>2
    <3>. QED
      BY Zenon, <3>2, <3>3
  <2>3. \A s \in Taken : g_t0 + g_offsets[s] + g_latencies[s] <= tsc
    BY Zenon, <1>9 DEF Times, Delays
  <2>4. j >= N_WARMUP => d = g_t0 + g_offsets[k]
    BY Zenon, <1>4, <1>9 DEF Deadline
  <2>5. ASSUME NEW s \in Taken' PROVE g_t0 + g_offsets[s] + g_latencies'[s] <= tsc
    <3>1. CASE s \in Taken
      BY Zenon, <1>6, <2>2, <2>3, <3>1
    <3>2. CASE s = k /\ j >= N_WARMUP
      BY <1>1, <1>5, <1>6, <1>9, <2>4, <3>2
    <3>. QED
      BY Zenon, <2>1, <3>1, <3>2
  <2>6. ASSUME NEW s \in Taken', s > 0
        PROVE  g_offsets[s - 1] + g_latencies'[s - 1] <= g_offsets[s] + g_latencies'[s]
    <3>1. s - 1 \in Taken /\ s - 1 \in Samples /\ s \in Samples
      BY <1>1, <1>2, <2>6 DEF Taken
    <3>2. g_latencies'[s - 1] = g_latencies[s - 1]
      BY Zenon, <1>6, <2>2, <3>1
    <3>3. CASE s \in Taken
      <4>1. g_latencies'[s] = g_latencies[s]
        BY Zenon, <1>6, <2>2, <3>3
      <4>2. g_offsets[s - 1] + g_latencies[s - 1] <= g_offsets[s] + g_latencies[s]
        BY Zenon, <1>9, <2>6, <3>3 DEF Times, Delays
      <4>. QED
        BY Zenon, <3>2, <4>1, <4>2
    <3>4. CASE s = k /\ j >= N_WARMUP
      <4>1. g_t0 + g_offsets[s - 1] + g_latencies[s - 1] <= tsc
        BY Zenon, <2>3, <3>1
      <4>2. g_latencies'[s] = tsc - (g_t0 + g_offsets[s])
        BY Zenon, <1>6, <2>4, <3>1, <3>4
      <4>3. g_offsets[s] \in Nat /\ g_offsets[s - 1] \in Nat /\ g_latencies[s - 1] \in Nat
        BY <1>1, <1>3, <1>9, <3>1
      <4>4. tsc \in Nat /\ g_t0 \in Nat
        BY Zenon, <1>1
      <4>. QED
        BY <3>2, <4>1, <4>2, <4>3, <4>4
    <3>. QED
      BY Zenon, <2>1, <3>3, <3>4
  <2>7. Charged'
    <3>1. CASE g_max_lateness = 0
      BY Zenon, <3>1 DEF Charged
    <3>2. CASE g_max_lateness # 0
      <4>1. PICK n \in N_WARMUP .. Sent - 1 :
               IF n < j THEN g_max_lateness <= g_latencies[n - N_WARMUP]
               ELSE Deadline(n) + g_max_lateness <= tsc
        BY Zenon, <1>9, <3>2 DEF Times, Delays, Charged
      <4>2. Deadline(n)' = Deadline(n)
        BY Zenon DEF Deadline
      <4>3. n \in Nat /\ n >= N_WARMUP /\ (n < j => n - N_WARMUP \in Samples /\ n - N_WARMUP # k)
        <5>1. j \in Nat /\ j <= N_TOTAL /\ Sent \in Nat
          BY <1>1, <1>2
        <5>2. n \in Nat /\ n >= N_WARMUP
          BY <1>2, <5>1
        <5>3. ASSUME n < j PROVE n - N_WARMUP \in 0 .. N_MEASURE - 1 /\ n - N_WARMUP # j - N_WARMUP
          BY <1>2, <5>1, <5>2, <5>3
        <5>. QED
          BY Zenon, <1>2, <1>4, <5>2, <5>3
      <4>4. n = j => g_max_lateness <= g_latencies'[n - N_WARMUP]
        <5>1. SUFFICES ASSUME n = j PROVE g_max_lateness <= g_latencies'[k]
          BY Zenon, <1>4
        <5>2. j >= N_WARMUP /\ ~ (n < j)
          BY <1>1, <4>3, <5>1
        <5>3. d + g_max_lateness <= tsc /\ g_latencies'[k] = tsc - d
          BY Zenon, <1>5, <1>6, <1>9, <4>1, <5>1, <5>2
        <5>. QED
          BY <1>1, <5>3
      <4>5. IF n < j' THEN g_max_lateness' <= g_latencies'[n - N_WARMUP]
            ELSE Deadline(n)' + g_max_lateness' <= tsc'
        <5>1. n < j' <=> n < j \/ n = j
          BY <1>1, <4>3
        <5>2. n < j => g_latencies'[n - N_WARMUP] = g_latencies[n - N_WARMUP]
          BY Zenon, <1>6, <4>3
        <5>. QED
          BY Zenon, <4>1, <4>2, <4>4, <5>1, <5>2
      <4>. QED
        BY Zenon, <1>9, <4>1, <4>5 DEF Charged
    <3>. QED
      BY Zenon, <3>1, <3>2
  <2>. QED
    BY Zenon, <1>9, <2>5, <2>6, <2>7 DEF Delays
<1>. QED
  BY Zenon, <1>6, <1>7, <1>8, <1>9 DEF Times, Delays

\* A message of the paced program is stamped: if it is the latest so far, it
\* carries its lateness with it.
LEMMA PacedTimes ==
    ASSUME HInv, Flow, Times, program = "paced", PacedProduce
    PROVE  Times'
<1>1. /\ Sent \in 0 .. N_TOTAL /\ i \in 0 .. N_TOTAL /\ j \in 0 .. N_TOTAL /\ j <= i
      /\ tsc \in Nat /\ g_t0 \in Nat /\ g_max_lateness \in Nat
      /\ \A s \in Samples : g_offsets[s] \in Nat
  BY Zenon, Flowing
<1>2. /\ prod = "due" /\ tsc >= Deadline(i) /\ prod' = "push"
      /\ g_max_lateness' = IF tsc - Deadline(i) > g_max_lateness THEN tsc - Deadline(i) ELSE g_max_lateness
      /\ UNCHANGED <<program, g_offsets, cons, i, j, tsc, g_t0, g_latencies, g_throughput_end_tsc>>
  BY Zenon DEF PacedProduce, setup
<1>3. i < N_TOTAL /\ i >= N_WARMUP
  BY <1>2 DEF Flow, WorkersFlow, HInv, WorkersPhase
<1>4. PICK k, e : k = i - N_WARMUP /\ e = Deadline(i)
  BY Zenon
<1>5. k \in Samples
  BY <1>1, <1>3, <1>4, Constants, MoreConstants
<1>6. e = g_t0 + g_offsets[k] /\ g_offsets[k] \in Nat
  BY Zenon, <1>1, <1>4, <1>5 DEF Deadline
<1>7. e \in Nat /\ g_t0 <= e /\ e <= tsc /\ g_t0 <= tsc
  BY <1>1, <1>2, <1>4, <1>6
<1>8. Sent = i /\ Sent' = i + 1
  BY <1>2 DEF Sent
<1>9. Window'
  BY Zenon, <1>2, <1>7 DEF Times, Window
<1>10. Taken' = Taken
  BY Zenon, <1>2 DEF Taken
<1>11. \A n : Deadline(n)' = Deadline(n)
  BY Zenon, <1>2 DEF Deadline
<1>12. Charged'
  <2>1. CASE g_max_lateness' = g_max_lateness
    <3>1. CASE g_max_lateness = 0
      BY Zenon, <2>1, <3>1 DEF Charged
    <3>2. CASE g_max_lateness # 0
      <4>1. PICK n \in N_WARMUP .. i - 1 :
               IF n < j THEN g_max_lateness <= g_latencies[n - N_WARMUP]
               ELSE Deadline(n) + g_max_lateness <= tsc
        BY Zenon, <1>8, <3>2 DEF Times, Delays, Charged
      <4>2. n \in N_WARMUP .. (i + 1) - 1
        BY <1>1, MoreConstants, Constants
      <4>3. n \in N_WARMUP .. Sent' - 1
        BY Zenon, <1>8, <4>2
      <4>4. IF n < j' THEN g_max_lateness' <= g_latencies'[n - N_WARMUP]
            ELSE Deadline(n)' + g_max_lateness' <= tsc'
        BY Zenon, <1>2, <1>11, <2>1, <4>1
      <4>. QED
        BY Zenon, <4>3, <4>4 DEF Charged
    <3>. QED
      BY Zenon, <3>1, <3>2
  <2>2. CASE g_max_lateness' = tsc - e
    <3>1. PICK n : n = i
      BY Zenon
    <3>2. n \in N_WARMUP .. (i + 1) - 1 /\ ~ (n < j) /\ e + (tsc - e) <= tsc
      BY <1>1, <1>3, <1>7, <3>1, MoreConstants, Constants
    <3>3. n \in N_WARMUP .. Sent' - 1 /\ ~ (n < j')
      BY Zenon, <1>2, <1>8, <3>2
    <3>4. Deadline(n)' = e
      BY Zenon, <1>4, <1>11, <3>1
    <3>5. Deadline(n)' + g_max_lateness' <= tsc'
      BY Zenon, <1>2, <2>2, <3>2, <3>4
    <3>. QED
      BY Zenon, <3>3, <3>5 DEF Charged
  <2>. QED
    BY Zenon, <1>2, <1>4, <2>1, <2>2
<1>. QED
  BY Zenon, <1>2, <1>9, <1>10, <1>12 DEF Times, Delays

\* The window begins, before any message of it is stamped.
LEMMA BeginTimes ==
    ASSUME HInv, Flow, Times, program # "single",
           (program = "paced" /\ PacedReleased) \/ ConsumerReleased
    PROVE  Times'
<1>1. /\ Sent \in 0 .. N_TOTAL /\ i \in 0 .. N_TOTAL /\ j \in 0 .. N_TOTAL /\ j <= i
      /\ tsc \in Nat /\ g_t0 \in Nat
  BY Zenon, Flowing
<1>2. CASE program = "paced" /\ PacedReleased
  <2>1. /\ prod = "spin" /\ prod' = "due"
        /\ UNCHANGED <<program, cons, i, j, tsc, g_max_lateness, g_latencies, g_throughput_end_tsc>>
    BY Zenon, <1>2 DEF PacedReleased, setup
  <2>2. i = N_WARMUP
    BY <2>1 DEF Flow, WorkersFlow
  <2>3. Sent = N_WARMUP /\ Sent' = N_WARMUP
    BY <2>1, <2>2 DEF Sent
  <2>4. cons # "done"
    <3>1. cons = "done" => j = N_TOTAL
      BY Zenon DEF Flow, WorkersFlow
    <3>2. j # N_TOTAL
      BY <1>1, <2>2, MoreConstants, Constants
    <3>. QED
      BY Zenon, <3>1, <3>2
  <2>5. ~ (N_WARMUP > N_WARMUP) /\ N_WARMUP .. N_WARMUP - 1 = {} /\ \A s \in Samples : ~ (s < j - N_WARMUP)
    BY <1>1, <2>2, MoreConstants, Constants
  <2>6. Window'
    BY Zenon, <1>2, <2>1, <2>3, <2>4, <2>5 DEF Window
  <2>7. Taken' = {}
    BY Zenon, <2>1, <2>5 DEF Taken
  <2>8. g_max_lateness = 0
    BY Zenon, <1>2, <2>3, <2>5 DEF Times, Delays, Charged
  <2>9. Charged'
    BY Zenon, <2>1, <2>8 DEF Charged
  <2>. QED
    BY Zenon, <2>1, <2>6, <2>7, <2>9 DEF Times, Delays
<1>3. CASE ConsumerReleased
  <2>1. /\ cons' = "pop" /\ g_t0' = IF program = "paced" THEN g_t0 ELSE tsc
        /\ UNCHANGED <<program, g_offsets, prod, i, j, tsc, g_max_lateness, g_latencies, g_throughput_end_tsc>>
    BY Zenon, <1>3 DEF ConsumerReleased, setup
  <2>2. CASE program = "paced"
    <3>1. Sent' = Sent
      BY Zenon, <2>1 DEF Sent
    <3>2. Sent <= Sent' /\ tsc <= tsc' /\ tsc' \in Nat /\ Sent' \in Nat
      BY <1>1, <2>1, <3>1, MoreConstants
    <3>3. cons' # "done"
      BY <2>1
    <3>. QED
      BY Zenon, <1>1, <2>1, <2>2, <3>1, <3>2, <3>3, QuietTimes DEF Flow
  <2>3. CASE program # "paced"
    <3>1. g_t0' <= tsc' /\ cons' # "done"
      BY <1>1, <2>1, <2>3
    <3>. QED
      BY Zenon, <2>1, <2>3, <3>1 DEF Times, Window, Delays
  <2>. QED
    BY Zenon, <2>2, <2>3
<1>. QED
  BY Zenon, <1>2, <1>3

\* The window ends when all messages have been handled.
LEMMA EndTimes ==
    ASSUME HInv, Flow, Times, program # "single", ConsumerEnd
    PROVE  Times'
<1>1. /\ Sent \in 0 .. N_TOTAL /\ i \in 0 .. N_TOTAL /\ j \in 0 .. N_TOTAL /\ j <= i
      /\ tsc \in Nat /\ g_t0 \in Nat
  BY Zenon, Flowing
<1>2. /\ cons = "end" /\ cons' = "done" /\ g_throughput_end_tsc' = tsc
      /\ UNCHANGED <<program, g_offsets, prod, i, j, tsc, g_t0, g_max_lateness, g_latencies>>
  BY Zenon DEF ConsumerEnd, setup
<1>3. j = N_TOTAL
  BY <1>2 DEF Flow, WorkersFlow
<1>4. Sent > N_WARMUP
  BY <1>1, <1>3, MoreConstants, Constants DEF Sent
<1>5. g_t0 <= tsc
  BY Zenon, <1>4 DEF Times, Window
<1>6. Window' /\ Sent' = Sent
  BY Zenon, <1>2, <1>5 DEF Window, Sent
<1>7. Taken' = Taken
  BY Zenon, <1>2 DEF Taken
<1>8. Charged' <=> Charged
  BY Zenon, <1>2, <1>6 DEF Charged, Deadline
<1>. QED
  BY Zenon, <1>2, <1>6, <1>7, <1>8 DEF Times, Delays

\* Every step preserves what is known of the times.
LEMMA TimesInv ==
    ASSUME HInv, Registry, Flow, Times, [Next]_vars
    PROVE  Times'
<1>1. /\ Sent \in 0 .. N_TOTAL /\ i \in 0 .. N_TOTAL /\ j \in 0 .. N_TOTAL /\ tsc \in Nat
      /\ N_TOTAL \in Nat /\ N_WARMUP \in Nat /\ N_WARMUP < N_TOTAL
  BY Flowing, Constants, MoreConstants
<1>2. ASSUME UNCHANGED <<program, g_offsets, j, g_t0, g_max_lateness, g_latencies, g_throughput_end_tsc>>,
             tsc' = tsc \/ tsc' = tsc + 1, cons' = "done" => cons = "done",
             Sent' = Sent \/ (Sent' = Sent + 1 /\ (program = "paced" => Sent < N_WARMUP))
      PROVE  Times'
  <2>1. PICK a, b : a = Sent /\ b = Sent'
    BY Zenon
  <2>2. /\ a \in 0 .. N_TOTAL /\ b \in Nat /\ a <= b
        /\ program = "paced" /\ b > N_WARMUP => a > N_WARMUP
    <3>1. a \in 0 .. N_TOTAL /\ (b = a \/ (b = a + 1 /\ (program = "paced" => a < N_WARMUP)))
      BY Zenon, <1>1, <1>2, <2>1
    <3>. QED
      BY <1>1, <3>1
  <2>3. tsc' \in Nat /\ tsc <= tsc'
    BY <1>1, <1>2
  <2>. QED
    BY Zenon, <1>2, <2>1, <2>2, <2>3, QuietTimes DEF Flow
<1>3. ASSUME UNCHANGED <<prod, i>> PROVE Sent' = Sent
  BY Zenon, <1>3 DEF Sent
<1>4. CASE SingleMain
  <2>1. program = "single" /\ cons # "done" /\ cons = "idle" /\ prod = "idle" /\ "idle" # "push"
    BY <1>4 DEF SingleMain, HInv, SinglePhase
  <2>2. CASE SingleWarmup
    <3>1. /\ i < N_WARMUP /\ j' = j + 1 /\ i = j
          /\ UNCHANGED <<program, g_offsets, cons, g_t0, g_max_lateness, g_latencies, tsc, g_throughput_end_tsc>>
      BY <2>1, <2>2 DEF SingleWarmup, setup, HInv, SinglePhase
    <3>2. j < N_TOTAL /\ ~ (j >= N_WARMUP) /\ 0 \in Nat /\ 0 <= tsc /\ program # "paced" /\ cons' # "done"
      BY <1>1, <2>1, <3>1
    <3>. QED
      BY Zenon, <3>1, <3>2, SampledTimes
  <2>3. CASE SingleEnd
    <3>1. /\ j' = j + 1 /\ main = "end" /\ Sample(j, msg)
          /\ UNCHANGED <<program, g_offsets, cons, g_t0, g_max_lateness, tsc, g_throughput_end_tsc>>
      BY Zenon, <2>3 DEF SingleEnd, setup
    <3>2. j < N_TOTAL /\ IsMessage(msg, j) /\ program # "paced" /\ cons' # "done"
      BY <2>1, <3>1 DEF Flow, SingleFlow
    <3>3. PICK d : d = msg.tsc
      BY Zenon
    <3>4. d \in Nat /\ d <= tsc
      BY <3>2, <3>3 DEF IsMessage, Messages
    <3>5. g_latencies' = IF j >= N_WARMUP THEN [g_latencies EXCEPT ![j - N_WARMUP] = tsc - d] ELSE g_latencies
      BY Zenon, <3>1, <3>3 DEF Sample
    <3>. QED
      BY Zenon, <3>1, <3>2, <3>4, <3>5, SampledTimes
  <2>4. CASE SingleArm \/ SingleBegin
    <3>1. /\ UNCHANGED <<program, g_offsets, cons, prod, j, g_t0, g_max_lateness, g_latencies, tsc,
                         g_throughput_end_tsc>>
          /\ i' = i \/ i' = i + 1
      BY Zenon, <2>4 DEF SingleArm, SingleBegin, setup
    <3>2. Sent' = Sent \/ Sent' = Sent + 1
      BY Zenon, <2>1, <3>1 DEF Sent
    <3>3. program # "paced"
      BY <2>1
    <3>. QED
      BY Zenon, <1>2, <3>1, <3>2, <3>3
  <2>. QED
    BY Zenon, <1>4, <2>2, <2>3, <2>4 DEF SingleMain
<1>5. CASE Producer
  <2>1. /\ program # "single"
        /\ \/ Produce \/ (program = "paced" /\ PacedProduce) \/ PushMsg
           \/ ProducerReady \/ ProducerReleased \/ (program = "paced" /\ PacedReleased)
    BY <1>5 DEF Producer, PipeProducer, MultiProducer, PacedProducer
  <2>2. ASSUME Produce \/ PushMsg \/ ProducerReady \/ ProducerReleased PROVE Times'
    <3>1. UNCHANGED <<program, g_offsets, cons, j, g_t0, g_max_lateness, g_latencies, tsc, g_throughput_end_tsc>>
      BY Zenon, <2>2 DEF Produce, PushMsg, ProducerReady, ProducerReleased, setup
    <3>2. CASE Produce
      <4>1. prod = "produce" /\ prod' = "push" /\ i' = i
        BY Zenon, <3>2 DEF Produce
      <4>2. Sent = i /\ Sent' = i + 1
        BY <4>1 DEF Sent
      <4>3. program = "paced" => i < N_WARMUP
        BY <2>1, <4>1 DEF Flow, WorkersFlow
      <4>. QED
        BY Zenon, <1>2, <3>1, <4>2, <4>3
    <3>3. CASE PushMsg
      <4>1. /\ prod = "push" /\ i' = i + 1
            /\ prod' = CASE i + 1 = N_TOTAL -> "done"
                         [] i + 1 = N_WARMUP -> "ready"
                         [] i + 1 \in N_WARMUP + 1 .. N_TOTAL - 1 /\ program = "paced" -> "due"
                         [] OTHER -> "produce"
        BY Zenon, <3>3 DEF PushMsg
      <4>2. prod' # "push"
        BY <1>1, <4>1
      <4>3. Sent' = Sent
        BY Zenon, <4>1, <4>2 DEF Sent
      <4>. QED
        BY Zenon, <1>2, <3>1, <4>3
    <3>4. CASE ProducerReady \/ ProducerReleased
      <4>1. prod # "push" /\ prod' # "push" /\ i' = i
        BY <3>4 DEF ProducerReady, ProducerReleased
      <4>2. Sent' = Sent
        BY Zenon, <4>1 DEF Sent
      <4>. QED
        BY Zenon, <1>2, <3>1, <4>2
    <3>. QED
      BY Zenon, <2>2, <3>2, <3>3, <3>4
  <2>. QED
    BY Zenon, <2>1, <2>2, PacedTimes, BeginTimes
<1>6. CASE Consumer
  <2>1. program # "single"
    BY <1>6 DEF Consumer, PipeConsumer, PacedConsumer, MultiConsumer
  <2>2. \/ PopMsg \/ ConsumerReady \/ ConsumerReleased \/ ConsumerEnd
        \/ cons = "handle" /\ HandleMsg(kTicker)
        \/ cons = "handle" /\ Dispatch
    BY Zenon, <1>6 DEF Consumer, PipeConsumer, PacedConsumer, MultiConsumer
  <2>3. ASSUME cons = "handle", NEW t, HandleMsg(t) PROVE Times'
    <3>1. /\ j' = j + 1 /\ Sample(j, out) /\ cons' = ConsumerNext(j + 1)
          /\ UNCHANGED <<program, g_offsets, prod, i, g_t0, g_max_lateness, tsc, g_throughput_end_tsc>>
      BY Zenon, <2>3 DEF HandleMsg, setup
    <3>2. j < N_TOTAL /\ IsMessage(out, j)
      BY <2>1, <2>3 DEF Flow, WorkersFlow, InFlight
    <3>3. cons' # "done"
      BY <1>1, <3>1 DEF ConsumerNext
    <3>4. PICK d : d = out.tsc
      BY Zenon
    <3>5. d \in Nat /\ d <= tsc /\ (program = "paced" /\ j >= N_WARMUP => d = Deadline(j))
      BY <3>2, <3>4 DEF IsMessage, Messages
    <3>6. g_latencies' = IF j >= N_WARMUP THEN [g_latencies EXCEPT ![j - N_WARMUP] = tsc - d] ELSE g_latencies
      BY Zenon, <3>1, <3>4 DEF Sample
    <3>7. Sent' = Sent
      BY Zenon, <1>3, <3>1
    <3>. QED
      BY Zenon, <3>1, <3>2, <3>3, <3>5, <3>6, <3>7, SampledTimes
  <2>4. ASSUME UNCHANGED <<program, g_offsets, prod, i, j, g_t0, g_max_lateness, g_latencies, tsc,
                           g_throughput_end_tsc>>,
               cons' \in {"handle", "spin", "aborted"}
        PROVE  Times'
    <3>1. Sent' = Sent /\ cons' # "done"
      BY <1>3, <2>4
    <3>. QED
      BY Zenon, <1>2, <2>4, <3>1
  <2>5. CASE PopMsg \/ ConsumerReady
    BY Zenon, <2>4, <2>5 DEF PopMsg, ConsumerReady, setup
  <2>6. CASE cons = "handle" /\ Dispatch
    BY Zenon, <2>3, <2>4, <2>6 DEF Dispatch, setup
  <2>. QED
    BY Zenon, <2>1, <2>2, <2>3, <2>5, <2>6, BeginTimes, EndTimes
<1>7. CASE PipeMain \/ PacedMain \/ MultiMain
  <2>1. UNCHANGED <<program, g_offsets, j, i, g_t0, g_max_lateness, g_latencies, tsc, g_throughput_end_tsc>>
    BY Zenon, <1>7 DEF PipeMain, PacedMain, MultiMain, register_market, StartThreads, Arm, ArmAfter, JoinThreads, setup
  <2>2. \/ UNCHANGED <<prod, cons>>
        \/ main = "start" /\ prod' = "produce" /\ cons' = "pop"
    BY Zenon, <1>7 DEF PipeMain, PacedMain, MultiMain, register_market, StartThreads, Arm, ArmAfter, JoinThreads
  <2>3. program # "single"
    BY <1>7 DEF PipeMain, PacedMain, MultiMain
  <2>4. main = "start" => prod = "idle"
    BY <2>3 DEF HInv, WorkersPhase
  <2>5. Sent' = Sent /\ (cons' = "done" => cons = "done")
    BY <2>1, <2>2, <2>4 DEF Sent
  <2>. QED
    BY Zenon, <1>2, <2>1, <2>5
<1>8. CASE Tick \/ Exit \/ UNCHANGED vars
  <2>1. /\ UNCHANGED <<program, g_offsets, prod, cons, i, j, g_t0, g_max_lateness, g_latencies, g_throughput_end_tsc>>
        /\ tsc' = tsc \/ tsc' = tsc + 1
    BY Zenon, <1>8 DEF Tick, Exit, vars, setup
  <2>. QED
    BY Zenon, <1>2, <1>3, <2>1
<1>. QED
  BY Zenon, <1>4, <1>5, <1>6, <1>7, <1>8 DEF Next, Main

\* In the beginning no time has passed.
LEMMA TimesInit == Init => Times
<1>. SUFFICES ASSUME Init PROVE Times
  OBVIOUS
<1>1. /\ prod = "idle" /\ cons = "idle" /\ i = 0 /\ j = 0 /\ tsc = 0 /\ g_t0 = 0 /\ g_max_lateness = 0
      /\ g_latencies = [s \in Samples |-> 0]
  BY Zenon DEF Init
<1>2. g_latencies \in [Samples -> Nat] /\ \A s \in Samples : g_latencies[s] <= tsc
  BY <1>1
<1>3. Window
  BY <1>1 DEF Window
<1>4. Taken = {}
  BY <1>1, Constants, MoreConstants DEF Taken
<1>. QED
  BY Zenon, <1>1, <1>2, <1>3, <1>4 DEF Times, Delays, Charged

\* So the times are right in every state.
LEMMA TimesInvariance == Spec => []Times
<1>1. HInv /\ Registry /\ Flow /\ Times /\ [Next]_vars => Times'
  BY Zenon, TimesInv
<1>. QED
  BY <1>1, TimesInit, HotPathInvariance, FlowInvariance, PTL DEF Spec

\* The largest element of a set of numbers up to n.
LEMMA Largest ==
    ASSUME NEW n \in Nat, NEW S, S \subseteq 0 .. n, S # {}
    PROVE  Max(S) \in S /\ \A x \in S : x <= Max(S)
<1>. DEFINE D == {n - x : x \in S}
<1>1. D \subseteq Nat /\ D # {}
  <2>1. \A x \in S : n - x \in Nat
    OBVIOUS
  <2>. QED
    BY Zenon, <2>1
<1>2. PICK d \in D : \A y \in Nat : <<y, d>> \in OpToRel(<, Nat) => y \notin D
  <2>. HIDE DEF D
  <2>1. PICK y \in D : TRUE
    BY Zenon, <1>1
  <2>. QED
    BY Zenon, <1>1, <2>1, NatLessThanWellFounded, WFMin
<1>3. PICK m \in S : d = n - m
  BY Zenon
<1>4. ASSUME NEW x \in S, ~ (m >= x) PROVE FALSE
  <2>1. n - x \in D /\ n - x \in Nat /\ n - x < d /\ d \in Nat
    BY <1>3, <1>4
  <2>2. <<n - x, d>> \in OpToRel(<, Nat)
    BY Zenon, <2>1 DEF OpToRel
  <2>. QED
    BY Zenon, <1>2, <2>1, <2>2
<1>5. Max(S) \in S /\ \A x \in S : Max(S) >= x
  BY Zenon, <1>4 DEF Max
<1>. HIDE DEF D
<1>. QED
  BY <1>5

\* No latency and no window comes out negative, which in unsigned arithmetic
\* would be huge; the latencies of the paced program are free of coordinated
\* omission: what holds up one message is charged to those behind it, and the
\* producer's worst lateness is covered by the worst latency.
THEOREM SamplesStayHonest == Spec => []SamplesHonest
<1>1. HInv /\ Flow /\ Times => SamplesHonest
  <2>1. SUFFICES ASSUME HInv, Flow, Times PROVE SamplesHonest
    BY Zenon
  <2>2. \A s \in Samples : g_latencies[s] \in Nat /\ g_latencies[s] <= tsc
    BY <2>1 DEF Times
  <2>3. \A s \in Taken : g_latencies[s] >= 0
    BY <2>2 DEF Taken
  <2>4. main = "done" /\ program # "single" => g_t0 <= g_throughput_end_tsc
    BY Zenon, <2>1 DEF Flow, WorkersFlow, Times, Window
  <2>5. main = "done" /\ program # "single" => g_throughput_end_tsc >= g_t0
    BY <2>1, <2>4 DEF Flow, FlowTypes
  <2>6. ASSUME main = "done", program = "paced"
        PROVE  g_max_lateness <= Max({g_latencies[s] : s \in Samples})
    <3>. DEFINE L == {g_latencies[s] : s \in Samples}
    <3>1. tsc \in Nat /\ g_max_lateness \in Nat
      BY Zenon, <2>1, Flowing
    <3>2. 0 \in Samples
      BY Constants, MoreConstants
    <3>3. L \subseteq 0 .. tsc /\ L # {}
      BY <2>2, <3>1, <3>2
    <3>4. \A x \in L : x <= Max(L)
      <4>. HIDE DEF L
      <4>. QED
        BY Zenon, <3>1, <3>3, Largest
    <3>5. \A s \in Samples : g_latencies[s] <= Max(L)
      BY Zenon, <3>4
    <3>6. prod = "done" /\ cons = "done" /\ i = N_TOTAL /\ j = N_TOTAL
      BY <2>1, <2>6 DEF Flow, WorkersFlow
    <3>7. Sent = N_TOTAL
      BY <3>6 DEF Sent
    <3>8. PICK s \in Samples : g_max_lateness <= g_latencies[s]
      <4>1. CASE g_max_lateness = 0
        BY <2>2, <3>2, <4>1
      <4>2. CASE g_max_lateness # 0
        <5>1. PICK n \in N_WARMUP .. N_TOTAL - 1 :
                 IF n < N_TOTAL THEN g_max_lateness <= g_latencies[n - N_WARMUP]
                 ELSE Deadline(n) + g_max_lateness <= tsc
          BY Zenon, <2>1, <2>6, <3>6, <3>7, <4>2 DEF Times, Delays, Charged
        <5>2. n < N_TOTAL /\ n - N_WARMUP \in Samples
          BY Constants, MoreConstants
        <5>. QED
          BY Zenon, <5>1, <5>2
      <4>. QED
        BY Zenon, <4>1, <4>2
    <3>9. g_latencies[s] <= Max(L) /\ g_latencies[s] \in Nat /\ Max(L) \in Int
      <4>1. Max(L) \in Int
        <5>. HIDE DEF L
        <5>1. Max(L) \in 0 .. tsc
          BY Zenon, <3>1, <3>3, Largest
        <5>. QED
          BY <3>1, <5>1
      <4>. QED
        BY Zenon, <2>2, <3>5, <4>1
    <3>. HIDE DEF L
    <3>10. g_max_lateness <= Max(L)
      BY <3>1, <3>8, <3>9
    <3>. QED
      BY Zenon, <3>10 DEF L
  <2>7. program = "paced" => \A s \in Taken : s > 0 =>
           g_offsets[s - 1] + g_latencies[s - 1] <= g_offsets[s] + g_latencies[s]
    BY Zenon, <2>1 DEF Times, Delays
  <2>. QED
    BY Zenon, <2>3, <2>5, <2>6, <2>7 DEF SamplesHonest, Taken
<1>. QED
  BY <1>1, HotPathInvariance, FlowInvariance, TimesInvariance, PTL

------------------------------------------------------------------------------
(* The types                                                                *)

\* What no step changes: which program runs, and that one thread has no barrier.
Kept ==
    /\ program \in {"single", "pipe", "multi", "paced"}
    /\ program = "single" => g_threads_ready = 0

\* It stays so.
LEMMA KeptInvariance == Spec => []Kept
<1>1. Init => Kept
  BY DEF Init, Kept
<1>2. Kept /\ [Next]_vars => Kept'
  <2>1. SUFFICES ASSUME Kept, [Next]_vars PROVE Kept'
    BY Zenon
  <2>2. UNCHANGED program
    BY Zenon, <2>1 DEF Next, Main, SingleMain, SingleWarmup, SingleArm, SingleBegin, SingleEnd,
       PipeMain, PacedMain, MultiMain, register_market, StartThreads, Arm, ArmAfter, JoinThreads,
       Producer, PipeProducer, MultiProducer, PacedProducer, Produce, PushMsg, ProducerReady, ProducerReleased,
       PacedReleased, PacedProduce, Consumer, PipeConsumer, PacedConsumer, MultiConsumer, PopMsg, ConsumerReady,
       ConsumerReleased, ConsumerEnd, HandleMsg, Dispatch, Tick, Exit, vars, setup
  <2>3. CASE program = "single"
    <3>1. SingleMain \/ Tick \/ Exit \/ UNCHANGED vars
      BY <2>1, <2>3 DEF Next, Main, PipeMain, PacedMain, MultiMain, Producer, PipeProducer, MultiProducer,
         PacedProducer, Consumer, PipeConsumer, PacedConsumer, MultiConsumer
    <3>2. UNCHANGED g_threads_ready
      BY Zenon, <3>1 DEF SingleMain, SingleWarmup, SingleArm, SingleBegin, SingleEnd, Tick, Exit, vars
    <3>. QED
      BY Zenon, <2>1, <2>2, <3>2 DEF Kept
  <2>. QED
    BY Zenon, <2>1, <2>2, <2>3 DEF Kept
<1>. QED
  BY <1>1, <1>2, PTL DEF Spec

\* The benchmarks stay within their types: no index leaves g_latencies, no book
\* and no market is made up, and the counters stay in range.
THEOREM HotPathTypes == Spec => []TypeOK
<1>1. HInv /\ Registry /\ Flow /\ Booked /\ Times /\ Kept => TypeOK
  <2>1. SUFFICES ASSUME HInv, Registry, Flow, Booked, Times, Kept PROVE TypeOK
    BY Zenon
  <2>2. DOMAIN g_markets \subseteq Tickers /\ Range(g_markets) \subseteq Tickers
    <3>1. CASE program # "multi"
      <4>1. DOMAIN g_markets = {}
        BY <2>1, <3>1 DEF Registry
      <4>. QED
        BY Zenon, <4>1 DEF Range
    <3>2. CASE program = "multi"
      <4>1. /\ hash_ticker \in [Tickers -> Tickers] /\ Entered \in 0 .. N_TICKERS
            /\ \A t \in 1 .. Entered : g_markets[hash_ticker[t]] = t
            /\ \A k \in DOMAIN g_markets : \E t \in 1 .. Entered : k = hash_ticker[t]
        BY Zenon, <2>1, <3>2 DEF Registry, Injection
      <4>2. \A t \in 1 .. Entered : t \in Tickers
        BY <4>1, Constants DEF Tickers
      <4>3. ASSUME NEW k \in DOMAIN g_markets PROVE k \in Tickers /\ g_markets[k] \in Tickers
        <5>1. PICK t \in 1 .. Entered : k = hash_ticker[t]
          BY Zenon, <4>1
        <5>. QED
          BY Zenon, <4>1, <4>2, <5>1
      <4>. QED
        BY Zenon, <4>3 DEF Range
    <3>. QED
      BY Zenon, <3>1, <3>2
  <2>3. /\ main \in {"start", "warm", "arm", "begin", "end", "wait", "join", "done", "aborted"}
        /\ prod \in {"idle", "produce", "push", "ready", "spin", "due", "done"}
        /\ cons \in {"idle", "pop", "handle", "ready", "spin", "end", "done", "aborted"}
    BY <2>1 DEF HInv, SinglePhase, WorkersPhase, Flow, WorkersFlow
  <2>4. g_threads_ready \in 0 .. 2
    BY <2>1 DEF HInv, WorkersPhase, Kept
  <2>5. i \in 0 .. N_TOTAL /\ j \in 0 .. i
    BY <2>1, Flowing, MoreConstants
  <2>6. {longest, g_alloc_count, tsc, g_t0, g_max_lateness, g_throughput_end_tsc} \subseteq Nat
    BY <2>1 DEF HInv, BarrierTypes, ZeroAlloc, Flow, FlowTypes
  <2>7. DOMAIN g_latencies = Samples /\ DOMAIN books = Tickers
    BY <2>1 DEF Times, Booked
  <2>8. /\ msg \in [delta : Deltas, tsc : Nat] /\ q \in Seq([delta : Deltas, tsc : Nat])
        /\ out \in [delta : Deltas, tsc : Nat] /\ g_alloc_armed \in BOOLEAN
    BY Zenon, <2>1 DEF Flow, FlowTypes, Messages
  <2>. QED
    BY Zenon, <2>1, <2>2, <2>3, <2>4, <2>5, <2>6, <2>7, <2>8 DEF TypeOK, Kept
<1>. QED
  BY <1>1, HotPathInvariance, FlowInvariance, BookedInvariance, TimesInvariance, KeptInvariance, PTL
==============================================================================
