--------------------------- MODULE MatchingEngine ----------------------------
(***************************************************************************)
(* The simulator's matching engine (sim/domain/matching_engine.cpp) down   *)
(* to its pointers: the blocks of its Pool (src/core/pool_alloc.h), the    *)
(* doubly linked list of orders at each price of each side, the map from   *)
(* order id to block, and the cached best prices.                          *)
(*                                                                         *)
(* The engine is single-threaded: calls do not overlap.  place_limit is    *)
(* split at its loop iterations (pc); cancel is one step.  orders_ is      *)
(* modelled as a partial function: FlatHashMap has twice as many slots as  *)
(* the pool has blocks, so its insert cannot fail here.                    *)
(***************************************************************************)
EXTENDS Integers, Sequences, FiniteSets, FiniteSetsExt

CONSTANTS
    Clients,        \* ids of the clients who place orders
    Strangers,      \* ids that only try to cancel
    PoolSize,       \* blocks in the pool (2048 in the code)
    MaxPrice,       \* highest valid price (99 in the code)
    MaxQty,         \* largest quantity a caller passes
    QtyModulus,     \* total_qty is a uint32_t: 2^32 in the code
    MaxOrders,      \* bound: number of order ids handed out
    NULL            \* the null pointer

ASSUME EngineAssumption ==
    /\ PoolSize \in Nat \ {0}
    /\ MaxPrice \in Nat \ {0}
    /\ MaxQty \in Nat \ {0}
    /\ MaxOrders \in Nat
    /\ QtyModulus \in Nat \ {0}
    /\ NULL \notin 0 .. MaxOrders + PoolSize

\* The request handler passes quantities up to 1000000, and the pool has 2048
\* blocks: the sum over a level fits in a uint32_t.
ASSUME QtyFits == PoolSize * MaxQty < QtyModulus

Blocks == 1 .. PoolSize             \* addresses, in the order of the pool's memory
Pointers == Blocks \cup {NULL}
Sides == {"YES", "NO"}
Levels == 0 .. MaxPrice + 1         \* bids_[101], asks_[101]

VARIABLES
    mem,            \* the pool's memory, a struct Order per block
    free_head_,     \* Pool: first block of the free list
    level,          \* level[s][p]: the PriceLevel at p of bids_ (YES) or asks_ (NO)
    orders_,        \* order id -> block
    best_bid_,
    best_ask_,
    next_order_id_,
    pc,             \* where place_limit is
    incoming,       \* its block
    ptr,            \* its scan position
    cur,            \* its cursor in the level at ptr
    fills,          \* result.fills, as <<price, quantity>>
    asked           \* the quantity it was called with

poolVars == <<mem, free_head_>>
bookVars == <<level, orders_, best_bid_, best_ask_>>
callVars == <<pc, incoming, ptr, cur, fills, asked>>
vars == <<mem, free_head_, level, orders_, best_bid_, best_ask_,
          next_order_id_, pc, incoming, ptr, cur, fills, asked>>

Other(s) == IF s = "YES" THEN "NO" ELSE "YES"
With(f, k, v) == [x \in DOMAIN f \cup {k} |-> IF x = k THEN v ELSE f[x]]
Without(f, k) == [x \in DOMAIN f \ {k} |-> f[x]]

------------------------------------------------------------------------------
(* The pool.  The link of a free block overlays its first word, order_id.   *)

Deallocated(m, b) == [m EXCEPT ![b].order_id = free_head_]

------------------------------------------------------------------------------
(* The list of a price level.                                               *)

\* Memory and level after block b left its list.
UnlinkedMem(m, b) ==
    [x \in Blocks |->
        [m[x] EXCEPT !.next = IF x = m[b].prev THEN m[b].next ELSE @,
                     !.prev = IF x = m[b].next THEN m[b].prev ELSE @]]

\* Mutation: the tail keeps pointing at a block that left the list.
UnlinkedKeepsTail(l, m, b) ==
    [l EXCEPT !.head = IF m[b].prev = NULL THEN m[b].next ELSE @]

UnlinkedLevel(l, m, b) ==
    [l EXCEPT !.head = IF m[b].prev = NULL THEN m[b].next ELSE @,
              !.tail = IF m[b].next = NULL THEN m[b].prev ELSE @]

\* Mutation: the best bid is left on a level that has become empty.
NotPruned(lv, b) == b

\* The loops that move the cached best prices off empty levels.
PrunedBid(lv, b) ==
    LET live == {p \in 1 .. b : lv["YES"][p].total # 0}
    IN  IF live = {} THEN 0 ELSE Max(live)

PrunedAsk(lv, a) ==
    LET live == {p \in a .. MaxPrice : lv["NO"][p].total # 0}
    IN  IF live = {} THEN MaxPrice + 1 ELSE Min(live)

------------------------------------------------------------------------------

\* The pool's memory comes zeroed from mmap, then the free list is threaded.
FreshBlock(b) ==
    [order_id |-> IF b = PoolSize THEN NULL ELSE b + 1,
     client |-> 0, side |-> "YES", price |-> 0,
     qty |-> 0, prev |-> NULL, next |-> NULL]

Init ==
    /\ mem = [b \in Blocks |-> FreshBlock(b)]
    /\ free_head_ = 1
    /\ level = [s \in Sides |-> [p \in Levels |-> [head |-> NULL, tail |-> NULL, total |-> 0]]]
    /\ orders_ = <<>>
    /\ best_bid_ = 0
    /\ best_ask_ = MaxPrice + 1
    /\ next_order_id_ = 1
    /\ pc = "idle"
    /\ incoming = NULL
    /\ ptr = 0
    /\ cur = NULL
    /\ fills = <<>>
    /\ asked = 0

------------------------------------------------------------------------------
(* place_limit                                                              *)

\* The walls chosen by the side of the incoming order.
Side == mem[incoming].side
ScanDir == IF Side = "YES" THEN 1 ELSE -1

\* Mutations: the scan stops one price early; it does not stop at the limit.
ScanStrict == IF Side = "YES" THEN ptr < mem[incoming].price ELSE ptr > mem[incoming].price
ScanUnbounded == TRUE

ScanOn == IF Side = "YES" THEN ptr <= mem[incoming].price ELSE ptr >= mem[incoming].price

\* An invalid price or quantity, or an empty pool: {0, {}, 0, false}.
Reject(p, q) ==
    /\ pc = "idle"
    /\ p \notin 1 .. MaxPrice \/ q = 0 \/ free_head_ = NULL
    /\ UNCHANGED vars

\* A block is taken from the pool and initialised, the scan starts at the best
\* price of the other side.
PlaceLimit(c, s, p, q) ==
    /\ pc = "idle"
    /\ p \in 1 .. MaxPrice
    /\ q # 0
    /\ free_head_ # NULL
    /\ next_order_id_ <= MaxOrders
    /\ incoming' = free_head_
    /\ free_head_' = mem[free_head_].order_id
    /\ mem' = [mem EXCEPT ![free_head_] =
                 [order_id |-> next_order_id_, client |-> c, side |-> s, price |-> p,
                  qty |-> q, prev |-> NULL, next |-> NULL]]
    /\ next_order_id_' = next_order_id_ + 1
    /\ ptr' = IF s = "YES" THEN best_ask_ ELSE best_bid_
    /\ asked' = q
    /\ pc' = "scan"
    /\ UNCHANGED <<bookVars, cur, fills>>

\* The test of the outer loop; inside it the cursor goes to the level's head.
Scan ==
    /\ pc = "scan"
    /\ IF ScanOn /\ mem[incoming].qty # 0
       THEN pc' = "match" /\ cur' = level[Other(Side)][ptr].head
       ELSE pc' = "finish" /\ UNCHANGED cur
    /\ UNCHANGED <<poolVars, bookVars, next_order_id_, incoming, ptr, fills, asked>>

\* Mutation: a fill reports the size of the resting order.
FillOfMaker(traded) == <<ptr, mem[cur].qty>>

\* The price and quantity of a fill.
Fill(traded) == <<ptr, traded>>

\* The incoming order trades with cur: what both have left, and the level.
TradedQty == Min({mem[cur].qty, mem[incoming].qty})
TradedMem == [mem EXCEPT ![cur].qty = @ - TradedQty, ![incoming].qty = @ - TradedQty]
TradedLevel == [level[Other(Side)][ptr] EXCEPT !.total = (@ - TradedQty) % QtyModulus]

\* An iteration of the inner loop: after the trade, cur leaves list, map and
\* pool when nothing is left of it.
Match ==
    /\ pc = "match"
    /\ cur # NULL
    /\ mem[incoming].qty > 0
    /\ fills' = Append(fills, Fill(TradedQty))
    /\ IF TradedMem[cur].qty = 0
       THEN /\ mem' = Deallocated(UnlinkedMem(TradedMem, cur), cur)
            /\ free_head_' = cur
            /\ level' = [level EXCEPT ![Other(Side)][ptr] = UnlinkedLevel(TradedLevel, TradedMem, cur)]
            /\ orders_' = Without(orders_, mem[cur].order_id)
            /\ cur' = mem[cur].next
            /\ UNCHANGED <<ptr, pc>>
       ELSE /\ mem' = TradedMem
            /\ level' = [level EXCEPT ![Other(Side)][ptr] = TradedLevel]
            /\ ptr' = ptr + ScanDir
            /\ pc' = "scan"
            /\ UNCHANGED <<free_head_, orders_, cur>>
    /\ UNCHANGED <<best_bid_, best_ask_, next_order_id_, incoming, asked>>

\* Mutation: the scan position is not advanced.
NextLevelStuck ==
    /\ pc = "match"
    /\ cur = NULL \/ mem[incoming].qty = 0
    /\ pc' = "scan"
    /\ UNCHANGED <<poolVars, bookVars, next_order_id_, incoming, ptr, cur, fills, asked>>

\* The inner loop ends, the scan moves on by one price.
NextLevel ==
    /\ pc = "match"
    /\ cur = NULL \/ mem[incoming].qty = 0
    /\ ptr' = ptr + ScanDir
    /\ pc' = "scan"
    /\ UNCHANGED <<poolVars, bookVars, next_order_id_, incoming, cur, fills, asked>>

\* What is left rests at the tail of its level.
RestIncoming ==
    LET o   == mem[incoming]
        old == level[o.side][o.price].tail
        lv  == [level EXCEPT ![o.side][o.price] =
                  [head |-> IF old = NULL THEN incoming ELSE @.head,
                   tail |-> incoming,
                   total |-> (@.total + o.qty) % QtyModulus]]
    IN  /\ pc = "finish"
        /\ o.qty > 0
        /\ orders_' = With(orders_, o.order_id, incoming)
        /\ mem' = IF old = NULL THEN mem
                  ELSE [mem EXCEPT ![incoming].prev = old, ![old].next = incoming]
        /\ level' = lv
        /\ best_bid_' = PrunedBid(lv, IF o.side = "YES" THEN Max({best_bid_, o.price}) ELSE best_bid_)
        /\ best_ask_' = PrunedAsk(lv, IF o.side = "NO" THEN Min({best_ask_, o.price}) ELSE best_ask_)
        /\ pc' = "return"
        /\ UNCHANGED <<free_head_, next_order_id_, incoming, ptr, cur, fills, asked>>

\* Mutation: the block of a completely filled order is not given back.
FreeIncomingLeak ==
    /\ pc = "finish"
    /\ mem[incoming].qty = 0
    /\ best_bid_' = PrunedBid(level, best_bid_)
    /\ best_ask_' = PrunedAsk(level, best_ask_)
    /\ pc' = "return"
    /\ UNCHANGED <<poolVars, level, orders_, next_order_id_, incoming, ptr, cur, fills, asked>>

\* Nothing is left: the block goes back to the pool.
FreeIncoming ==
    /\ pc = "finish"
    /\ mem[incoming].qty = 0
    /\ mem' = Deallocated(mem, incoming)
    /\ free_head_' = incoming
    /\ best_bid_' = PrunedBid(level, best_bid_)
    /\ best_ask_' = PrunedAsk(level, best_ask_)
    /\ pc' = "return"
    /\ UNCHANGED <<level, orders_, next_order_id_, incoming, ptr, cur, fills, asked>>

\* The call returns: its locals end.
Return ==
    /\ pc = "return"
    /\ pc' = "idle"
    /\ incoming' = NULL
    /\ ptr' = 0
    /\ cur' = NULL
    /\ fills' = <<>>
    /\ asked' = 0
    /\ UNCHANGED <<poolVars, bookVars, next_order_id_>>

------------------------------------------------------------------------------

\* cancel for an unknown id or a client who does not own the order: false.
CancelRefused(id, c) ==
    /\ pc = "idle"
    /\ id \in DOMAIN orders_ => mem[orders_[id]].client # c
    /\ UNCHANGED vars

Cancel(id, c) ==
    LET b  == orders_[id]
        o  == mem[b]
        l  == UnlinkedLevel(level[o.side][o.price], mem, b)
        lv == [level EXCEPT ![o.side][o.price] = [l EXCEPT !.total = (@ - o.qty) % QtyModulus]]
    IN  /\ pc = "idle"
        /\ id \in DOMAIN orders_
        /\ mem[b].client = c
        /\ mem' = Deallocated(UnlinkedMem(mem, b), b)
        /\ free_head_' = b
        /\ level' = lv
        /\ orders_' = Without(orders_, id)
        /\ best_bid_' = PrunedBid(lv, best_bid_)
        /\ best_ask_' = PrunedAsk(lv, best_ask_)
        /\ UNCHANGED <<next_order_id_, callVars>>

------------------------------------------------------------------------------

Steps == Scan \/ Match \/ NextLevel \/ RestIncoming \/ FreeIncoming \/ Return

Next ==
    \/ \E c \in Clients, s \in Sides, p \in Levels, q \in 0 .. MaxQty :
          PlaceLimit(c, s, p, q)
    \/ \E p \in Levels, q \in 0 .. MaxQty : Reject(p, q)
    \/ Steps
    \/ \E id \in 0 .. MaxOrders, c \in Clients \cup Strangers :
          Cancel(id, c) \/ CancelRefused(id, c)

\* A call runs to its end.
Spec == Init /\ [][Next]_vars /\ WF_vars(Steps)

------------------------------------------------------------------------------
(* Properties                                                               *)

\* Pointers point into the pool, and the scan position and the cached best
\* prices never leave the arrays bids_ and asks_.
TypeOK ==
    /\ mem \in [Blocks -> [order_id : 0 .. MaxOrders + PoolSize \cup {NULL},
                           client : Clients \cup {0}, side : Sides, price : 0 .. MaxPrice,
                           qty : 0 .. MaxQty, prev : Pointers, next : Pointers]]
    /\ free_head_ \in Pointers
    /\ level \in [Sides -> [Levels -> [head : Pointers, tail : Pointers, total : 0 .. QtyModulus - 1]]]
    /\ DOMAIN orders_ \subseteq 1 .. MaxOrders
    /\ \A id \in DOMAIN orders_ : orders_[id] \in Blocks
    /\ best_bid_ \in 0 .. MaxPrice
    /\ best_ask_ \in 1 .. MaxPrice + 1
    /\ next_order_id_ \in 1 .. MaxOrders + 1
    /\ pc \in {"idle", "scan", "match", "finish", "return"}
    /\ incoming \in Pointers
    /\ cur \in Pointers
    /\ ptr \in Levels
    /\ asked \in 0 .. MaxQty

\* A block that place_limit holds outside the book.
Working == IF pc \in {"scan", "match", "finish"} THEN {incoming} ELSE {}
Resting == {orders_[id] : id \in DOMAIN orders_}

\* The free list, followed link by link.
FreeWalk ==
    LET w[n \in 0 .. PoolSize] ==
            IF n = 0 THEN free_head_
            ELSE IF w[n - 1] \in Blocks THEN mem[w[n - 1]].order_id ELSE NULL
    IN  w

\* Every block of the pool is, once, in the free list, in the book or in the
\* hands of place_limit: none is lost, freed twice or recycled while in use,
\* and the free list ends.
NoBlockLostOrShared ==
    /\ FreeWalk[PoolSize] = NULL
    /\ {FreeWalk[n] : n \in 0 .. PoolSize} \ {NULL} = Blocks \ (Resting \cup Working)
    /\ Resting \cap Working = {}
    /\ Cardinality(Resting) = Cardinality(DOMAIN orders_)

LevelSound(s, p) ==
    LET ids      == {id \in DOMAIN orders_ :
                        mem[orders_[id]].side = s /\ mem[orders_[id]].price = p}
        first(S) == IF S = {} THEN NULL ELSE orders_[Min(S)]
        last(S)  == IF S = {} THEN NULL ELSE orders_[Max(S)]
    IN  /\ level[s][p].head = first(ids)
        /\ level[s][p].tail = last(ids)
        /\ \A id \in ids :
              LET o == mem[orders_[id]]
              IN  /\ o.order_id = id
                  /\ o.qty > 0
                  /\ o.prev = last({i \in ids : i < id})
                  /\ o.next = first({i \in ids : i > id})
        /\ level[s][p].total = SumFunctionOnSet([b \in Blocks |-> mem[b].qty],
                                                {orders_[id] : id \in ids})

\* Whatever sequence of fills, cancels and recycled blocks led here, the list
\* of each price level, read in either direction, is the level's orders in
\* arrival order, and total_qty is the sum of what they have left.
LevelsSound == \A s \in Sides, p \in Levels : LevelSound(s, p)

\* Between calls, best_bid() and best_ask() are the best prices that have
\* resting orders (0 and MaxPrice + 1 when there are none), and the bid is
\* below the ask.
BestsExact ==
    pc \in {"idle", "return"} =>
        /\ best_bid_ = Max({mem[b].price : b \in {x \in Resting : mem[x].side = "YES"}} \cup {0})
        /\ best_ask_ = Min({mem[b].price : b \in {x \in Resting : mem[x].side = "NO"}} \cup {MaxPrice + 1})
        /\ best_bid_ < best_ask_

\* When place_limit returns, the quantities of its fills and the quantity that
\* rests add up to the quantity asked for.
QuantityConserved ==
    pc = "return" =>
        LET id == next_order_id_ - 1
            rest == IF id \in DOMAIN orders_ THEN mem[orders_[id]].qty ELSE 0
        IN  rest + SumFunctionOnSet([n \in DOMAIN fills |-> fills[n][2]], DOMAIN fills) = asked

\* place_limit ends whatever the book looks like: no list it follows is
\* circular and no scan runs away.
CallEnds == pc # "idle" ~> pc = "idle"

\* The order a block holds, as the abstract book sees it.
AsOrder(b) ==
    [id |-> mem[b].order_id, client |-> mem[b].client, side |-> mem[b].side,
     price |-> mem[b].price, qty |-> mem[b].qty]

Book == INSTANCE PriceTimeBook WITH
    MaxResting <- PoolSize,
    None <- NULL,
    resting <- {AsOrder(b) : b \in Resting},
    taker <- IF Working = {} THEN NULL ELSE AsOrder(incoming),
    nextId <- next_order_id_

\* The null pointer is no order.
ASSUME NullAssumption == NULL \notin Book!Takers

\* The engine implements price-time priority: every fill is with the oldest
\* order at the best price, and an order rests only when it crosses nothing.
Implements == Book!Spec
==============================================================================
