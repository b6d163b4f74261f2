---------------------------- MODULE PriceTimeBook ----------------------------
(***************************************************************************)
(* What the simulator's matching engine promises: a central limit order    *)
(* book with price-time priority.  YES orders bid for the contract, NO     *)
(* orders offer it, both at the YES price.  An order that arrives trades   *)
(* with the resting orders of the other side, best price first and, within *)
(* a price, oldest first; what is left of it rests.                        *)
(***************************************************************************)
EXTENDS Integers, FiniteSets

CONSTANTS
    Clients,    \* identities of those who place orders
    MaxPrice,   \* orders are priced 1 .. MaxPrice
    MaxQty,     \* and are for 1 .. MaxQty contracts
    MaxResting, \* how many orders fit in the book
    MaxOrders,  \* bound: how many orders arrive
    None        \* no order is being matched

ASSUME BookAssumption ==
    /\ MaxPrice \in Nat \ {0}
    /\ MaxQty \in Nat \ {0}
    /\ MaxResting \in Nat \ {0}
    /\ MaxOrders \in Nat

Prices == 1 .. MaxPrice
Sides == {"YES", "NO"}

\* An order; ids grow with time, so id order is time order.
Orders == [id : Nat \ {0}, client : Clients, side : Sides, price : Prices, qty : 1 .. MaxQty]
Takers == [id : Nat \ {0}, client : Clients, side : Sides, price : Prices, qty : 0 .. MaxQty]

ASSUME NoneAssumption == None \notin Takers

VARIABLES
    resting,    \* the orders in the book
    taker,      \* the order being matched, or None
    nextId      \* the id of the next order

vars == <<resting, taker, nextId>>

\* Orders t (arriving) and m (resting) can trade with each other.
Crosses(t, m) ==
    /\ t.side # m.side
    /\ IF t.side = "YES" THEN m.price <= t.price ELSE m.price >= t.price

\* Mutation: within a price the newest order comes first.
BetterNewest(m, n) ==
    \/ IF m.side = "YES" THEN m.price > n.price ELSE m.price < n.price
    \/ m.price = n.price /\ m.id > n.id

\* m has priority over n, both on the same side.
Better(m, n) ==
    \/ IF m.side = "YES" THEN m.price > n.price ELSE m.price < n.price
    \/ m.price = n.price /\ m.id < n.id

Best(m) == \A n \in resting : n.side = m.side => n = m \/ Better(m, n)

Init ==
    /\ resting = {}
    /\ taker = None
    /\ nextId = 1

\* An order is accepted, with the next id, while the book has room.
Arrive(c, s, p, n) ==
    /\ taker = None
    /\ nextId <= MaxOrders
    /\ Cardinality(resting) < MaxResting
    /\ taker' = [id |-> nextId, client |-> c, side |-> s, price |-> p, qty |-> n]
    /\ nextId' = nextId + 1
    /\ UNCHANGED resting

\* An order that does not fit, or comes after the last one of this model, is
\* turned away.
Refuse ==
    /\ taker = None
    /\ Cardinality(resting) = MaxResting \/ nextId > MaxOrders
    /\ UNCHANGED vars

\* Mutation: a resting order that is filled in part keeps its quantity.
TradeKeepsMaker(m) ==
    /\ taker # None
    /\ taker.qty > 0
    /\ Crosses(taker, m)
    /\ Best(m)
    /\ taker' = [taker EXCEPT !.qty = IF taker.qty < m.qty THEN 0 ELSE taker.qty - m.qty]
    /\ resting' = IF taker.qty < m.qty THEN resting ELSE resting \ {m}
    /\ UNCHANGED nextId

\* The arriving order trades with m, the best order it crosses; an order with
\* nothing left leaves the book.
Trade(m) ==
    /\ taker # None
    /\ taker.qty > 0
    /\ Crosses(taker, m)
    /\ Best(m)
    /\ \/ /\ taker.qty < m.qty
          /\ taker' = [taker EXCEPT !.qty = 0]
          /\ resting' = (resting \ {m}) \cup {[m EXCEPT !.qty = m.qty - taker.qty]}
       \/ /\ taker.qty >= m.qty
          /\ taker' = [taker EXCEPT !.qty = taker.qty - m.qty]
          /\ resting' = resting \ {m}
    /\ UNCHANGED nextId

\* What is left of the arriving order rests once it crosses nothing.
Rest ==
    /\ taker # None
    /\ taker.qty > 0
    /\ \A m \in resting : ~ Crosses(taker, m)
    /\ resting' = resting \cup {taker}
    /\ taker' = None
    /\ UNCHANGED nextId

\* The arriving order was filled completely.
Filled ==
    /\ taker # None
    /\ taker.qty = 0
    /\ taker' = None
    /\ UNCHANGED <<resting, nextId>>

\* An order is taken back by the client who placed it.
Cancel(m) ==
    /\ taker = None
    /\ resting' = resting \ {m}
    /\ UNCHANGED <<taker, nextId>>

Next ==
    \/ \E c \in Clients, s \in Sides, p \in Prices, n \in 1 .. MaxQty : Arrive(c, s, p, n)
    \/ Refuse
    \/ \E m \in resting : Trade(m) \/ Cancel(m)
    \/ Rest
    \/ Filled

Spec == Init /\ [][Next]_vars

------------------------------------------------------------------------------
(* Properties                                                               *)

\* The book holds orders with something left, the arriving order may be filled.
TypeOK ==
    /\ resting \subseteq Orders
    /\ taker \in Takers \cup {None}
    /\ nextId \in Nat \ {0}

\* No bid in the book is at or above an offer in the book, at any moment: two
\* resting orders could never have traded with each other.
NotCrossed == \A m, n \in resting : ~ Crosses(m, n)

\* An id names one order, and was given before the next one: ids never tie, so
\* time priority is a total order on the orders of a price.
UniqueIds ==
    /\ \A m, n \in resting : m.id = n.id => m = n
    /\ \A m \in resting : m.id < nextId
    /\ taker # None => taker.id < nextId /\ \A m \in resting : m.id # taker.id
==============================================================================
