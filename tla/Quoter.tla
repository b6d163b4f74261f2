------------------------------- MODULE Quoter --------------------------------
(***************************************************************************)
(* The strategy of one market: book deltas arrive in order, Book applies   *)
(* them (src/feed/book.cpp), Signal derives the quote to show              *)
(* (src/strategy/signal.cpp) and OrderManager the actions that get there   *)
(* (src/strategy/order_manager.cpp).  Actions are sent one at a time, each *)
(* reported back with on_place_sent or on_cancel_sent.                     *)
(*                                                                         *)
(* The venue is external: its book changes at will, it announces every     *)
(* change once and in order and never takes a level below zero.  It does   *)
(* what the actions say, and may fill, refuse or drop an order of ours at  *)
(* any time, of which nothing in the code tells OrderManager.  A YES bid   *)
(* and a NO bid trade with each other when their prices add up to Par.     *)
(***************************************************************************)
EXTENDS Integers, Sequences, FiniteSets, FiniteSetsExt

CONSTANTS
    Par,            \* what a YES and a NO contract pay together: 100 cents
    MIN_SPREAD,     \* 3 in the code
    MaxLevel,       \* bound: quantity at a price of the venue's book
    MaxInFlight,    \* bound: deltas announced and not yet applied
    MaxDeltas       \* bound: changes of the venue's book

ASSUME QuoterAssumption ==
    /\ Par \in Nat \ {0, 1}
    /\ MIN_SPREAD \in Nat \ {0, 1, 2}
    /\ MaxLevel \in Nat
    /\ MaxInFlight \in Nat
    /\ MaxDeltas \in Nat

Sides == {"YES", "NO"}
Prices == 1 .. Par - 1
NotOpen == [open |-> FALSE, price |-> 0, client_id |-> 0]

VARIABLES
    venue,          \* the venue's book: quantity per side and price
    deltas,         \* number of changes so far
    feed,           \* deltas on their way: [side, price, delta]
    levels_,        \* Book: yes_levels_ and no_levels_
    best_,          \* Book: best_yes_bid_ and best_no_bid_
    open_,          \* OrderManager: yes_open_ and no_open_
    next_client_id_,
    bundle,         \* actions of the last reconcile still to be sent
    live,           \* our orders at the venue: [side, price, client_id]
    gone            \* ids of orders the venue has filled, refused or dropped
                    \* and that have not been cancelled since

vars == <<venue, deltas, feed, levels_, best_, open_, next_client_id_, bundle, live, gone>>

Init ==
    /\ venue = [s \in Sides |-> [p \in Prices |-> 0]]
    /\ deltas = 0
    /\ feed = <<>>
    /\ levels_ = [s \in Sides |-> [p \in Prices |-> 0]]
    /\ best_ = [s \in Sides |-> 0]
    /\ open_ = [s \in Sides |-> NotOpen]
    /\ next_client_id_ = 1
    /\ bundle = <<>>
    /\ live = {}
    /\ gone = {}

------------------------------------------------------------------------------

\* The venue's book changes and the change is announced.
VenueChanges(s, p, d) ==
    /\ deltas < MaxDeltas
    /\ Len(feed) < MaxInFlight
    /\ venue[s][p] + d \in 0 .. MaxLevel
    /\ venue' = [venue EXCEPT ![s][p] = @ + d]
    /\ deltas' = deltas + 1
    /\ feed' = Append(feed, [side |-> s, price |-> p, delta |-> d])
    /\ UNCHANGED <<levels_, best_, open_, next_client_id_, bundle, live, gone>>

\* An order of ours is filled, refused or dropped: OrderManager has no call for
\* it and goes on believing the order open.
VenueTakes(o) ==
    /\ o \in live
    /\ live' = live \ {o}
    /\ gone' = gone \cup {o.client_id}
    /\ UNCHANGED <<venue, deltas, feed, levels_, best_, open_, next_client_id_, bundle>>

------------------------------------------------------------------------------
(* Book::apply                                                              *)

\* Mutation: the best price stays when its level empties.
BestNotLowered(levels, best, p, new) == new = IF levels[p] > 0 /\ p > best THEN p ELSE best

\* new is the best price after the level at p became levels[p]: raised by a
\* better price, walked down to the next level that is not empty when its own
\* emptied.
NewBest(levels, best, p, new) ==
    IF levels[p] > 0 /\ p > best
    THEN new = p
    ELSE IF p = best /\ levels[p] = 0
         THEN /\ new \in 0 .. best
              /\ new # 0 => levels[new] # 0
              /\ \A x \in new + 1 .. best : levels[x] = 0
         ELSE new = best

(* Signal::evaluate                                                         *)

\* Mutation: the spread is tested after the quotes have narrowed it.
ActiveNarrow(best) == best["YES"] # 0 /\ best["NO"] # 0 /\ Par - best["YES"] - best["NO"] > 0

\* Mutation: the spread is not tested.
ActiveAnySpread(best) == best["YES"] # 0 /\ best["NO"] # 0

\* target.active; the quotes are one better than the best bids.
Active(best) ==
    /\ best["YES"] # 0
    /\ best["NO"] # 0
    /\ Par - best["YES"] - best["NO"] >= MIN_SPREAD

QuotePrice(best, s) == best[s] + 1

(* OrderManager::reconcile                                                  *)

Place(s, p, id) == [kind |-> "PLACE", side |-> s, price |-> p, client_id |-> id]
CancelOf(s) == [kind |-> "CANCEL", side |-> s, price |-> 0, client_id |-> open_[s].client_id]

\* Mutation: the order that is replaced is not cancelled.
ReplaceOnly(s, want, price, id) ==
    CASE want /\ (~ open_[s].open \/ open_[s].price # price) -> <<Place(s, price, id)>>
      [] open_[s].open /\ ~ want -> <<CancelOf(s)>>
      [] OTHER -> <<>>

\* Mutation: an order stays at the price it was opened at.
NeverReplaces(s, want, price, id) ==
    CASE want /\ ~ open_[s].open -> <<Place(s, price, id)>>
      [] open_[s].open /\ ~ want -> <<CancelOf(s)>>
      [] OTHER -> <<>>

reconcile_helper(s, want, price, id) ==
    CASE want /\ ~ open_[s].open -> <<Place(s, price, id)>>
      [] ~ want /\ open_[s].open -> <<CancelOf(s)>>
      [] want /\ open_[s].open /\ open_[s].price # price -> <<CancelOf(s), Place(s, price, id)>>
      [] OTHER -> <<>>

Places(actions) == Cardinality({i \in DOMAIN actions : actions[i].kind = "PLACE"})

\* The actions that lead from the open orders to the quotes for best, YES first.
reconcile(best) ==
    LET yes == reconcile_helper("YES", Active(best), QuotePrice(best, "YES"), next_client_id_)
    IN  yes \o reconcile_helper("NO", Active(best), QuotePrice(best, "NO"),
                                next_client_id_ + Places(yes))

\* A delta is taken from the feed and handled: apply, evaluate, reconcile.
OnDelta ==
    LET d  == Head(feed)
        lv == [levels_ EXCEPT ![d.side][d.price] = @ + d.delta]
    IN  /\ feed # <<>>
        /\ bundle = <<>>
        /\ feed' = Tail(feed)
        /\ levels_' = lv
        /\ \E new \in 0 .. Par - 1 :
              /\ NewBest(lv[d.side], best_[d.side], d.price, new)
              /\ best_' = [best_ EXCEPT ![d.side] = new]
        /\ bundle' = reconcile(best_')
        /\ next_client_id_' = next_client_id_ + Places(reconcile(best_'))
        /\ UNCHANGED <<venue, deltas, open_, live, gone>>

\* The next PLACE is sent: on_place_sent.
SendPlace ==
    LET a == Head(bundle)
    IN  /\ bundle # <<>>
        /\ a.kind = "PLACE"
        /\ open_' = [open_ EXCEPT ![a.side] = [open |-> TRUE, price |-> a.price, client_id |-> a.client_id]]
        /\ live' = live \cup {[side |-> a.side, price |-> a.price, client_id |-> a.client_id]}
        /\ bundle' = Tail(bundle)
        /\ UNCHANGED <<venue, deltas, feed, levels_, best_, next_client_id_, gone>>

\* The next CANCEL is sent: on_cancel_sent.
SendCancel ==
    LET a == Head(bundle)
    IN  /\ bundle # <<>>
        /\ a.kind = "CANCEL"
        /\ open_' = [open_ EXCEPT ![a.side] = NotOpen]
        /\ live' = {o \in live : o.client_id # a.client_id}
        /\ gone' = gone \ {a.client_id}
        /\ bundle' = Tail(bundle)
        /\ UNCHANGED <<venue, deltas, feed, levels_, best_, next_client_id_>>

Strategy == OnDelta \/ SendPlace \/ SendCancel

Next ==
    \/ \E s \in Sides, p \in Prices, d \in (-MaxLevel .. MaxLevel) \ {0} : VenueChanges(s, p, d)
    \/ \E o \in live : VenueTakes(o)
    \/ Strategy

\* The strategy's thread keeps running.
Spec == Init /\ [][Next]_vars /\ WF_vars(Strategy)

------------------------------------------------------------------------------
(* Properties                                                               *)

\* The book's prices and quantities, the order states and the bundle of at
\* most four actions (ActionBundle::actions[4]) stay in their ranges.
TypeOK ==
    /\ venue \in [Sides -> [Prices -> 0 .. MaxLevel]]
    /\ deltas \in 0 .. MaxDeltas
    /\ \A i \in DOMAIN feed : feed[i].side \in Sides /\ feed[i].price \in Prices
    /\ levels_ \in [Sides -> [Prices -> 0 .. MaxLevel]]
    /\ best_ \in [Sides -> 0 .. Par - 1]
    /\ open_ \in [Sides -> [open : BOOLEAN, price : 0 .. Par - 1, client_id : Nat]]
    /\ next_client_id_ \in Nat
    /\ Len(bundle) <= 4
    /\ live \subseteq [side : Sides, price : Prices, client_id : Nat]
    /\ gone \subseteq 1 .. next_client_id_ - 1

\* After any sequence of deltas of a book whose levels never go below zero, the
\* best bid is the highest price that has quantity, 0 when none has: raising it
\* and walking it down never miss one.  A feed that takes a level below zero,
\* as the benchmarks' does, is HotPath's subject.
BestExact ==
    \A s \in Sides : best_[s] = Max({0} \cup {p \in Prices : levels_[s][p] > 0})

\* The orders OrderManager believes open.
Believed ==
    {[side |-> s, price |-> open_[s].price, client_id |-> open_[s].client_id] :
        s \in {x \in Sides : open_[x].open}}

\* At every moment, also half-way through a bundle, the venue has exactly the
\* orders OrderManager believes open, less those the venue has filled, refused
\* or dropped behind its back: no order of ours is forgotten there, and a
\* cancellation or a replacement takes its belief back for the right order.
NoOrphans == live = {o \in Believed : o.client_id \notin gone}

\* Our own quotes never meet each other, also between the two halves of a
\* bundle, when one side has moved and the other has not.
NeverSelfCrossed ==
    \A m, n \in live : m.side # n.side => m.price + n.price < Par

\* The best bids of the venue's own book.
VenueBest == [s \in Sides |-> Max({0} \cup {p \in Prices : venue[s][p] > 0})]

\* Every delta is applied, every action is sent, and the orders OrderManager
\* believes open are those the venue's book calls for.
AtTarget ==
    /\ feed = <<>>
    /\ bundle = <<>>
    /\ \A s \in Sides :
          {o.price : o \in {x \in Believed : x.side = s}} =
              IF Active(VenueBest) THEN {QuotePrice(VenueBest, s)} ELSE {}

\* When the venue's book comes to rest, the orders OrderManager believes open
\* come to rest at the quotes the venue's book calls for.  By NoOrphans they are
\* at the venue, except those it has filled, refused or dropped: such an order
\* is believed open, and not placed again, until its price moves.
Converges == <>[][FALSE]_venue => <>[]AtTarget
==============================================================================
