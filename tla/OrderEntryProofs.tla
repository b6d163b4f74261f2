-------------------------- MODULE OrderEntryProofs ---------------------------
(***************************************************************************)
(* Proofs, for any number of clients, prices, quantities and orders, that  *)
(* a price-time book never holds two orders that could have traded; and,   *)
(* wherever calls and connections fail, that order entry drives the book   *)
(* by the book's own steps, that what RestClient returns is true, that     *)
(* what was bought was sold, and that nobody is overtaken.                 *)
(***************************************************************************)
EXTENDS OrderEntry, FiniteSetTheorems, TLAPS

------------------------------------------------------------------------------
(* The book                                                                 *)

\* The inductive invariant of the book, with the ids that tell orders apart.
IInv == TypeOK /\ NotCrossed /\ UniqueIds

\* Crossing is symmetric, and depends on side and price only.
LEMMA CrossesSymmetric ==
    ASSUME NEW m \in Takers, NEW n \in Takers, Crosses(m, n)
    PROVE  Crosses(n, m)
BY DEF Crosses, Takers, Sides, Prices

\* A resting order, which has something left, is an order that can be matched.
LEMMA OrdersAreTakers == Orders \subseteq Takers
BY DEF Orders, Takers

\* Accepting an order gives it an id no order in the book has.
LEMMA ArriveIInv ==
    ASSUME IInv, NEW c \in Clients, NEW s \in Sides, NEW p \in Prices,
           NEW n \in 1 .. MaxQty, Arrive(c, s, p, n)
    PROVE  IInv'
<1>. USE DEF IInv, Arrive
<1>1. taker' \in Takers
  BY BookAssumption DEF TypeOK, Takers
<1>2. TypeOK'
  BY <1>1 DEF TypeOK
<1>3. NotCrossed'
  BY DEF NotCrossed
<1>4. UniqueIds'
  <2>1. \A m \in resting : m.id < nextId /\ m.id \in Nat
    BY DEF UniqueIds, TypeOK, Orders
  <2>. QED
    BY <2>1 DEF UniqueIds, TypeOK
<1>. QED
  BY <1>2, <1>3, <1>4

\* A trade changes quantities, never sides, prices or ids, and removes orders.
LEMMA TradeIInv == ASSUME IInv, NEW m \in resting, Trade(m) PROVE IInv'
<1>. USE DEF IInv
<1>1. /\ m \in Orders
      /\ taker \in Takers
      /\ taker.qty > 0
      /\ nextId' = nextId
  BY DEF TypeOK, Trade
<1>2. CASE taker.qty < m.qty
  <2>. DEFINE r == [m EXCEPT !.qty = m.qty - taker.qty]
  <2>1. /\ taker' = [taker EXCEPT !.qty = 0]
        /\ resting' = (resting \ {m}) \cup {r}
    BY <1>1, <1>2 DEF Trade, Orders, Takers
  <2>2. r \in Orders /\ r.id = m.id /\ r.side = m.side /\ r.price = m.price
    BY <1>1, <1>2, BookAssumption DEF Orders, Takers
  <2>3. taker' \in Takers /\ taker'.id = taker.id
    BY <1>1, <2>1, BookAssumption DEF Takers
  <2>. HIDE DEF r
  <2>4. TypeOK'
    BY <1>1, <2>1, <2>2, <2>3 DEF TypeOK
  <2>5. NotCrossed'
    BY <2>1, <2>2 DEF NotCrossed, Crosses
  <2>6. UniqueIds'
    BY <1>1, <2>1, <2>2, <2>3, NoneAssumption DEF UniqueIds
  <2>. QED
    BY <2>4, <2>5, <2>6
<1>3. CASE taker.qty >= m.qty
  <2>1. /\ taker' = [taker EXCEPT !.qty = taker.qty - m.qty]
        /\ resting' = resting \ {m}
    BY <1>1, <1>3 DEF Trade, Orders, Takers
  <2>2. taker' \in Takers /\ taker'.id = taker.id
    BY <1>1, <1>3, <2>1, BookAssumption DEF Orders, Takers
  <2>3. TypeOK'
    BY <1>1, <2>1, <2>2 DEF TypeOK
  <2>4. NotCrossed' /\ UniqueIds'
    BY <1>1, <2>1, <2>2, NoneAssumption DEF NotCrossed, UniqueIds
  <2>. QED
    BY <2>3, <2>4
<1>. QED
  BY <1>1, <1>2, <1>3 DEF Orders, Takers

\* What rests crosses nothing that rests.
LEMMA RestIInv == ASSUME IInv, Rest PROVE IInv'
<1>. USE DEF IInv
<1>1. /\ taker \in Takers
      /\ taker.qty > 0
      /\ resting' = resting \cup {taker}
      /\ taker' = None
      /\ nextId' = nextId
      /\ \A m \in resting : ~ Crosses(taker, m)
  BY DEF TypeOK, Rest
<1>2. taker \in Orders
  BY <1>1 DEF Takers, Orders
<1>3. TypeOK'
  BY <1>1, <1>2 DEF TypeOK
<1>4. NotCrossed'
  <2>1. \A m \in resting : ~ Crosses(m, taker)
    BY <1>1, CrossesSymmetric, OrdersAreTakers DEF TypeOK
  <2>2. ~ Crosses(taker, taker)
    BY DEF Crosses
  <2>. QED
    BY <1>1, <2>1, <2>2 DEF NotCrossed
<1>5. UniqueIds'
  BY <1>1, NoneAssumption DEF UniqueIds
<1>. QED
  BY <1>3, <1>4, <1>5

\* Every step preserves the invariant.
LEMMA NextIInv == IInv /\ [Next]_vars => IInv'
<1>. SUFFICES ASSUME IInv, [Next]_vars PROVE IInv'
  OBVIOUS
<1>1. ASSUME NEW m \in resting, Cancel(m) PROVE IInv'
  BY <1>1 DEF IInv, Cancel, TypeOK, NotCrossed, UniqueIds
<1>2. CASE Filled
  BY <1>2 DEF IInv, Filled, TypeOK, NotCrossed, UniqueIds
<1>3. CASE Refuse \/ UNCHANGED vars
  BY <1>3 DEF IInv, Refuse, vars, TypeOK, NotCrossed, UniqueIds
<1>. QED
  BY <1>1, <1>2, <1>3, ArriveIInv, TradeIInv, RestIInv DEF Next

\* The empty book satisfies the invariant.
LEMMA InitIInv == Init => IInv
BY DEF Init, IInv, TypeOK, NotCrossed, UniqueIds

\* The inductive invariant holds in every reachable state of the book.
THEOREM Invariance == Spec => []IInv
BY InitIInv, NextIInv, PTL DEF Spec

\* The book holds orders and the arriving order is one.
THEOREM TypeCorrect == Spec => []TypeOK
<1>1. IInv => TypeOK
  BY DEF IInv
<1>. QED
  BY <1>1, Invariance, PTL

\* Matching never leaves two orders in the book that could trade.
THEOREM NeverCrossed == Spec => []NotCrossed
<1>1. IInv => NotCrossed
  BY DEF IInv
<1>. QED
  BY <1>1, Invariance, PTL

------------------------------------------------------------------------------
(* Order entry: the inductive invariant                                     *)

\* A request that passes the checks of handle_place_order.
Passes(r) == r.route = "orders" /\ Refusal(r) = 200

\* The engine matches one order at a time, of a poster who waits for its answer;
\* what it has traded and what is left of it make up what was asked for.
Serving ==
    /\ serving = {} => taker = None
    /\ \A c \in serving :
          /\ serving = {c} /\ c \in sent /\ reply[c] = NoReply /\ Passes(request[c])
          /\ taker # None
          /\ taker.id = placed[c]
          /\ taker.side = request[c].side
          /\ taker.price = request[c].price
          /\ fills + taker.qty = request[c].qty

\* A poster who has sent its request sends no other and has read no response
\* before there is one; an order was placed only for one who has sent, and
\* either is being matched or has been answered with its id and quantities.
AnsweredTo(c) ==
    /\ c \in sent => api[c] \notin {"new", "connected", "failed", "writing"}
    /\ api[c] \in {"body", "cut", "whole"} => reply[c] # NoReply
    /\ placed[c] # 0 => c \in sent /\ Passes(request[c])
    /\ placed[c] # 0 /\ c \notin serving => reply[c] # NoReply
    /\ placed[c] # 0 /\ reply[c] # NoReply => reply[c].status = 200 /\ reply[c].accepted
    /\ reply[c] # NoReply /\ reply[c].accepted =>
          /\ c \in sent
          /\ reply[c].id = placed[c]
          /\ reply[c].resting + reply[c].fills = request[c].qty
Answered == \A c \in Posters : AnsweredTo(c)

\* No two posters were given the same id, and an order in the book has the id,
\* side and price of one of them.
Traced ==
    /\ \A c \in Posters : placed[c] < nextId
    /\ \A c, d \in Posters : placed[c] = placed[d] /\ placed[c] # 0 => c = d
    /\ \A m \in resting :
          \E c \in Posters :
              /\ placed[c] = m.id
              /\ m.side = request[c].side
              /\ m.price = request[c].price
              /\ m.qty <= request[c].qty

EInv == EntryTypeOK /\ NotCrossed /\ UniqueIds /\ Serving /\ Answered /\ Traced

\* What the checks establish: side, price and quantity are those of an order.
LEMMA ChecksSuffice ==
    ASSUME NEW r \in Requests, Passes(r)
    PROVE  /\ r \in Good
           /\ r.side \in Sides
           /\ r.price \in Prices
           /\ r.qty \in 1 .. MaxQty
<1>1. r.side \in Sides /\ r.price \in Prices /\ r.qty \in 1 .. MaxQty /\ get_engine(r.ticker)
  BY DEF Passes, Refusal
<1>2. r \notin {serialize_action(a) : a \in Actions \cup Cancels}
  BY <1>1 DEF serialize_action, Sides
<1>3. r \notin Bad
  BY <1>1, BookAssumption DEF Bad, ByHand, Prices, get_engine, engines_, Passes
<1>. QED
  BY <1>1, <1>2, <1>3 DEF Requests

\* A step of order entry is a step of the book, or leaves the book alone.
LEMMA BookStep ==
    ASSUME request \in [Posters -> Requests], [EntryNext]_entryVars
    PROVE  [Next]_vars
<1>1. ASSUME NEW c \in Posters, PlaceOrder(c) PROVE Next
  <2>1. request[c] \in Requests /\ Passes(request[c])
    BY <1>1 DEF PlaceOrder, Passes
  <2>2. /\ SideOf(request[c]) \in Sides
        /\ request[c].price \in Prices
        /\ request[c].qty \in 1 .. MaxQty
    BY <2>1, ChecksSuffice DEF SideOf
  <2>. QED
    BY <1>1, <2>2, EntryAssumption DEF PlaceOrder, Next
<1>2. ASSUME NEW c \in Posters, NoRoom(c) PROVE Next
  BY <1>2 DEF NoRoom, Next
<1>3. ASSUME NEW m \in resting, MatchOrder(m) PROVE Next
  BY <1>3 DEF MatchOrder, Next
<1>4. ASSUME NEW c \in Posters, FinishOrder(c) PROVE Next
  BY <1>4 DEF FinishOrder, Next
<1>5. ASSUME NEW c \in Posters, DispatchOther(c) \/ RefuseOrder(c) \/ CloseUnanswered(c)
      PROVE  UNCHANGED vars
  BY <1>5 DEF DispatchOther, RefuseOrder, CloseUnanswered
<1>6. ASSUME NEW c \in Posters, Poster(c) PROVE UNCHANGED vars
  BY <1>6 DEF Poster, connect, post, send_request_, ReadFails, ReadHeader, EndInHeader, EndOfBody, Returns
<1>7. CASE UNCHANGED entryVars
  BY <1>7 DEF entryVars, vars
<1>. QED
  BY <1>1, <1>2, <1>3, <1>4, <1>5, <1>6, <1>7 DEF EntryNext, Server

------------------------------------------------------------------------------
(* Every step preserves it                                                  *)

\* A poster whose own state stays the same has been answered as before.
LEMMA AnsweredSame ==
    ASSUME NEW d, AnsweredTo(d), d \in sent' <=> d \in sent, d \in serving' <=> d \in serving,
           api'[d] = api[d], request'[d] = request[d], placed'[d] = placed[d], reply'[d] = reply[d]
    PROVE  AnsweredTo(d)'
BY SMT DEF AnsweredTo

\* A response goes to one poster and ends its wait.
LEMMA WriteResponse ==
    ASSUME EntryTypeOK, NEW c \in Posters, NEW w \in Replies, reply' = [reply EXCEPT ![c] = w]
    PROVE  /\ reply' \in [Posters -> Replies \cup {NoReply}]
           /\ \A d \in Posters \ {c} : reply'[d] = reply[d]
           /\ reply'[c] = w
           /\ reply'[c] # NoReply
BY Zenon, EntryAssumption DEF EntryTypeOK

\* What a poster does leaves the server's state as it is.
LEMMA PosterInv ==
    ASSUME EInv, NEW c \in Posters, Poster(c)
    PROVE  EInv'
<1>. USE DEF EInv, EntryTypeOK
<1>1. ASSUME NEW what, Returns(c, what),
             what \in {"connected", "failed", "body", "empty", "undefined", "cut", "whole"},
             what \in {"connected", "failed"} => api[c] = "new",
             what \in {"body", "cut", "whole"} => reply[c] # NoReply
      PROVE  EInv'
  <2>1. UNCHANGED <<resting, taker, nextId, request, sent, reply, serving, fills, placed>>
    BY <1>1 DEF Returns, vars
  <2>2. api' = [api EXCEPT ![c] = what]
    BY <1>1 DEF Returns
  <2>3. EntryTypeOK'
    BY Zenon, <1>1, <2>1, <2>2 DEF TypeOK
  <2>4. Answered'
    BY <1>1, <2>1, <2>2 DEF Answered, AnsweredTo
  <2>5. NotCrossed' /\ UniqueIds' /\ Serving' /\ Traced'
    BY <2>1 DEF NotCrossed, UniqueIds, Serving, Traced, Crosses
  <2>. QED
    BY <2>3, <2>4, <2>5
<1>2. CASE connect(c)
  <2>1. api[c] = "new" /\ (Returns(c, "connected") \/ Returns(c, "failed"))
    BY Zenon, <1>2 DEF connect
  <2>. QED
    BY <1>1, <2>1
<1>3. ASSUME NEW r \in Requests, post(c, r) PROVE EInv'
  <2>1. /\ UNCHANGED <<resting, taker, nextId, sent, reply, serving, fills, placed>>
        /\ api[c] = "connected"
        /\ api' = [api EXCEPT ![c] = "writing"]
        /\ request' = [request EXCEPT ![c] = r]
    BY <1>3 DEF post, vars
  <2>2. EntryTypeOK'
    BY Zenon, <2>1 DEF TypeOK
  <2>3. c \notin sent /\ c \notin serving /\ placed[c] = 0
    BY <2>1 DEF Answered, AnsweredTo, Serving
  <2>4. \A d \in Posters \ {c} : request'[d] = request[d] /\ api'[d] = api[d]
    BY <2>1
  <2>5. Answered'
    BY <2>1, <2>3, <2>4 DEF Answered, AnsweredTo
  <2>6. Serving'
    BY <2>1, <2>3, <2>4 DEF Serving
  <2>7. Traced'
    <3>1. ASSUME NEW m \in resting
          PROVE  \E d \in Posters :
                    /\ placed[d] = m.id
                    /\ m.side = request'[d].side
                    /\ m.price = request'[d].price
                    /\ m.qty <= request'[d].qty
      BY <2>3, <2>4 DEF Traced, TypeOK, Orders
    <3>. QED
      BY <2>1, <3>1 DEF Traced
  <2>8. NotCrossed' /\ UniqueIds'
    BY <2>1 DEF NotCrossed, UniqueIds, Crosses
  <2>. QED
    BY <2>2, <2>5, <2>6, <2>7, <2>8
<1>4. CASE send_request_(c)
  <2>1. UNCHANGED <<resting, taker, nextId, request, reply, serving, fills, placed>>
    BY <1>4 DEF send_request_, vars
  <2>2. /\ api[c] = "writing"
        /\ api' \in {[api EXCEPT ![c] = "header"], [api EXCEPT ![c] = "empty"]}
        /\ sent' \in {sent, sent \cup {c}}
    BY <1>4 DEF send_request_
  <2>3. EntryTypeOK'
    BY <2>1, <2>2 DEF TypeOK
  <2>4. Answered'
    BY <2>1, <2>2 DEF Answered, AnsweredTo
  <2>5. NotCrossed' /\ UniqueIds' /\ Serving' /\ Traced'
    BY <2>1, <2>2 DEF NotCrossed, UniqueIds, Serving, Traced, Crosses
  <2>. QED
    BY <2>3, <2>4, <2>5
<1>5. CASE ReadFails(c)
  BY <1>1, <1>5 DEF ReadFails
<1>6. CASE ReadHeader(c)
  BY <1>1, <1>6 DEF ReadHeader
<1>7. CASE EndInHeader(c)
  BY Zenon, <1>1, <1>7 DEF EndInHeader
<1>8. CASE EndOfBody(c)
  BY <1>1, <1>8 DEF EndOfBody, Answered, AnsweredTo
<1>9. ASSUME NEW r \in IF c \in Faulty THEN Requests ELSE Offers, post(c, r) PROVE EInv'
  <2>1. r \in Requests
    BY Zenon, OffersAssumption DEF Requests
  <2>. QED
    BY Zenon, <1>3, <1>9, <2>1
<1>. QED
  BY Zenon, <1>2, <1>4, <1>5, <1>6, <1>7, <1>8, <1>9 DEF Poster

\* A response that carries no order leaves the book and the orders alone.
LEMMA AnswerInv ==
    ASSUME EInv, NEW c \in Posters, reply[c] = NoReply, c \notin serving,
           reply' \in [Posters -> Replies \cup {NoReply}],
           \A d \in Posters \ {c} : reply'[d] = reply[d],
           reply'[c] # NoReply, reply'[c].accepted = FALSE,
           UNCHANGED <<resting, taker, nextId, api, request, sent, serving, fills, placed>>
    PROVE  EInv'
<1>1. EntryTypeOK'
  BY Zenon DEF EInv, EntryTypeOK, TypeOK
<1>2. NotCrossed' /\ UniqueIds' /\ Traced'
  BY DEF EInv, NotCrossed, UniqueIds, Traced, Crosses
<1>3. Serving'
  BY SMTT(30) DEF EInv, EntryTypeOK, Serving
<1>4. placed[c] = 0
  BY Zenon DEF EInv, Answered, AnsweredTo
<1>5. Answered'
  BY <1>4 DEF EInv, Answered, AnsweredTo
<1>. QED
  BY <1>1, <1>2, <1>3, <1>5 DEF EInv

\* place_limit accepts an order: it is given an id nobody has.
LEMMA PlaceInv ==
    ASSUME EInv, NEW c \in Posters, PlaceOrder(c)
    PROVE  EInv'
<1>. DEFINE r == request[c]
<1>1. /\ serving = {} /\ c \in sent /\ reply[c] = NoReply
      /\ Passes(r)
      /\ taker' = [id |-> nextId, client |-> client_id, side |-> r.side, price |-> r.price, qty |-> r.qty]
      /\ nextId' = nextId + 1
      /\ serving' = {c} /\ fills' = 0
      /\ placed' = [placed EXCEPT ![c] = nextId]
      /\ UNCHANGED <<resting, api, request, sent, reply>>
  BY DEF PlaceOrder, Waiting, Arrive, Passes, SideOf
<1>2. r \in Requests /\ r.side \in Sides /\ r.price \in Prices /\ r.qty \in 1 .. MaxQty
  BY <1>1, ChecksSuffice DEF EInv, EntryTypeOK
<1>3. IInv'
  <2>1. [Next]_vars
    BY BookStep DEF EInv, EntryTypeOK, EntryNext, Server
  <2>. QED
    BY <2>1, NextIInv DEF IInv, EInv, EntryTypeOK
<1>4. nextId \in Nat \ {0} /\ placed \in [Posters -> Nat]
  BY DEF EInv, EntryTypeOK, TypeOK
<1>5. EntryTypeOK'
  BY SMTT(30), <1>1, <1>3, <1>4, BookAssumption DEF EInv, EntryTypeOK, IInv
<1>6. taker' # None
  <2>1. client_id \in Clients /\ r.qty \in 0 .. MaxQty
    BY <1>2, EntryAssumption
  <2>. HIDE DEF r
  <2>2. taker' \in Takers
    BY <1>1, <1>2, <1>4, <2>1 DEF Takers
  <2>. QED
    BY Zenon, <2>2, NoneAssumption
<1>7. Serving'
  BY SMTT(30), <1>1, <1>2, <1>4, <1>6 DEF Serving
<1>8. Answered'
  <2>1. \A d \in Posters \ {c} : placed'[d] = placed[d]
    BY <1>1, <1>4
  <2>2. reply[c] = NoReply /\ placed'[c] # 0
    BY Zenon, <1>1, <1>4
  <2>. QED
    <3>1. ASSUME NEW d \in Posters \ {c} PROVE AnsweredTo(d)'
      <4>1. AnsweredTo(d) /\ d \notin serving /\ d \notin serving' /\ placed'[d] = placed[d]
        BY Zenon, <1>1, <2>1 DEF EInv, Answered
      <4>2. api' = api /\ request' = request /\ sent' = sent /\ reply' = reply
        BY Zenon, <1>1
      <4>. QED
        BY Zenon, <4>1, <4>2, AnsweredSame
    <3>2. AnsweredTo(c)'
      BY Zenon, <1>1, <2>2 DEF EInv, Answered, AnsweredTo
    <3>. QED
      BY Zenon, <3>1, <3>2 DEF Answered
<1>9. Traced'
  <2>1. \A d \in Posters : placed[d] < nextId
    BY DEF EInv, Traced
  <2>2. \A m \in resting : m.id < nextId /\ m.id # 0
    BY Zenon DEF EInv, EntryTypeOK, TypeOK, UniqueIds, Orders
  <2>3. \A d \in Posters : placed'[d] < nextId'
    <3>1. \A d \in Posters : placed'[d] = IF d = c THEN nextId ELSE placed[d]
      BY Zenon, <1>1, <1>4
    <3>2. \A d \in Posters : placed[d] < nextId + 1
      BY <1>4, <2>1
    <3>3. nextId < nextId + 1
      BY <1>4
    <3>. QED
      BY Zenon, <1>1, <3>1, <3>2, <3>3
  <2>4. \A d, e \in Posters : placed'[d] = placed'[e] /\ placed'[d] # 0 => d = e
    <3>1. \A d \in Posters : placed'[d] = IF d = c THEN nextId ELSE placed[d]
      BY Zenon, <1>1, <1>4
    <3>2. \A d \in Posters : placed[d] # nextId
      BY <1>4, <2>1
    <3>. QED
      BY Zenon, <3>1, <3>2 DEF EInv, Traced
  <2>5. placed[c] = 0
    BY Zenon, <1>1 DEF EInv, Answered, AnsweredTo
  <2>6. ASSUME NEW m \in resting
        PROVE  \E d \in Posters :
                  /\ placed'[d] = m.id
                  /\ m.side = request[d].side
                  /\ m.price = request[d].price
                  /\ m.qty <= request[d].qty
    <3>1. PICK d \in Posters : placed[d] = m.id /\ m.side = request[d].side
                                 /\ m.price = request[d].price /\ m.qty <= request[d].qty
      BY DEF EInv, Traced
    <3>2. d # c
      BY <2>2, <2>5, <3>1
    <3>. QED
      BY <1>1, <1>4, <3>1, <3>2
  <2>. QED
    BY <1>1, <2>3, <2>4, <2>6 DEF Traced
<1>. QED
  BY <1>3, <1>5, <1>7, <1>8, <1>9 DEF EInv, IInv

\* A trade moves contracts from what is left of the order to what it has traded,
\* and takes some from one order in the book.
LEMMA MatchInv ==
    ASSUME EInv, NEW m \in resting, MatchOrder(m)
    PROVE  EInv'
<1>1. /\ Trade(m) /\ taker # None
      /\ fills' = fills + taker.qty - taker'.qty
      /\ UNCHANGED <<nextId, api, request, sent, reply, serving, placed>>
  BY DEF MatchOrder, Trade
<1>2. IInv'
  <2>1. [Next]_vars
    BY BookStep DEF EInv, EntryTypeOK, EntryNext, Server
  <2>. QED
    BY <2>1, NextIInv DEF IInv, EInv, EntryTypeOK
<1>3. taker \in Takers /\ m \in Orders /\ fills \in Nat
  BY SMTT(30), <1>1 DEF EInv, EntryTypeOK, TypeOK
<1>4. PICK c \in serving : TRUE
  BY Zenon, <1>1 DEF EInv, Serving
<1>5. c \in Posters /\ serving = {c} /\ Passes(request[c]) /\ fills + taker.qty = request[c].qty
  BY <1>4 DEF EInv, EntryTypeOK, Serving
<1>6. request[c].qty \in 1 .. MaxQty
  BY <1>5, ChecksSuffice DEF EInv, EntryTypeOK
<1>7. PICK q \in 0 .. taker.qty : taker' = [taker EXCEPT !.qty = q]
  <2>1. CASE taker.qty < m.qty
    BY <1>1, <1>3, <2>1 DEF Trade, Takers, Orders
  <2>2. CASE taker.qty >= m.qty
    <3>1. taker.qty - m.qty \in 0 .. taker.qty
      BY <1>3, <2>2 DEF Takers, Orders
    <3>. QED
      BY <1>1, <1>3, <2>2, <3>1 DEF Trade, Takers, Orders
  <2>. QED
    BY <1>3, <2>1, <2>2 DEF Takers, Orders
<1>8. /\ taker' \in Takers /\ taker'.qty = q /\ taker'.id = taker.id
      /\ taker'.side = taker.side /\ taker'.price = taker.price
  <2>1. q \in 0 .. MaxQty
    BY <1>3, <1>7, BookAssumption DEF Takers
  <2>. QED
    BY <1>3, <1>7, <2>1 DEF Takers
<1>9. taker.qty \in Nat /\ request[c].qty \in Nat /\ q \in Nat /\ fills' = fills + taker.qty - q
  BY <1>1, <1>3, <1>6, <1>7, <1>8 DEF Takers
<1>10. fills' \in 0 .. MaxQty /\ fills' + taker'.qty = request[c].qty
  BY <1>3, <1>5, <1>6, <1>7, <1>8, <1>9, BookAssumption
<1>11. EntryTypeOK'
  BY Zenon, <1>1, <1>2, <1>10 DEF EInv, EntryTypeOK, IInv
<1>12. Serving'
  <2>1. taker' # None
    BY Zenon, <1>8, NoneAssumption
  <2>. QED
    BY <1>1, <1>5, <1>8, <1>10, <2>1 DEF EInv, Serving
<1>13. Answered'
  BY SMTT(30), <1>1 DEF EInv, Answered, AnsweredTo
<1>14. Traced'
  <2>1. ASSUME NEW n \in resting'
        PROVE  \E o \in resting : o.id = n.id /\ o.side = n.side /\ o.price = n.price /\ n.qty <= o.qty
    <3>1. CASE n \in resting
      BY <3>1 DEF EInv, EntryTypeOK, TypeOK, Orders
    <3>2. CASE n \notin resting
      <4>1. n = [m EXCEPT !.qty = m.qty - taker.qty]
        BY <1>1, <3>2 DEF Trade
      <4>. QED
        BY <1>3, <4>1 DEF Orders, Takers
    <3>. QED
      BY <3>1, <3>2
  <2>2. ASSUME NEW n \in resting'
        PROVE  \E d \in Posters :
                  /\ placed[d] = n.id
                  /\ n.side = request[d].side
                  /\ n.price = request[d].price
                  /\ n.qty <= request[d].qty
    <3>1. PICK o \in resting : o.id = n.id /\ o.side = n.side /\ o.price = n.price /\ n.qty <= o.qty
      BY <2>1
    <3>2. PICK d \in Posters : placed[d] = o.id /\ o.side = request[d].side
                                 /\ o.price = request[d].price /\ o.qty <= request[d].qty
      BY DEF EInv, Traced
    <3>3. n.qty \in Int /\ o.qty \in Int
      BY SMTT(30), <1>2 DEF EInv, EntryTypeOK, IInv, TypeOK, Orders
    <3>4. request[d].qty \in Int
      <4>1. placed[d] # 0
        BY <3>2 DEF EInv, EntryTypeOK, TypeOK, Orders
      <4>. QED
        BY <4>1, ChecksSuffice DEF EInv, EntryTypeOK, Answered, AnsweredTo
    <3>. QED
      BY SMTT(30), <3>1, <3>2, <3>3, <3>4
  <2>. QED
    BY <1>1, <2>2 DEF EInv, Traced
<1>. QED
  BY <1>2, <1>11, <1>12, <1>13, <1>14 DEF EInv, IInv

\* What is left of the order rests, and the poster is told so.
LEMMA FinishInv ==
    ASSUME EInv, NEW c \in Posters, FinishOrder(c)
    PROVE  EInv'
<1>1. /\ c \in serving /\ taker # None /\ taker' = None
      /\ write_response_(c, PlaceResult(c))
      /\ serving' = {} /\ fills' = 0
      /\ resting' = resting \/ (resting' = resting \cup {taker})
      /\ UNCHANGED <<nextId, api, request, sent, placed>>
  BY DEF FinishOrder, Rest, Filled
<1>2. IInv'
  <2>1. [Next]_vars
    BY BookStep DEF EInv, EntryTypeOK, EntryNext, Server
  <2>. QED
    BY <2>1, NextIInv DEF IInv, EInv, EntryTypeOK
<1>3. taker \in Takers /\ fills \in Nat
  BY SMTT(30), <1>1 DEF EInv, EntryTypeOK, TypeOK
<1>4. /\ serving = {c} /\ c \in sent /\ reply[c] = NoReply /\ Passes(request[c])
      /\ taker.id = placed[c] /\ fills + taker.qty = request[c].qty
      /\ taker.side = request[c].side /\ taker.price = request[c].price
  BY Zenon, <1>1 DEF EInv, Serving
<1>5. /\ reply' \in [Posters -> Replies \cup {NoReply}]
      /\ \A d \in Posters \ {c} : reply'[d] = reply[d]
      /\ reply'[c] # NoReply
      /\ reply'[c].status = 200
      /\ reply'[c].id = taker.id
      /\ reply'[c].accepted = TRUE
      /\ reply'[c].resting = taker.qty
      /\ reply'[c].fills = fills
  <2>1. PICK n \in 0 .. 3 :
          reply' = [reply EXCEPT ![c] = [status |-> 200, id |-> taker.id, accepted |-> TRUE,
                                         resting |-> taker.qty, fills |-> fills, written |-> n]]
    <3>. DEFINE r == PlaceResult(c)
    <3>1. PICK n \in IF c \in Faulty THEN 0 .. 3 ELSE {3} :
            reply' = [reply EXCEPT ![c] = [status |-> r.status, id |-> r.id, accepted |-> r.accepted,
                                           resting |-> r.resting, fills |-> r.fills, written |-> n]]
      BY Zenon, <1>1 DEF write_response_
    <3>2. n \in 0 .. 3
      OBVIOUS
    <3>3. r.status = 200 /\ r.id = taker.id /\ r.accepted = TRUE /\ r.resting = taker.qty /\ r.fills = fills
      BY DEF PlaceResult
    <3>. HIDE DEF r
    <3>4. reply' = [reply EXCEPT ![c] = [status |-> 200, id |-> taker.id, accepted |-> TRUE,
                                         resting |-> taker.qty, fills |-> fills, written |-> n]]
      BY <3>1, <3>3, Zenon
    <3>. QED
      BY <3>2, <3>4, Zenon
  <2>. DEFINE w == [status |-> 200, id |-> taker.id, accepted |-> TRUE,
                    resting |-> taker.qty, fills |-> fills, written |-> n]
  <2>2. taker.id \in Nat /\ taker.qty \in Nat
    BY <1>3 DEF Takers
  <2>3. w \in Replies
    BY <1>3, <2>2 DEF Replies
  <2>4. /\ w.status = 200 /\ w.id = taker.id /\ w.accepted = TRUE
        /\ w.resting = taker.qty /\ w.fills = fills
    OBVIOUS
  <2>5. reply' = [reply EXCEPT ![c] = w] /\ EntryTypeOK
    BY Zenon, <2>1 DEF EInv
  <2>. HIDE DEF w
  <2>6. /\ reply' \in [Posters -> Replies \cup {NoReply}]
        /\ \A d \in Posters \ {c} : reply'[d] = reply[d]
        /\ reply'[c] = w
        /\ reply'[c] # NoReply
    BY Zenon, <2>3, <2>5, WriteResponse
  <2>. QED
    BY Zenon, <2>4, <2>6
<1>6. EntryTypeOK'
  <2>1. fills' \in 0 .. MaxQty
    BY <1>1, BookAssumption
  <2>2. TypeOK' /\ serving' \subseteq Posters
    BY Zenon, <1>1, <1>2 DEF IInv
  <2>. QED
    BY Zenon, <1>1, <1>5, <2>1, <2>2 DEF EInv, EntryTypeOK
<1>7. Serving'
  BY Zenon, <1>1 DEF Serving
<1>8. Answered'
  <2>1. taker.qty + fills = request[c].qty
    BY SMTT(30), <1>3, <1>4 DEF Takers
  <2>2. reply'[c].resting + reply'[c].fills = request[c].qty
    BY Zenon, <1>5, <2>1
  <2>. QED
    <3>1. ASSUME NEW d \in Posters \ {c} PROVE AnsweredTo(d)'
      <4>1. AnsweredTo(d) /\ d \notin serving /\ d \notin serving' /\ reply'[d] = reply[d]
        BY Zenon, <1>1, <1>4, <1>5 DEF EInv, Answered
      <4>2. api' = api /\ request' = request /\ sent' = sent /\ placed' = placed
        BY Zenon, <1>1
      <4>. QED
        BY Zenon, <4>1, <4>2, AnsweredSame
    <3>2. AnsweredTo(c)'
      BY Zenon, <1>1, <1>4, <1>5, <2>2 DEF EInv, Answered, AnsweredTo
    <3>. QED
      BY Zenon, <3>1, <3>2 DEF Answered
<1>9. Traced'
  <2>1. taker.qty <= request[c].qty
    BY <1>3, <1>4, ChecksSuffice DEF Takers, EInv, EntryTypeOK
  <2>. QED
    BY Zenon, <1>1, <1>4, <2>1 DEF EInv, Traced
<1>. QED
  BY <1>2, <1>6, <1>7, <1>8, <1>9 DEF EInv, IInv

LEMMA EntryNextInv == EInv /\ [EntryNext]_entryVars => EInv'
<1>. SUFFICES ASSUME EInv, [EntryNext]_entryVars PROVE EInv'
  OBVIOUS
<1>1. ASSUME NEW c \in Posters, NEW status \in {200, 400, 404}, write_response_(c, Answer(status)),
             Waiting(c), UNCHANGED <<resting, taker, nextId, api, request, sent, serving, fills, placed>>
      PROVE  EInv'
  <2>1. PICK n \in 0 .. 3 :
          reply' = [reply EXCEPT ![c] = [status |-> status, id |-> 0, accepted |-> FALSE,
                                         resting |-> 0, fills |-> 0, written |-> n]]
    <3>. DEFINE r == Answer(status)
    <3>1. PICK n \in IF c \in Faulty THEN 0 .. 3 ELSE {3} :
            reply' = [reply EXCEPT ![c] = [status |-> r.status, id |-> r.id, accepted |-> r.accepted,
                                           resting |-> r.resting, fills |-> r.fills, written |-> n]]
      BY Zenon, <1>1 DEF write_response_
    <3>2. n \in 0 .. 3
      OBVIOUS
    <3>3. r.status = status /\ r.id = 0 /\ r.accepted = FALSE /\ r.resting = 0 /\ r.fills = 0
      BY DEF Answer
    <3>. HIDE DEF r
    <3>. QED
      BY Zenon, <3>1, <3>2, <3>3
  <2>. DEFINE w == [status |-> status, id |-> 0, accepted |-> FALSE,
                    resting |-> 0, fills |-> 0, written |-> n]
  <2>2. w \in Replies /\ w.accepted = FALSE
    BY <1>1 DEF Replies
  <2>3. reply' = [reply EXCEPT ![c] = w] /\ EntryTypeOK
    BY SMTT(30), <2>1 DEF EInv
  <2>. HIDE DEF w
  <2>4. /\ reply' \in [Posters -> Replies \cup {NoReply}]
        /\ \A d \in Posters \ {c} : reply'[d] = reply[d]
        /\ reply'[c] # NoReply
        /\ reply'[c].accepted = FALSE
    <3>1. /\ reply' \in [Posters -> Replies \cup {NoReply}]
          /\ \A d \in Posters \ {c} : reply'[d] = reply[d]
          /\ reply'[c] = w
          /\ reply'[c] # NoReply
      <4>1. PICK v \in Replies : v = w
        BY Zenon, <2>2
      <4>2. reply' = [reply EXCEPT ![c] = v]
        BY Zenon, <2>3, <4>1
      <4>3. /\ reply' \in [Posters -> Replies \cup {NoReply}]
            /\ \A d \in Posters \ {c} : reply'[d] = reply[d]
            /\ reply'[c] = v
            /\ reply'[c] # NoReply
        <5>1. reply \in [Posters -> Replies \cup {NoReply}]
          BY Zenon, <2>3 DEF EntryTypeOK
        <5>2. v # NoReply
          BY Zenon, EntryAssumption
        <5>. QED
          BY SMT, <4>2, <5>1, <5>2
      <4>. QED
        BY Zenon, <4>1, <4>3
    <3>. QED
      BY <2>2, <3>1
  <2>5. reply[c] = NoReply /\ c \notin serving
    BY Zenon, <1>1 DEF Waiting
  <2>6. UNCHANGED <<resting, taker, nextId, api, request, sent, serving, fills, placed>>
    BY Zenon, <1>1
  <2>. QED
    BY Zenon, <2>4, <2>5, <2>6, AnswerInv
<1>2. ASSUME NEW c \in Posters, DispatchOther(c) PROVE EInv'
  BY SMTT(30), <1>1, <1>2 DEF DispatchOther, vars
<1>3. ASSUME NEW c \in Posters, RefuseOrder(c) PROVE EInv'
  BY <1>1, <1>3 DEF RefuseOrder, Refusal, vars
<1>4. ASSUME NEW c \in Posters, NoRoom(c) PROVE EInv'
  BY <1>1, <1>4 DEF NoRoom, Refuse, vars
<1>5. ASSUME NEW c \in Posters, CloseUnanswered(c) PROVE EInv'
  <2>. DEFINE w == [status |-> 0, id |-> 0, accepted |-> FALSE, resting |-> 0, fills |-> 0, written |-> 0]
  <2>1. w \in Replies /\ w.accepted = FALSE
    BY DEF Replies
  <2>2. /\ reply' = [reply EXCEPT ![c] = w] /\ reply[c] = NoReply /\ serving = {}
        /\ UNCHANGED <<resting, taker, nextId, api, request, sent, serving, fills, placed>>
    BY Zenon, <1>5 DEF CloseUnanswered, vars
  <2>. HIDE DEF w
  <2>3. /\ reply' \in [Posters -> Replies \cup {NoReply}]
        /\ \A d \in Posters \ {c} : reply'[d] = reply[d]
        /\ reply'[c] # NoReply /\ reply'[c].accepted = FALSE
    BY Zenon, <2>1, <2>2, WriteResponse DEF EInv
  <2>. QED
    BY Zenon, <2>2, <2>3, AnswerInv
<1>6. CASE UNCHANGED entryVars
  <2>1. EntryTypeOK'
    BY Zenon, <1>6 DEF entryVars, EInv, EntryTypeOK, TypeOK
  <2>2. NotCrossed' /\ UniqueIds'
    BY Zenon, <1>6 DEF entryVars, EInv, NotCrossed, UniqueIds, Crosses
  <2>3. Serving'
    BY Zenon, <1>6 DEF entryVars, EInv, Serving
  <2>4. Answered'
    <3>1. /\ api' = api /\ request' = request /\ sent' = sent
          /\ placed' = placed /\ reply' = reply /\ serving' = serving
      BY Zenon, <1>6 DEF entryVars
    <3>2. ASSUME NEW c \in Posters PROVE AnsweredTo(c)'
      <4>1. AnsweredTo(c)
        BY Zenon DEF EInv, Answered
      <4>. QED
        BY Zenon, <3>1, <4>1, AnsweredSame
    <3>. QED
      BY Zenon, <3>2 DEF Answered
  <2>5. Traced'
    BY Zenon, <1>6 DEF entryVars, EInv, Traced
  <2>. QED
    BY Zenon, <2>1, <2>2, <2>3, <2>4, <2>5 DEF EInv
<1>. QED
  BY <1>2, <1>3, <1>4, <1>5, <1>6, PlaceInv, MatchInv, FinishInv, PosterInv DEF EntryNext, Server

LEMMA EntryInitInv == EntryInit => EInv
<1>. SUFFICES ASSUME EntryInit PROVE EInv
  OBVIOUS
<1>1. IInv
  BY InitIInv DEF EntryInit
<1>2. ByHand([side |-> "YES", price |-> 1, qty |-> 1]) \in Requests
  <2>1. [kind |-> "PLACE", side |-> "YES", price |-> 1, qty |-> 1] \in Actions
    BY BookAssumption DEF Actions, Sides, Prices
  <2>2. PICK a \in Actions : a.side = "YES" /\ a.price = 1 /\ a.qty = 1
    BY <2>1
  <2>3. ByHand(a) \in Requests
    BY Zenon DEF Requests, Good
  <2>4. ByHand([side |-> "YES", price |-> 1, qty |-> 1]) = ByHand(a)
    BY Zenon, <2>2 DEF ByHand
  <2>. QED
    BY Zenon, <2>3, <2>4
<1>3. EntryTypeOK
  <2>1. TypeOK
    BY <1>1 DEF IInv
  <2>2. request \in [Posters -> Requests]
    BY <1>2 DEF EntryInit
  <2>3. fills \in 0 .. MaxQty /\ placed \in [Posters -> Nat]
    BY BookAssumption DEF EntryInit
  <2>4. /\ api \in [Posters -> {"new", "connected", "failed", "writing", "header", "body",
                               "empty", "undefined", "cut", "whole"}]
        /\ reply \in [Posters -> Replies \cup {NoReply}]
    BY DEF EntryInit
  <2>5. sent \subseteq Posters /\ serving \subseteq Posters
    BY Zenon DEF EntryInit
  <2>. QED
    BY <2>1, <2>2, <2>3, <2>4, <2>5 DEF EntryTypeOK
<1>4. Serving /\ Answered /\ Traced
  <2>1. Serving
    BY Zenon DEF EntryInit, Init, Serving
  <2>2. \A c \in Posters : placed[c] = 0 /\ reply[c] = NoReply /\ api[c] = "new"
    BY Zenon DEF EntryInit
  <2>3. sent = {} /\ nextId = 1 /\ resting = {}
    BY Zenon DEF EntryInit, Init
  <2>4. Answered
    BY Zenon, <2>2, <2>3 DEF Answered, AnsweredTo
  <2>5. Traced
    BY <2>2, <2>3 DEF Traced
  <2>. QED
    BY Zenon, <2>1, <2>4, <2>5
<1>. QED
  BY <1>1, <1>3, <1>4 DEF EInv, IInv

------------------------------------------------------------------------------
(* Theorems                                                                 *)

\* The invariant holds in every state order entry reaches.
THEOREM EntryInvariance == EntrySpec => []EInv
BY EntryInitInv, EntryNextInv, PTL DEF EntrySpec

\* Whatever is posted and whatever fails, handle_place_order drives the engine
\* only by steps the book allows: order entry implements the book.
THEOREM EntryRefinesBook == EntrySpec => Spec
<1>1. EntryInit => Init
  BY DEF EntryInit
<1>2. EInv /\ [EntryNext]_entryVars => [Next]_vars
  BY BookStep DEF EInv, EntryTypeOK
<1>. QED
  BY <1>1, <1>2, EntryInvariance, PTL DEF EntrySpec, Spec

\* No request brings an order out of range into the book.
THEOREM EntryTypeCorrect == EntrySpec => []EntryTypeOK
<1>1. EInv => EntryTypeOK
  BY Zenon DEF EInv
<1>. QED
  BY <1>1, EntryInvariance, PTL

\* A poster may rely on what RestClient returns: a refusal, or a request that
\* could not be sent, placed nothing, and an acceptance accounts for the order.
THEOREM EntryTruthful == EntrySpec => []ResponseTruthful
<1>1. ASSUME EInv PROVE ResponseTruthful
  <2>1. ASSUME NEW c \in Posters, api[c] \in {"cut", "whole"}, reply[c].status # 200
        PROVE  placed[c] = 0
    BY Zenon, <1>1, <2>1 DEF EInv, Answered, AnsweredTo
  <2>2. ASSUME NEW c \in Posters, c \notin sent PROVE placed[c] = 0
    BY Zenon, <1>1, <2>2 DEF EInv, Answered, AnsweredTo
  <2>3. ASSUME NEW c \in Posters, api[c] = "whole"
        PROVE  IF reply[c].accepted
               THEN reply[c].id = placed[c] /\ reply[c].resting + reply[c].fills = request[c].qty
               ELSE placed[c] = 0
    BY Zenon, <1>1, <2>3 DEF EInv, Answered, AnsweredTo
  <2>. QED
    BY Zenon, <2>1, <2>2, <2>3 DEF ResponseTruthful
<1>. QED
  BY <1>1, EntryInvariance, PTL

\* Every order in the book is the order one poster asked for.
THEOREM EntryTraced == EntrySpec => []OrdersTraced
<1>1. ASSUME EInv PROVE OrdersTraced
  <2>1. SUFFICES ASSUME NEW m \in resting
                 PROVE  \E c \in Posters :
                           /\ placed[c] = m.id
                           /\ request[c] \in Good
                           /\ m.side = request[c].side
                           /\ m.price = request[c].price
                           /\ m.qty <= request[c].qty
                           /\ \A d \in Posters \ {c} : placed[d] # m.id
    BY DEF OrdersTraced
  <2>2. PICK c \in Posters : placed[c] = m.id /\ m.side = request[c].side
                               /\ m.price = request[c].price /\ m.qty <= request[c].qty
    BY <1>1 DEF EInv, Traced
  <2>3. placed[c] # 0
    BY <1>1, <2>2 DEF EInv, EntryTypeOK, TypeOK, Orders
  <2>4. \A d \in Posters \ {c} : placed[d] # m.id
    BY Zenon, <1>1, <2>2, <2>3 DEF EInv, Traced
  <2>5. request[c] \in Good
    BY <1>1, <2>3, ChecksSuffice DEF EInv, EntryTypeOK, Answered, AnsweredTo
  <2>. QED
    BY <2>2, <2>4, <2>5
<1>. QED
  BY <1>1, EntryInvariance, PTL

------------------------------------------------------------------------------
(* What was bought was sold                                                 *)

\* The contracts of those in O, of which x has q[x].
Of(O, q) == {e \in O \X (1 .. MaxQty) : e[2] <= q[e[1]]}

\* The posters with an order of a side, and the open orders of a side.
Buyers(s) == {c \in Posters : placed[c] # 0 /\ request[c].side = s}
Wanted == [c \in Posters |-> request[c].qty]
Open(s) == {o \in (resting \cup {taker}) \ {None} : o.side = s}
Qty == [o \in Takers |-> o.qty]

\* One more has its contracts more.
LEMMA OneMore ==
    ASSUME NEW O, IsFiniteSet(O), NEW x, x \notin O, NEW q, q[x] \in 0 .. MaxQty
    PROVE  /\ Cardinality(Of(O, q)) \in Nat
           /\ Cardinality(Of(O \cup {x}, q)) = Cardinality(Of(O, q)) + q[x]
<1>1. PICK n \in Nat : n = q[x] /\ n <= MaxQty
  BY BookAssumption
<1>2. PICK A, B : A = Of(O, q) /\ B = {x} \X (1 .. n)
  OBVIOUS
<1>3. IsFiniteSet(A)
  <2>1. IsFiniteSet(1 .. MaxQty)
    BY BookAssumption, FS_Interval
  <2>2. IsFiniteSet(O \X (1 .. MaxQty))
    BY Zenon, <2>1, FS_Product
  <2>3. A \in SUBSET (O \X (1 .. MaxQty))
    BY <1>2 DEF Of
  <2>. QED
    BY Zenon, <2>2, <2>3, FS_Subset
<1>4. IsFiniteSet(B) /\ Cardinality(B) = n
  <2>1. IsFiniteSet(1 .. n) /\ Cardinality(1 .. n) = n
    <3>1. n \in Int /\ 1 \in Int /\ (IF 1 > n THEN 0 ELSE n - 1 + 1) = n
      OBVIOUS
    <3>2. IsFiniteSet(1 .. n) /\ Cardinality(1 .. n) = IF 1 > n THEN 0 ELSE n - 1 + 1
      BY Zenon, <3>1, FS_Interval
    <3>. QED
      BY SMT, <3>1, <3>2
  <2>2. PICK X, I : X = {x} /\ I = 1 .. n
    OBVIOUS
  <2>3. IsFiniteSet(X) /\ Cardinality(X) = 1 /\ IsFiniteSet(I) /\ Cardinality(I) = n
    BY Zenon, <2>1, <2>2, FS_Singleton
  <2>4. IsFiniteSet(X \X I) /\ Cardinality(X \X I) = Cardinality(X) * Cardinality(I)
    BY Zenon, <2>3, FS_Product
  <2>5. Cardinality(X) * Cardinality(I) = n
    BY <2>3
  <2>6. B = X \X I
    BY Zenon, <1>2, <2>2
  <2>. QED
    BY Zenon, <2>4, <2>5, <2>6
<1>5. A \cap B = {}
  BY <1>2 DEF Of
<1>6. Of(O \cup {x}, q) = A \cup B
  <2>1. ASSUME NEW e, e \in Of(O \cup {x}, q) PROVE e \in A \cup B
    BY <1>1, <1>2, <2>1 DEF Of
  <2>2. ASSUME NEW e \in A PROVE e \in Of(O \cup {x}, q)
    BY <1>2 DEF Of
  <2>3. ASSUME NEW e \in B PROVE e \in Of(O \cup {x}, q)
    BY <1>1, <1>2, BookAssumption DEF Of
  <2>. QED
    BY <2>1, <2>2, <2>3
<1>7. Cardinality(A) \in Nat /\ Cardinality({}) = 0
  BY Zenon, <1>3, FS_CardinalityType, FS_EmptySet
<1>8. Cardinality(A \cup B) = Cardinality(A) + Cardinality(B) - Cardinality({})
  BY Zenon, <1>3, <1>4, <1>5, FS_Union
<1>9. Cardinality(A \cup B) = Cardinality(A) + n
  BY <1>4, <1>7, <1>8
<1>. QED
  BY Zenon, <1>1, <1>2, <1>6, <1>7, <1>9

\* One more open order has what is left of it more.
LEMMA OneMoreOpen ==
    ASSUME NEW O, IsFiniteSet(O), NEW x \in Takers, x \notin O
    PROVE  /\ Cardinality(Of(O, Qty)) \in Nat
           /\ Cardinality(Of(O \cup {x}, Qty)) = Cardinality(Of(O, Qty)) + x.qty
           /\ x.qty \in 0 .. MaxQty
<1>1. PICK q : q = Qty
  OBVIOUS
<1>2. q[x] = x.qty /\ x.qty \in 0 .. MaxQty
  BY <1>1 DEF Qty, Takers
<1>3. q[x] \in 0 .. MaxQty
  BY Zenon, <1>2
<1>4. /\ Cardinality(Of(O, q)) \in Nat
      /\ Cardinality(Of(O \cup {x}, q)) = Cardinality(Of(O, q)) + q[x]
  BY Zenon, <1>3, OneMore
<1>. QED
  BY Zenon, <1>1, <1>2, <1>4

\* In these words the property counts contracts.
InContracts ==
    \A s \in Sides : /\ Asked(s) = Of(Buyers(s), Wanted)
                     /\ Left(s) = Of(Open(s), Qty)
                     /\ Open(s) \subseteq Takers

LEMMA Contracts == EInv => InContracts
<1>1. SUFFICES ASSUME EInv, NEW s \in Sides
               PROVE  /\ Asked(s) = Of(Buyers(s), Wanted)
                      /\ Left(s) = Of(Open(s), Qty)
                      /\ Open(s) \subseteq Takers
  BY DEF InContracts
<1>2. resting \subseteq Takers /\ taker \in Takers \cup {None}
  BY <1>1, OrdersAreTakers DEF EInv, EntryTypeOK, TypeOK
<1>3. Open(s) \subseteq Takers
  BY <1>2 DEF Open
<1>4. Asked(s) = Of(Buyers(s), Wanted)
  BY DEF Asked, Of, Buyers, Wanted
<1>5. Left(s) = Of(Open(s), Qty)
  <2>1. \A o \in Open(s) : Qty[o] = o.qty
    BY <1>3 DEF Qty
  <2>. QED
    BY <2>1 DEF Left, Of, Open
<1>. QED
  BY Zenon, <1>3, <1>4, <1>5

\* The same after a step.
LEMMA ContractsAfter == EInv' => InContracts'
BY Contracts, PTL

\* A step adds a contracts to those asked for on side s and l to those left.
Moves(s, a, l) ==
    /\ Cardinality(Asked(s)) \in Nat /\ Cardinality(Asked(s))' = Cardinality(Asked(s)) + a
    /\ Cardinality(Left(s)) \in Nat /\ Cardinality(Left(s))' = Cardinality(Left(s)) + l

\* A step that adds the same to what either side has traded.
LEMMA Balanced ==
    ASSUME BoughtIsSold, NEW s \in Sides, NEW t \in Sides, s # t,
           NEW a \in Int, NEW b \in Int, NEW k \in Int, NEW l \in Int,
           Moves(s, a, k), Moves(t, b, l), a - k = b - l
    PROVE  BoughtIsSold'
<1>1. CASE s = "YES" /\ t = "NO"
  BY <1>1 DEF Moves, BoughtIsSold
<1>2. CASE s = "NO" /\ t = "YES"
  BY <1>2 DEF Moves, BoughtIsSold
<1>. QED
  BY <1>1, <1>2 DEF Sides

\* There are finitely many contracts.
LEMMA FinitelyMany ==
    ASSUME EInv, IsFiniteSet(resting), NEW s \in Sides
    PROVE  /\ IsFiniteSet(Buyers(s)) /\ IsFiniteSet(Open(s))
           /\ Cardinality(Asked(s)) \in Nat /\ Cardinality(Left(s)) \in Nat
<1>1. IsFiniteSet(Buyers(s))
  <2>1. Buyers(s) \in SUBSET Posters
    BY DEF Buyers
  <2>. QED
    BY Zenon, <2>1, EntryAssumption, FS_Subset
<1>2. IsFiniteSet(Open(s))
  <2>1. IsFiniteSet(resting \cup {taker})
    BY Zenon, FS_AddElement
  <2>2. Open(s) \in SUBSET (resting \cup {taker})
    BY DEF Open
  <2>. QED
    BY Zenon, <2>1, <2>2, FS_Subset
<1>3. ASSUME NEW O, IsFiniteSet(O), NEW q PROVE Cardinality(Of(O, q)) \in Nat
  <2>1. IsFiniteSet(1 .. MaxQty)
    BY BookAssumption, FS_Interval
  <2>2. IsFiniteSet(O \X (1 .. MaxQty))
    BY Zenon, <1>3, <2>1, FS_Product
  <2>3. Of(O, q) \in SUBSET (O \X (1 .. MaxQty))
    BY DEF Of
  <2>. QED
    BY Zenon, <2>2, <2>3, FS_Subset, FS_CardinalityType
<1>. QED
  BY Zenon, <1>1, <1>2, <1>3, Contracts DEF InContracts

\* Orders that are neither placed nor closed nor traded: nothing moves.
LEMMA SameContracts ==
    ASSUME EInv, IsFiniteSet(resting), NEW s \in Sides, Asked(s)' = Asked(s), Left(s)' = Left(s)
    PROVE  Moves(s, 0, 0)
BY FinitelyMany DEF Moves

\* An order is accepted: it asks for its contracts and has them all left.
LEMMA PlaceBalanced ==
    ASSUME EInv, EInv', IsFiniteSet(resting), BoughtIsSold, NEW c \in Posters, PlaceOrder(c)
    PROVE  BoughtIsSold'
<1>1. /\ taker = None /\ serving = {} /\ reply[c] = NoReply /\ Passes(request[c])
      /\ taker' = [id |-> nextId, client |-> client_id, side |-> request[c].side,
                   price |-> request[c].price, qty |-> request[c].qty]
      /\ placed' = [placed EXCEPT ![c] = nextId]
      /\ UNCHANGED <<resting, request>>
  BY DEF PlaceOrder, Waiting, Arrive, Passes, SideOf
<1>2. request[c].side \in Sides /\ request[c].qty \in 1 .. MaxQty
  BY <1>1, ChecksSuffice DEF EInv, EntryTypeOK
<1>3. placed[c] = 0 /\ nextId \in Nat \ {0} /\ placed \in [Posters -> Nat]
  BY Zenon, <1>1 DEF EInv, Answered, AnsweredTo, EntryTypeOK, TypeOK
<1>4. PICK q, s, x : q = request[c].qty /\ s = request[c].side /\ x = taker'
  OBVIOUS
<1>5. s \in Sides /\ q \in 1 .. MaxQty /\ x.side = s /\ x.qty = q
  BY <1>1, <1>2, <1>4
<1>6. x \in Takers /\ x # None /\ x \notin resting
  <2>1. x # None
    <3>1. serving' = {c}
      BY DEF PlaceOrder
    <3>. QED
      BY Zenon, <1>4, <3>1 DEF EInv, Serving
  <2>2. x \in Takers
    BY Zenon, <1>4, <2>1 DEF EInv, EntryTypeOK, TypeOK
  <2>3. x \notin resting
    BY Zenon, <1>1, <1>4, <2>1 DEF EInv, UniqueIds
  <2>. QED
    BY Zenon, <2>1, <2>2, <2>3
<1>7. /\ Buyers(s)' = Buyers(s) \cup {c} /\ c \notin Buyers(s) /\ Wanted' = Wanted /\ Wanted[c] = q
      /\ Open(s)' = Open(s) \cup {x} /\ x \notin Open(s)
  <2>1. Buyers(s)' = Buyers(s) \cup {c} /\ c \notin Buyers(s)
    BY <1>1, <1>3, <1>4 DEF Buyers
  <2>2. Wanted' = Wanted /\ Wanted[c] = q
    BY <1>1, <1>4 DEF Wanted
  <2>3. Open(s)' = Open(s) \cup {x} /\ x \notin Open(s)
    BY <1>1, <1>4, <1>5, <1>6 DEF Open
  <2>. QED
    BY Zenon, <2>1, <2>2, <2>3
<1>8. Moves(s, q, q)
  <2>1. IsFiniteSet(Buyers(s)) /\ IsFiniteSet(Open(s))
    BY Zenon, <1>5, FinitelyMany
  <2>2. q \in 0 .. MaxQty
    BY <1>5
  <2>3. /\ Cardinality(Of(Buyers(s), Wanted)) \in Nat
        /\ Cardinality(Of(Buyers(s) \cup {c}, Wanted)) = Cardinality(Of(Buyers(s), Wanted)) + q
    BY Zenon, <1>7, <2>1, <2>2, OneMore
  <2>4. /\ Cardinality(Of(Open(s), Qty)) \in Nat
        /\ Cardinality(Of(Open(s) \cup {x}, Qty)) = Cardinality(Of(Open(s), Qty)) + q
    BY Zenon, <1>5, <1>6, <1>7, <2>1, OneMoreOpen
  <2>5. Asked(s) = Of(Buyers(s), Wanted) /\ Asked(s)' = Of(Buyers(s) \cup {c}, Wanted)
    BY Zenon, <1>5, <1>7, Contracts, ContractsAfter DEF InContracts
  <2>6. Left(s) = Of(Open(s), Qty) /\ Left(s)' = Of(Open(s) \cup {x}, Qty)
    BY Zenon, <1>5, <1>7, Contracts, ContractsAfter DEF InContracts
  <2>. QED
    BY Zenon, <2>3, <2>4, <2>5, <2>6 DEF Moves
<1>9. PICK t \in Sides : t # s
  BY DEF Sides
<1>10. Moves(t, 0, 0)
  <2>1. Buyers(t)' = Buyers(t) /\ Wanted' = Wanted
    BY Zenon, <1>1, <1>3, <1>4, <1>7, <1>9 DEF Buyers
  <2>2. Open(t)' = Open(t)
    BY Zenon, <1>1, <1>4, <1>5, <1>6, <1>9 DEF Open
  <2>3. Asked(t)' = Asked(t) /\ Left(t)' = Left(t)
    BY Zenon, <2>1, <2>2, Contracts, ContractsAfter DEF InContracts
  <2>. QED
    BY Zenon, <2>3, SameContracts
<1>11. q \in Int /\ q - q = 0 - 0
  BY <1>5
<1>. QED
  BY <1>5, <1>8, <1>9, <1>10, <1>11, Balanced

\* A trade takes as many contracts from the order that arrives as from the one
\* in the book.
LEMMA MatchBalanced ==
    ASSUME EInv, EInv', IsFiniteSet(resting), BoughtIsSold, NEW m \in resting, MatchOrder(m)
    PROVE  BoughtIsSold'
<1>1. /\ Trade(m) /\ taker # None /\ taker.side # m.side
      /\ UNCHANGED <<request, placed>>
  BY DEF MatchOrder, Trade, Crosses
<1>2. PICK x, y : x = taker /\ y = taker'
  OBVIOUS
<1>3. /\ x \in Takers /\ m \in Orders /\ m \in Takers /\ x # None /\ m # None
      /\ \A o \in resting : o \in Takers /\ o.id # x.id /\ o # None
  BY Zenon, <1>1, <1>2, OrdersAreTakers, NoneAssumption DEF EInv, EntryTypeOK, TypeOK, UniqueIds
<1>4. PICK s, t, P, Q : /\ s = x.side /\ t = m.side
                         /\ P = {o \in resting \ {m} : o.side = t}
                         /\ Q = {o \in resting : o.side = s}
  OBVIOUS
<1>5. s \in Sides /\ t \in Sides /\ s # t
  BY <1>1, <1>2, <1>3, <1>4 DEF Takers
<1>6. IsFiniteSet(P) /\ IsFiniteSet(Q)
  <2>1. P \in SUBSET resting /\ Q \in SUBSET resting
    BY <1>4
  <2>. QED
    BY Zenon, <2>1, FS_Subset
<1>7. /\ x.qty \in Nat /\ m.qty \in Nat
      /\ m \notin P /\ x \notin Q
      /\ Open(t) = P \cup {m} /\ Open(s) = Q \cup {x}
  <2>1. x.qty \in Nat /\ m.qty \in Nat
    BY <1>3 DEF Takers
  <2>2. m \notin P /\ x \notin Q
    BY Zenon, <1>3, <1>4
  <2>3. Open(t) = P \cup {m}
    BY <1>2, <1>3, <1>4, <1>5 DEF Open
  <2>4. Open(s) = Q \cup {x}
    BY <1>2, <1>3, <1>4 DEF Open
  <2>. QED
    BY Zenon, <2>1, <2>2, <2>3, <2>4
<1>8. PICK k \in Nat : /\ k <= x.qty
                       /\ y = [x EXCEPT !.qty = x.qty - k]
                       /\ {o \in resting' : o.side = s} = Q
                       /\ Cardinality(Of({o \in resting' : o.side = t}, Qty))
                            = Cardinality(Of(P, Qty)) + m.qty - k
  <2>1. CASE x.qty < m.qty
    <3>1. PICK r : r = [m EXCEPT !.qty = m.qty - x.qty]
      OBVIOUS
    <3>2. y = [x EXCEPT !.qty = 0] /\ resting' = (resting \ {m}) \cup {r}
      BY <1>1, <1>2, <1>7, <2>1, <3>1 DEF Trade
    <3>3. /\ r \in Takers /\ r.id = m.id /\ r.side = t /\ r.qty = m.qty - x.qty
          /\ y = [x EXCEPT !.qty = x.qty - x.qty]
      <4>1. x.qty - x.qty = 0 /\ m.qty - x.qty \in 0 .. MaxQty
        BY <1>3, <1>7, <2>1, BookAssumption DEF Takers
      <4>2. r \in Takers
        BY <1>3, <3>1, <4>1 DEF Takers
      <4>3. r.id = m.id /\ r.side = t /\ r.qty = m.qty - x.qty
        BY <1>3, <1>4, <3>1 DEF Takers
      <4>. QED
        BY Zenon, <3>2, <4>1, <4>2, <4>3
    <3>4. r \notin P
      BY Zenon, <1>4, <3>3 DEF EInv, UniqueIds
    <3>5. {o \in resting' : o.side = t} = P \cup {r} /\ {o \in resting' : o.side = s} = Q
      BY <1>4, <1>5, <3>2, <3>3
    <3>6. /\ Cardinality(Of(P, Qty)) \in Nat
          /\ Cardinality(Of(P \cup {r}, Qty)) = Cardinality(Of(P, Qty)) + r.qty
      BY Zenon, <1>6, <3>3, <3>4, OneMoreOpen
    <3>7. Cardinality(Of(P \cup {r}, Qty)) = Cardinality(Of(P, Qty)) + m.qty - x.qty
      BY <1>7, <3>3, <3>6
    <3>8. x.qty <= x.qty
      BY <1>7
    <3>. QED
      BY Zenon, <1>7, <3>3, <3>5, <3>7, <3>8
  <2>2. CASE x.qty >= m.qty
    <3>1. y = [x EXCEPT !.qty = x.qty - m.qty] /\ resting' = resting \ {m}
      BY <1>1, <1>2, <1>7, <2>2 DEF Trade
    <3>2. {o \in resting' : o.side = t} = P /\ {o \in resting' : o.side = s} = Q
      BY <1>4, <1>5, <3>1
    <3>3. Cardinality(Of(P, Qty)) \in Nat
      BY Zenon, <1>3, <1>6, <1>7, OneMoreOpen
    <3>4. Cardinality(Of(P, Qty)) = Cardinality(Of(P, Qty)) + m.qty - m.qty /\ m.qty <= x.qty
      BY <1>7, <2>2, <3>3
    <3>. QED
      BY Zenon, <1>7, <3>1, <3>2, <3>4
  <2>3. x.qty < m.qty \/ x.qty >= m.qty
    BY <1>7
  <2>. QED
    BY Zenon, <2>1, <2>2, <2>3
<1>9. y \in Takers /\ y.id = x.id /\ y.side = s /\ y.qty = x.qty - k /\ y # None /\ y \notin Q
  <2>1. y \in Takers /\ y.id = x.id /\ y.side = s /\ y.qty = x.qty - k
    <3>1. x.qty - k \in 0 .. MaxQty
      BY <1>3, <1>7, <1>8, BookAssumption DEF Takers
    <3>2. y \in Takers
      BY <1>3, <1>8, <3>1 DEF Takers
    <3>. QED
      BY <1>3, <1>4, <1>8, <3>2 DEF Takers
  <2>. QED
    BY Zenon, <1>3, <1>4, <2>1, NoneAssumption
<1>10. Open(s)' = Q \cup {y} /\ Open(t)' = {o \in resting' : o.side = t}
  <2>1. \A o \in resting' : o # None
    BY Zenon, OrdersAreTakers, NoneAssumption DEF EInv, EntryTypeOK, TypeOK
  <2>2. Open(s)' = {o \in resting' : o.side = s} \cup {y}
    BY <1>2, <1>9, <2>1 DEF Open
  <2>3. Open(t)' = {o \in resting' : o.side = t}
    BY <1>2, <1>5, <1>9, <2>1 DEF Open
  <2>. QED
    BY Zenon, <1>8, <2>2, <2>3
<1>11. /\ Cardinality(Of(P, Qty)) \in Nat /\ Cardinality(Of(Q, Qty)) \in Nat
       /\ Cardinality(Of(P \cup {m}, Qty)) = Cardinality(Of(P, Qty)) + m.qty
       /\ Cardinality(Of(Q \cup {x}, Qty)) = Cardinality(Of(Q, Qty)) + x.qty
       /\ Cardinality(Of(Q \cup {y}, Qty)) = Cardinality(Of(Q, Qty)) + y.qty
  BY Zenon, <1>3, <1>6, <1>7, <1>9, OneMoreOpen
<1>12. ASSUME NEW u \in Sides PROVE Asked(u)' = Asked(u)
  BY <1>1 DEF Asked
<1>13. /\ Left(s) = Of(Q \cup {x}, Qty) /\ Left(s)' = Of(Q \cup {y}, Qty)
       /\ Left(t) = Of(P \cup {m}, Qty) /\ Left(t)' = Of({o \in resting' : o.side = t}, Qty)
  BY Zenon, <1>5, <1>7, <1>10, Contracts, ContractsAfter DEF InContracts
<1>14. /\ Cardinality(Asked(s)) \in Nat /\ Cardinality(Left(s)) \in Nat
       /\ Cardinality(Asked(t)) \in Nat /\ Cardinality(Left(t)) \in Nat
  BY Zenon, <1>5, FinitelyMany
<1>15. Moves(s, 0, -k)
  <2>1. Cardinality(Left(s)') = Cardinality(Left(s)) + (-k)
    BY <1>7, <1>8, <1>9, <1>11, <1>13
  <2>2. Cardinality(Asked(s)') = Cardinality(Asked(s)) + 0
    BY <1>5, <1>12, <1>14
  <2>. QED
    BY Zenon, <1>14, <2>1, <2>2 DEF Moves
<1>16. Moves(t, 0, -k)
  <2>1. Cardinality(Left(t)') = Cardinality(Left(t)) + (-k)
    BY <1>7, <1>8, <1>11, <1>13
  <2>2. Cardinality(Asked(t)') = Cardinality(Asked(t)) + 0
    BY <1>5, <1>12, <1>14
  <2>. QED
    BY Zenon, <1>14, <2>1, <2>2 DEF Moves
<1>17. -k \in Int /\ 0 \in Int
  BY <1>8
<1>. QED
  BY Zenon, <1>5, <1>15, <1>16, <1>17, Balanced

\* What is left of an order stays its own when it rests.
LEMMA FinishBalanced ==
    ASSUME EInv, EInv', IsFiniteSet(resting), BoughtIsSold, NEW c \in Posters, FinishOrder(c)
    PROVE  BoughtIsSold'
<1>1. taker # None /\ taker' = None /\ UNCHANGED <<request, placed>> /\ (Rest \/ Filled)
  BY DEF FinishOrder, Rest, Filled
<1>2. ASSUME NEW s \in Sides PROVE Asked(s)' = Asked(s) /\ Left(s)' = Left(s)
  <2>1. Asked(s)' = Asked(s)
    BY <1>1 DEF Asked
  <2>2. CASE Rest
    <3>1. (resting' \cup {taker'}) \ {None} = (resting \cup {taker}) \ {None}
      BY <1>1, <2>2 DEF Rest
    <3>. QED
      BY Zenon, <2>1, <3>1 DEF Left
  <2>3. CASE Filled
    <3>1. resting' = resting /\ taker.qty = 0 /\ None \notin resting
      BY <2>3, OrdersAreTakers, NoneAssumption DEF Filled, EInv, EntryTypeOK, TypeOK
    <3>2. (resting' \cup {taker'}) \ {None} = resting
      BY <1>1, <3>1
    <3>3. (resting \cup {taker}) \ {None} = resting \cup {taker}
      BY <1>1, <3>1
    <3>4. Left(s)' = {e \in resting \X (1 .. MaxQty) : e[1].side = s /\ e[2] <= e[1].qty}
      BY Zenon, <3>2 DEF Left
    <3>5. Left(s) = {e \in (resting \cup {taker}) \X (1 .. MaxQty) : e[1].side = s /\ e[2] <= e[1].qty}
      BY Zenon, <3>3 DEF Left
    <3>6. \A j \in 1 .. MaxQty : ~ (j <= taker.qty)
      BY <3>1
    <3>7. Left(s)' = Left(s)
      BY <3>4, <3>5, <3>6
    <3>. QED
      BY Zenon, <2>1, <3>7
  <2>. QED
    BY <1>1, <2>1, <2>2, <2>3
<1>. QED
  BY <1>2 DEF BoughtIsSold, Sides

\* What else happens leaves the orders alone.
LEMMA OtherBalanced ==
    ASSUME EInv, EInv', BoughtIsSold, UNCHANGED <<resting, taker, placed>>,
           \A c \in Posters : placed[c] # 0 => request'[c] = request[c]
    PROVE  BoughtIsSold'
<1>1. ASSUME NEW s \in Sides PROVE Asked(s)' = Asked(s) /\ Left(s)' = Left(s)
  BY DEF Asked, Left
<1>. QED
  BY <1>1 DEF BoughtIsSold, Sides

\* What was bought was sold, and the book is finite.
BInv == IsFiniteSet(resting) /\ BoughtIsSold

LEMMA BalanceInv == EInv /\ EInv' /\ BInv /\ [EntryNext]_entryVars => BInv'
<1>1. SUFFICES ASSUME EInv, EInv', BInv, [EntryNext]_entryVars PROVE BInv'
  OBVIOUS
<1>. USE <1>1
<1>2. IsFiniteSet(resting')
  <2>1. [Next]_vars
    BY BookStep DEF EInv, EntryTypeOK
  <2>2. PICK o, r : \/ resting' = resting \/ resting' = resting \cup {r}
                    \/ resting' = resting \ {o} \/ resting' = (resting \ {o}) \cup {r}
    <3>1. CASE \E m \in resting : Trade(m)
      BY Zenon, <3>1 DEF Trade
    <3>2. CASE \E m \in resting : Cancel(m)
      BY <3>2 DEF Cancel
    <3>3. CASE Rest
      BY <3>3 DEF Rest
    <3>4. CASE UNCHANGED resting
      BY <3>4
    <3>5. (\E c \in Clients, s \in Sides, p \in Prices, n \in 1 .. MaxQty : Arrive(c, s, p, n))
              \/ Refuse \/ Filled \/ UNCHANGED vars => UNCHANGED resting
      BY DEF Arrive, Refuse, Filled, vars
    <3>. QED
      BY Zenon, <2>1, <3>1, <3>2, <3>3, <3>4, <3>5 DEF Next
  <2>3. IsFiniteSet(resting) /\ IsFiniteSet(resting \ {o})
    BY Zenon, FS_RemoveElement DEF BInv
  <2>4. IsFiniteSet(resting \cup {r}) /\ IsFiniteSet((resting \ {o}) \cup {r})
    BY Zenon, <2>3, FS_AddElement
  <2>. QED
    BY Zenon, <2>2, <2>3, <2>4
<1>3. BoughtIsSold'
  <2>1. ASSUME NEW c \in Posters, PlaceOrder(c) PROVE BoughtIsSold'
    BY Zenon, <2>1, PlaceBalanced DEF BInv
  <2>2. ASSUME NEW m \in resting, MatchOrder(m) PROVE BoughtIsSold'
    BY Zenon, <2>2, MatchBalanced DEF BInv
  <2>3. ASSUME NEW c \in Posters, FinishOrder(c) PROVE BoughtIsSold'
    BY Zenon, <2>3, FinishBalanced DEF BInv
  <2>4. ASSUME NEW c \in Posters,
               DispatchOther(c) \/ RefuseOrder(c) \/ NoRoom(c) \/ CloseUnanswered(c)
        PROVE  BoughtIsSold'
    <3>1. UNCHANGED <<resting, taker, placed, request>>
      BY <2>4 DEF DispatchOther, RefuseOrder, NoRoom, Refuse, CloseUnanswered, vars
    <3>. QED
      BY Zenon, <3>1, OtherBalanced DEF BInv
  <2>5. ASSUME NEW c \in Posters, Poster(c) PROVE BoughtIsSold'
    <3>1. UNCHANGED <<resting, taker, placed>>
      BY Zenon, <2>5 DEF Poster, connect, post, send_request_, ReadFails, ReadHeader, EndInHeader, EndOfBody, Returns, vars
    <3>2. request' = request \/ \E r : request' = [request EXCEPT ![c] = r] /\ api[c] = "connected"
      BY Zenon, <2>5
         DEF Poster, connect, post, send_request_, ReadFails, ReadHeader, EndInHeader, EndOfBody, Returns
    <3>3. api[c] = "connected" => placed[c] = 0
      BY Zenon DEF EInv, Answered, AnsweredTo
    <3>4. \A d \in Posters : placed[d] # 0 => request'[d] = request[d]
      BY <3>2, <3>3 DEF EInv, EntryTypeOK
    <3>. QED
      BY Zenon, <3>1, <3>4, OtherBalanced DEF BInv
  <2>6. CASE UNCHANGED entryVars
    <3>1. UNCHANGED <<resting, taker, placed, request>>
      BY <2>6 DEF entryVars
    <3>. QED
      BY Zenon, <3>1, OtherBalanced DEF BInv
  <2>. QED
    BY <2>1, <2>2, <2>3, <2>4, <2>5, <2>6 DEF EntryNext, Server
<1>. QED
  BY <1>2, <1>3 DEF BInv

\* At the start nothing is asked for and nothing is left.
LEMMA BalanceInit == EntryInit => BInv
<1>1. SUFFICES ASSUME EntryInit PROVE BInv
  OBVIOUS
<1>2. ASSUME NEW s PROVE Asked(s) = {} /\ Left(s) = {}
  BY <1>1 DEF EntryInit, Init, Asked, Left
<1>3. BoughtIsSold
  BY <1>2 DEF BoughtIsSold
<1>4. IsFiniteSet(resting)
  BY Zenon, <1>1, FS_EmptySet DEF EntryInit, Init
<1>. QED
  BY <1>3, <1>4 DEF BInv

\* What was bought was sold, whatever the requests and the failures.
THEOREM EntryBalanced == EntrySpec => []BoughtIsSold
<1>1. EntrySpec => []BInv
  BY BalanceInit, BalanceInv, EntryInvariance, PTL DEF EntrySpec
<1>2. BInv => BoughtIsSold
  BY DEF BInv
<1>. QED
  BY <1>1, <1>2, PTL

------------------------------------------------------------------------------
(* Nobody is overtaken                                                      *)

\* The order being matched is the newest.
Newest == taker # None => taker.id + 1 = nextId

PInv == Newest /\ PriorityKept

\* An open order with the id of poster d is the order d asked for.
LEMMA OwnOrder ==
    ASSUME EInv, NEW d \in Posters, NEW n \in (resting \cup {taker}) \ {None}, n.id = placed[d]
    PROVE  n.side = request[d].side /\ n.price = request[d].price
<1>1. n.id # 0 /\ placed[d] # 0
  BY DEF EInv, EntryTypeOK, TypeOK, Orders, Takers
<1>2. PICK c \in Posters : placed[c] = n.id /\ n.side = request[c].side /\ n.price = request[c].price
  <2>1. CASE n \in resting
    BY Zenon, <2>1 DEF EInv, Traced
  <2>2. CASE n = taker /\ taker # None
    <3>1. PICK c \in serving : TRUE
      BY Zenon, <2>2 DEF EInv, Serving
    <3>2. c \in Posters
      BY Zenon, <3>1 DEF EInv, EntryTypeOK
    <3>. QED
      BY Zenon, <2>2, <3>1, <3>2 DEF EInv, Serving
  <2>. QED
    BY Zenon, <2>1, <2>2
<1>3. c = d
  BY Zenon, <1>1, <1>2 DEF EInv, Traced
<1>. QED
  BY Zenon, <1>2, <1>3

\* An accepted order is behind nothing it has overtaken: it has not traded yet.
LEMMA PlaceKeeps ==
    ASSUME EInv, EInv', PInv, NEW c \in Posters, PlaceOrder(c)
    PROVE  PInv'
<1>1. /\ taker = None
      /\ taker'.id = nextId /\ taker'.qty = request[c].qty
      /\ nextId' = nextId + 1
      /\ placed' = [placed EXCEPT ![c] = nextId]
      /\ c \in serving'
      /\ resting' = resting /\ request' = request
  BY Zenon DEF PlaceOrder, Arrive
<1>2. taker' # None
  BY Zenon, <1>1 DEF EInv, Serving
<1>3. Newest'
  BY <1>1 DEF Newest
<1>4. placed \in [Posters -> Nat]
  BY Zenon DEF EInv, EntryTypeOK
<1>5. ASSUME NEW m \in resting', NEW d \in Posters, Behind(d, m)' PROVE Untouched(d)'
  <2>1. CASE d = c
    <3>1. placed'[d] = taker'.id
      BY Zenon, <1>1, <1>4, <2>1
    <3>. QED
      BY Zenon, <1>1, <1>2, <2>1, <3>1 DEF Untouched
  <2>2. CASE d # c
    <3>1. placed'[d] = placed[d]
      BY Zenon, <1>1, <1>4, <2>2
    <3>2. Behind(d, m)
      BY Zenon, <1>1, <1>5, <3>1 DEF Behind
    <3>3. Untouched(d)
      BY Zenon, <1>1, <3>2 DEF PInv, PriorityKept
    <3>4. PICK n \in resting : n # None /\ n.id = placed[d] /\ n.qty = request[d].qty
      BY Zenon, <1>1, <3>3 DEF Untouched
    <3>. QED
      BY Zenon, <1>1, <3>1, <3>4 DEF Untouched
  <2>. QED
    BY Zenon, <2>1, <2>2
<1>6. PriorityKept'
  BY Zenon, <1>5 DEF PriorityKept
<1>. QED
  BY Zenon, <1>3, <1>6 DEF PInv

\* A trade involves the order being matched, which cannot cross k when an order
\* of its side at no worse a price rests beside k, and the best order it crosses.
LEMMA MatchKeeps ==
    ASSUME EInv, EInv', PInv, NEW k \in resting, MatchOrder(k)
    PROVE  PInv'
<1>1. /\ taker # None /\ Crosses(taker, k) /\ Best(k)
      /\ UNCHANGED <<nextId, request, placed>>
  BY DEF MatchOrder, Trade
<1>2. taker \in Takers /\ k \in Orders /\ resting \subseteq Orders
  BY <1>1 DEF EInv, EntryTypeOK, TypeOK
<1>3. taker'.id = taker.id
  BY <1>2 DEF MatchOrder, Trade, Takers
<1>4. Newest'
  BY Zenon, <1>1, <1>3 DEF PInv, Newest
<1>5. resting \ {k} \subseteq resting'
  BY Zenon DEF MatchOrder, Trade
<1>6. ASSUME NEW m \in resting'
      PROVE  \E o \in resting : o.id = m.id /\ o.side = m.side /\ o.price = m.price
  <2>1. CASE m \in resting
    BY Zenon, <2>1
  <2>2. CASE m \notin resting
    <3>1. m = [k EXCEPT !.qty = k.qty - taker.qty]
      BY Zenon, <1>6, <2>2 DEF MatchOrder, Trade
    <3>2. m.id = k.id /\ m.side = k.side /\ m.price = k.price
      BY <1>2, <3>1 DEF Orders
    <3>. QED
      BY Zenon, <3>2
  <2>. QED
    BY Zenon, <2>1, <2>2
<1>7. ASSUME NEW m \in resting', NEW d \in Posters, Behind(d, m)' PROVE Untouched(d)'
  <2>1. PICK o \in resting : o.id = m.id /\ o.side = m.side /\ o.price = m.price
    BY Zenon, <1>6
  <2>2. Behind(d, o)
    BY Zenon, <1>1, <1>7, <2>1 DEF Behind
  <2>3. PICK n \in (resting \cup {taker}) \ {None} : n.id = placed[d] /\ n.qty = request[d].qty
    BY Zenon, <2>2 DEF PInv, PriorityKept, Untouched
  <2>4. n.side = request[d].side /\ n.price = request[d].price
    BY Zenon, <2>3, OwnOrder
  <2>5. /\ n.id > o.id /\ n.side = o.side
        /\ IF o.side = "YES" THEN n.price <= o.price ELSE n.price >= o.price
    BY Zenon, <2>2, <2>3, <2>4 DEF Behind
  <2>6. o \in Orders /\ n \in Takers
    BY Zenon, <1>2, OrdersAreTakers
  <2>7. n # taker
    <3>1. SUFFICES ASSUME n = taker PROVE FALSE
      OBVIOUS
    <3>2. Crosses(o, k)
      BY <1>1, <1>2, <2>5, <2>6, <3>1 DEF Crosses, Orders, Takers, Prices, Sides
    <3>. QED
      BY Zenon, <3>2 DEF EInv, NotCrossed
  <2>8. n # k
    <3>1. SUFFICES ASSUME n = k PROVE FALSE
      OBVIOUS
    <3>2. o # k
      BY <1>2, <2>5, <3>1 DEF Orders
    <3>3. Better(k, o)
      BY Zenon, <1>1, <2>5, <3>1, <3>2 DEF Best
    <3>. QED
      BY <1>2, <2>5, <2>6, <3>1, <3>3 DEF Better, Orders, Prices
  <2>9. n \in resting' /\ n # None
    BY Zenon, <1>5, <2>3, <2>7, <2>8
  <2>. QED
    BY Zenon, <1>1, <2>3, <2>9 DEF Untouched
<1>8. PriorityKept'
  BY Zenon, <1>7 DEF PriorityKept
<1>. QED
  BY Zenon, <1>4, <1>8 DEF PInv

\* What comes to rest is the newest order, so nothing is behind it; and an order
\* that was filled was not untouched.
LEMMA FinishKeeps ==
    ASSUME EInv, EInv', PInv, NEW c \in Posters, FinishOrder(c)
    PROVE  PInv'
<1>1. /\ taker # None /\ taker' = None
      /\ UNCHANGED <<request, placed>>
      /\ resting' = resting \cup {taker} \/ (resting' = resting /\ taker.qty = 0)
  BY DEF FinishOrder, Rest, Filled
<1>2. Newest'
  BY Zenon, <1>1 DEF Newest
<1>3. ASSUME NEW m \in resting', NEW d \in Posters, Behind(d, m)' PROVE Untouched(d)'
  <2>1. Behind(d, m)
    BY Zenon, <1>1, <1>3 DEF Behind
  <2>2. placed[d] \in Nat /\ placed[d] < nextId /\ nextId \in Nat /\ taker.id \in Nat
    <3>1. taker \in Takers /\ nextId \in Nat
      BY Zenon, <1>1 DEF EInv, EntryTypeOK, TypeOK
    <3>2. taker.id \in Nat
      BY <3>1 DEF Takers
    <3>3. placed[d] \in Nat /\ placed[d] < nextId
      BY Zenon DEF EInv, EntryTypeOK, Traced
    <3>. QED
      BY Zenon, <3>1, <3>2, <3>3
  <2>3. m # taker
    <3>1. placed[d] > m.id /\ taker.id + 1 = nextId
      BY Zenon, <1>1, <2>1 DEF PInv, Newest, Behind
    <3>2. PICK i \in Nat, j \in Nat, k \in Nat : i = placed[d] /\ j = taker.id /\ k = nextId
      BY Zenon, <2>2
    <3>3. i < k /\ j + 1 = k
      BY Zenon, <2>2, <3>1, <3>2
    <3>4. ~ (i > j)
      BY <3>3
    <3>. QED
      BY Zenon, <3>1, <3>2, <3>4
  <2>4. m \in resting
    BY Zenon, <1>1, <2>3
  <2>5. PICK n \in (resting \cup {taker}) \ {None} : n.id = placed[d] /\ n.qty = request[d].qty
    BY Zenon, <2>1, <2>4 DEF PInv, PriorityKept, Untouched
  <2>6. n = taker => taker.qty # 0
    <3>1. m.id \in Nat
      <4>1. m \in Orders
        BY Zenon, <2>4 DEF EInv, EntryTypeOK, TypeOK
      <4>. QED
        BY <4>1 DEF Orders
    <3>2. placed[d] # 0
      <4>1. placed[d] > m.id
        BY Zenon, <2>1 DEF Behind
      <4>2. ~ (0 > m.id)
        BY <3>1
      <4>. QED
        BY Zenon, <4>1, <4>2
    <3>3. request[d] \in Requests /\ Passes(request[d])
      <4>1. request[d] \in Requests
        BY Zenon DEF EInv, EntryTypeOK
      <4>2. AnsweredTo(d)
        BY Zenon DEF EInv, Answered
      <4>3. Passes(request[d])
        BY Zenon, <3>2, <4>2 DEF AnsweredTo
      <4>. QED
        BY Zenon, <4>1, <4>3
    <3>4. request[d].qty \in 1 .. MaxQty
      BY Zenon, <3>3, ChecksSuffice
    <3>. QED
      BY <2>5, <3>4, BookAssumption
  <2>7. n \in resting' /\ n # None
    BY Zenon, <1>1, <2>5, <2>6
  <2>. QED
    BY Zenon, <1>1, <2>5, <2>7 DEF Untouched
<1>4. PriorityKept'
  BY Zenon, <1>3 DEF PriorityKept
<1>. QED
  BY Zenon, <1>2, <1>4 DEF PInv

\* What else happens leaves the orders alone, and no placed request is replaced.
LEMMA OtherKeeps ==
    ASSUME EInv, PInv, UNCHANGED <<resting, taker, nextId, placed>>,
           \A d \in Posters : placed[d] # 0 => request'[d] = request[d]
    PROVE  PInv'
<1>1. Newest'
  BY Zenon DEF PInv, Newest
<1>2. ASSUME NEW m \in resting', NEW d \in Posters, Behind(d, m)' PROVE Untouched(d)'
  <2>1. m \in resting /\ placed[d] > m.id
    BY Zenon, <1>2 DEF Behind
  <2>2. placed[d] # 0
    <3>1. m \in Orders
      BY Zenon, <2>1 DEF EInv, EntryTypeOK, TypeOK
    <3>2. m.id \in Nat
      BY <3>1 DEF Orders
    <3>3. ~ (0 > m.id)
      BY <3>2
    <3>. QED
      BY Zenon, <2>1, <3>3
  <2>3. request'[d] = request[d]
    BY Zenon, <2>2
  <2>4. Behind(d, m)
    BY Zenon, <1>2, <2>3 DEF Behind
  <2>5. Untouched(d)
    BY Zenon, <2>1, <2>4 DEF PInv, PriorityKept
  <2>. QED
    BY Zenon, <2>3, <2>5 DEF Untouched
<1>3. PriorityKept'
  BY Zenon, <1>2 DEF PriorityKept
<1>. QED
  BY Zenon, <1>1, <1>3 DEF PInv

LEMMA PriorityInv == EInv /\ EInv' /\ PInv /\ [EntryNext]_entryVars => PInv'
<1>1. SUFFICES ASSUME EInv, EInv', PInv, [EntryNext]_entryVars PROVE PInv'
  OBVIOUS
<1>. USE <1>1
<1>2. ASSUME NEW c \in Posters, PlaceOrder(c) PROVE PInv'
  BY Zenon, <1>2, PlaceKeeps
<1>3. ASSUME NEW m \in resting, MatchOrder(m) PROVE PInv'
  BY Zenon, <1>3, MatchKeeps
<1>4. ASSUME NEW c \in Posters, FinishOrder(c) PROVE PInv'
  BY Zenon, <1>4, FinishKeeps
<1>5. ASSUME NEW c \in Posters,
             DispatchOther(c) \/ RefuseOrder(c) \/ NoRoom(c) \/ CloseUnanswered(c)
      PROVE  PInv'
  <2>1. UNCHANGED <<resting, taker, nextId, placed, request>>
    BY <1>5 DEF DispatchOther, RefuseOrder, NoRoom, Refuse, CloseUnanswered, vars
  <2>. QED
    BY Zenon, <2>1, OtherKeeps
<1>6. ASSUME NEW c \in Posters, Poster(c) PROVE PInv'
  <2>1. UNCHANGED <<resting, taker, nextId, placed>>
    BY Zenon, <1>6
       DEF Poster, connect, post, send_request_, ReadFails, ReadHeader, EndInHeader, EndOfBody, Returns, vars
  <2>2. request' = request \/ \E r : request' = [request EXCEPT ![c] = r] /\ api[c] = "connected"
    BY Zenon, <1>6
       DEF Poster, connect, post, send_request_, ReadFails, ReadHeader, EndInHeader, EndOfBody, Returns
  <2>3. api[c] = "connected" => placed[c] = 0
    BY Zenon DEF EInv, Answered, AnsweredTo
  <2>4. \A d \in Posters : placed[d] # 0 => request'[d] = request[d]
    BY <2>2, <2>3 DEF EInv, EntryTypeOK
  <2>. QED
    BY Zenon, <2>1, <2>4, OtherKeeps
<1>7. CASE UNCHANGED entryVars
  <2>1. UNCHANGED <<resting, taker, nextId, placed, request>>
    BY <1>7 DEF entryVars
  <2>. QED
    BY Zenon, <2>1, OtherKeeps
<1>. QED
  BY <1>2, <1>3, <1>4, <1>5, <1>6, <1>7 DEF EntryNext, Server

\* Nobody is overtaken, whatever is posted and in whatever order: while an order
\* is in the book, no later order of its side at no better a price trades.
THEOREM EntryPriority == EntrySpec => []PriorityKept
<1>1. EntryInit => PInv
  BY Zenon DEF EntryInit, Init, PInv, Newest, PriorityKept
<1>2. EntrySpec => []PInv
  BY <1>1, PriorityInv, EntryInvariance, PTL DEF EntrySpec
<1>3. PInv => PriorityKept
  BY Zenon DEF PInv
<1>. QED
  BY <1>2, <1>3, PTL
==============================================================================
