----------------------------- MODULE OrderEntry ------------------------------
(***************************************************************************)
(* An order on its way from the client to the simulator's book and back:   *)
(* serialize_action, RestClient with the failures of its calls, dispatch   *)
(* and handle_place_order, the market registry, and the order book, here   *)
(* the abstract one that MatchingEngine implements.                        *)
(*                                                                         *)
(* Posters are processes that use one RestClient each, for one request.    *)
(* RestServer models how a request gets into the server's buffers; here    *)
(* the server may close a connection unanswered, and may send any part of  *)
(* a response before it closes.                                            *)
(***************************************************************************)
EXTENDS PriceTimeBook

CONSTANTS
    Posters,
    Faulty,     \* bound: the posters whose calls fail, whose connections break
                \* and who send bad requests
    Offers,     \* bound: the requests of the other posters
    MaxOpen,    \* bound: how many posters have a connection at a time
    NoReply     \* the server has not closed the poster's connection

\* handle_place_order has one identity for everybody.
client_id == 1

\* What the server may have written when it closed a connection: written is 3
\* for a whole response, 2 for the headers and a part of the body, 1 for a part
\* of the headers that has the status, 0 for less; status 0 is no response.
Replies == [status : {0, 200, 400, 404}, id : Nat, accepted : BOOLEAN, resting : Nat, fills : Nat,
            written : 0 .. 3]

ASSUME EntryAssumption ==
    /\ client_id \in Clients
    /\ NoReply \notin Replies
    /\ IsFiniteSet(Posters)

VARIABLES
    api,        \* where a poster is in its RestClient, and what it returned
    request,    \* the request it sends
    sent,       \* the posters whose request has been written completely
    reply,      \* what the server wrote before closing the connection
    serving,    \* the posters whose order the engine is matching: one or none
    fills,      \* contracts that order has traded
    placed      \* poster -> the id its order was given, 0 if none

entryVars == <<resting, taker, nextId, api, request, sent, reply, serving, fills, placed>>

------------------------------------------------------------------------------
(* Requests                                                                 *)

\* engines_, with the only market main adds.
engines_ == {"DEMO-1"}

\* There is an engine for the ticker.
get_engine(ticker) == ticker \in engines_

Actions == [kind : {"PLACE"}, side : Sides, price : Prices, qty : 1 .. MaxQty]
Cancels == {[kind |-> "CANCEL", side |-> "YES", price |-> 1, qty |-> 1]}

\* The JSON the client makes of an action: sides are in lower case, and a
\* cancellation names neither side nor price nor quantity (0 here).
serialize_action(a) ==
    IF a.kind = "PLACE"
    THEN [route |-> "orders", ticker |-> "DEMO-1",
          side |-> IF a.side = "YES" THEN "yes" ELSE "no", price |-> a.price, qty |-> a.qty]
    ELSE [route |-> "orders", ticker |-> "DEMO-1", side |-> "missing", price |-> 0, qty |-> 0]

\* A request as somebody who has read the handler writes it.
ByHand(a) ==
    [route |-> "orders", ticker |-> "DEMO-1", side |-> a.side, price |-> a.price, qty |-> a.qty]

Good == {ByHand(a) : a \in Actions}

ASSUME OffersAssumption == Offers \subseteq Good

\* Requests with something wrong; a body that is no JSON lacks every field.
Bad ==
    LET r == ByHand([side |-> "YES", price |-> 1, qty |-> 1])
    IN  {[r EXCEPT !.ticker = "missing"], [r EXCEPT !.ticker = "OTHER"],
         [r EXCEPT !.price = 0], [r EXCEPT !.price = MaxPrice + 1],
         [r EXCEPT !.qty = 0], [r EXCEPT !.qty = MaxQty + 1],
         [r EXCEPT !.route = "status"], [r EXCEPT !.route = "unknown"]}

Requests == Good \cup Bad \cup {serialize_action(a) : a \in Actions \cup Cancels}

EntryInit ==
    /\ Init
    /\ api = [c \in Posters |-> "new"]
    /\ request = [c \in Posters |-> ByHand([side |-> "YES", price |-> 1, qty |-> 1])]
    /\ sent = {}
    /\ reply = [c \in Posters |-> NoReply]
    /\ serving = {}
    /\ fills = 0
    /\ placed = [c \in Posters |-> 0]

------------------------------------------------------------------------------
(* RestClient                                                               *)

Returns(c, what) ==
    /\ api' = [api EXCEPT ![c] = what]
    /\ UNCHANGED <<vars, request, sent, reply, serving, fills, placed>>

connect(c) ==
    /\ api[c] = "new"
    /\ Cardinality({d \in Posters : api[d] \in {"connected", "writing", "header", "body"}}) < MaxOpen
    /\ Returns(c, "connected") \/ (c \in Faulty /\ Returns(c, "failed"))

\* post is called.
post(c, r) ==
    /\ api[c] = "connected"
    /\ api' = [api EXCEPT ![c] = "writing"]
    /\ request' = [request EXCEPT ![c] = r]
    /\ UNCHANGED <<vars, sent, reply, serving, fills, placed>>

\* send_request_: the request is written, in however many calls, or a call
\* fails for another reason than EINTR and an empty Response is returned.
send_request_(c) ==
    /\ api[c] = "writing"
    /\ \/ /\ api' = [api EXCEPT ![c] = "header"]
          /\ sent' = sent \cup {c}
       \/ /\ c \in Faulty
          /\ api' = [api EXCEPT ![c] = "empty"]
          /\ UNCHANGED sent
    /\ UNCHANGED <<vars, request, reply, serving, fills, placed>>

\* recv_response_: a call of read fails, by a reset or because a signal
\* interrupts it, which is not retried here.
ReadFails(c) == c \in Faulty /\ api[c] \in {"header", "body"} /\ Returns(c, "empty")

\* The end of the headers is read.
ReadHeader(c) ==
    /\ api[c] = "header"
    /\ reply[c] # NoReply
    /\ reply[c].written >= 2
    /\ Returns(c, "body")

\* The stream ends before that.  The search for the status goes past the end
\* of the string when the status is not there: undefined behaviour.
EndInHeader(c) ==
    /\ api[c] = "header"
    /\ reply[c] # NoReply
    /\ reply[c].written < 2
    /\ Returns(c, IF reply[c].written = 0 THEN "undefined" ELSE "empty")

\* The stream ends.  Content-Length is not looked at: a body that was cut off is
\* returned like any other.
EndOfBody(c) ==
    /\ api[c] = "body"
    /\ Returns(c, IF reply[c].written = 3 THEN "whole" ELSE "cut")

Poster(c) ==
    \/ connect(c)
    \/ \E r \in IF c \in Faulty THEN Requests ELSE Offers : post(c, r)
    \/ send_request_(c)
    \/ ReadFails(c)
    \/ ReadHeader(c)
    \/ EndInHeader(c)
    \/ EndOfBody(c)

------------------------------------------------------------------------------
(* The server, in its one thread                                            *)

\* A response without a placed order.
Answer(status) == [status |-> status, id |-> 0, accepted |-> FALSE, resting |-> 0, fills |-> 0]

\* Mutation: the quantity asked for is reported as resting.
PlaceResultAsked(c) ==
    [status |-> 200, id |-> taker.id, accepted |-> TRUE, resting |-> request[c].qty, fills |-> fills]

\* The response for the order that has just been matched.
PlaceResult(c) ==
    [status |-> 200, id |-> taker.id, accepted |-> TRUE, resting |-> taker.qty, fills |-> fills]

\* write_response_ writes as much as the socket takes, and the connection is
\* closed whatever it returns.
write_response_(c, r) ==
    \E n \in IF c \in Faulty THEN 0 .. 3 ELSE {3} :
        reply' = [reply EXCEPT ![c] = [status |-> r.status, id |-> r.id, accepted |-> r.accepted,
                                       resting |-> r.resting, fills |-> r.fills, written |-> n]]

\* Mutation: a price one too high is let through.
RefusalHigh(r) ==
    IF \/ r.ticker = "missing"
       \/ r.side \notin Sides
       \/ r.price \notin 1 .. MaxPrice + 1
       \/ r.qty \notin 1 .. MaxQty
    THEN 400 ELSE IF ~ get_engine(r.ticker) THEN 404 ELSE 200

\* The checks of handle_place_order: the status of a refusal, or 200.
Refusal(r) ==
    IF \/ r.ticker = "missing"
       \/ r.side \notin Sides
       \/ r.price \notin Prices
       \/ r.qty \notin 1 .. MaxQty
    THEN 400 ELSE IF ~ get_engine(r.ticker) THEN 404 ELSE 200

Waiting(c) == serving = {} /\ c \in sent /\ reply[c] = NoReply

\* dispatch_: a route that only answers, or none.
DispatchOther(c) ==
    /\ Waiting(c)
    /\ request[c].route # "orders"
    /\ write_response_(c, Answer(IF request[c].route = "status" THEN 200 ELSE 404))
    /\ UNCHANGED <<vars, api, request, sent, serving, fills, placed>>

\* handle_place_order refuses.
RefuseOrder(c) ==
    /\ Waiting(c)
    /\ request[c].route = "orders"
    /\ Refusal(request[c]) # 200
    /\ write_response_(c, Answer(Refusal(request[c])))
    /\ UNCHANGED <<vars, api, request, sent, serving, fills, placed>>

\* Mutation: the sides are mixed up.
SideSwapped(r) == IF r.side = "YES" THEN "NO" ELSE "YES"

\* The side of an order that has passed the checks.
SideOf(r) == r.side

\* place_limit accepts the order ...
PlaceOrder(c) ==
    /\ Waiting(c)
    /\ request[c].route = "orders"
    /\ Refusal(request[c]) = 200
    /\ Arrive(client_id, SideOf(request[c]), request[c].price, request[c].qty)
    /\ serving' = {c}
    /\ fills' = 0
    /\ placed' = [placed EXCEPT ![c] = nextId]
    /\ UNCHANGED <<api, request, sent, reply>>

\* ... or has no room, which is answered with 200 as well.
NoRoom(c) ==
    /\ Waiting(c)
    /\ request[c].route = "orders"
    /\ Refusal(request[c]) = 200
    /\ Refuse
    /\ write_response_(c, Answer(200))
    /\ UNCHANGED <<api, request, sent, serving, fills, placed>>

\* The order trades ...
MatchOrder(m) ==
    /\ Trade(m)
    /\ fills' = fills + taker.qty - taker'.qty
    /\ UNCHANGED <<api, request, sent, reply, serving, placed>>

\* ... and what is left of it rests; the response is written.
FinishOrder(c) ==
    /\ c \in serving
    /\ Rest \/ Filled
    /\ write_response_(c, PlaceResult(c))
    /\ serving' = {}
    /\ fills' = 0
    /\ UNCHANGED <<api, request, sent, placed>>

\* The server could not register the connection, or reading from it failed.
CloseUnanswered(c) ==
    /\ c \in Faulty
    /\ serving = {}
    /\ api[c] \in {"connected", "writing", "header"}
    /\ reply[c] = NoReply
    /\ reply' = [reply EXCEPT ![c] = [status |-> 0, id |-> 0, accepted |-> FALSE,
                                      resting |-> 0, fills |-> 0, written |-> 0]]
    /\ UNCHANGED <<vars, api, request, sent, serving, fills, placed>>

Server ==
    \/ \E c \in Posters : DispatchOther(c) \/ RefuseOrder(c) \/ PlaceOrder(c) \/ NoRoom(c)
                            \/ FinishOrder(c) \/ CloseUnanswered(c)
    \/ \E m \in resting : MatchOrder(m)

EntryNext == Server \/ \E c \in Posters : Poster(c)

EntrySpec == EntryInit /\ [][EntryNext]_entryVars

------------------------------------------------------------------------------
(* Properties                                                               *)

\* The book holds orders in range only, whatever is posted, and clients,
\* requests and responses are in theirs.
EntryTypeOK ==
    /\ TypeOK
    /\ api \in [Posters -> {"new", "connected", "failed", "writing", "header", "body",
                            "empty", "undefined", "cut", "whole"}]
    /\ request \in [Posters -> Requests]
    /\ sent \subseteq Posters
    /\ serving \subseteq Posters
    /\ fills \in 0 .. MaxQty
    /\ placed \in [Posters -> Nat]
    /\ reply \in [Posters -> Replies \cup {NoReply}]

\* What a poster may conclude from what RestClient returns.  A status of 400 or
\* 404, and a request that could not be sent, mean that nothing was placed, then
\* or later; a whole response that says accepted names the order's id and
\* accounts for its whole quantity.  An empty Response after sending says
\* nothing: the order may be in the book.
ResponseTruthful ==
    \A c \in Posters :
        /\ api[c] \in {"cut", "whole"} /\ reply[c].status # 200 => placed[c] = 0
        /\ c \notin sent => placed[c] = 0
        /\ api[c] = "whole" /\ request[c].route = "orders" /\ reply[c].status = 200 =>
             IF reply[c].accepted
             THEN reply[c].id = placed[c] /\ reply[c].resting + reply[c].fills = request[c].qty
             ELSE placed[c] = 0

\* Every order in the book is the order of exactly one poster, whose request
\* passed all checks, with its side and price and at most its quantity.
OrdersTraced ==
    \A m \in resting :
        \E c \in Posters :
            /\ placed[c] = m.id
            /\ request[c] \in Good
            /\ m.side = request[c].side
            /\ m.price = request[c].price
            /\ m.qty <= request[c].qty
            /\ \A d \in Posters \ {c} : placed[d] # m.id

\* The contracts asked for in the accepted orders of a side, and those its open
\* orders have not traded: contract k of a poster, or of an order.
Asked(s) ==
    {e \in Posters \X (1 .. MaxQty) :
        placed[e[1]] # 0 /\ request[e[1]].side = s /\ e[2] <= request[e[1]].qty}
Left(s) ==
    {e \in ((resting \cup {taker}) \ {None}) \X (1 .. MaxQty) : e[1].side = s /\ e[2] <= e[1].qty}

\* What was bought was sold: the YES orders have traded as many contracts as the
\* NO orders, also while an order is being matched.
BoughtIsSold ==
    Cardinality(Asked("YES")) - Cardinality(Left("YES"))
        = Cardinality(Asked("NO")) - Cardinality(Left("NO"))

\* The order of poster d came later than m, for the same side at no better price.
Behind(d, m) ==
    /\ placed[d] > m.id
    /\ request[d].side = m.side
    /\ IF m.side = "YES" THEN request[d].price <= m.price ELSE request[d].price >= m.price

\* It has all the contracts it was placed for, being matched or resting.
Untouched(d) ==
    \E n \in (resting \cup {taker}) \ {None} : n.id = placed[d] /\ n.qty = request[d].qty

\* Nobody is overtaken: as long as an order is in the book, filled in part or
\* not, no order behind it trades a single contract.  Price-time priority, over
\* a whole history of arrivals and partial fills, from either side of a trade.
PriorityKept == \A m \in resting, d \in Posters : Behind(d, m) => Untouched(d)

\* Client and simulator speak the same protocol: an order as the client writes
\* it, for a market there is and within the limits, is not refused as malformed.
SameProtocol ==
    \A c \in Posters :
        request[c] \in {serialize_action(a) : a \in Actions} /\ reply[c] # NoReply =>
            reply[c].status # 400
==============================================================================
