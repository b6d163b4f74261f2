----------------------------- MODULE RestServer ------------------------------
(***************************************************************************)
(* The simulator's HTTP server (sim/http/rest_server.cpp) in its reactor,  *)
(* with the clients and the sockets it talks to.                           *)
(*                                                                         *)
(* A request is a number of parts; it is complete when exactly Parts of    *)
(* them are buffered (the end of the headers and Content-Length bytes of   *)
(* body).  Descriptors are numbered as the kernel does: accept returns the *)
(* lowest one that is free.                                                *)
(***************************************************************************)
EXTENDS Reactor, Sequences, FiniteSets, FiniteSetsExt

CONSTANTS
    Clients,    \* each makes one connection; numbered in the order they do
    Parts       \* parts that make a request

ASSUME ServerAssumption == Parts \in Nat \ {0} /\ Clients \subseteq Nat

VARIABLES
    connections_,   \* fd -> in_buffer, a sequence of the senders of its parts
    backlog,        \* connections the kernel has not handed out, in order
    owner,          \* open connection fd -> client
    conn,           \* a client's connection: "new", "queued", "open", "closed"
    sent,           \* parts the client has sent
    unread,         \* parts in the server's receive buffer
    fin,            \* the client has closed its side
    served          \* how often the handler ran for the client

clientVars == <<conn, sent, unread, fin>>
serverVars == <<connections_, backlog, owner, served>>
vars == <<interest, ready, callbacks_, pending_removes_, batch, pc, cur,
          connections_, backlog, owner, conn, sent, unread, fin, served>>

Init ==
    /\ ReactorInit
    /\ connections_ = <<>>
    /\ backlog = <<>>
    /\ owner = <<>>
    /\ conn = [c \in Clients |-> "new"]
    /\ sent = [c \in Clients |-> 0]
    /\ unread = [c \in Clients |-> 0]
    /\ fin = [c \in Clients |-> FALSE]
    /\ served = [c \in Clients |-> 0]

With(f, x, y) == [z \in DOMAIN f \cup {x} |-> IF z = x THEN y ELSE f[z]]
Without(f, x) == [z \in DOMAIN f \ {x} |-> f[z]]

------------------------------------------------------------------------------
(* Clients and kernel.                                                      *)

FdsOf(c) == {fd \in DOMAIN owner : owner[fd] = c}
EdgeFor(c) == ready' = ready \cup (FdsOf(c) \cap interest)

Connect(c) ==
    /\ conn[c] = "new"
    /\ \A d \in Clients : d < c => conn[d] # "new"
    /\ conn' = [conn EXCEPT ![c] = "queued"]
    /\ backlog' = Append(backlog, c)
    /\ Edge(Listener)
    /\ UNCHANGED <<interest, callbacks_, pending_removes_, batch, pc, cur,
                   connections_, owner, sent, unread, fin, served>>

Send(c) ==
    /\ conn[c] \in {"queued", "open"}
    /\ ~ fin[c]
    /\ sent[c] < Parts
    /\ sent' = [sent EXCEPT ![c] = @ + 1]
    /\ unread' = [unread EXCEPT ![c] = @ + 1]
    /\ EdgeFor(c)
    /\ UNCHANGED <<interest, callbacks_, pending_removes_, batch, pc, cur,
                   serverVars, conn, fin>>

\* The client closes its side, with or without having sent everything.
Close(c) ==
    /\ conn[c] \in {"queued", "open"}
    /\ ~ fin[c]
    /\ fin' = [fin EXCEPT ![c] = TRUE]
    /\ EdgeFor(c)
    /\ UNCHANGED <<interest, callbacks_, pending_removes_, batch, pc, cur,
                   serverVars, conn, sent, unread>>

------------------------------------------------------------------------------
(* on_listener_event_                                                       *)

FreeFds == Fds \ DOMAIN owner

Accept ==
    LET c  == Head(backlog)
        fd == Min(FreeFds)
    IN  /\ pc = "accept"
        /\ backlog # <<>>
        /\ FreeFds # {}
        /\ backlog' = Tail(backlog)
        /\ owner' = With(owner, fd, c)
        /\ conn' = [conn EXCEPT ![c] = "open"]
        /\ add_fd(fd, unread[c] > 0 \/ fin[c])
        /\ UNCHANGED <<pending_removes_, batch, pc, cur, connections_,
                       sent, unread, fin, served>>

\* fcntl or epoll_ctl ADD fails: the new descriptor is closed again.
AcceptDrop ==
    /\ pc = "accept"
    /\ backlog # <<>>
    /\ FreeFds # {}
    /\ backlog' = Tail(backlog)
    /\ conn' = [conn EXCEPT ![Head(backlog)] = "closed"]
    /\ UNCHANGED <<reactorVars, connections_, owner, sent, unread, fin, served>>

\* accept fails, and the loop goes on: for a connection that is gone already,
\* which leaves the backlog, or for want of a descriptor, which changes nothing.
\* The kernel reserves the descriptor before it looks at the backlog, so the
\* want shows whether or not a connection waits.
AcceptError ==
    /\ pc = "accept"
    /\ \/ /\ FreeFds = {}
          /\ UNCHANGED <<backlog, conn>>
       \/ /\ FreeFds # {}
          /\ backlog # <<>>
          /\ fin[Head(backlog)]
          /\ backlog' = Tail(backlog)
          /\ conn' = [conn EXCEPT ![Head(backlog)] = "closed"]
    /\ UNCHANGED <<reactorVars, connections_, owner, sent, unread, fin, served>>

\* EAGAIN: back to the reactor.
AcceptDone ==
    /\ pc = "accept"
    /\ FreeFds # {}
    /\ backlog = <<>>
    /\ pc' = "dispatch"
    /\ UNCHANGED <<interest, ready, callbacks_, pending_removes_, batch, cur,
                   serverVars, clientVars>>

------------------------------------------------------------------------------
(* on_connection_event_, called for cur                                     *)

peer == owner[cur]
in_buffer == IF cur \in DOMAIN connections_ THEN connections_[cur] ELSE <<>>

\* Mutations: a request is taken for complete too late, or at its first part.
CompleteLate(buffer) == Len(buffer) > Parts
CompleteEarly(buffer) == buffer # <<>>

\* parse_request returns a request.
Complete(buffer) == Len(buffer) = Parts

\* Mutation: the buffer of a closed connection is kept.
CloseKeepsBuffer ==
    /\ remove_fd(cur)
    /\ owner' = Without(owner, cur)
    /\ UNCHANGED connections_
    /\ conn' = [conn EXCEPT ![peer] = "closed"]
    /\ pc' = "dispatch"

close_connection_ ==
    /\ remove_fd(cur)
    /\ owner' = Without(owner, cur)
    /\ connections_' = Without(connections_, cur)
    /\ conn' = [conn EXCEPT ![peer] = "closed"]
    /\ pc' = "dispatch"

\* Mutation: the callback reads once and not until EAGAIN.
ReadMoreOnce(n) ==
    LET buffer == in_buffer \o [i \in 1 .. n |-> peer]
    IN  /\ pc = "read"
        /\ n <= unread[peer]
        /\ ~ Complete(buffer)
        /\ unread' = [unread EXCEPT ![peer] = @ - n]
        /\ connections_' = With(connections_, cur, buffer)
        /\ pc' = "dispatch"
        /\ UNCHANGED <<interest, ready, callbacks_, pending_removes_, batch, cur,
                       backlog, owner, conn, sent, fin, served>>

\* read returns n parts, not enough yet: the loop goes on.
ReadMore(n) ==
    LET buffer == in_buffer \o [i \in 1 .. n |-> peer]
    IN  /\ pc = "read"
        /\ n <= unread[peer]
        /\ ~ Complete(buffer)
        /\ unread' = [unread EXCEPT ![peer] = @ - n]
        /\ connections_' = With(connections_, cur, buffer)
        /\ UNCHANGED <<reactorVars, backlog, owner, conn, sent, fin, served>>

\* read completes the request: it is dispatched, the response is written and
\* the connection closed.  The result of write_response_ is not looked at: the
\* connection is closed also when the socket took only a part.
ReadRequest(n) ==
    LET buffer == in_buffer \o [i \in 1 .. n |-> peer]
    IN  /\ pc = "read"
        /\ n <= unread[peer]
        /\ Complete(buffer)
        /\ unread' = [unread EXCEPT ![peer] = @ - n]
        /\ served' = [served EXCEPT ![peer] = @ + 1]
        /\ close_connection_
        /\ UNCHANGED <<callbacks_, batch, cur, backlog, sent, fin>>

\* Mutation: the end of the stream is read again and again.
ReadEndAgain ==
    /\ pc = "read"
    /\ fin[peer]
    /\ UNCHANGED vars

\* read returns 0, when all is read, or an error, which a reset by the client
\* causes whatever is unread: the connection is closed.
ReadEnd ==
    /\ pc = "read"
    /\ fin[peer]
    /\ close_connection_
    /\ UNCHANGED <<callbacks_, batch, cur, backlog, sent, unread, fin, served>>

\* EAGAIN: back to the reactor.
ReadDone ==
    /\ pc = "read"
    /\ unread[peer] = 0
    /\ ~ fin[peer]
    /\ pc' = "dispatch"
    /\ UNCHANGED <<interest, ready, callbacks_, pending_removes_, batch, cur,
                   serverVars, clientVars>>

------------------------------------------------------------------------------

Run ==
    /\ epoll_wait \/ EndBatch \/ \E fd \in batch : Dispatch(fd)
    /\ UNCHANGED <<serverVars, clientVars>>

Server ==
    \/ Run
    \/ Accept
    \/ AcceptDrop
    \/ AcceptError
    \/ AcceptDone
    \/ \E n \in 1 .. Parts : ReadMore(n) \/ ReadRequest(n)
    \/ ReadEnd
    \/ ReadDone

Next == Server \/ \E c \in Clients : Connect(c) \/ Send(c) \/ Close(c)

\* The server's thread runs; clients are free to stop.
Spec == Init /\ [][Next]_vars /\ WF_vars(Server)

------------------------------------------------------------------------------
(* Properties                                                               *)

\* Descriptors, buffers and client states stay in their ranges; in particular
\* no buffer that is kept holds a complete request.
TypeOK ==
    /\ interest \subseteq Fds \cup {Listener}
    /\ ready \subseteq interest
    /\ callbacks_ \subseteq Fds \cup {Listener}
    /\ pending_removes_ \subseteq Fds
    /\ batch \subseteq Fds \cup {Listener}
    /\ pc \in {"wait", "dispatch", "accept", "read"}
    /\ cur \in Fds \cup {Listener}
    /\ DOMAIN connections_ \subseteq Fds
    /\ \A fd \in DOMAIN connections_ :
          Len(connections_[fd]) < Parts /\ \A i \in DOMAIN connections_[fd] : connections_[fd][i] \in Clients
    /\ \A i \in DOMAIN backlog : backlog[i] \in Clients
    /\ DOMAIN owner \subseteq Fds
    /\ \A fd \in DOMAIN owner : owner[fd] \in Clients
    /\ conn \in [Clients -> {"new", "queued", "open", "closed"}]
    /\ sent \in [Clients -> 0 .. Parts]
    /\ unread \in [Clients -> 0 .. Parts]
    /\ fin \in [Clients -> BOOLEAN]
    /\ served \in [Clients -> Nat]

\* A descriptor that is reused starts with an empty buffer: what is buffered
\* for a descriptor came from the client that has it now, and is, with what
\* the kernel still holds, all that client sent.
BuffersOwn ==
    \A fd \in DOMAIN connections_ :
        /\ fd \in DOMAIN owner
        /\ \A i \in DOMAIN connections_[fd] : connections_[fd][i] = owner[fd]
        /\ Len(connections_[fd]) + unread[owner[fd]] = sent[owner[fd]]

\* The handler, which may place an order, runs at most once for a client and
\* only for a request that was sent completely.
ServedOnce == \A c \in Clients : served[c] <= 1 /\ (served[c] = 1 => sent[c] = Parts)

\* Edges are not lost: whenever the thread blocks in epoll_wait, every
\* connection that has a callback and something to read, and the listener when
\* connections wait, is in the set epoll_wait will report.
NoLostEdge ==
    pc = "wait" =>
        /\ backlog # <<>> => Listener \in ready
        /\ \A fd \in DOMAIN owner \cap callbacks_ :
              unread[owner[fd]] > 0 \/ fin[owner[fd]] => fd \in ready

\* Whenever the thread blocks in epoll_wait, the registered descriptors are
\* the open ones, and callbacks and buffers exist for open ones only.
NothingLeftBehind ==
    pc = "wait" =>
        /\ interest = DOMAIN owner \cup {Listener}
        /\ callbacks_ \subseteq interest
        /\ DOMAIN connections_ \subseteq DOMAIN owner

\* The thread comes back to epoll_wait: no callback loops for ever, with the one
\* exception of the accept loop once the last descriptor is taken, where accept
\* fails with another error than EAGAIN and is retried at once.
ReturnsToWait == pc # "wait" ~> pc = "wait" \/ (pc = "accept" /\ FreeFds = {})

\* A client that has sent its whole request, in however many parts, is answered
\* and its connection closed (or closed only, if it could not be registered).
Answered == \A c \in Clients : sent[c] = Parts ~> conn[c] = "closed"
==============================================================================
