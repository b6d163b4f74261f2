--------------------------- MODULE RestServerProofs ---------------------------
(***************************************************************************)
(* Proofs about RestServer, for any number of clients, descriptors and     *)
(* parts of a request.  None of the invariants is inductive alone: that a  *)
(* callback only ever runs for an open descriptor is a fact about the      *)
(* batch, what is left behind a fact about the pending removals, and edges *)
(* are in one of three places while the loop runs.                         *)
(***************************************************************************)
EXTENDS RestServer, SequenceTheorems, WellFoundedInduction, TLAPS

\* Descriptors: epoll watches the open ones, and callbacks of others are on
\* their way out.
Registered ==
    /\ interest = DOMAIN owner \cup {Listener}
    /\ ready \subseteq interest
    /\ batch \subseteq interest
    /\ pending_removes_ \subseteq Fds
    /\ Listener \in callbacks_
    /\ callbacks_ \subseteq interest \cup pending_removes_

\* Where the thread is.
Loop ==
    /\ pc \in {"wait", "dispatch", "accept", "read"}
    /\ cur \in Fds \cup {Listener}
    /\ pc = "wait" => batch = {} /\ pending_removes_ = {}
    /\ pc = "read" => cur \in DOMAIN owner /\ cur \notin batch

\* A client has one descriptor at most, and a buffer is its own.
Owned ==
    /\ DOMAIN owner \subseteq Fds
    /\ owner \in [DOMAIN owner -> Clients]
    /\ \A fd \in DOMAIN owner : conn[owner[fd]] = "open"
    /\ \A f, g \in DOMAIN owner : owner[f] = owner[g] => f = g
    /\ DOMAIN connections_ \subseteq DOMAIN owner
    /\ connections_ \in [DOMAIN connections_ -> Seq(Clients)]
    /\ \A fd \in DOMAIN connections_ :
          /\ Len(connections_[fd]) < Parts
          /\ \A i \in 1 .. Len(connections_[fd]) : connections_[fd][i] = owner[fd]

\* A client waits once.
Queued ==
    /\ backlog \in Seq(Clients)
    /\ \A i \in 1 .. Len(backlog) : conn[backlog[i]] = "queued"
    /\ \A i, j \in 1 .. Len(backlog) : backlog[i] = backlog[j] => i = j

Buffered(fd) == IF fd \in DOMAIN connections_ THEN Len(connections_[fd]) ELSE 0

\* Parts are neither lost nor doubled, and served clients are gone.
Counted ==
    /\ conn \in [Clients -> {"new", "queued", "open", "closed"}]
    /\ sent \in [Clients -> 0 .. Parts]
    /\ unread \in [Clients -> 0 .. Parts]
    /\ fin \in [Clients -> BOOLEAN]
    /\ served \in [Clients -> {0, 1}]
    /\ \A c \in Clients : unread[c] <= sent[c]
    /\ \A c \in Clients : conn[c] \in {"new", "queued"} => unread[c] = sent[c]
    /\ \A fd \in DOMAIN owner : Buffered(fd) + unread[owner[fd]] = sent[owner[fd]]
    /\ \A c \in Clients : conn[c] # "closed" => served[c] = 0
    /\ \A c \in Clients : served[c] = 1 => sent[c] = Parts

Readable(c) == unread[c] > 0 \/ fin[c] = TRUE

\* What is there to read will be reported, or is being read.
Edges ==
    /\ backlog # <<>> => Listener \in ready \cup batch \/ pc = "accept"
    /\ \A fd \in DOMAIN owner \cap callbacks_ :
          Readable(owner[fd]) => fd \in ready \cup batch \/ (pc = "read" /\ cur = fd)

SInv == Registered /\ Loop /\ Owned /\ Queued /\ Counted /\ Edges

------------------------------------------------------------------------------
(* The lowest descriptor and the buffers.                                   *)

\* accept has a lowest free descriptor to return.
LEMMA LowestFree ==
    ASSUME FreeFds # {}
    PROVE  Min(FreeFds) \in FreeFds
<1>1. \E x \in FreeFds : \A y \in FreeFds : ~ (<<y, x>> \in OpToRel(<, Nat))
  <2>1. FreeFds \subseteq Nat
    BY ReactorAssumption DEF FreeFds, Fds
  <2>. QED
    BY Zenon, <2>1, WFMin, NatLessThanWellFounded
<1>2. \E x \in FreeFds : \A y \in FreeFds : x <= y
  <2>1. FreeFds \subseteq Nat
    BY ReactorAssumption DEF FreeFds, Fds
  <2>2. ASSUME NEW x \in Nat, NEW y \in Nat, ~ (<<y, x>> \in OpToRel(<, Nat)) PROVE x <= y
    <3>1. <<y, x>> \in Nat \X Nat /\ <<y, x>>[1] = y /\ <<y, x>>[2] = x
      OBVIOUS
    <3>2. ~ (y < x)
      BY <2>2, <3>1 DEF OpToRel
    <3>. QED
      BY <3>2
  <2>3. PICK x \in FreeFds : \A y \in FreeFds : ~ (<<y, x>> \in OpToRel(<, Nat))
    BY Zenon, <1>1
  <2>4. \A y \in FreeFds : x <= y
    BY Zenon, <2>1, <2>2, <2>3
  <2>. QED
    BY <2>4
<1>. QED
  BY <1>2 DEF Min

\* A read appends parts of the peer to the buffer.
LEMMA Grown ==
    ASSUME NEW c \in Clients, NEW s \in Seq(Clients), NEW n \in Nat,
           \A i \in 1 .. Len(s) : s[i] = c
    PROVE  /\ (s \o [i \in 1 .. n |-> c]) \in Seq(Clients)
           /\ Len(s \o [i \in 1 .. n |-> c]) = Len(s) + n
           /\ \A j \in 1 .. Len(s) + n : (s \o [i \in 1 .. n |-> c])[j] = c
<1>. DEFINE t == [i \in 1 .. n |-> c]
<1>1. t \in Seq(Clients) /\ Len(t) = n /\ \A i \in 1 .. n : t[i] = c
  OBVIOUS
<1>. HIDE DEF t
<1>2. /\ s \o t \in Seq(Clients)
      /\ Len(s \o t) = Len(s) + n
      /\ \A j \in 1 .. Len(s) + n : (s \o t)[j] = IF j <= Len(s) THEN s[j] ELSE t[j - Len(s)]
  BY Zenon, <1>1, ConcatProperties
<1>3. ASSUME NEW j \in 1 .. Len(s) + n PROVE (s \o t)[j] = c
  <2>1. Len(s) \in Nat
    OBVIOUS
  <2>2. CASE j <= Len(s)
    BY <1>2, <2>1, <2>2
  <2>3. CASE ~ (j <= Len(s))
    <3>1. j - Len(s) \in 1 .. n
      BY <2>1, <2>3
    <3>. QED
      BY <1>1, <1>2, <2>3, <3>1
  <2>. QED
    BY Zenon, <2>2, <2>3
<1>. QED
  BY <1>2, <1>3 DEF t

------------------------------------------------------------------------------
(* Clients.                                                                 *)

\* The invariant is about the variables only.
LEMMA Stutter ==
    ASSUME SInv, UNCHANGED vars
    PROVE  SInv'
<1>1. /\ interest' = interest /\ ready' = ready /\ callbacks_' = callbacks_
      /\ pending_removes_' = pending_removes_ /\ batch' = batch /\ pc' = pc /\ cur' = cur
      /\ connections_' = connections_ /\ backlog' = backlog /\ owner' = owner /\ conn' = conn
      /\ sent' = sent /\ unread' = unread /\ fin' = fin /\ served' = served
  BY Zenon DEF vars
<1>2. Registered' /\ Loop'
  BY Zenon, <1>1 DEF SInv, Registered, Loop
<1>3. Owned'
  BY Zenon, <1>1 DEF SInv, Owned
<1>4. Queued' /\ Edges'
  BY Zenon, <1>1 DEF SInv, Queued, Edges, Readable
<1>5. Counted'
  <2>1. (\A fd : Buffered(fd)' = Buffered(fd)) /\ Counted
    BY Zenon, <1>1 DEF SInv, Buffered
  <2>. QED
    BY Zenon, <1>1, <2>1 DEF Counted
<1>. QED
  BY Zenon, <1>2, <1>3, <1>4, <1>5 DEF SInv

\* A client that connects is queued behind the others and the listener gets
\* its edge.
LEMMA ConnectInv ==
    ASSUME SInv, NEW c \in Clients, Connect(c)
    PROVE  SInv'
<1>1. /\ conn[c] = "new"
      /\ conn' = [conn EXCEPT ![c] = "queued"]
      /\ backlog' = Append(backlog, c)
      /\ ready' = ready \cup {Listener}
      /\ UNCHANGED <<interest, callbacks_, pending_removes_, batch, pc, cur,
                     connections_, owner, sent, unread, fin, served>>
  BY DEF Connect, Edge, SInv, Registered
<1>2. Registered' /\ Loop'
  BY <1>1 DEF SInv, Registered, Loop
<1>3. conn \in [Clients -> {"new", "queued", "open", "closed"}] /\ backlog \in Seq(Clients)
  BY DEF SInv, Counted, Queued
<1>4. \A x \in Clients \ {c} : conn'[x] = conn[x]
  BY <1>1, <1>3
<1>5. conn'[c] = "queued" /\ conn' \in [Clients -> {"new", "queued", "open", "closed"}]
  BY <1>1, <1>3
<1>6. Owned'
  <2>1. \A fd \in DOMAIN owner : owner[fd] # c /\ owner[fd] \in Clients
    BY <1>1 DEF SInv, Owned
  <2>2. \A fd \in DOMAIN owner : conn'[owner[fd]] = "open"
    BY <1>4, <2>1 DEF SInv, Owned
  <2>. QED
    BY <1>1, <2>2 DEF SInv, Owned
<1>7. Queued'
  <2>1. /\ backlog' \in Seq(Clients) /\ Len(backlog') = Len(backlog) + 1 /\ Len(backlog) \in Nat
        /\ \A i \in 1 .. Len(backlog) : backlog'[i] = backlog[i] /\ backlog[i] \in Clients
        /\ backlog'[Len(backlog) + 1] = c
    BY <1>1, <1>3, AppendProperties
  <2>2. \A i \in 1 .. Len(backlog) : backlog[i] # c /\ conn'[backlog[i]] = "queued"
    BY <1>1, <1>4, <2>1 DEF SInv, Queued
  <2>3. \A i \in 1 .. Len(backlog') : i = Len(backlog) + 1 \/ i \in 1 .. Len(backlog)
    BY <2>1
  <2>4. \A i \in 1 .. Len(backlog') : conn'[backlog'[i]] = "queued"
    BY <1>5, <2>1, <2>2, <2>3
  <2>5. \A i, j \in 1 .. Len(backlog') : backlog'[i] = backlog'[j] => i = j
    BY <2>1, <2>2, <2>3 DEF SInv, Queued
  <2>. QED
    BY <2>1, <2>4, <2>5 DEF Queued
<1>8. Counted'
  <2>1. \A x \in Clients : conn'[x] \in {"new", "queued"} => unread[x] = sent[x]
    BY <1>1, <1>4 DEF SInv, Counted
  <2>2. \A x \in Clients : conn'[x] # "closed" => served[x] = 0
    BY <1>1, <1>4 DEF SInv, Counted
  <2>. QED
    BY <1>1, <1>5, <2>1, <2>2 DEF SInv, Counted, Buffered
<1>9. Edges'
  BY <1>1 DEF SInv, Edges, Readable
<1>. QED
  BY <1>2, <1>6, <1>7, <1>8, <1>9 DEF SInv

\* A part that is sent waits to be read, and its descriptor gets an edge.
LEMMA SendInv ==
    ASSUME SInv, NEW c \in Clients, Send(c)
    PROVE  SInv'
<1>1. /\ conn[c] \in {"queued", "open"}
      /\ sent[c] < Parts
      /\ sent' = [sent EXCEPT ![c] = @ + 1]
      /\ unread' = [unread EXCEPT ![c] = @ + 1]
      /\ ready' = ready \cup (FdsOf(c) \cap interest)
      /\ UNCHANGED <<interest, callbacks_, pending_removes_, batch, pc, cur,
                     connections_, backlog, owner, served, conn, fin>>
  BY DEF Send, EdgeFor, serverVars
<1>2. /\ sent \in [Clients -> 0 .. Parts] /\ unread \in [Clients -> 0 .. Parts]
      /\ Parts \in Nat
  BY ServerAssumption DEF SInv, Counted
<1>3. /\ sent'[c] = sent[c] + 1 /\ unread'[c] = unread[c] + 1
      /\ \A x \in Clients \ {c} : sent'[x] = sent[x] /\ unread'[x] = unread[x]
  BY <1>1, <1>2
<1>4. \A x \in Clients : unread'[x] <= sent'[x]
  BY <1>2, <1>3 DEF SInv, Counted
<1>5. sent' \in [Clients -> 0 .. Parts] /\ unread' \in [Clients -> 0 .. Parts]
  BY <1>1, <1>2 DEF SInv, Counted
<1>6. Registered' /\ Loop' /\ Owned' /\ Queued'
  BY <1>1 DEF SInv, Registered, Loop, Owned, Queued
<1>7. Counted'
  <2>1. \A x \in Clients : conn[x] \in {"new", "queued"} => unread'[x] = sent'[x]
    BY <1>2, <1>3 DEF SInv, Counted
  <2>2. ASSUME NEW fd \in DOMAIN owner
        PROVE  Buffered(fd) + unread'[owner[fd]] = sent'[owner[fd]]
    <3>1. Buffered(fd) \in Nat /\ owner[fd] \in Clients
      BY DEF SInv, Owned, Buffered
    <3>2. Buffered(fd) + unread[owner[fd]] = sent[owner[fd]]
      BY DEF SInv, Counted
    <3>. QED
      BY <1>2, <1>3, <3>1, <3>2
  <2>3. \A x \in Clients : served[x] = 1 => sent'[x] = Parts
    BY <1>1, <1>3 DEF SInv, Counted
  <2>4. \A fd \in DOMAIN owner : Buffered(fd)' = Buffered(fd)
    BY <1>1 DEF Buffered
  <2>. QED
    BY <1>1, <1>4, <1>5, <2>1, <2>2, <2>3, <2>4 DEF SInv, Counted
<1>8. Edges'
  <2>1. ASSUME NEW fd \in DOMAIN owner \cap callbacks_, Readable(owner[fd])'
        PROVE  fd \in ready' \cup batch \/ (pc = "read" /\ cur = fd)
    <3>1. CASE owner[fd] = c
      BY <1>1, <3>1 DEF SInv, Registered, FdsOf
    <3>2. CASE owner[fd] # c
      <4>1. Readable(owner[fd])
        BY <1>1, <1>3, <2>1, <3>2 DEF Readable, SInv, Owned
      <4>. QED
        BY <1>1, <4>1 DEF SInv, Edges
    <3>. QED
      BY <3>1, <3>2
  <2>. QED
    BY <1>1, <2>1 DEF SInv, Edges
<1>. QED
  BY <1>6, <1>7, <1>8 DEF SInv

\* A close is an edge too.
LEMMA CloseInv ==
    ASSUME SInv, NEW c \in Clients, Close(c)
    PROVE  SInv'
<1>1. /\ fin' = [fin EXCEPT ![c] = TRUE]
      /\ ready' = ready \cup (FdsOf(c) \cap interest)
      /\ UNCHANGED <<interest, callbacks_, pending_removes_, batch, pc, cur,
                     connections_, backlog, owner, served, conn, sent, unread>>
  BY DEF Close, EdgeFor, serverVars
<1>2. fin \in [Clients -> BOOLEAN]
  BY DEF SInv, Counted
<1>3. fin' \in [Clients -> BOOLEAN] /\ \A x \in Clients \ {c} : fin'[x] = fin[x]
  BY <1>1, <1>2
<1>4. Registered' /\ Loop' /\ Owned' /\ Queued'
  BY <1>1 DEF SInv, Registered, Loop, Owned, Queued
<1>5. Counted'
  BY <1>1, <1>3 DEF SInv, Counted, Buffered
<1>6. Edges'
  <2>1. ASSUME NEW fd \in DOMAIN owner \cap callbacks_, Readable(owner[fd])'
        PROVE  fd \in ready' \cup batch \/ (pc = "read" /\ cur = fd)
    <3>1. CASE owner[fd] = c
      BY <1>1, <3>1 DEF SInv, Registered, FdsOf
    <3>2. CASE owner[fd] # c
      <4>1. Readable(owner[fd])
        BY <1>1, <1>3, <2>1, <3>2 DEF Readable, SInv, Owned
      <4>. QED
        BY <1>1, <4>1 DEF SInv, Edges
    <3>. QED
      BY <3>1, <3>2
  <2>. QED
    BY <1>1, <2>1 DEF SInv, Edges
<1>. QED
  BY <1>4, <1>5, <1>6 DEF SInv

------------------------------------------------------------------------------
(* The event loop.                                                          *)

\* epoll_wait, the dispatch of an event and the end of a batch.
LEMMA RunInv ==
    ASSUME SInv, Run
    PROVE  SInv'
<1>1. UNCHANGED <<connections_, backlog, owner, served, conn, sent, unread, fin>>
  BY DEF Run, serverVars, clientVars
<1>2. Owned' /\ Queued' /\ Counted'
  BY <1>1 DEF SInv, Owned, Queued, Counted, Buffered
<1>3. CASE epoll_wait
  <2>1. Registered' /\ Loop'
    BY <1>1, <1>3 DEF SInv, Registered, Loop, epoll_wait
  <2>2. Edges'
    BY <1>1, <1>3 DEF SInv, Loop, Edges, Readable, epoll_wait
  <2>. QED
    BY <1>2, <2>1, <2>2 DEF SInv
<1>4. CASE EndBatch
  <2>1. Registered' /\ Loop'
    BY Zenon, <1>1, <1>4, ReactorAssumption DEF SInv, Registered, Loop, EndBatch, Fds
  <2>2. Edges'
    BY <1>1, <1>4 DEF SInv, Edges, Readable, EndBatch
  <2>. QED
    BY <1>2, <2>1, <2>2 DEF SInv
<1>5. ASSUME NEW fd \in batch, Dispatch(fd) PROVE SInv'
  <2>1. /\ pc = "dispatch" /\ batch' = batch \ {fd}
        /\ UNCHANGED <<interest, ready, callbacks_, pending_removes_>>
    BY <1>5 DEF Dispatch
  <2>2. fd \in DOMAIN owner \cup {Listener} /\ DOMAIN owner \subseteq Fds /\ Listener \notin Fds
    BY <1>5, ReactorAssumption DEF SInv, Registered, Owned, Fds
  <2>3. Registered'
    BY <1>1, <2>1 DEF SInv, Registered
  <2>4. Loop'
    BY <1>1, <1>5, <2>1, <2>2 DEF SInv, Loop, Dispatch
  <2>5. Edges'
    BY <1>1, <1>5, <2>1, <2>2 DEF SInv, Registered, Edges, Readable, Dispatch
  <2>. QED
    BY <1>2, <2>3, <2>4, <2>5 DEF SInv
<1>. QED
  BY <1>3, <1>4, <1>5 DEF Run

------------------------------------------------------------------------------
(* on_listener_event_                                                       *)

\* A connection that leaves the backlog, whatever becomes of it.
LEMMA Dequeue ==
    ASSUME SInv, NEW st \in {"open", "closed"}, backlog # <<>>,
           backlog' = Tail(backlog), conn' = [conn EXCEPT ![Head(backlog)] = st]
    PROVE  /\ Head(backlog) \in Clients
           /\ conn[Head(backlog)] = "queued"
           /\ conn'[Head(backlog)] = st
           /\ \A x \in Clients \ {Head(backlog)} : conn'[x] = conn[x]
           /\ conn' \in [Clients -> {"new", "queued", "open", "closed"}]
           /\ Queued'
           /\ \A fd \in DOMAIN owner : owner[fd] # Head(backlog) /\ conn'[owner[fd]] = "open"
           /\ \A x \in Clients : conn'[x] \in {"new", "queued"} => unread[x] = sent[x]
<1>. DEFINE c == Head(backlog)
<1>1. backlog \in Seq(Clients) /\ conn \in [Clients -> {"new", "queued", "open", "closed"}]
  BY DEF SInv, Queued, Counted
<1>2. Len(backlog) \in Nat \ {0} /\ c = backlog[1] /\ c \in Clients
  BY <1>1
<1>3. conn[c] = "queued"
  BY <1>2 DEF SInv, Queued
<1>. HIDE DEF c
<1>4. conn' = [conn EXCEPT ![c] = st]
  BY DEF c
<1>5. /\ conn'[c] = st /\ conn' \in [Clients -> {"new", "queued", "open", "closed"}]
      /\ \A x \in Clients \ {c} : conn'[x] = conn[x]
  BY <1>1, <1>2, <1>4
<1>6. Queued'
  <2>1. /\ backlog' \in Seq(Clients) /\ Len(backlog') = Len(backlog) - 1
        /\ \A i \in 1 .. Len(backlog') : backlog'[i] = backlog[i + 1]
    BY <1>1, HeadTailProperties
  <2>2. \A i \in 1 .. Len(backlog') : i + 1 \in 1 .. Len(backlog) /\ i + 1 # 1
    BY <1>2, <2>1
  <2>3. \A i \in 1 .. Len(backlog') : conn'[backlog'[i]] = "queued"
    <3>1. SUFFICES ASSUME NEW i \in 1 .. Len(backlog') PROVE conn'[backlog'[i]] = "queued"
      OBVIOUS
    <3>2. backlog[i + 1] \in Clients /\ conn[backlog[i + 1]] = "queued"
      BY <1>1, <2>2 DEF SInv, Queued
    <3>3. 1 \in 1 .. Len(backlog)
      BY <1>2
    <3>4. backlog[i + 1] # c
      BY <1>2, <2>2, <3>3 DEF SInv, Queued
    <3>. QED
      BY <1>5, <2>1, <3>2, <3>4
  <2>4. \A i, j \in 1 .. Len(backlog') : backlog'[i] = backlog'[j] => i = j
    <3>1. SUFFICES ASSUME NEW i \in 1 .. Len(backlog'), NEW j \in 1 .. Len(backlog'),
                          backlog'[i] = backlog'[j]
                   PROVE  i = j
      OBVIOUS
    <3>2. i + 1 = j + 1
      BY <2>1, <2>2, <3>1 DEF SInv, Queued
    <3>. QED
      BY <3>2
  <2>. QED
    BY <2>1, <2>3, <2>4 DEF Queued
<1>7. \A fd \in DOMAIN owner : owner[fd] # c /\ conn'[owner[fd]] = "open"
  BY <1>3, <1>5 DEF SInv, Owned
<1>8. \A x \in Clients : conn'[x] \in {"new", "queued"} => unread[x] = sent[x]
  BY <1>5 DEF SInv, Counted
<1>. QED
  BY <1>2, <1>3, <1>5, <1>6, <1>7, <1>8 DEF c

\* A connection that is dropped before it is registered leaves nothing.
LEMMA AcceptDropped ==
    ASSUME SInv, pc = "accept", backlog # <<>>, backlog' = Tail(backlog),
           conn' = [conn EXCEPT ![Head(backlog)] = "closed"],
           UNCHANGED <<reactorVars, connections_, owner, sent, unread, fin, served>>
    PROVE  SInv'
<1>1. /\ \A x \in Clients \ {Head(backlog)} : conn'[x] = conn[x]
      /\ conn'[Head(backlog)] = "closed"
      /\ conn' \in [Clients -> {"new", "queued", "open", "closed"}]
      /\ Queued'
      /\ \A fd \in DOMAIN owner : conn'[owner[fd]] = "open"
      /\ \A x \in Clients : conn'[x] \in {"new", "queued"} => unread[x] = sent[x]
  BY Dequeue
<1>2. Registered' /\ Loop'
  BY Zenon DEF SInv, Registered, Loop, reactorVars
<1>3. Owned'
  BY SMTT(30), <1>1 DEF SInv, Owned
<1>4. Counted'
  <2>1. \A x \in Clients : conn'[x] # "closed" => served[x] = 0
    BY <1>1 DEF SInv, Counted
  <2>. QED
    BY <1>1, <2>1 DEF SInv, Counted, Buffered
<1>5. Edges'
  BY DEF SInv, Edges, Readable, reactorVars
<1>. QED
  BY Zenon, <1>1, <1>2, <1>3, <1>4, <1>5 DEF SInv

\* The accepted connection gets the lowest free descriptor, no buffer yet, and
\* an edge when something has arrived already.
LEMMA AcceptInv ==
    ASSUME SInv, Accept
    PROVE  SInv'
<1>. DEFINE c == Head(backlog)
            fd == Min(FreeFds)
<1>1. /\ pc = "accept" /\ backlog # <<>> /\ FreeFds # {}
      /\ backlog' = Tail(backlog)
      /\ owner' = With(owner, fd, c)
      /\ conn' = [conn EXCEPT ![c] = "open"]
      /\ interest' = interest \cup {fd}
      /\ ready' = IF unread[c] > 0 \/ fin[c] THEN ready \cup {fd} ELSE ready
      /\ callbacks_' = callbacks_ \cup {fd}
      /\ UNCHANGED <<pending_removes_, batch, pc, cur, connections_,
                     sent, unread, fin, served>>
  BY DEF Accept, add_fd
<1>2. fd \in Fds /\ fd \notin DOMAIN owner
  BY Zenon, <1>1, LowestFree DEF FreeFds
<1>3. /\ c \in Clients /\ conn[c] = "queued" /\ conn'[c] = "open"
      /\ \A x \in Clients \ {c} : conn'[x] = conn[x]
      /\ conn' \in [Clients -> {"new", "queued", "open", "closed"}]
      /\ Queued'
      /\ \A f \in DOMAIN owner : owner[f] # c /\ conn'[owner[f]] = "open"
      /\ \A x \in Clients : conn'[x] \in {"new", "queued"} => unread[x] = sent[x]
  BY Zenon, <1>1, Dequeue
<1>. HIDE DEF c, fd
<1>4. /\ DOMAIN owner' = DOMAIN owner \cup {fd}
      /\ owner'[fd] = c
      /\ \A f \in DOMAIN owner : owner'[f] = owner[f]
      /\ owner' = [f \in DOMAIN owner \cup {fd} |-> owner'[f]]
  BY <1>1, <1>2 DEF With
<1>5. Registered'
  BY <1>1, <1>2, <1>4 DEF SInv, Registered
<1>6. Loop'
  BY <1>1, <1>4 DEF SInv, Loop
<1>7. Owned'
  <2>1. \A f \in DOMAIN owner' : owner'[f] \in Clients /\ conn'[owner'[f]] = "open"
    BY <1>3, <1>4 DEF SInv, Owned
  <2>2. owner' \in [DOMAIN owner' -> Clients]
    BY <1>4, <2>1
  <2>3. \A f, g \in DOMAIN owner' : owner'[f] = owner'[g] => f = g
    BY <1>3, <1>4 DEF SInv, Owned
  <2>4. DOMAIN owner' \subseteq Fds
    BY <1>2, <1>4 DEF SInv, Owned
  <2>5. /\ DOMAIN connections_ \subseteq DOMAIN owner'
        /\ \A f \in DOMAIN connections_ : owner'[f] = owner[f]
    BY <1>4 DEF SInv, Owned
  <2>6. \A f \in DOMAIN connections_ :
            /\ Len(connections_[f]) < Parts
            /\ \A i \in 1 .. Len(connections_[f]) : connections_[f][i] = owner'[f]
    BY <2>5 DEF SInv, Owned
  <2>7. connections_' = connections_
    BY Zenon, <1>1
  <2>. QED
    BY <2>1, <2>2, <2>3, <2>4, <2>5, <2>6, <2>7 DEF SInv, Owned
<1>8. Counted'
  <2>1. fd \notin DOMAIN connections_
    BY <1>2 DEF SInv, Owned
  <2>2. \A f \in DOMAIN owner' : Buffered(f) + unread[owner'[f]] = sent[owner'[f]]
    <3>1. SUFFICES ASSUME NEW f \in DOMAIN owner'
                   PROVE  Buffered(f) + unread[owner'[f]] = sent[owner'[f]]
      OBVIOUS
    <3>2. CASE f = fd
      <4>1. Buffered(f) = 0 /\ unread[c] = sent[c] /\ unread[c] \in Int
        BY <1>3, <2>1, <3>2 DEF SInv, Counted, Buffered
      <4>. QED
        BY <1>4, <3>2, <4>1
    <3>3. CASE f \in DOMAIN owner
      BY Zenon, <1>4, <3>3 DEF SInv, Counted
    <3>. QED
      BY Zenon, <1>4, <3>2, <3>3
  <2>3. \A f \in DOMAIN owner' : Buffered(f)' = Buffered(f)
    BY <1>1 DEF Buffered
  <2>4. \A x \in Clients : conn'[x] # "closed" => served[x] = 0
    BY Zenon, <1>3 DEF SInv, Counted
  <2>. QED
    <3>1. /\ sent' = sent /\ unread' = unread /\ fin' = fin /\ served' = served
          /\ \A f \in DOMAIN owner' : Buffered(f)' + unread[owner'[f]] = sent[owner'[f]]
      BY Zenon, <1>1, <2>2, <2>3
    <3>2. /\ conn' \in [Clients -> {"new", "queued", "open", "closed"}]
          /\ \A x \in Clients : conn'[x] \in {"new", "queued"} => unread[x] = sent[x]
      BY <1>1, <1>3 DEF SInv, Counted
    <3>. QED
      BY Zenon, <2>4, <3>1, <3>2 DEF SInv, Counted
<1>9. Edges'
  <2>1. ASSUME NEW f \in DOMAIN owner' \cap callbacks_', Readable(owner'[f])
        PROVE  f \in ready' \cup batch
    <3>1. CASE f = fd
      BY <1>1, <1>4, <2>1, <3>1 DEF Readable
    <3>2. CASE f # fd
      BY <1>1, <1>4, <2>1, <3>2 DEF SInv, Edges
    <3>. QED
      BY <3>1, <3>2
  <2>2. \A f \in DOMAIN owner' : Readable(owner'[f]) = (unread'[owner'[f]] > 0 \/ fin'[owner'[f]] = TRUE)
    BY Zenon, <1>1 DEF Readable
  <2>. QED
    BY Zenon, <1>1, <2>1, <2>2 DEF Edges, Readable
<1>. QED
  BY Zenon, <1>3, <1>5, <1>6, <1>7, <1>8, <1>9 DEF SInv

\* accept fails, or has no more connections.
LEMMA AcceptEndsInv ==
    ASSUME SInv, AcceptDrop \/ AcceptError \/ AcceptDone
    PROVE  SInv'
<1>1. CASE AcceptDrop
  BY <1>1, AcceptDropped DEF AcceptDrop
<1>2. CASE AcceptError
  <2>1. CASE FreeFds = {}
    <3>1. UNCHANGED <<interest, ready, callbacks_, pending_removes_, batch, pc, cur,
                      connections_, backlog, owner, conn, sent, unread, fin, served>>
      BY <1>2, <2>1 DEF AcceptError, reactorVars
    <3>. QED
      BY Zenon, <3>1, Stutter DEF vars
  <2>2. CASE FreeFds # {}
    BY <1>2, <2>2, AcceptDropped DEF AcceptError
  <2>. QED
    BY Zenon, <2>1, <2>2
<1>3. CASE AcceptDone
  <2>1. /\ pc = "accept" /\ backlog = <<>> /\ pc' = "dispatch"
        /\ UNCHANGED <<interest, ready, callbacks_, pending_removes_, batch, cur,
                       connections_, backlog, owner, conn, sent, unread, fin, served>>
    BY Zenon, <1>3 DEF AcceptDone, serverVars, clientVars
  <2>2. Registered' /\ Loop' /\ Owned' /\ Queued'
    BY SMTT(30), <2>1 DEF SInv, Registered, Loop, Owned, Queued
  <2>3. Counted'
    BY Zenon, <2>1 DEF SInv, Counted, Buffered
  <2>4. Edges'
    BY Zenon, <2>1 DEF SInv, Edges, Readable
  <2>. QED
    BY <2>2, <2>3, <2>4 DEF SInv
<1>. QED
  BY <1>1, <1>2, <1>3

------------------------------------------------------------------------------
(* on_connection_event_                                                     *)

\* What the callback knows of its connection.
LEMMA Peer ==
    ASSUME SInv, pc = "read"
    PROVE  /\ cur \in DOMAIN owner /\ cur \in Fds /\ cur # Listener /\ cur \notin batch
           /\ peer \in Clients /\ conn[peer] = "open" /\ served[peer] = 0
           /\ in_buffer \in Seq(Clients)
           /\ \A i \in 1 .. Len(in_buffer) : in_buffer[i] = peer
           /\ Len(in_buffer) < Parts
           /\ Len(in_buffer) + unread[peer] = sent[peer]
           /\ unread[peer] \in 0 .. Parts /\ sent[peer] \in 0 .. Parts
<1>1. cur \in DOMAIN owner /\ cur \in Fds /\ cur # Listener /\ cur \notin batch
  BY ReactorAssumption DEF SInv, Loop, Owned, Fds
<1>2. peer \in Clients /\ conn[peer] = "open"
  BY Zenon, <1>1 DEF SInv, Owned, peer
<1>3. served[peer] = 0 /\ unread[peer] \in 0 .. Parts /\ sent[peer] \in 0 .. Parts
  BY <1>2 DEF SInv, Counted
<1>4. Buffered(cur) + unread[peer] = sent[peer]
  BY <1>1 DEF SInv, Counted, peer
<1>5. CASE cur \in DOMAIN connections_
  <2>1. in_buffer = connections_[cur] /\ Buffered(cur) = Len(in_buffer)
    BY <1>5 DEF in_buffer, Buffered
  <2>2. /\ in_buffer \in Seq(Clients) /\ Len(in_buffer) < Parts
        /\ \A i \in 1 .. Len(in_buffer) : in_buffer[i] = peer
    BY Zenon, <1>5, <2>1 DEF SInv, Owned, peer
  <2>. QED
    BY <1>1, <1>2, <1>3, <1>4, <2>1, <2>2
<1>6. CASE cur \notin DOMAIN connections_
  <2>1. in_buffer = <<>> /\ Buffered(cur) = 0
    BY <1>6 DEF in_buffer, Buffered
  <2>2. in_buffer \in Seq(Clients) /\ Len(in_buffer) = 0
    BY Zenon, <2>1, EmptySeq
  <2>. QED
    BY <1>1, <1>2, <1>3, <1>4, <2>1, <2>2, ServerAssumption
<1>. QED
  BY <1>5, <1>6

\* Closing takes the descriptor, its buffer and its interest together; only the
\* callback stays until the batch is done.
LEMMA ClosedInv ==
    ASSUME SInv, pc = "read", close_connection_,
           UNCHANGED <<callbacks_, batch, cur, backlog, sent, fin>>,
           unread' \in [Clients -> 0 .. Parts],
           served' \in [Clients -> {0, 1}],
           \A x \in Clients \ {peer} : unread'[x] = unread[x] /\ served'[x] = served[x],
           unread'[peer] <= sent[peer],
           served'[peer] = 1 => sent[peer] = Parts
    PROVE  SInv'
<1>1. /\ interest' = interest \ {cur}
      /\ ready' = ready \ {cur}
      /\ pending_removes_' = pending_removes_ \cup {cur}
      /\ owner' = Without(owner, cur)
      /\ connections_' = Without(connections_, cur)
      /\ conn' = [conn EXCEPT ![peer] = "closed"]
      /\ pc' = "dispatch"
  BY Zenon DEF close_connection_, remove_fd
<1>2. /\ cur \in DOMAIN owner /\ cur \in Fds /\ cur # Listener /\ cur \notin batch
      /\ peer \in Clients /\ conn[peer] = "open"
  BY Peer
<1>3. /\ DOMAIN owner' = DOMAIN owner \ {cur}
      /\ \A f \in DOMAIN owner \ {cur} : owner'[f] = owner[f]
      /\ owner' = [f \in DOMAIN owner \ {cur} |-> owner[f]]
  BY Zenon, <1>1 DEF Without
<1>4. /\ DOMAIN connections_' = DOMAIN connections_ \ {cur}
      /\ \A f \in DOMAIN connections_ \ {cur} : connections_'[f] = connections_[f]
      /\ connections_' = [f \in DOMAIN connections_ \ {cur} |-> connections_[f]]
  BY Zenon, <1>1 DEF Without
<1>5. conn \in [Clients -> {"new", "queued", "open", "closed"}]
  BY Zenon DEF SInv, Counted
<1>6. /\ conn'[peer] = "closed" /\ conn' \in [Clients -> {"new", "queued", "open", "closed"}]
      /\ \A x \in Clients \ {peer} : conn'[x] = conn[x]
  BY Zenon, <1>1, <1>2, <1>5
<1>7. \A f \in DOMAIN owner' : owner'[f] = owner[f] /\ owner[f] # peer /\ owner[f] \in Clients
  BY Zenon, <1>2, <1>3 DEF SInv, Owned, peer
<1>8. Registered'
  BY SMTT(30), <1>1, <1>2, <1>3 DEF SInv, Registered
<1>9. Loop'
  BY Zenon, <1>1, <1>2 DEF SInv, Loop
<1>10. Owned'
  <2>1. DOMAIN owner' \subseteq Fds /\ owner' \in [DOMAIN owner' -> Clients]
    BY Zenon, <1>3, <1>7 DEF SInv, Owned
  <2>2. ASSUME NEW f \in DOMAIN owner' PROVE conn'[owner'[f]] = "open"
    <3>1. f \in DOMAIN owner /\ owner'[f] = owner[f] /\ owner[f] \in Clients \ {peer}
      BY Zenon, <1>3, <1>7, <2>2
    <3>2. conn[owner[f]] = "open"
      BY Zenon, <3>1 DEF SInv, Owned
    <3>. QED
      BY Zenon, <1>6, <3>1, <3>2
  <2>3. \A f, g \in DOMAIN owner' : owner'[f] = owner'[g] => f = g
    BY Zenon, <1>3, <1>7 DEF SInv, Owned
  <2>4. DOMAIN connections_' \subseteq DOMAIN owner'
    BY <1>3, <1>4 DEF SInv, Owned
  <2>5. connections_' \in [DOMAIN connections_' -> Seq(Clients)]
    BY Zenon, <1>4 DEF SInv, Owned
  <2>6. \A f \in DOMAIN connections_' :
            /\ Len(connections_'[f]) < Parts
            /\ \A i \in 1 .. Len(connections_'[f]) : connections_'[f][i] = owner'[f]
    BY SMTT(30), <1>4, <1>7, <2>4 DEF SInv, Owned
  <2>. QED
    BY Zenon, <2>1, <2>2, <2>3, <2>4, <2>5, <2>6 DEF Owned
<1>11. Queued'
  <2>1. \A i \in 1 .. Len(backlog) : backlog[i] \in Clients /\ conn'[backlog[i]] = "queued"
    BY SMTT(30), <1>2, <1>6 DEF SInv, Queued
  <2>. QED
    BY Zenon, <2>1 DEF SInv, Queued
<1>12. Counted'
  <2>1. \A x \in Clients : unread'[x] <= sent[x] /\ (served'[x] = 1 => sent[x] = Parts)
    BY Zenon DEF SInv, Counted
  <2>2. \A x \in Clients : conn'[x] # "closed" => served'[x] = 0
    BY Zenon, <1>6 DEF SInv, Counted
  <2>3. \A x \in Clients : conn'[x] \in {"new", "queued"} => unread'[x] = sent[x]
    BY Zenon, <1>6 DEF SInv, Counted
  <2>4. \A f \in DOMAIN owner' : Buffered(f)' = Buffered(f)
    BY Zenon, <1>3, <1>4 DEF Buffered
  <2>5. \A f \in DOMAIN owner' : Buffered(f) + unread'[owner'[f]] = sent[owner'[f]]
    BY SMTT(30), <1>3, <1>7 DEF SInv, Counted
  <2>. QED
    BY <1>6, <2>1, <2>2, <2>3, <2>4, <2>5 DEF SInv, Counted
<1>13. Edges'
  <2>1. ASSUME NEW f \in DOMAIN owner' \cap callbacks_',
               unread'[owner'[f]] > 0 \/ fin'[owner'[f]] = TRUE
        PROVE  f \in ready' \cup batch'
    <3>1. Readable(owner[f]) /\ f # cur /\ f \in DOMAIN owner \cap callbacks_
      BY <1>3, <1>7, <2>1 DEF Readable
    <3>. QED
      BY Zenon, <1>1, <3>1 DEF SInv, Edges
  <2>2. backlog' # <<>> => Listener \in ready' \cup batch'
    BY <1>1, <1>2 DEF SInv, Edges
  <2>. QED
    BY Zenon, <2>1, <2>2 DEF Edges, Readable
<1>. QED
  BY Zenon, <1>8, <1>9, <1>10, <1>11, <1>12, <1>13 DEF SInv

\* n of the u parts that are left are read into a buffer of l.
LEMMA PartsRead ==
    ASSUME NEW l \in Nat, NEW n \in Nat, NEW u \in 0 .. Parts, NEW s \in 0 .. Parts, Parts \in Nat,
           l + u = s, n <= u
    PROVE  /\ l + n # Parts => l + n < Parts /\ l + n + (u - n) = s
           /\ l + n = Parts => s = Parts
OBVIOUS

\* Parts that do not complete the request are buffered.
LEMMA ReadMoreInv ==
    ASSUME SInv, NEW n \in 1 .. Parts, ReadMore(n)
    PROVE  SInv'
<1>. DEFINE b == in_buffer \o [i \in 1 .. n |-> peer]
<1>1. /\ pc = "read" /\ n <= unread[peer] /\ Len(b) # Parts
      /\ unread' = [unread EXCEPT ![peer] = unread[peer] - n]
      /\ connections_' = With(connections_, cur, b)
      /\ UNCHANGED <<interest, ready, callbacks_, pending_removes_, batch, pc, cur,
                     backlog, owner, conn, sent, fin, served>>
  BY Zenon DEF ReadMore, reactorVars, Complete
<1>2. /\ cur \in DOMAIN owner /\ peer \in Clients /\ conn[peer] = "open"
      /\ in_buffer \in Seq(Clients)
      /\ \A i \in 1 .. Len(in_buffer) : in_buffer[i] = peer
      /\ Len(in_buffer) + unread[peer] = sent[peer]
      /\ unread[peer] \in 0 .. Parts /\ sent[peer] \in 0 .. Parts
  BY <1>1, Peer
<1>3. n \in Nat /\ n > 0 /\ Parts \in Nat
  BY SMTT(30), ServerAssumption
<1>4. /\ b \in Seq(Clients) /\ Len(b) = Len(in_buffer) + n
      /\ \A i \in 1 .. Len(in_buffer) + n : b[i] = peer
  BY SMTT(30), <1>2, <1>3, Grown
<1>. HIDE DEF b
<1>5. Len(in_buffer) \in Nat
  BY SMTT(30), <1>2
<1>6. Len(b) < Parts /\ Len(b) + (unread[peer] - n) = sent[peer]
  <2>1. /\ n <= unread[peer] /\ Len(in_buffer) + n # Parts
        /\ Len(in_buffer) + unread[peer] = sent[peer]
        /\ unread[peer] \in 0 .. Parts /\ sent[peer] \in 0 .. Parts
    BY Zenon, <1>1, <1>2, <1>4
  <2>2. Len(in_buffer) + n < Parts /\ Len(in_buffer) + n + (unread[peer] - n) = sent[peer]
    BY <1>3, <1>5, <2>1, PartsRead
  <2>. QED
    BY Zenon, <1>4, <2>2
<1>7. /\ DOMAIN connections_' = DOMAIN connections_ \cup {cur}
      /\ connections_'[cur] = b
      /\ \A f \in DOMAIN connections_ \ {cur} : connections_'[f] = connections_[f]
      /\ connections_' = [f \in DOMAIN connections_ \cup {cur} |-> connections_'[f]]
  BY <1>1 DEF With
<1>8. unread \in [Clients -> 0 .. Parts]
  BY DEF SInv, Counted
<1>9. /\ unread' \in [Clients -> 0 .. Parts] /\ unread'[peer] = unread[peer] - n
      /\ \A x \in Clients \ {peer} : unread'[x] = unread[x]
  BY <1>1, <1>2, <1>3, <1>8
<1>10. Registered' /\ Loop' /\ Queued'
  BY <1>1 DEF SInv, Registered, Loop, Queued
<1>11. Owned'
  <2>1. DOMAIN connections_' \subseteq DOMAIN owner
    BY <1>2, <1>7 DEF SInv, Owned
  <2>2. \A f \in DOMAIN connections_' : connections_'[f] \in Seq(Clients)
    BY SMTT(30), <1>4, <1>7 DEF SInv, Owned
  <2>3. connections_' \in [DOMAIN connections_' -> Seq(Clients)]
    BY <1>7, <2>2
  <2>4. ASSUME NEW f \in DOMAIN connections_'
        PROVE  /\ Len(connections_'[f]) < Parts
               /\ \A i \in 1 .. Len(connections_'[f]) : connections_'[f][i] = owner[f]
    <3>1. CASE f = cur
      BY <1>4, <1>6, <1>7, <3>1 DEF peer
    <3>2. CASE f # cur
      BY SMTT(30), <1>7, <3>2 DEF SInv, Owned
    <3>. QED
      BY <3>1, <3>2
  <2>. QED
    BY SMTT(30), <1>1, <2>1, <2>3, <2>4 DEF SInv, Owned
<1>12. Counted'
  <2>1. \A x \in Clients : unread'[x] <= sent[x]
    <3>1. unread'[peer] <= sent[peer]
      BY SMTT(30), <1>2, <1>3, <1>5, <1>9
    <3>. QED
      BY Zenon, <1>9, <3>1 DEF SInv, Counted
  <2>2. \A x \in Clients : conn[x] \in {"new", "queued"} => unread'[x] = sent[x]
    BY <1>2, <1>9 DEF SInv, Counted
  <2>3. ASSUME NEW f \in DOMAIN owner
        PROVE  Buffered(f)' + unread'[owner[f]] = sent[owner[f]]
    <3>1. CASE f = cur
      <4>1. Buffered(f)' = Len(b) /\ owner[f] = peer
        BY <1>7, <3>1 DEF Buffered, peer
      <4>. QED
        BY <1>6, <1>9, <4>1
    <3>2. CASE f # cur
      <4>1. Buffered(f)' = Buffered(f)
        BY Zenon, <1>7, <3>2 DEF Buffered
      <4>2. owner[f] # peer /\ owner[f] \in Clients
        BY <1>2, <3>2 DEF SInv, Owned, peer
      <4>3. Buffered(f) + unread[owner[f]] = sent[owner[f]]
        BY Zenon DEF SInv, Counted
      <4>. QED
        BY <1>9, <4>1, <4>2, <4>3
    <3>. QED
      BY <3>1, <3>2
  <2>. QED
    BY <1>1, <1>9, <2>1, <2>2, <2>3 DEF SInv, Counted
<1>13. Edges'
  <2>1. ASSUME NEW f \in DOMAIN owner \cap callbacks_, Readable(owner[f])'
        PROVE  f \in ready \cup batch \/ (pc = "read" /\ cur = f)
    <3>1. CASE f = cur
      BY <1>1, <3>1
    <3>2. CASE f # cur
      <4>1. owner[f] # peer /\ owner[f] \in Clients
        BY <1>2, <3>2 DEF SInv, Owned, peer
      <4>2. Readable(owner[f])
        BY <1>1, <1>9, <2>1, <4>1 DEF Readable
      <4>. QED
        BY <4>2 DEF SInv, Edges
    <3>. QED
      BY <3>1, <3>2
  <2>. QED
    BY Zenon, <1>1, <2>1 DEF SInv, Edges, Readable
<1>. QED
  BY <1>10, <1>11, <1>12, <1>13 DEF SInv

\* The last part: the handler runs once, for a client that is closed with it.
LEMMA ReadRequestInv ==
    ASSUME SInv, NEW n \in 1 .. Parts, ReadRequest(n)
    PROVE  SInv'
<1>. DEFINE b == in_buffer \o [i \in 1 .. n |-> peer]
<1>1. /\ pc = "read" /\ n <= unread[peer] /\ Len(b) = Parts
      /\ unread' = [unread EXCEPT ![peer] = unread[peer] - n]
      /\ served' = [served EXCEPT ![peer] = served[peer] + 1]
      /\ close_connection_
      /\ UNCHANGED <<callbacks_, batch, cur, backlog, sent, fin>>
  BY Zenon DEF ReadRequest, Complete
<1>2. /\ peer \in Clients /\ served[peer] = 0
      /\ in_buffer \in Seq(Clients)
      /\ \A i \in 1 .. Len(in_buffer) : in_buffer[i] = peer
      /\ Len(in_buffer) + unread[peer] = sent[peer]
      /\ unread[peer] \in 0 .. Parts /\ sent[peer] \in 0 .. Parts
  BY <1>1, Peer
<1>3. n \in Nat /\ n > 0 /\ Parts \in Nat
  BY ServerAssumption
<1>4. Len(b) = Len(in_buffer) + n
  BY <1>2, <1>3, Grown
<1>. HIDE DEF b
<1>5. Len(in_buffer) \in Nat
  BY SMTT(30), <1>2
<1>6. sent[peer] = Parts
  <2>1. /\ n <= unread[peer] /\ Len(in_buffer) + n = Parts
        /\ Len(in_buffer) + unread[peer] = sent[peer]
        /\ unread[peer] \in 0 .. Parts /\ sent[peer] \in 0 .. Parts
    BY Zenon, <1>1, <1>2, <1>4
  <2>. QED
    BY <1>3, <1>5, <2>1, PartsRead
<1>7. unread \in [Clients -> 0 .. Parts] /\ served \in [Clients -> {0, 1}]
  BY DEF SInv, Counted
<1>8. /\ unread' \in [Clients -> 0 .. Parts] /\ unread'[peer] = unread[peer] - n
      /\ \A x \in Clients \ {peer} : unread'[x] = unread[x]
  BY <1>1, <1>2, <1>3, <1>7
<1>9. served' = [served EXCEPT ![peer] = 1]
  BY <1>1, <1>2
<1>10. served' \in [Clients -> {0, 1}] /\ \A x \in Clients \ {peer} : served'[x] = served[x]
  BY Zenon, <1>7, <1>9
<1>11. unread'[peer] <= sent[peer]
  BY SMTT(30), <1>2, <1>3, <1>5, <1>8
<1>. QED
  BY <1>1, <1>6, <1>8, <1>10, <1>11, ClosedInv

\* The end of the stream, an error, or nothing more to read for now.
LEMMA ReadEndsInv ==
    ASSUME SInv, ReadEnd \/ ReadDone
    PROVE  SInv'
<1>1. CASE ReadEnd
  <2>1. pc = "read" /\ close_connection_
        /\ UNCHANGED <<callbacks_, batch, cur, backlog, sent, unread, fin, served>>
    BY <1>1 DEF ReadEnd
  <2>2. /\ unread' \in [Clients -> 0 .. Parts] /\ served' \in [Clients -> {0, 1}]
        /\ \A x \in Clients : unread'[x] <= sent[x] /\ (served'[x] = 1 => sent[x] = Parts)
    BY <2>1 DEF SInv, Counted
  <2>3. peer \in Clients
    BY <2>1, Peer
  <2>. QED
    BY <2>1, <2>2, <2>3, ClosedInv
<1>2. CASE ReadDone
  <2>1. /\ pc = "read" /\ unread[peer] = 0 /\ ~ fin[peer] /\ pc' = "dispatch"
        /\ UNCHANGED <<interest, ready, callbacks_, pending_removes_, batch, cur,
                       connections_, backlog, owner, conn, sent, unread, fin, served>>
    BY Zenon, <1>2 DEF ReadDone, serverVars, clientVars
  <2>2. Registered' /\ Loop' /\ Owned' /\ Queued'
    <3>1. Registered' /\ Loop'
      BY <2>1 DEF SInv, Registered, Loop
    <3>2. Owned' /\ Queued'
      <4>1. Owned'
        BY <2>1 DEF SInv, Owned
      <4>2. Queued'
        BY <2>1 DEF SInv, Queued
      <4>. QED
        BY Zenon, <4>1, <4>2
    <3>. QED
      BY Zenon, <3>1, <3>2
  <2>3. Counted'
    BY <2>1 DEF SInv, Counted, Buffered
  <2>4. ~ Readable(peer)
    BY SMTT(30), <2>1 DEF Readable
  <2>5. Edges'
    BY <2>1, <2>4 DEF SInv, Edges, Readable, peer
  <2>. QED
    BY Zenon, <2>2, <2>3, <2>5 DEF SInv
<1>. QED
  BY <1>1, <1>2

------------------------------------------------------------------------------
(* The theorems                                                             *)

\* Every step keeps the invariant.
LEMMA SNextInv ==
    ASSUME SInv, [Next]_vars
    PROVE  SInv'
<1>1. CASE Server
  BY <1>1, RunInv, AcceptInv, AcceptEndsInv, ReadMoreInv, ReadRequestInv, ReadEndsInv DEF Server
<1>2. CASE \E c \in Clients : Connect(c) \/ Send(c) \/ Close(c)
  BY Zenon, <1>2, ConnectInv, SendInv, CloseInv
<1>3. CASE UNCHANGED vars
  BY Zenon, <1>3, Stutter
<1>. QED
  BY <1>1, <1>2, <1>3 DEF Next

\* The server starts in it.
LEMMA SInitInv ==
    ASSUME Init
    PROVE  SInv
<1>1. DOMAIN owner = {} /\ DOMAIN connections_ = {} /\ Len(backlog) = 0 /\ backlog = <<>>
  BY DEF Init
<1>2. owner \in [DOMAIN owner -> Clients] /\ connections_ \in [DOMAIN connections_ -> Seq(Clients)]
  BY DEF Init
<1>3. Registered /\ Loop
  BY <1>1 DEF Init, ReactorInit, Registered, Loop
<1>4. Owned /\ Edges
  BY <1>1, <1>2 DEF Owned, Edges
<1>5. Queued
  BY <1>1 DEF Queued
<1>6. Counted
  BY <1>1, ServerAssumption DEF Init, Counted
<1>. QED
  BY <1>3, <1>4, <1>5, <1>6 DEF SInv

\* The inductive invariant holds for ever.
THEOREM ServerInvariance == Spec => []SInv
BY SInitInv, SNextInv, PTL DEF Spec

\* Every variable keeps its range; no buffer grows to a whole request.
THEOREM ServerTypes == Spec => []TypeOK
<1>1. ASSUME SInv PROVE TypeOK
  <2>1. /\ \A fd \in DOMAIN connections_ :
              \A i \in DOMAIN connections_[fd] : connections_[fd][i] \in Clients
        /\ \A i \in DOMAIN backlog : backlog[i] \in Clients
    BY <1>1 DEF SInv, Owned, Queued
  <2>2. served \in [Clients -> Nat]
    BY <1>1 DEF SInv, Counted
  <2>3. /\ interest \subseteq Fds \cup {Listener} /\ ready \subseteq interest
        /\ batch \subseteq Fds \cup {Listener} /\ callbacks_ \subseteq Fds \cup {Listener}
        /\ pending_removes_ \subseteq Fds
    BY <1>1 DEF SInv, Registered, Owned
  <2>4. /\ DOMAIN owner \subseteq Fds /\ DOMAIN connections_ \subseteq Fds
        /\ \A fd \in DOMAIN owner : owner[fd] \in Clients
        /\ \A fd \in DOMAIN connections_ : Len(connections_[fd]) < Parts
    BY <1>1 DEF SInv, Owned
  <2>. QED
    BY <1>1, <2>1, <2>2, <2>3, <2>4 DEF SInv, Loop, Counted, TypeOK
<1>. QED
  BY <1>1, ServerInvariance, PTL

\* What is buffered for a descriptor came from the client that has it now: a
\* reused descriptor never continues the request of another client.
THEOREM BuffersAreOwn == Spec => []BuffersOwn
<1>1. ASSUME SInv, NEW fd \in DOMAIN connections_
      PROVE  /\ fd \in DOMAIN owner
             /\ \A i \in DOMAIN connections_[fd] : connections_[fd][i] = owner[fd]
             /\ Len(connections_[fd]) + unread[owner[fd]] = sent[owner[fd]]
  <2>1. fd \in DOMAIN owner /\ connections_[fd] \in Seq(Clients)
    BY <1>1 DEF SInv, Owned
  <2>2. \A i \in DOMAIN connections_[fd] : connections_[fd][i] = owner[fd]
    BY <1>1, <2>1 DEF SInv, Owned
  <2>3. Buffered(fd) = Len(connections_[fd])
    BY Zenon, <1>1 DEF Buffered
  <2>4. Len(connections_[fd]) + unread[owner[fd]] = sent[owner[fd]]
    BY <1>1, <2>1, <2>3 DEF SInv, Counted
  <2>. QED
    BY <2>1, <2>2, <2>4
<1>2. SInv => BuffersOwn
  BY Zenon, <1>1 DEF BuffersOwn
<1>. QED
  BY <1>2, ServerInvariance, PTL

\* A request runs its handler once at most, and never in part.
THEOREM RequestsRunOnce == Spec => []ServedOnce
<1>1. SInv => ServedOnce
  BY SMTT(30) DEF SInv, Counted, ServedOnce
<1>. QED
  BY <1>1, ServerInvariance, PTL

\* The loop never blocks with something unreported to read on a descriptor
\* that has a callback.
THEOREM NoEdgeIsLost == Spec => []NoLostEdge
<1>1. ASSUME SInv, pc = "wait"
      PROVE  /\ backlog # <<>> => Listener \in ready
             /\ \A fd \in DOMAIN owner \cap callbacks_ :
                   unread[owner[fd]] > 0 \/ fin[owner[fd]] => fd \in ready
  BY Zenon, <1>1 DEF SInv, Loop, Edges, Readable
<1>2. SInv => NoLostEdge
  BY Zenon, <1>1 DEF NoLostEdge
<1>. QED
  BY <1>2, ServerInvariance, PTL

\* When the loop blocks, closed connections have left nothing behind.
THEOREM NothingStays == Spec => []NothingLeftBehind
<1>1. SInv => NothingLeftBehind
  BY DEF SInv, Registered, Loop, Owned, NothingLeftBehind
<1>. QED
  BY <1>1, ServerInvariance, PTL
==============================================================================
