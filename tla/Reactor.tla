------------------------------- MODULE Reactor -------------------------------
(***************************************************************************)
(* The event loop of the simulator (sim/reactor.cpp) over edge-triggered   *)
(* epoll.  One thread runs everything: epoll_wait returns a batch of       *)
(* descriptors, the callback of each is called in turn, and the callbacks  *)
(* of removed descriptors are dropped when the batch is done.              *)
(*                                                                         *)
(* interest and ready are the kernel's part: a descriptor becomes ready at *)
(* an edge (new data, a close, a new connection) and stays so until        *)
(* epoll_wait reports it.  The order within a batch is left open.          *)
(***************************************************************************)
EXTENDS Integers

CONSTANTS
    Listener,   \* the listening descriptor
    MaxFds      \* connection descriptors the process may have open

ASSUME ReactorAssumption == MaxFds \in Nat \ {0} /\ Listener \notin 1 .. MaxFds

Fds == 1 .. MaxFds

VARIABLES
    interest,           \* epoll: registered descriptors
    ready,              \* epoll: descriptors with an unreported edge
    callbacks_,         \* descriptors that have a callback
    pending_removes_,   \* descriptors whose callback goes at the end of the batch
    batch,              \* events of the last epoll_wait still to be dispatched
    pc,                 \* "wait", "dispatch", or the callback that runs
    cur                 \* the descriptor the callback was called for

reactorVars == <<interest, ready, callbacks_, pending_removes_, batch, pc, cur>>

\* The server has been started: the listener is registered.
ReactorInit ==
    /\ interest = {Listener}
    /\ ready = {}
    /\ callbacks_ = {Listener}
    /\ pending_removes_ = {}
    /\ batch = {}
    /\ pc = "wait"
    /\ cur = Listener

\* An edge on a descriptor.
Edge(fd) == ready' = IF fd \in interest THEN ready \cup {fd} ELSE ready

\* epoll_ctl ADD, then the callback; a descriptor that is readable already is
\* ready at once.
add_fd(fd, readable) ==
    /\ interest' = interest \cup {fd}
    /\ ready' = IF readable THEN ready \cup {fd} ELSE ready
    /\ callbacks_' = callbacks_ \cup {fd}

\* epoll_ctl DEL; the callback goes later, because it may be the one running.
remove_fd(fd) ==
    /\ interest' = interest \ {fd}
    /\ ready' = ready \ {fd}
    /\ pending_removes_' = pending_removes_ \cup {fd}

------------------------------------------------------------------------------
(* run                                                                      *)

epoll_wait ==
    /\ pc = "wait"
    /\ ready # {}
    /\ batch' = ready
    /\ ready' = {}
    /\ pc' = "dispatch"
    /\ UNCHANGED <<interest, callbacks_, pending_removes_, cur>>

\* The callback of the next event is called, an event without one is skipped.
Dispatch(fd) ==
    /\ pc = "dispatch"
    /\ fd \in batch
    /\ batch' = batch \ {fd}
    /\ IF fd \in callbacks_
       THEN pc' = (IF fd = Listener THEN "accept" ELSE "read") /\ cur' = fd
       ELSE UNCHANGED <<pc, cur>>
    /\ UNCHANGED <<interest, ready, callbacks_, pending_removes_>>

\* Mutation: the callbacks of removed descriptors stay.
EndBatchKeeps ==
    /\ pc = "dispatch"
    /\ batch = {}
    /\ pending_removes_' = {}
    /\ pc' = "wait"
    /\ UNCHANGED <<interest, ready, callbacks_, batch, cur>>

\* The batch is done: the callbacks of removed descriptors are dropped.
EndBatch ==
    /\ pc = "dispatch"
    /\ batch = {}
    /\ callbacks_' = callbacks_ \ pending_removes_
    /\ pending_removes_' = {}
    /\ pc' = "wait"
    /\ UNCHANGED <<interest, ready, batch, cur>>
==============================================================================
