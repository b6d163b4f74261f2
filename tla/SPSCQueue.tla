------------------------------ MODULE SPSCQueue ------------------------------
(***************************************************************************)
(* The lock-free ring of src/core/spsc_queue.h, shared by one producer     *)
(* thread and one consumer thread.                                         *)
(*                                                                         *)
(* head_ and tail_ are free-running size_t counters: arithmetic on them is *)
(* modulo Width (2^64 in the code), and the slot of a counter is its       *)
(* remainder by Capacity (data_[h & mask_], Capacity a power of two).      *)
(*                                                                         *)
(* Each access to memory the other thread also touches is a step of its    *)
(* own.  A thread loads its own counter exactly; an acquire load of the    *)
(* other thread's counter may return any value that counter has held since *)
(* the last value this thread read from it (coherence lets a load be stale *)
(* but never go back).  The last value read is cached_tail_ / cached_head_.*)
(***************************************************************************)
EXTENDS Integers

CONSTANTS
    Capacity,   \* template parameter Capacity
    Laps,       \* how often the counter range holds the ring: 2^64 / Capacity
    Items,      \* the values of type T that are pushed
    Unwritten   \* what a slot holds that no push has written yet

\* Capacity > 0 is asserted by the class; both are powers of two, the counter
\* range being the larger one, so it holds the ring a whole number of times.
ASSUME QueueAssumption ==
    /\ Capacity \in Nat \ {0}
    /\ Laps \in Nat \ {0, 1}
    /\ Items # {}
    /\ Unwritten \notin Items

Width == Laps * Capacity
Counters == 0 .. Width - 1
Slots == 0 .. Capacity - 1

VARIABLES
    head_,          \* counter of the next push, written by the producer
    cached_tail_,   \* the producer's last view of tail_
    tail_,          \* counter of the next pop, written by the consumer
    cached_head_,   \* the consumer's last view of head_
    data_,          \* the slots
    ppc,            \* where the producer is in try_push
    item,           \* the argument of the try_push under way
    cpc,            \* where the consumer is in its call
    call,           \* the consumer's call: "try_pop", "front" or "pop"
    held,           \* the consumer holds a pointer that front() returned
    tmp,            \* the value try_pop has moved out of the slot
    out             \* the item the consumer received last

producerVars == <<head_, cached_tail_, data_, ppc, item>>
consumerVars == <<tail_, cached_head_, cpc, call, held, tmp, out>>
vars == <<head_, cached_tail_, data_, ppc, item,
          tail_, cached_head_, cpc, call, held, tmp, out>>

\* size_t arithmetic: i + 1 and a - b modulo Width.
Inc(i) == IF i + 1 = Width THEN 0 ELSE i + 1
Diff(a, b) == IF a >= b THEN a - b ELSE a - b + Width
Slot(i) == i % Capacity

\* The values a counter took on its way from a to b.
Between(a, b) == {v \in Counters : Diff(v, a) + Diff(b, v) = Diff(b, a)}

\* Mutation: one slot more than the ring has may be filled.
FullOffByOne(t) == Diff(head_, t) = Capacity + 1

\* Mutation: the difference is taken in a signed type, which does not wrap.
FullSigned(t) == head_ - t = Capacity

\* h - cached_tail_ == Capacity
Full(t) == Diff(head_, t) = Capacity

\* Mutation: the emptiness test is lost.
NeverEmpty(h) == FALSE

\* cached_head_ - t == 0
Empty(h) == Diff(h, tail_) = 0

\* The data_ array is default-initialised, which leaves a plain T indeterminate;
\* tmp and out are variables of the consumer's caller.
Init ==
    /\ head_ = 0
    /\ cached_tail_ = 0
    /\ tail_ = 0
    /\ cached_head_ = 0
    /\ data_ = [s \in Slots |-> Unwritten]
    /\ ppc = "idle"
    /\ item \in Items
    /\ cpc = "idle"
    /\ call = "try_pop"
    /\ held = FALSE
    /\ tmp \in Items
    /\ out \in Items

------------------------------------------------------------------------------
(* Producer: try_push(const T&), try_push(T&&) and try_emplace.            *)

\* Mutation: a full ring is reported without looking at tail_ again.
TryPushNoReload(x) ==
    /\ ppc = "idle"
    /\ ~ Full(cached_tail_)
    /\ item' = x
    /\ ppc' = "write"
    /\ UNCHANGED <<head_, cached_tail_, data_, consumerVars>>

\* The call starts: h - cached_tail_ == Capacity decides whether to reload.
TryPush(x) ==
    /\ ppc = "idle"
    /\ item' = x
    /\ ppc' = IF Full(cached_tail_) THEN "reload" ELSE "write"
    /\ UNCHANGED <<head_, cached_tail_, data_, consumerVars>>

\* cached_tail_ = tail_.load(acquire); still full means return false.
ReloadTail ==
    /\ ppc = "reload"
    /\ \E t \in Between(cached_tail_, tail_) :
          /\ cached_tail_' = t
          /\ ppc' = IF Full(t) THEN "idle" ELSE "write"
    /\ UNCHANGED <<head_, data_, item, consumerVars>>

\* data_[h & mask_] = item
WriteSlot ==
    /\ ppc = "write"
    /\ data_' = [data_ EXCEPT ![Slot(head_)] = item]
    /\ ppc' = "publish"
    /\ UNCHANGED <<head_, cached_tail_, item, consumerVars>>

\* head_.store(h + 1, release); return true
StoreHead ==
    /\ ppc = "publish"
    /\ head_' = Inc(head_)
    /\ ppc' = "idle"
    /\ UNCHANGED <<cached_tail_, data_, item, consumerVars>>

------------------------------------------------------------------------------
(* Consumer: try_pop, front and pop share their first lines.               *)

\* What follows the emptiness test in each of the three calls: a read of the
\* slot, the pointer being returned, or the store to tail_.
AfterTest(c) ==
    CASE c = "try_pop" -> "read"
      [] c = "front"   -> "idle"
      [] c = "pop"     -> "store"

\* The call starts: cached_head_ - t == 0 decides whether to reload.
Call(c) ==
    /\ cpc = "idle"
    /\ call' = c
    /\ \/ /\ Empty(cached_head_)
          /\ cpc' = "reload"
          /\ UNCHANGED held
       \/ /\ ~ Empty(cached_head_)
          /\ cpc' = AfterTest(c)
          /\ held' = (c = "front")
    /\ UNCHANGED <<tail_, cached_head_, tmp, out, producerVars>>

\* Mutation: the emptiness test is not repeated after the reload.
ReloadHeadNoTest ==
    /\ cpc = "reload"
    /\ \E h \in Between(cached_head_, head_) :
          /\ cached_head_' = h
          /\ cpc' = AfterTest(call)
          /\ held' = (call = "front")
    /\ UNCHANGED <<tail_, call, tmp, out, producerVars>>

\* cached_head_ = head_.load(acquire); still empty means false or nullptr.
ReloadHead ==
    /\ cpc = "reload"
    /\ \E h \in Between(cached_head_, head_) :
          /\ cached_head_' = h
          /\ \/ /\ Empty(h)
                /\ cpc' = "idle"
                /\ UNCHANGED held
             \/ /\ ~ Empty(h)
                /\ cpc' = AfterTest(call)
                /\ held' = (call = "front")
    /\ UNCHANGED <<tail_, call, tmp, out, producerVars>>

\* try_pop: item = std::move(data_[t & mask_])
ReadSlot ==
    /\ cpc = "read"
    /\ tmp' = data_[Slot(tail_)]
    /\ cpc' = "store"
    /\ UNCHANGED <<tail_, cached_head_, call, held, out, producerVars>>

\* tail_.store(t + 1, release); return true
StoreTail ==
    /\ cpc = "store"
    /\ tail_' = Inc(tail_)
    /\ out' = IF call = "try_pop" THEN tmp ELSE out
    /\ cpc' = "idle"
    /\ UNCHANGED <<cached_head_, call, held, tmp, producerVars>>

\* The consumer looks at the item through the pointer front() gave it.  It may
\* do so until its next call of try_pop or pop.
Deref ==
    /\ cpc = "idle"
    /\ held
    /\ out' = data_[Slot(tail_)]
    /\ UNCHANGED <<tail_, cached_head_, cpc, call, held, tmp, producerVars>>

------------------------------------------------------------------------------

Producer ==
    \/ \E x \in Items : TryPush(x)
    \/ ReloadTail
    \/ WriteSlot
    \/ StoreHead

Consumer ==
    \/ \E c \in {"try_pop", "front", "pop"} : Call(c)
    \/ ReloadHead
    \/ ReadSlot
    \/ StoreTail
    \/ Deref

Next == Producer \/ Consumer

Spec == Init /\ [][Next]_vars

(* The two threads of the hot-path benchmarks: the producer repeats         *)
(* try_push and the consumer try_pop, each in a spin loop, for ever.        *)
SpinConsumer ==
    \/ Call("try_pop")
    \/ ReloadHead
    \/ ReadSlot
    \/ StoreTail

\* Both threads are pinned to a core of their own and never block, hence weak
\* fairness of each; a store becomes visible to the other thread in finite
\* time, hence a load that is repeated for ever returns the current value at
\* some time (strong fairness, because the loads come and go with the calls).
SpinSpec ==
    /\ Init
    /\ [][Producer \/ SpinConsumer]_vars
    /\ WF_vars(Producer)
    /\ WF_vars(SpinConsumer)
    /\ SF_vars(ReloadTail /\ cached_tail_' = tail_)
    /\ SF_vars(ReloadHead /\ cached_head_' = head_)

------------------------------------------------------------------------------
(* Properties                                                               *)

\* Besides the ranges of the counters: the consumer only ever gets items.  The
\* slots start indeterminate, and whatever counters a call reads, try_pop never
\* moves from, and the pointer front() returns never designates, a slot that no
\* push has written.
TypeOK ==
    /\ head_ \in Counters
    /\ cached_tail_ \in Counters
    /\ tail_ \in Counters
    /\ cached_head_ \in Counters
    /\ data_ \in [Slots -> Items \cup {Unwritten}]
    /\ ppc \in {"idle", "reload", "write", "publish"}
    /\ item \in Items
    /\ cpc \in {"idle", "reload", "read", "store"}
    /\ call \in {"try_pop", "front", "pop"}
    /\ held \in BOOLEAN
    /\ tmp \in Items
    /\ out \in Items

\* However stale the cached counters are and whenever the counters wrap, the
\* four counters are in the order cached_tail_ <= tail_ <= cached_head_ <=
\* head_ <= cached_tail_ + Capacity.  In particular size() as either thread
\* computes it is between 0 and Capacity.
CountersOrdered ==
    /\ Diff(head_, cached_tail_) <= Capacity
    /\ Diff(head_, tail_) <= Diff(head_, cached_tail_)
    /\ Diff(head_, cached_head_) <= Diff(head_, tail_)

\* The slot try_push is about to write is never the one try_pop is about to
\* read or the one a pointer returned by front() designates: the plain,
\* unsynchronised accesses to data_ do not race.
NoDataRace ==
    (ppc = "write" /\ (cpc = "read" \/ held)) => Slot(head_) # Slot(tail_)

\* The ring read from tail_ to head_.
contents == [i \in 1 .. Diff(head_, tail_) |-> data_[(tail_ + i - 1) % Capacity]]

Fifo == INSTANCE BoundedFifo WITH q <- contents

\* The ring is the queue of the abstract specification: under every
\* interleaving and every stale load, items come out once, in order and
\* unchanged, and a call that succeeds takes effect when it stores its counter.
Implements == Fifo!Spec

\* With both spin loops running, pushes and pops go on for ever: neither a
\* full nor an empty ring, nor a stale cached counter, stops the pipeline.
KeepsFlowing ==
    /\ []<><<StoreHead>>_vars
    /\ []<><<StoreTail>>_vars
==============================================================================
