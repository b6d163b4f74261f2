----------------------------- MODULE BoundedFifo -----------------------------
(***************************************************************************)
(* What a user of SPSCQueue relies on: a first-in first-out queue of at    *)
(* most Capacity items, written by one thread and read by another, where   *)
(* every call takes effect at one instant.  A call that returns false or   *)
(* nullptr changes nothing; it may do so spuriously, because the other     *)
(* side's progress need not be visible yet, so it is a stuttering step.    *)
(***************************************************************************)
EXTENDS Naturals, Sequences

CONSTANTS
    Capacity,   \* the number of items the queue can hold
    Items       \* the items that can be pushed

VARIABLES
    q,          \* the items pushed and not yet popped, oldest first
    out         \* the item the consumer received last

vars == <<q, out>>

Init ==
    /\ q = <<>>
    /\ out \in Items

\* try_push / try_emplace returns true.
Push(x) ==
    /\ Len(q) < Capacity
    /\ q' = Append(q, x)
    /\ UNCHANGED out

\* try_pop returns true: the oldest item leaves the queue and is handed over.
Take ==
    /\ q # <<>>
    /\ out' = Head(q)
    /\ q' = Tail(q)

\* The consumer reads through the pointer front() returned.
Peek ==
    /\ q # <<>>
    /\ out' = Head(q)
    /\ UNCHANGED q

\* pop returns true: the oldest item is dropped.
Drop ==
    /\ q # <<>>
    /\ q' = Tail(q)
    /\ UNCHANGED out

Next ==
    \/ \E x \in Items : Push(x)
    \/ Take
    \/ Peek
    \/ Drop

Spec == Init /\ [][Next]_vars
==============================================================================
