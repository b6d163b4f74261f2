----------------------------- MODULE FlatHashMap -----------------------------
(***************************************************************************)
(* The Robin Hood hash table of src/core/flat_hash_map.h: open addressing  *)
(* with linear probing, in which an insert takes the slot of any resident  *)
(* that is nearer to its home, and erase shifts the following entries back *)
(* instead of leaving a tombstone.                                         *)
(*                                                                         *)
(* A call is split at the iterations of its loops.  The hash function is   *)
(* any function from keys to slots (hash_(key) & mask_), chosen once.  The *)
(* EMPTY sentinel is no key: the callers keep it out (order ids start at   *)
(* 1, hash_ticker of the benchmarks masks it).                             *)
(***************************************************************************)
EXTENDS Integers, FiniteSets

CONSTANTS
    Capacity,   \* number of slots, a power of two in the code
    Keys,
    Values,
    MaxLoad,    \* the callers never ask for more than MaxLoad keys at a time
    EMPTY       \* the sentinel key of a free slot

ASSUME MapAssumption ==
    /\ Capacity \in Nat \ {0}
    /\ MaxLoad \in Nat
    /\ EMPTY \notin Keys \cup Values
    /\ Values # {}

Slots == 0 .. Capacity - 1

\* A free slot; what its value field still holds is never read.
Free == [key |-> EMPTY, value |-> EMPTY]

VARIABLES
    home,       \* hash_(key) & mask_
    slots_,     \* the table: [key, value] per slot
    size_,
    pc,         \* "idle", in the loop of insert ("probe") or of erase ("shift")
    arg,        \* the key the call was made with
    k, v,       \* insert: the entry in hand
    pos,        \* the slot the loop is at (erase: the hole)
    dist,       \* insert: how far the entry in hand is from its home
    ctr         \* insert: slots passed

tableVars == <<slots_, size_>>
vars == <<home, slots_, size_, pc, arg, k, v, pos, dist, ctr>>

After(i) == (i + 1) % Capacity

\* Mutation: the distance is not masked.
DistanceNoMask(key, i) == i - home[key]

probe_distance_(key, i) == (i - home[key]) % Capacity

\* The slots a search for key visits, up to the first that holds the key or is
\* free: the loop that find and erase share.  It ends with the slot of the key
\* or with none.
Visits(key, d) == (home[key] + d) % Capacity

Found(key) ==
    {i \in Slots :
        /\ slots_[i].key = key
        /\ \A d \in 0 .. probe_distance_(key, i) - 1 : slots_[Visits(key, d)].key \notin {key, EMPTY}}

Init ==
    /\ home \in [Keys -> Slots]
    /\ slots_ = [i \in Slots |-> Free]
    /\ size_ = 0
    /\ pc = "idle"
    /\ arg = EMPTY
    /\ k = EMPTY
    /\ v = EMPTY
    /\ pos = 0
    /\ dist = 0
    /\ ctr = 0

\* The call returns: its locals end.
Return ==
    /\ pc' = "idle"
    /\ arg' = EMPTY
    /\ k' = EMPTY
    /\ v' = EMPTY
    /\ pos' = 0
    /\ dist' = 0
    /\ ctr' = 0

------------------------------------------------------------------------------
(* insert                                                                   *)

\* The callers bound the number of keys: the engine by the blocks of its pool.
Allowed(key) == Found(key) # {} \/ size_ < MaxLoad

Insert(key, val) ==
    /\ pc = "idle"
    /\ Allowed(key)
    /\ arg' = key
    /\ k' = key
    /\ v' = val
    /\ pos' = home[key]
    /\ ctr' = 0
    /\ dist' = 0
    /\ pc' = "probe"
    /\ UNCHANGED <<home, tableVars>>

\* The test of the loop: the slot is taken by another key.
Taken == slots_[pos].key \notin {EMPTY, k}

\* An iteration: the entry in hand is exchanged for a resident that is nearer
\* to its home, then the next slot is tried.
Probe ==
    LET resident == slots_[pos]
        resident_dist == probe_distance_(resident.key, pos)
    IN  /\ pc = "probe"
        /\ Taken
        /\ ctr + 1 # Capacity
        /\ ctr' = ctr + 1
        /\ pos' = After(pos)
        /\ IF resident_dist < dist
           THEN /\ slots_' = [slots_ EXCEPT ![pos] = [key |-> k, value |-> v]]
                /\ k' = resident.key
                /\ v' = resident.value
                /\ dist' = resident_dist + 1
           ELSE /\ dist' = dist + 1
                /\ UNCHANGED <<slots_, k, v>>
        /\ UNCHANGED <<home, size_, pc, arg>>

\* Every slot was passed: return false.
Refuse ==
    /\ pc = "probe"
    /\ Taken
    /\ ctr + 1 = Capacity
    /\ Return
    /\ UNCHANGED <<home, tableVars>>

\* Mutation: an overwrite counts as a new entry.
PlaceCountsAll ==
    /\ pc = "probe"
    /\ ~ Taken
    /\ size_' = size_ + 1
    /\ slots_' = [slots_ EXCEPT ![pos] = [key |-> k, value |-> v]]
    /\ Return
    /\ UNCHANGED home

\* A free slot, or the slot of the key in hand: return true.
Place ==
    /\ pc = "probe"
    /\ ~ Taken
    /\ size_' = IF slots_[pos].key = EMPTY THEN size_ + 1 ELSE size_
    /\ slots_' = [slots_ EXCEPT ![pos] = [key |-> k, value |-> v]]
    /\ Return
    /\ UNCHANGED home

------------------------------------------------------------------------------
(* erase                                                                    *)

EraseMiss(key) ==
    /\ pc = "idle"
    /\ Found(key) = {}
    /\ UNCHANGED vars

Erase(key) ==
    /\ pc = "idle"
    /\ \E i \in Found(key) :
          /\ slots_' = [slots_ EXCEPT ![i] = Free]
          /\ pos' = i
    /\ size_' = size_ - 1
    /\ arg' = key
    /\ pc' = "shift"
    /\ UNCHANGED <<home, k, v, dist, ctr>>

\* Mutation: entries are shifted back even from their home slot.
ShiftsHome == slots_[After(pos)].key # EMPTY

\* Mutation: nothing is shifted, the hole stays.
NeverShifts == FALSE

\* Mutation: the loop does not stop at a free slot.
ShiftsFree ==
    ~ (slots_[After(pos)].key # EMPTY /\ probe_distance_(slots_[After(pos)].key, After(pos)) = 0)

\* The entry after the hole is not at home.
Shifts ==
    /\ slots_[After(pos)].key # EMPTY
    /\ probe_distance_(slots_[After(pos)].key, After(pos)) # 0

\* An iteration of the backward shift: the entry after the hole fills it.
Shift ==
    /\ pc = "shift"
    /\ Shifts
    /\ slots_' = [slots_ EXCEPT ![pos] = slots_[After(pos)], ![After(pos)] = Free]
    /\ pos' = After(pos)
    /\ UNCHANGED <<home, size_, pc, arg, k, v, dist, ctr>>

ShiftEnd ==
    /\ pc = "shift"
    /\ ~ Shifts
    /\ Return
    /\ UNCHANGED <<home, tableVars>>

------------------------------------------------------------------------------

Steps == Probe \/ Refuse \/ Place \/ Shift \/ ShiftEnd

Next ==
    \/ \E key \in Keys :
          \/ \E val \in Values : Insert(key, val)
          \/ Erase(key)
          \/ EraseMiss(key)
    \/ Steps

\* The calls are sequential code: once made, a call goes on.
Spec == Init /\ [][Next]_vars /\ WF_vars(Steps)

------------------------------------------------------------------------------
(* Properties                                                               *)

\* Slots hold entries or are free, and the loops' positions and distances stay
\* within the table.
TypeOK ==
    /\ home \in [Keys -> Slots]
    /\ slots_ \in [Slots -> [key : Keys, value : Values] \cup {Free}]
    /\ size_ \in 0 .. Capacity
    /\ pc \in {"idle", "probe", "shift"}
    /\ arg \in Keys \cup {EMPTY}
    /\ k \in Keys \cup {EMPTY}
    /\ v \in Values \cup {EMPTY}
    /\ pos \in Slots
    /\ dist \in Slots
    /\ ctr \in Slots

Occupied == {i \in Slots : slots_[i].key # EMPTY}

\* size() counts the occupied slots, also across displacements, overwrites and
\* backward shifts.
SizeExact == size_ = Cardinality(Occupied)

\* The hole that a running erase moves along.
HoleAt(i) == pc = "shift" /\ i = pos

\* The Robin Hood order, which lets erase work without tombstones and lets an
\* insert of a present key reach it before it displaces anything: an entry that
\* is not at home follows, with no free slot between them, an entry that is at
\* most one step nearer to its home.
RobinHood ==
    \A i \in Slots :
        LET follower == slots_[After(i)].key
            d == probe_distance_(follower, After(i))
        IN  (follower # EMPTY /\ d > 0) =>
                \/ HoleAt(i)
                \/ i \in Occupied /\ probe_distance_(slots_[i].key, i) >= d - 1

\* The displaced entry is in hand: it has left its slot and has no other yet.
InHand == pc = "probe" /\ k # arg

\* The map a caller sees: between calls what find returns, and during a call
\* what the slots and the hand hold.
Visible(key) ==
    IF pc = "idle" THEN Found(key) ELSE {i \in Slots : slots_[i].key = key}

Contents ==
    [key \in {x \in Keys : Visible(x) # {} \/ (InHand /\ x = k)} |->
        IF InHand /\ key = k THEN v
        ELSE slots_[CHOOSE i \in Visible(key) : TRUE].value]

\* The finite map that Contents is shown to be.
Map == INSTANCE KeyValueMap WITH map <- Contents

\* Whatever the collisions, displacements and shifts, find, insert and erase
\* are the operations of a finite map: an insert changes its own key only and
\* an erase loses no other key.
Implements == Map!Spec

\* Every call ends: the loop of erase, which counts no slots, does not go
\* round the table for ever, even when every slot is taken.
CallEnds == pc # "idle" ~> pc = "idle"

\* A key leaves the map only when erase is called for it.  A test says so for
\* the full table: insert returns false rather than corrupting state.
OnlyEraseRemoves ==
    [][\A key \in DOMAIN Contents : key \notin DOMAIN Contents' => pc' = "shift"]_vars
==============================================================================
