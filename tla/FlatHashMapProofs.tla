-------------------------- MODULE FlatHashMapProofs --------------------------
(***************************************************************************)
(* Proofs about FlatHashMap, for any capacity, keys, values and hash       *)
(* function.                                                               *)
(*                                                                         *)
(* The Robin Hood order relates neighbours.  What the proofs need is its   *)
(* consequence for a whole search path, and that is what is inductive:     *)
(* every slot between the home of an entry and the entry is occupied, by   *)
(* an entry at least as far from its own home as the path has come.        *)
(***************************************************************************)
EXTENDS FlatHashMap, FiniteSetTheorems, TLAPS

\* How many steps forward it is from slot j to slot i, without a remainder.
Back(i, j) == IF i >= j THEN i - j ELSE i - j + Capacity

Entries == [key : Keys, value : Values]

Types ==
    /\ home \in [Keys -> Slots]
    /\ slots_ \in [Slots -> Entries \cup {Free}]
    /\ pc \in {"idle", "probe", "shift"}
    /\ arg \in Keys \cup {EMPTY}
    /\ k \in Keys \cup {EMPTY}
    /\ v \in Values \cup {EMPTY}
    /\ pos \in Slots
    /\ dist \in Slots
    /\ ctr \in Slots

Occ(i) == slots_[i].key # EMPTY

\* How far the entry of slot i is from its home.
Far(i) == Back(i, home[slots_[i].key])

\* The path of every entry: the slots from its home on are occupied, by entries
\* that are as far from home as the path has come.
Path ==
    \A i, j \in Slots :
        Occ(i) /\ Back(i, j) <= Far(i) =>
            HoleAt(j) \/ (Occ(j) /\ Far(j) + Back(i, j) >= Far(i))

Unique == \A i, j \in Slots : Occ(i) /\ slots_[i].key = slots_[j].key => i = j

\* What the loop of insert knows: the path of the entry in hand; that all slots
\* it has passed are occupied, none of them by its key; and that an entry that
\* was displaced is nowhere else.
Probing ==
    pc = "probe" =>
        /\ arg \in Keys /\ k \in Keys /\ v \in Values
        /\ dist = Back(pos, home[k]) /\ ctr = Back(pos, home[arg]) /\ dist <= ctr
        /\ \A j \in Slots : Back(pos, j) \in 1 .. dist => Far(j) + Back(pos, j) >= dist
        /\ \A j \in Slots : Back(pos, j) \in 1 .. ctr => Occ(j)
        /\ k = arg =>
              /\ \A j \in Slots : Back(pos, j) \in 1 .. ctr => slots_[j].key # k
              /\ size_ < MaxLoad \/ \E i \in Slots : slots_[i].key = arg
        /\ k # arg =>
              /\ \A i \in Slots : slots_[i].key # k
              /\ \E i \in Slots : slots_[i].key = arg /\ Back(pos, i) \in 1 .. ctr
              /\ size_ < MaxLoad

Shifting == pc = "shift" => slots_[pos] = Free

MInv == Types /\ Path /\ Unique /\ Probing /\ Shifting /\ SizeExact

------------------------------------------------------------------------------
(* Arithmetic on the ring of slots                                          *)

\* Remainders of the numbers that occur.
LEMMA Remainder ==
    /\ Capacity \in Nat /\ Capacity >= 1
    /\ \A a \in Slots : a % Capacity = a
    /\ \A a \in Slots : (a + Capacity) % Capacity = a
    /\ \A a \in Slots : (a - Capacity) % Capacity = a
<1>1. Capacity \in Nat /\ Capacity >= 1
  BY MapAssumption
<1>2. ASSUME NEW a \in Slots PROVE a % Capacity = a
  BY <1>1 DEF Slots
<1>3. ASSUME NEW a \in Slots PROVE (a + Capacity) % Capacity = a
  BY <1>1 DEF Slots
<1>4. ASSUME NEW a \in Slots PROVE (a - Capacity) % Capacity = a
  BY <1>1 DEF Slots
<1>. QED
  BY <1>1, <1>2, <1>3, <1>4

\* Positions and distances on the ring.
LEMMA Ring ==
    /\ 0 \in Slots
    /\ \A i \in Slots : After(i) \in Slots /\ After(i) = IF i + 1 = Capacity THEN 0 ELSE i + 1
    /\ \A i, j \in Slots : Back(i, j) \in Slots /\ (i - j) % Capacity = Back(i, j)
    /\ \A i, d \in Slots : (i + d) % Capacity = IF i + d < Capacity THEN i + d ELSE i + d - Capacity
<1>1. Capacity \in Nat /\ Capacity >= 1
  BY Remainder
<1>2. ASSUME NEW i \in Slots, NEW d \in Slots
      PROVE  (i + d) % Capacity = IF i + d < Capacity THEN i + d ELSE i + d - Capacity
  <2>1. CASE i + d < Capacity
    <3>1. i + d \in Slots
      BY <1>1, <2>1 DEF Slots
    <3>. QED
      BY <2>1, <3>1, Remainder
  <2>2. CASE ~ (i + d < Capacity)
    <3>1. i + d - Capacity \in Slots
      BY <1>1, <2>2 DEF Slots
    <3>2. ((i + d - Capacity) + Capacity) % Capacity = i + d - Capacity
      BY <3>1, Remainder
    <3>3. (i + d - Capacity) + Capacity = i + d
      BY <1>1 DEF Slots
    <3>. QED
      BY <2>2, <3>2, <3>3
  <2>. QED
    BY <2>1, <2>2
<1>3. ASSUME NEW i \in Slots, NEW j \in Slots
      PROVE  Back(i, j) \in Slots /\ (i - j) % Capacity = Back(i, j)
  <2>1. CASE i >= j
    <3>1. i - j \in Slots
      BY <1>1, <2>1 DEF Slots
    <3>. QED
      BY <2>1, <3>1, Remainder DEF Back
  <2>2. CASE ~ (i >= j)
    <3>1. i - j + Capacity \in Slots
      BY <1>1, <2>2 DEF Slots
    <3>2. ((i - j + Capacity) - Capacity) % Capacity = i - j + Capacity
      BY <3>1, Remainder
    <3>3. (i - j + Capacity) - Capacity = i - j
      BY <1>1 DEF Slots
    <3>. QED
      BY <2>2, <3>1, <3>2, <3>3 DEF Back
  <2>. QED
    BY <2>1, <2>2
<1>4. ASSUME NEW i \in Slots
      PROVE  After(i) \in Slots /\ After(i) = IF i + 1 = Capacity THEN 0 ELSE i + 1
  <2>1. CASE i + 1 = Capacity
    <3>1. 0 \in Slots
      BY <1>1 DEF Slots
    <3>2. (0 + Capacity) % Capacity = 0
      BY <3>1, Remainder
    <3>. QED
      BY <1>1, <2>1, <3>1, <3>2 DEF After
  <2>2. CASE i + 1 # Capacity
    <3>1. i + 1 \in Slots
      BY <1>1, <2>2 DEF Slots
    <3>. QED
      BY <2>2, <3>1, Remainder DEF After
  <2>. QED
    BY <2>1, <2>2
<1>. QED
  BY <1>1, <1>2, <1>3, <1>4 DEF Slots

\* Distances seen from the next slot and to the next slot.
LEMMA Distances ==
    /\ \A i \in Slots : i \in Int /\ i >= 0 /\ i <= Capacity - 1
    /\ \A i, j \in Slots : Back(i, j) \in Slots /\ (Back(i, j) = 0 <=> i = j)
    /\ \A i, j \in Slots : Back(After(i), j) = IF Back(i, j) = Capacity - 1 THEN 0 ELSE Back(i, j) + 1
    /\ \A i, j \in Slots : i # j => Back(i, After(j)) = Back(i, j) - 1
<1>1. Capacity \in Nat /\ Capacity >= 1
  BY Remainder
<1>2. \A i \in Slots : i \in Int /\ i >= 0 /\ i <= Capacity - 1
  BY <1>1 DEF Slots
<1>3. \A i, j \in Slots : Back(i, j) \in Slots /\ (Back(i, j) = 0 <=> i = j)
  BY <1>1, Ring DEF Back, Slots
<1>4. \A i, j \in Slots : Back(After(i), j) = IF Back(i, j) = Capacity - 1 THEN 0 ELSE Back(i, j) + 1
  <2>1. SUFFICES ASSUME NEW i \in Slots, NEW j \in Slots
                 PROVE  Back(After(i), j) = IF Back(i, j) = Capacity - 1 THEN 0 ELSE Back(i, j) + 1
    OBVIOUS
  <2>2. PICK a : a = After(i) /\ a = IF i + 1 = Capacity THEN 0 ELSE i + 1
    BY Ring
  <2>3. Back(a, j) = IF Back(i, j) = Capacity - 1 THEN 0 ELSE Back(i, j) + 1
    BY <1>1, <2>2 DEF Back, Slots
  <2>. QED
    BY <2>2, <2>3
<1>5. \A i, j \in Slots : i # j => Back(i, After(j)) = Back(i, j) - 1
  <2>1. SUFFICES ASSUME NEW i \in Slots, NEW j \in Slots, i # j
                 PROVE  Back(i, After(j)) = Back(i, j) - 1
    OBVIOUS
  <2>2. PICK a : a = After(j) /\ a = IF j + 1 = Capacity THEN 0 ELSE j + 1
    BY Ring
  <2>3. Back(i, a) = Back(i, j) - 1
    BY <1>1, <2>1, <2>2 DEF Back, Slots
  <2>. QED
    BY <2>2, <2>3
<1>. QED
  BY <1>2, <1>3, <1>4, <1>5

\* Distances along a path that starts in h.
LEMMA Between ==
    ASSUME NEW i \in Slots, NEW j \in Slots, NEW h \in Slots
    PROVE  /\ Back(i, h) >= Back(j, h) => Back(i, j) = Back(i, h) - Back(j, h)
           /\ Back(i, j) <= Back(i, h) => Back(j, h) = Back(i, h) - Back(i, j)
BY Remainder DEF Back, Slots

------------------------------------------------------------------------------
(* The table                                                                *)

\* An occupied slot holds an entry, which has a distance; the others are free.
LEMMA SlotFacts ==
    ASSUME Types
    PROVE  /\ Free.key = EMPTY /\ EMPTY \notin Keys
           /\ \A i \in Slots : Occ(i) => /\ slots_[i] \in Entries
                                         /\ slots_[i].key \in Keys
                                         /\ slots_[i].value \in Values
                                         /\ home[slots_[i].key] \in Slots
                                         /\ Far(i) \in Slots
           /\ \A i \in Slots : ~ Occ(i) => slots_[i] = Free
<1>1. Free.key = EMPTY /\ EMPTY \notin Keys
  BY MapAssumption DEF Free
<1>2. ASSUME NEW i \in Slots, Occ(i)
      PROVE  /\ slots_[i] \in Entries /\ slots_[i].key \in Keys /\ slots_[i].value \in Values
             /\ home[slots_[i].key] \in Slots /\ Far(i) \in Slots
  <2>1. slots_[i] \in Entries
    BY <1>1, <1>2 DEF Types, Occ
  <2>2. slots_[i].key \in Keys /\ slots_[i].value \in Values
    BY <2>1 DEF Entries
  <2>3. home[slots_[i].key] \in Slots
    BY <2>2 DEF Types
  <2>. QED
    BY <2>1, <2>2, <2>3, Distances DEF Far
<1>3. ASSUME NEW i \in Slots, ~ Occ(i) PROVE slots_[i] = Free
  <2>1. slots_[i] \in Entries => slots_[i].key \in Keys
    BY DEF Entries
  <2>. QED
    BY <1>1, <1>3, <2>1 DEF Types, Occ
<1>. QED
  BY <1>1, <1>2, <1>3

\* The occupied slots are finitely many, at most Capacity.
LEMMA OccupiedFinite ==
    /\ IsFiniteSet(Slots) /\ Cardinality(Slots) = Capacity
    /\ IsFiniteSet(Occupied) /\ Cardinality(Occupied) \in 0 .. Capacity
<1>1. Capacity \in Nat /\ Capacity >= 1
  BY Remainder
<1>2. IsFiniteSet(Slots) /\ Cardinality(Slots) = Capacity
  <2>1. PICK a, b \in Int : a = 0 /\ b = Capacity - 1
    BY <1>1
  <2>2. IsFiniteSet(a .. b) /\ Cardinality(a .. b) = IF a > b THEN 0 ELSE b - a + 1
    BY FS_Interval
  <2>. QED
    BY <1>1, <2>1, <2>2 DEF Slots
<1>3. IsFiniteSet(Occupied) /\ Cardinality(Occupied) <= Cardinality(Slots)
  BY <1>2, FS_Subset DEF Occupied
<1>4. Cardinality(Occupied) \in Nat
  BY <1>3, FS_CardinalityType
<1>. QED
  BY <1>1, <1>2, <1>3, <1>4

\* Only slots with the key are found.
LEMMA FoundHolds ==
    ASSUME NEW key, NEW i \in Found(key)
    PROVE  i \in Slots /\ slots_[i].key = key
BY DEF Found

\* insert is called.
LEMMA InsertInv ==
    ASSUME MInv, NEW key \in Keys, NEW val \in Values, Insert(key, val)
    PROVE  MInv'
<1>1. /\ pc = "idle" /\ pc' = "probe" /\ arg' = key /\ k' = key /\ v' = val
      /\ pos' = home[key] /\ ctr' = 0 /\ dist' = 0
      /\ UNCHANGED <<home, slots_, size_>>
      /\ Found(key) # {} \/ size_ < MaxLoad
  BY DEF Insert, Allowed, tableVars
<1>2. Types /\ Path /\ Unique /\ SizeExact
  BY DEF MInv
<1>3. pos' \in Slots /\ 0 \in Slots
  BY <1>1, <1>2, Ring DEF Types
<1>4. Types'
  BY <1>1, <1>2, <1>3 DEF Types
<1>5. Path' /\ Unique' /\ SizeExact' /\ Shifting'
  BY Zenon, <1>1, <1>2 DEF Path, Unique, SizeExact, Shifting, HoleAt, Occ, Far, Occupied
<1>6. Probing'
  <2>1. Back(pos', home[key]) = 0
    BY Zenon, <1>1, <1>3, Distances
  <2>2. size_ < MaxLoad \/ \E i \in Slots : slots_[i].key = key
    BY <1>1, FoundHolds
  <2>3. \A x : x \notin 1 .. 0
    OBVIOUS
  <2>. QED
    BY <1>1, <2>1, <2>2, <2>3 DEF Probing
<1>. QED
  BY <1>4, <1>5, <1>6 DEF MInv

------------------------------------------------------------------------------
(* insert                                                                   *)

\* What an iteration finds in the table: the slot is on the path of the key in
\* hand, so if the key is in the table it lies ahead and the resident here is
\* at least as far from home as the entry in hand.
LEMMA KeyAhead ==
    ASSUME MInv, pc = "probe", k = arg, NEW i \in Slots, slots_[i].key = k, i # pos
    PROVE  Occ(pos) /\ Far(pos) >= dist
<1>1. /\ Types /\ Path /\ k \in Keys /\ home[k] \in Slots /\ pos \in Slots /\ dist \in Slots
      /\ dist = Back(pos, home[k]) /\ ctr = dist
      /\ \A j \in Slots : Back(pos, j) \in 1 .. ctr => slots_[j].key # k
  BY Zenon DEF MInv, Types, Probing
<1>2. Occ(i) /\ Far(i) = Back(i, home[k])
  BY <1>1, SlotFacts DEF Occ, Far
<1>3. CASE Back(i, home[k]) >= dist
  <2>1. Back(i, pos) = Far(i) - dist
    BY <1>1, <1>2, <1>3, Between
  <2>2. Far(i) \in Int /\ dist \in Int /\ dist >= 0
    BY <1>1, <1>2, SlotFacts, Distances
  <2>3. Back(i, pos) <= Far(i)
    BY SMTT(30), <2>1, <2>2
  <2>4. Occ(pos) /\ Far(pos) + Back(i, pos) >= Far(i)
    BY <1>1, <1>2, <2>3 DEF Path, HoleAt
  <2>5. Far(pos) \in Int
    BY <1>1, <2>4, SlotFacts, Distances
  <2>. QED
    BY SMTT(30), <2>1, <2>2, <2>4, <2>5
<1>4. CASE ~ (Back(i, home[k]) >= dist)
  <2>1. Back(i, home[k]) \in Int /\ Back(i, home[k]) >= 0 /\ dist \in Int
    BY Zenon, <1>1, Distances
  <2>2. Back(pos, i) = dist - Back(i, home[k])
    <3>1. Back(pos, home[k]) >= Back(i, home[k])
      BY <1>1, <1>4, <2>1
    <3>. QED
      BY <1>1, <3>1, Between
  <2>3. Back(pos, i) \in 1 .. ctr
    BY <1>1, <1>4, <2>1, <2>2
  <2>. QED
    BY <1>1, <2>3
<1>. QED
  BY <1>3, <1>4

\* An entry is written into slot p.
LEMMA Written ==
    ASSUME Types, home' = home, NEW p \in Slots, NEW e \in Entries,
           slots_' = [slots_ EXCEPT ![p] = e]
    PROVE  /\ slots_' \in [Slots -> Entries \cup {Free}]
           /\ slots_'[p] = e
           /\ Occ(p)' /\ Far(p)' = Back(p, home[e.key])
           /\ \A i \in Slots \ {p} : /\ slots_'[i] = slots_[i]
                                     /\ Occ(i)' <=> Occ(i)
                                     /\ Far(i)' = Far(i)
<1>1. /\ slots_' \in [Slots -> Entries \cup {Free}]
      /\ slots_'[p] = e
      /\ \A i \in Slots \ {p} : slots_'[i] = slots_[i]
  BY DEF Types
<1>2. e.key # EMPTY
  BY SlotFacts DEF Entries
<1>. QED
  BY <1>1, <1>2 DEF Occ, Far

\* The path of an entry written where the loop of insert stands is intact, and
\* so are the others if nobody's path is cut there.
LEMMA WrittenPath ==
    ASSUME MInv, pc = "probe", home' = home, pc' # "shift", NEW p \in Slots, p = pos,
           slots_' = [slots_ EXCEPT ![p] = [key |-> k, value |-> v]],
           \A i \in Slots \ {p} : Occ(i) /\ Back(i, p) <= Far(i) => dist + Back(i, p) >= Far(i)
    PROVE  Path'
<1>. DEFINE e == [key |-> k, value |-> v]
<1>1. /\ Types /\ Path /\ k \in Keys /\ v \in Values /\ dist = Back(p, home[k])
      /\ dist <= ctr /\ dist \in Slots /\ ctr \in Slots
      /\ \A j \in Slots : Back(p, j) \in 1 .. dist => Far(j) + Back(p, j) >= dist
      /\ \A j \in Slots : Back(p, j) \in 1 .. ctr => Occ(j)
  BY DEF MInv, Types, Probing
<1>2. e \in Entries /\ e.key = k
  BY <1>1 DEF Entries
<1>3. slots_' = [slots_ EXCEPT ![p] = e]
  BY Zenon
<1>. HIDE DEF e
<1>4. /\ Occ(p)' /\ Far(p)' = dist
      /\ \A i \in Slots \ {p} : (Occ(i)' <=> Occ(i)) /\ Far(i)' = Far(i)
  BY Zenon, <1>1, <1>2, <1>3, Written
<1>5. SUFFICES ASSUME NEW i \in Slots, NEW j \in Slots, Occ(i)', Back(i, j) <= Far(i)'
               PROVE  Occ(j)' /\ Far(j)' + Back(i, j) >= Far(i)'
  BY DEF Path
<1>6. Back(i, j) \in Int /\ Back(i, j) >= 0 /\ (i = j => Back(i, j) = 0) /\ (Back(i, j) = 0 => i = j)
  BY Zenon, Distances
<1>7. dist \in Int /\ dist >= 0 /\ ctr \in Int /\ (Occ(i) => Far(i) \in Int) /\ (Occ(j) => Far(j) \in Int)
  BY Zenon, <1>1, Distances, SlotFacts
<1>8. CASE i = p /\ j = p
  BY <1>4, <1>6, <1>7, <1>8
<1>9. CASE i = p /\ j # p
  <2>1. Back(p, j) \in 1 .. dist /\ Back(p, j) \in 1 .. ctr
    BY <1>1, <1>4, <1>5, <1>6, <1>7, <1>9
  <2>. QED
    BY <1>1, <1>4, <1>9, <2>1
<1>10. CASE i # p /\ j = p
  BY <1>4, <1>5, <1>10
<1>11. CASE i # p /\ j # p
  <2>1. Occ(i) /\ Back(i, j) <= Far(i)
    BY <1>4, <1>5, <1>11
  <2>2. Occ(j) /\ Far(j) + Back(i, j) >= Far(i)
    BY <1>1, <2>1 DEF Path, HoleAt
  <2>. QED
    BY Zenon, <1>4, <1>11, <2>2
<1>. QED
  BY <1>8, <1>9, <1>10, <1>11

\* The slots passed after one more step.
LEMMA PassedOne ==
    ASSUME NEW p \in Slots, NEW n \in Slots, n + 1 \in Slots, NEW j \in Slots,
           Back(After(p), j) \in 1 .. n + 1
    PROVE  /\ Back(After(p), j) = Back(p, j) + 1
           /\ j = p \/ Back(p, j) \in 1 .. n
<1>1. /\ Back(p, j) \in Int /\ Back(p, j) >= 0 /\ (Back(p, j) = 0 => j = p)
      /\ n \in Int /\ Capacity \in Int
  BY Distances, Remainder
<1>2. Back(After(p), j) = IF Back(p, j) = Capacity - 1 THEN 0 ELSE Back(p, j) + 1
  BY Distances
<1>. QED
  BY <1>1, <1>2

\* What every iteration of insert has in common.
LEMMA ProbeFacts ==
    ASSUME MInv, Probe
    PROVE  /\ pc = "probe" /\ Types /\ Path /\ Unique /\ SizeExact
           /\ UNCHANGED <<home, size_, pc, arg>>
           /\ pos \in Slots /\ Occ(pos) /\ slots_[pos].key # k
           /\ slots_[pos].key \in Keys /\ slots_[pos].value \in Values
           /\ probe_distance_(slots_[pos].key, pos) = Far(pos) /\ Far(pos) \in Slots
           /\ pos' = After(pos) /\ pos' \in Slots
           /\ ctr' = ctr + 1 /\ ctr \in Slots /\ ctr' \in Slots
           /\ dist \in Slots /\ dist <= ctr
           /\ ctr' = Back(pos', home[arg])
<1>1. /\ pc = "probe" /\ UNCHANGED <<home, size_, pc, arg>>
      /\ slots_[pos].key \notin {EMPTY, k} /\ ctr + 1 # Capacity
      /\ pos' = After(pos) /\ ctr' = ctr + 1
  BY Zenon DEF Probe, Taken
<1>2. /\ Types /\ Path /\ Unique /\ SizeExact /\ pos \in Slots /\ ctr \in Slots /\ dist \in Slots
      /\ dist <= ctr /\ ctr = Back(pos, home[arg]) /\ home[arg] \in Slots
  BY <1>1 DEF MInv, Types, Probing
<1>3. Occ(pos) /\ slots_[pos].key # k
  BY <1>1 DEF Occ
<1>4. slots_[pos].key \in Keys /\ slots_[pos].value \in Values /\ Far(pos) \in Slots
      /\ home[slots_[pos].key] \in Slots
  BY <1>2, <1>3, SlotFacts
<1>5. probe_distance_(slots_[pos].key, pos) = Far(pos)
  BY <1>2, <1>4, Ring DEF probe_distance_, Far
<1>6. ctr + 1 \in Slots
  BY <1>1, <1>2, Remainder DEF Slots
<1>7. After(pos) \in Slots
  BY <1>2, Ring
<1>8. Back(After(pos), home[arg]) = IF ctr = Capacity - 1 THEN 0 ELSE ctr + 1
  BY Zenon, <1>2, Distances
<1>9. ctr # Capacity - 1
  BY <1>1, <1>2, Remainder DEF Slots
<1>. QED
  BY <1>1, <1>2, <1>3, <1>4, <1>5, <1>6, <1>7, <1>8, <1>9

\* The loop of insert goes on to the next slot with the same entry in hand.
LEMMA ProbeKeepInv ==
    ASSUME MInv, Probe, ~ (probe_distance_(slots_[pos].key, pos) < dist)
    PROVE  MInv'
<1>1. /\ pc = "probe" /\ Types /\ Path /\ Unique /\ SizeExact
      /\ UNCHANGED <<home, size_, pc, arg>>
      /\ pos \in Slots /\ Occ(pos) /\ slots_[pos].key # k
      /\ probe_distance_(slots_[pos].key, pos) = Far(pos) /\ Far(pos) \in Slots
      /\ pos' = After(pos) /\ pos' \in Slots
      /\ ctr' = ctr + 1 /\ ctr \in Slots /\ ctr' \in Slots
      /\ dist \in Slots /\ dist <= ctr
      /\ ctr' = Back(pos', home[arg])
  BY ProbeFacts
<1>2. dist' = dist + 1 /\ UNCHANGED <<slots_, k, v>>
  BY DEF Probe
<1>3. dist + 1 \in Slots /\ dist # Capacity - 1 /\ Far(pos) >= dist /\ dist \in Int /\ ctr \in Int
  BY <1>1, Remainder DEF Slots
<1>4. Types'
  BY Zenon, <1>1, <1>2, <1>3 DEF Types
<1>5. Path' /\ Unique' /\ SizeExact' /\ Shifting'
  BY Zenon, <1>1, <1>2 DEF Path, Unique, SizeExact, Shifting, HoleAt, Occ, Far, Occupied
<1>6. Probing'
  <2>1. /\ arg \in Keys /\ k \in Keys /\ v \in Values /\ dist = Back(pos, home[k]) /\ home[k] \in Slots
        /\ \A j \in Slots : Back(pos, j) \in 1 .. dist => Far(j) + Back(pos, j) >= dist
        /\ \A j \in Slots : Back(pos, j) \in 1 .. ctr => Occ(j)
    BY Zenon, <1>1 DEF MInv, Probing, Types
  <2>2. dist' = Back(pos', home[k])
    <3>1. Back(After(pos), home[k]) = IF dist = Capacity - 1 THEN 0 ELSE dist + 1
      <4>1. Back(After(pos), home[k]) = IF Back(pos, home[k]) = Capacity - 1 THEN 0 ELSE Back(pos, home[k]) + 1
        BY Zenon, <1>1, <2>1, Distances
      <4>. QED
        BY Zenon, <2>1, <4>1
    <3>. QED
      BY Zenon, <1>1, <1>2, <1>3, <3>1
  <2>3. ASSUME NEW j \in Slots, Back(After(pos), j) \in 1 .. dist + 1
        PROVE  Far(j) + Back(After(pos), j) >= dist + 1
    <3>1. Back(After(pos), j) = Back(pos, j) + 1 /\ (j = pos \/ Back(pos, j) \in 1 .. dist)
      BY <1>1, <1>3, <2>3, PassedOne
    <3>2. CASE j = pos
      <4>1. Back(pos, j) = 0
        BY <1>1, <3>2, Distances
      <4>2. Far(j) \in Int /\ Far(j) >= dist
        BY Zenon, <1>1, <1>3, <3>2, Distances
      <4>. QED
        BY <1>3, <3>1, <4>1, <4>2
    <3>3. CASE Back(pos, j) \in 1 .. dist
      <4>1. Far(j) + Back(pos, j) >= dist /\ Occ(j)
        BY <1>1, <1>3, <2>1, <3>3
      <4>2. Far(j) \in Int /\ Back(pos, j) \in Int
        BY Zenon, <1>1, <4>1, SlotFacts, Distances
      <4>. QED
        BY <1>3, <3>1, <4>1, <4>2
    <3>. QED
      BY <3>1, <3>2, <3>3
  <2>4. \A j \in Slots : Back(After(pos), j) \in 1 .. ctr + 1 => j = pos \/ Back(pos, j) \in 1 .. ctr
    BY <1>1, PassedOne
  <2>5. \A j \in Slots : Back(After(pos), j) \in 1 .. ctr + 1 => Occ(j)
    BY Zenon, <1>1, <2>1, <2>4
  <2>6. ASSUME k = arg
        PROVE  /\ \A j \in Slots : Back(After(pos), j) \in 1 .. ctr + 1 => slots_[j].key # k
               /\ size_ < MaxLoad \/ \E i \in Slots : slots_[i].key = arg
    BY Zenon, <1>1, <2>4, <2>6 DEF MInv, Probing
  <2>7. ASSUME k # arg
        PROVE  /\ \A i \in Slots : slots_[i].key # k
               /\ \E i \in Slots : slots_[i].key = arg /\ Back(After(pos), i) \in 1 .. ctr + 1
               /\ size_ < MaxLoad
    <3>1. PICK i \in Slots : slots_[i].key = arg /\ Back(pos, i) \in 1 .. ctr
      BY <1>1, <2>7 DEF MInv, Probing
    <3>2. Back(After(pos), i) = IF Back(pos, i) = Capacity - 1 THEN 0 ELSE Back(pos, i) + 1
      BY <1>1, Distances
    <3>3. Back(After(pos), i) \in 1 .. ctr + 1
      BY <1>1, <1>3, <3>1, <3>2, Remainder DEF Slots
    <3>. QED
      BY Zenon, <1>1, <2>7, <3>1, <3>3 DEF MInv, Probing
  <2>8. \A j \in Slots : Far(j)' = Far(j) /\ (Occ(j)' <=> Occ(j))
    BY <1>1, <1>2 DEF Far, Occ
  <2>9. dist' <= ctr'
    BY <1>1, <1>2, <1>3
  <2>. QED
    BY Zenon, <1>1, <1>2, <2>1, <2>2, <2>3, <2>5, <2>6, <2>7, <2>8, <2>9 DEF Probing
<1>. QED
  BY <1>4, <1>5, <1>6 DEF MInv

\* The entry in hand takes the slot of a resident that is nearer to its home.
\* The key of the call is then in no other slot: had it been there, the resident
\* would not have been nearer.
LEMMA ProbeSwapInv ==
    ASSUME MInv, Probe, probe_distance_(slots_[pos].key, pos) < dist
    PROVE  MInv' /\ (k = arg => \A i \in Slots : slots_[i].key # arg) /\ k' # arg
<1>1. PICK p \in Slots : p = pos
  BY DEF MInv, Types
<1>2. /\ pc = "probe" /\ Types /\ Path /\ Unique /\ SizeExact
      /\ UNCHANGED <<home, size_, pc, arg>>
      /\ Occ(p) /\ slots_[p].key # k
      /\ slots_[p].key \in Keys /\ slots_[p].value \in Values
      /\ probe_distance_(slots_[p].key, p) = Far(p) /\ Far(p) \in Slots
      /\ pos' = After(p) /\ pos' \in Slots
      /\ ctr' = ctr + 1 /\ ctr \in Slots /\ ctr' \in Slots
      /\ dist \in Slots /\ dist <= ctr
      /\ ctr' = Back(pos', home[arg])
  BY Zenon, <1>1, ProbeFacts
<1>3. /\ slots_' = [slots_ EXCEPT ![p] = [key |-> k, value |-> v]]
      /\ k' = slots_[p].key /\ v' = slots_[p].value /\ dist' = Far(p) + 1
  BY <1>1, <1>2 DEF Probe
<1>4. /\ Far(p) < dist /\ Far(p) + 1 \in Slots /\ Far(p) # Capacity - 1 /\ Far(p) + 1 <= ctr + 1
      /\ dist \in Int /\ ctr \in Int /\ Far(p) \in Int /\ Far(p) >= 0
  BY SMTT(30), <1>1, <1>2, Remainder DEF Slots
<1>5. /\ arg \in Keys /\ k \in Keys /\ v \in Values /\ dist = Back(p, home[k])
      /\ \A j \in Slots : Back(p, j) \in 1 .. ctr => Occ(j)
  BY <1>1, <1>2 DEF MInv, Probing
<1>6. \A i \in Slots : slots_[i].key # k
  <2>1. CASE k = arg
    <3>1. SUFFICES ASSUME NEW i \in Slots, slots_[i].key = k PROVE FALSE
      OBVIOUS
    <3>2. Far(p) >= dist
      BY SMTT(30), <1>1, <1>2, <2>1, <3>1, KeyAhead
    <3>. QED
      BY <1>4, <3>2
  <2>2. CASE k # arg
    BY <1>2, <2>2 DEF MInv, Probing
  <2>. QED
    BY <2>1, <2>2
<1>7. k' # arg
  <2>1. CASE k = arg
    BY Zenon, <1>2, <1>3, <2>1
  <2>2. CASE k # arg
    <3>1. PICK i \in Slots : slots_[i].key = arg /\ Back(p, i) \in 1 .. ctr
      BY <1>1, <1>2, <2>2 DEF MInv, Probing
    <3>2. i # p
      BY SMTT(30), <3>1, Distances
    <3>. QED
      BY Zenon, <1>2, <1>3, <3>1, <3>2 DEF Unique, Occ
  <2>. QED
    BY Zenon, <2>1, <2>2
<1>8. size_ < MaxLoad
  BY <1>2, <1>6 DEF MInv, Probing
<1>9. [key |-> k, value |-> v] \in Entries /\ [key |-> k, value |-> v].key = k
  BY Zenon, <1>5 DEF Entries
<1>10. /\ slots_' \in [Slots -> Entries \cup {Free}] /\ slots_'[p].key = k
       /\ Occ(p)' /\ Far(p)' = dist
       /\ \A i \in Slots \ {p} : slots_'[i] = slots_[i] /\ (Occ(i)' <=> Occ(i)) /\ Far(i)' = Far(i)
  BY Zenon, <1>2, <1>3, <1>5, <1>9, Written
<1>11. Types'
  BY Zenon, <1>2, <1>3, <1>4, <1>10 DEF Types
<1>12. Path'
  <2>1. ASSUME NEW i \in Slots \ {p}, Occ(i), Back(i, p) <= Far(i) PROVE dist + Back(i, p) >= Far(i)
    <3>1. Far(p) + Back(i, p) >= Far(i)
      BY Zenon, <1>2, <2>1 DEF Path, HoleAt
    <3>2. Far(i) \in Slots /\ Back(i, p) \in Slots
      BY Zenon, <1>2, <2>1, SlotFacts, Distances
    <3>3. Far(i) \in Int /\ Back(i, p) \in Int
      BY Zenon, <3>2, Distances
    <3>. QED
      BY <1>4, <3>1, <3>3
  <2>. QED
    BY Zenon, <1>1, <1>2, <1>3, <2>1, WrittenPath
<1>13. Unique'
  BY <1>6, <1>10 DEF MInv, Unique, Occ
<1>14. SizeExact' /\ Shifting'
  <2>1. Occupied' = Occupied
    BY Zenon, <1>2, <1>10 DEF Occupied, Occ
  <2>. QED
    BY <1>2, <2>1 DEF SizeExact, Shifting
<1>15. Probing'
  <2>1. dist' = Back(pos', home[k'])
    <3>1. home[slots_[p].key] \in Slots /\ Far(p) = Back(p, home[slots_[p].key])
      BY <1>2 DEF Types, Far
    <3>2. PICK h \in Slots : h = home[slots_[p].key] /\ Far(p) = Back(p, h)
      BY <3>1
    <3>3. Back(After(p), h) = IF Back(p, h) = Capacity - 1 THEN 0 ELSE Back(p, h) + 1
      BY Distances
    <3>. QED
      BY <1>2, <1>3, <1>4, <3>2, <3>3
  <2>2. ASSUME NEW j \in Slots, Back(After(p), j) \in 1 .. Far(p) + 1
        PROVE  Far(j)' + Back(After(p), j) >= Far(p) + 1
    <3>1. Back(After(p), j) = Back(p, j) + 1 /\ (j = p \/ Back(p, j) \in 1 .. Far(p))
      BY <1>2, <1>4, <2>2, PassedOne
    <3>2. CASE j = p
      <4>1. Back(p, j) = 0
        BY <3>2, Distances
      <4>. QED
        BY <1>4, <1>10, <3>1, <3>2, <4>1
    <3>3. CASE j # p
      <4>1. Back(p, j) <= Far(p)
        BY <1>4, <3>1, <3>3
      <4>2. Occ(j) /\ Far(j) + Back(p, j) >= Far(p)
        BY Zenon, <1>2, <4>1 DEF Path, HoleAt
      <4>3. Far(j) \in Int /\ Back(p, j) \in Int
        BY Zenon, <1>2, <4>2, SlotFacts, Distances
      <4>. QED
        BY <1>4, <1>10, <3>1, <3>3, <4>2, <4>3
    <3>. QED
      BY <3>2, <3>3
  <2>3. \A j \in Slots : Back(After(p), j) \in 1 .. ctr + 1 => j = p \/ Back(p, j) \in 1 .. ctr
    BY <1>2, PassedOne
  <2>4. \A j \in Slots : Back(After(p), j) \in 1 .. ctr + 1 => Occ(j)'
    BY Zenon, <1>5, <1>10, <2>3
  <2>5. \A i \in Slots : slots_'[i].key # k'
    BY <1>2, <1>3, <1>10 DEF Unique, Occ
  <2>6. \E i \in Slots : slots_'[i].key = arg /\ Back(After(p), i) \in 1 .. ctr + 1
    <3>1. CASE k = arg
      <4>1. Back(After(p), p) = 1
        <5>1. Back(p, p) = 0 /\ Back(After(p), p) = IF Back(p, p) = Capacity - 1 THEN 0 ELSE Back(p, p) + 1
          BY Zenon, Distances
        <5>2. Capacity # 1
          BY <1>2, <1>4, Remainder DEF Slots
        <5>. QED
          BY <5>1, <5>2, Remainder
      <4>2. 1 \in 1 .. ctr + 1
        BY <1>2 DEF Slots
      <4>. QED
        BY <1>10, <3>1, <4>1, <4>2
    <3>2. CASE k # arg
      <4>1. PICK i \in Slots : slots_[i].key = arg /\ Back(p, i) \in 1 .. ctr
        BY <1>1, <1>2, <3>2 DEF MInv, Probing
      <4>2. i # p
        BY <4>1, Distances
      <4>3. Back(After(p), i) = IF Back(p, i) = Capacity - 1 THEN 0 ELSE Back(p, i) + 1
        BY Distances
      <4>4. PICK n \in 1 .. ctr : n = Back(p, i)
        BY Zenon, <4>1
      <4>5. ctr \in Nat /\ ctr + 1 <= Capacity - 1 /\ Capacity \in Nat
        BY <1>2, Remainder DEF Slots
      <4>6. n # Capacity - 1 /\ n + 1 \in 1 .. ctr + 1
        BY <4>5
      <4>7. Back(After(p), i) \in 1 .. ctr + 1
        BY <4>3, <4>4, <4>6
      <4>. QED
        BY <1>10, <4>1, <4>2, <4>7
    <3>. QED
      BY <3>1, <3>2
  <2>7. dist' <= ctr'
    BY <1>2, <1>3, <1>4
  <2>. QED
    BY <1>2, <1>3, <1>5, <1>7, <1>8, <2>1, <2>2, <2>4, <2>5, <2>6, <2>7 DEF Probing
<1>. QED
  BY <1>6, <1>7, <1>11, <1>12, <1>13, <1>14, <1>15 DEF MInv

\* The loop of insert ends at a free slot, where nobody's path leads through,
\* or at the key itself.
LEMMA PlaceInv ==
    ASSUME MInv, Place
    PROVE  MInv' /\ (~ Occ(pos) => \A i \in Slots : slots_[i].key # k)
<1>1. PICK p \in Slots : p = pos
  BY DEF MInv, Types
<1>2. /\ pc = "probe" /\ slots_[p].key \in {EMPTY, k}
      /\ size_' = IF slots_[p].key = EMPTY THEN size_ + 1 ELSE size_
      /\ slots_' = [slots_ EXCEPT ![p] = [key |-> k, value |-> v]]
      /\ pc' = "idle" /\ arg' = EMPTY /\ k' = EMPTY /\ v' = EMPTY
      /\ pos' = 0 /\ dist' = 0 /\ ctr' = 0 /\ home' = home
  BY Zenon, <1>1 DEF Place, Taken, Return
<1>3. /\ Types /\ Path /\ Unique /\ SizeExact
      /\ arg \in Keys /\ k \in Keys /\ v \in Values /\ dist = Back(p, home[k])
  BY <1>1, <1>2 DEF MInv, Probing
<1>4. [key |-> k, value |-> v] \in Entries /\ [key |-> k, value |-> v].key = k
  BY Zenon, <1>3 DEF Entries
<1>5. /\ slots_' \in [Slots -> Entries \cup {Free}] /\ slots_'[p].key = k
      /\ Occ(p)' /\ Far(p)' = dist
      /\ \A i \in Slots \ {p} : slots_'[i] = slots_[i] /\ (Occ(i)' <=> Occ(i)) /\ Far(i)' = Far(i)
  BY Zenon, <1>2, <1>3, <1>4, Written
<1>6. Types'
  BY Zenon, <1>2, <1>3, <1>5, Ring DEF Types
<1>7. Path'
  <2>1. ASSUME NEW i \in Slots \ {p}, Occ(i), Back(i, p) <= Far(i) PROVE dist + Back(i, p) >= Far(i)
    <3>1. Occ(p) /\ Far(p) + Back(i, p) >= Far(i)
      BY <1>2, <2>1, <1>3 DEF Path, HoleAt
    <3>2. Far(p) = dist
      BY <1>2, <1>3, <3>1 DEF Occ, Far
    <3>. QED
      BY <3>1, <3>2
  <2>. QED
    BY Zenon, <1>1, <1>2, <1>3, <2>1, WrittenPath
<1>8. ASSUME ~ Occ(p) PROVE \A i \in Slots : slots_[i].key # k
  <2>1. CASE k = arg
    <3>1. SUFFICES ASSUME NEW i \in Slots, slots_[i].key = k PROVE FALSE
      BY Zenon
    <3>2. i # p
      BY Zenon, <1>3, <1>8, <3>1, SlotFacts DEF Occ
    <3>. QED
      BY <1>1, <1>2, <1>8, <2>1, <3>1, <3>2, KeyAhead
  <2>2. CASE k # arg
    BY <1>2, <2>2 DEF MInv, Probing
  <2>. QED
    BY <2>1, <2>2
<1>9. Unique'
  <2>1. CASE slots_[p].key = k
    BY SMTT(30), <1>3, <1>5, <2>1 DEF Unique, Occ
  <2>2. CASE slots_[p].key = EMPTY
    BY <1>3, <1>5, <1>8, <2>2 DEF Unique, Occ
  <2>. QED
    BY Zenon, <1>2, <2>1, <2>2
<1>10. SizeExact'
  <2>1. CASE slots_[p].key = k
    <3>1. Occ(p) /\ size_' = size_
      BY <1>2, <1>3, <2>1, SlotFacts DEF Occ
    <3>2. Occupied' = Occupied
      BY <1>5, <3>1 DEF Occupied, Occ
    <3>. QED
      BY Zenon, <1>3, <3>1, <3>2 DEF SizeExact
  <2>2. CASE slots_[p].key = EMPTY
    <3>1. p \notin Occupied /\ Occupied' = Occupied \cup {p} /\ size_' = size_ + 1
      BY <1>2, <1>5, <2>2 DEF Occupied, Occ
    <3>2. IsFiniteSet(Occupied)
      BY OccupiedFinite
    <3>3. Cardinality(Occupied \cup {p}) = Cardinality(Occupied) + 1
      BY Zenon, <3>1, <3>2, FS_AddElement
    <3>. QED
      BY <1>3, <3>1, <3>3 DEF SizeExact
  <2>. QED
    BY <1>2, <2>1, <2>2
<1>11. Probing' /\ Shifting'
  BY <1>2 DEF Probing, Shifting
<1>. QED
  BY <1>1, <1>6, <1>7, <1>8, <1>9, <1>10, <1>11 DEF MInv

\* insert gives up; the table is as sound as before.
LEMMA RefuseInv ==
    ASSUME MInv, Refuse
    PROVE  MInv'
<1>1. /\ pc = "probe" /\ pc' = "idle" /\ arg' = EMPTY /\ k' = EMPTY /\ v' = EMPTY
      /\ pos' = 0 /\ dist' = 0 /\ ctr' = 0 /\ UNCHANGED <<home, slots_, size_>>
  BY Zenon DEF Refuse, Return, tableVars
<1>2. Types'
  BY Zenon, <1>1, Ring DEF MInv, Types
<1>3. Path' /\ Unique' /\ SizeExact' /\ Shifting' /\ Probing'
  <2>1. Path'
    <3>1. /\ \A i : (Occ(i)' <=> Occ(i)) /\ (HoleAt(i)' <=> HoleAt(i)) /\ Far(i)' = Far(i)
          /\ Path
      BY Zenon, <1>1 DEF MInv, HoleAt, Occ, Far
    <3>. QED
      BY Zenon, <3>1 DEF Path
  <2>2. Unique' /\ SizeExact'
    BY Zenon, <1>1 DEF MInv, Unique, SizeExact, Occ, Occupied
  <2>3. Shifting' /\ Probing'
    BY Zenon, <1>1 DEF Shifting, Probing
  <2>. QED
    BY Zenon, <2>1, <2>2, <2>3
<1>. QED
  BY <1>2, <1>3 DEF MInv

------------------------------------------------------------------------------
(* erase                                                                    *)

\* A table that does not change, except that pc does, keeps its entries.
LEMMA SameTable ==
    ASSUME UNCHANGED <<home, slots_, size_>>
    PROVE  /\ \A i : (Occ(i)' <=> Occ(i)) /\ Far(i)' = Far(i)
           /\ Occupied' = Occupied
           /\ Unique => Unique'
           /\ SizeExact => SizeExact'
BY DEF Occ, Far, Occupied, Unique, SizeExact

\* erase frees the slot of the key, which becomes the hole.
LEMMA EraseInv ==
    ASSUME MInv, NEW key \in Keys, Erase(key)
    PROVE  MInv'
<1>1. PICK p \in Found(key) : slots_' = [slots_ EXCEPT ![p] = Free] /\ pos' = p
  BY Zenon DEF Erase
<1>2. /\ pc = "idle" /\ pc' = "shift" /\ size_' = size_ - 1 /\ arg' = key
      /\ UNCHANGED <<home, k, v, dist, ctr>>
  BY DEF Erase
<1>3. p \in Slots /\ slots_[p].key = key
  BY <1>1, FoundHolds
<1>4. Types /\ Path /\ Unique /\ SizeExact
  BY DEF MInv
<1>5. Occ(p) /\ Free.key = EMPTY
  BY Zenon, <1>3, <1>4, SlotFacts DEF Occ
<1>6. /\ slots_' \in [Slots -> Entries \cup {Free}] /\ slots_'[p] = Free
      /\ \A i \in Slots \ {p} : slots_'[i] = slots_[i]
  BY <1>1, <1>3, <1>4 DEF Types
<1>7. ~ Occ(p)' /\ \A i \in Slots \ {p} : (Occ(i)' <=> Occ(i)) /\ Far(i)' = Far(i)
  BY <1>2, <1>3, <1>5, <1>6 DEF Occ, Far
<1>8. Types'
  BY <1>1, <1>2, <1>3, <1>4, <1>6 DEF Types
<1>9. Path'
  <2>1. SUFFICES ASSUME NEW i \in Slots, NEW j \in Slots, Occ(i)', Back(i, j) <= Far(i)', j # p
                 PROVE  Occ(j)' /\ Far(j)' + Back(i, j) >= Far(i)'
    BY <1>1, <1>2 DEF Path, HoleAt
  <2>2. i # p
    BY <1>7, <2>1
  <2>3. Occ(j) /\ Far(j) + Back(i, j) >= Far(i)
    BY <1>2, <1>4, <1>7, <2>1, <2>2 DEF Path, HoleAt
  <2>. QED
    BY <1>7, <2>1, <2>2, <2>3
<1>10. Unique'
  BY <1>3, <1>4, <1>6, <1>7 DEF Unique, Occ
<1>11. SizeExact'
  <2>1. p \in Occupied /\ Occupied' = Occupied \ {p}
    BY <1>3, <1>5, <1>7 DEF Occupied, Occ
  <2>2. Cardinality(Occupied \ {p}) = Cardinality(Occupied) - 1
    BY Zenon, <2>1, OccupiedFinite, FS_RemoveElement
  <2>. QED
    BY SMTT(30), <1>2, <1>4, <2>1, <2>2 DEF SizeExact
<1>12. Probing' /\ Shifting'
  BY Zenon, <1>1, <1>2, <1>6 DEF Probing, Shifting
<1>. QED
  BY <1>8, <1>9, <1>10, <1>11, <1>12 DEF MInv

\* The distance the loops compute is the one of the proofs.
LEMMA ProbeDistance ==
    ASSUME Types, NEW i \in Slots, Occ(i)
    PROVE  probe_distance_(slots_[i].key, i) = Far(i)
BY SlotFacts, Ring DEF probe_distance_, Far

\* The entry after the hole moves into it, one step nearer to its home.  Every
\* path that led over the hole leads over that entry too, one step later.
LEMMA ShiftInv ==
    ASSUME MInv, Shift
    PROVE  /\ MInv'
           /\ \E p, n \in Slots : /\ p # n /\ ~ Occ(p) /\ Occ(n) /\ ~ Occ(n)'
                                  /\ slots_'[p] = slots_[n]
                                  /\ \A i \in Slots \ {p, n} : slots_'[i] = slots_[i]
<1>1. PICK p \in Slots : p = pos
  BY DEF MInv, Types
<1>2. PICK n \in Slots : n = After(p)
  BY Ring
<1>3. /\ pc = "shift" /\ slots_[n].key # EMPTY /\ probe_distance_(slots_[n].key, n) # 0
      /\ slots_' = [slots_ EXCEPT ![p] = slots_[n], ![n] = Free]
      /\ pos' = n /\ UNCHANGED <<home, size_, pc, arg, k, v, dist, ctr>>
  BY <1>1, <1>2 DEF Shift, Shifts
<1>4. Types /\ Path /\ Unique /\ SizeExact /\ slots_[p] = Free
  BY <1>1, <1>3 DEF MInv, Shifting
<1>5. Free.key = EMPTY /\ Occ(n) /\ ~ Occ(p) /\ p # n
  BY Zenon, <1>3, <1>4, SlotFacts DEF Occ
<1>6. slots_[n] \in Entries /\ Far(n) \in Slots /\ Far(n) # 0 /\ home[slots_[n].key] \in Slots
  BY Zenon, <1>3, <1>4, <1>5, SlotFacts, ProbeDistance
<1>7. /\ slots_' \in [Slots -> Entries \cup {Free}] /\ slots_'[p] = slots_[n] /\ slots_'[n] = Free
      /\ \A i \in Slots \ {p, n} : slots_'[i] = slots_[i]
  BY Zenon, <1>3, <1>4, <1>5, <1>6 DEF Types
<1>8. PICK h \in Slots : h = home[slots_[n].key] /\ Far(n) = Back(n, h)
  BY Zenon, <1>6 DEF Far
<1>9. Back(p, h) = Far(n) - 1
  <2>1. Back(After(p), h) = IF Back(p, h) = Capacity - 1 THEN 0 ELSE Back(p, h) + 1
    BY Distances
  <2>2. Back(p, h) \in Int
    BY Zenon, Distances
  <2>. QED
    BY <1>2, <1>6, <1>8, <2>1, <2>2
<1>10. /\ ~ Occ(n)' /\ Occ(p)' /\ Far(p)' = Far(n) - 1
       /\ \A i \in Slots \ {p, n} : (Occ(i)' <=> Occ(i)) /\ Far(i)' = Far(i)
  <2>1. Far(p)' = Back(p, h)
    BY Zenon, <1>3, <1>7, <1>8 DEF Far
  <2>. QED
    BY Zenon, <1>3, <1>5, <1>7, <1>9, <2>1 DEF Occ, Far
<1>11. Types'
  BY Zenon, <1>3, <1>4, <1>7 DEF Types
<1>12. Path'
  <2>1. SUFFICES ASSUME NEW i \in Slots, NEW j \in Slots, Occ(i)', Back(i, j) <= Far(i)', j # n
                 PROVE  Occ(j)' /\ Far(j)' + Back(i, j) >= Far(i)'
    BY <1>3 DEF Path, HoleAt
  <2>2. i # n
    BY Zenon, <1>10, <2>1
  <2>3. /\ Far(n) \in Int /\ Far(n) >= 1 /\ Far(n) <= Capacity - 1 /\ Capacity \in Int
        /\ Back(i, j) \in Int /\ Back(i, j) >= 0 /\ (i = j => Back(i, j) = 0)
        /\ (Occ(i) => Far(i) \in Int) /\ (Occ(j) => Far(j) \in Int)
    <3>1. Far(n) \in Int /\ Far(n) >= 1 /\ Far(n) <= Capacity - 1 /\ Capacity \in Int
      BY <1>6, Remainder DEF Slots
    <3>2. Back(i, j) \in Int /\ Back(i, j) >= 0 /\ (i = j => Back(i, j) = 0)
      BY Zenon, Distances
    <3>3. (Occ(i) => Far(i) \in Int) /\ (Occ(j) => Far(j) \in Int)
      BY Zenon, <1>4, Distances, SlotFacts
    <3>. QED
      BY Zenon, <3>1, <3>2, <3>3
  <2>4. CASE i = p /\ j = p
    BY SMTT(30), <1>10, <2>3, <2>4
  <2>5. CASE i = p /\ j # p
    <3>1. Back(After(p), j) = IF Back(p, j) = Capacity - 1 THEN 0 ELSE Back(p, j) + 1
      BY Distances
    <3>2. Back(p, j) <= Far(n) - 1
      BY Zenon, <1>10, <2>1, <2>5
    <3>3. Back(n, j) = Back(p, j) + 1 /\ Back(n, j) <= Far(n)
      BY SMTT(30), <1>2, <2>3, <2>5, <3>1, <3>2
    <3>4. Occ(j) /\ Far(j) + Back(n, j) >= Far(n)
      BY Zenon, <1>1, <1>4, <1>5, <2>5, <3>3 DEF Path, HoleAt
    <3>. QED
      BY <1>10, <2>1, <2>3, <2>5, <3>3, <3>4
  <2>6. CASE i # p /\ j = p
    <3>1. Occ(i) /\ Far(i)' = Far(i) /\ Back(i, p) <= Far(i)
      BY <1>10, <2>1, <2>2, <2>6
    <3>2. Back(i, After(p)) = Back(i, p) - 1
      BY <2>6, Distances
    <3>3. Back(i, n) = Back(i, p) - 1 /\ Back(i, n) <= Far(i)
      BY SMTT(30), <1>2, <2>3, <2>6, <3>1, <3>2
    <3>4. Far(n) + Back(i, n) >= Far(i)
      BY Zenon, <1>1, <1>4, <1>5, <3>1, <3>3 DEF Path, HoleAt
    <3>. QED
      BY <1>10, <2>3, <2>6, <3>1, <3>3, <3>4
  <2>7. CASE i # p /\ j # p
    <3>1. Occ(i) /\ Back(i, j) <= Far(i)
      BY <1>10, <2>1, <2>2, <2>7
    <3>2. Occ(j) /\ Far(j) + Back(i, j) >= Far(i)
      BY Zenon, <1>1, <1>4, <2>7, <3>1 DEF Path, HoleAt
    <3>. QED
      BY <1>10, <2>1, <2>2, <2>7, <3>2
  <2>. QED
    BY Zenon, <2>4, <2>5, <2>6, <2>7
<1>13. Unique'
  <2>1. SUFFICES ASSUME NEW i \in Slots, NEW j \in Slots, Occ(i)', slots_'[i].key = slots_'[j].key
                 PROVE  i = j
    BY DEF Unique
  <2>2. i # n /\ j # n
    BY Zenon, <1>5, <1>7, <2>1 DEF Occ
  <2>3. PICK a \in Slots : slots_[a] = slots_'[i] /\ a = IF i = p THEN n ELSE i
    BY <1>7, <2>2
  <2>4. PICK b \in Slots : slots_[b] = slots_'[j] /\ b = IF j = p THEN n ELSE j
    BY Zenon, <1>7, <2>2
  <2>5. a = b
    BY SMTT(30), <1>4, <2>1, <2>3, <2>4 DEF Unique, Occ
  <2>. QED
    BY <2>2, <2>3, <2>4, <2>5
<1>14. SizeExact'
  <2>1. n \in Occupied /\ p \notin Occupied \ {n} /\ Occupied' = (Occupied \ {n}) \cup {p}
    BY <1>5, <1>10 DEF Occupied, Occ
  <2>2. IsFiniteSet(Occupied \ {n}) /\ Cardinality(Occupied \ {n}) = Cardinality(Occupied) - 1
    BY <2>1, OccupiedFinite, FS_RemoveElement
  <2>3. Cardinality((Occupied \ {n}) \cup {p}) = Cardinality(Occupied \ {n}) + 1
    BY <2>1, <2>2, FS_AddElement
  <2>4. Cardinality(Occupied) \in Int
    BY SMTT(30), OccupiedFinite
  <2>. QED
    BY SMTT(30), <1>3, <1>4, <2>1, <2>2, <2>3, <2>4 DEF SizeExact
<1>15. Probing' /\ Shifting'
  BY <1>3, <1>7 DEF Probing, Shifting
<1>. QED
  BY <1>5, <1>7, <1>10, <1>11, <1>12, <1>13, <1>14, <1>15 DEF MInv

\* The shift ends before a free slot or an entry at home: no path leads over
\* the hole any more.
LEMMA ShiftEndInv ==
    ASSUME MInv, ShiftEnd
    PROVE  MInv'
<1>1. PICK p \in Slots : p = pos
  BY DEF MInv, Types
<1>2. PICK n \in Slots : n = After(p)
  BY Ring
<1>3. /\ pc = "shift" /\ (slots_[n].key # EMPTY => probe_distance_(slots_[n].key, n) = 0)
      /\ pc' = "idle" /\ arg' = EMPTY /\ k' = EMPTY /\ v' = EMPTY
      /\ pos' = 0 /\ dist' = 0 /\ ctr' = 0 /\ UNCHANGED <<home, slots_, size_>>
  BY <1>1, <1>2 DEF ShiftEnd, Shifts, Return, tableVars
<1>4. Types /\ Path /\ Unique /\ SizeExact /\ slots_[p] = Free
  BY SMTT(30), <1>1, <1>3 DEF MInv, Shifting
<1>5. ~ Occ(p) /\ (Occ(n) => Far(n) = 0)
  BY Zenon, <1>3, <1>4, SlotFacts, ProbeDistance DEF Occ
<1>6. Types'
  BY <1>3, <1>4, Ring DEF Types
<1>7. Path'
  <2>1. SUFFICES ASSUME NEW i \in Slots, NEW j \in Slots, Occ(i), Back(i, j) <= Far(i)
                 PROVE  Occ(j) /\ Far(j) + Back(i, j) >= Far(i)
    BY <1>3, SameTable DEF Path
  <2>2. HoleAt(j) \/ (Occ(j) /\ Far(j) + Back(i, j) >= Far(i))
    BY <1>4, <2>1 DEF Path
  <2>3. ASSUME j = p PROVE FALSE
    <3>1. i # p /\ Back(i, p) \in Int /\ Far(i) \in Int /\ Back(i, p) <= Far(i)
      BY <1>4, <1>5, <2>1, <2>3, Distances, SlotFacts
    <3>2. Back(i, After(p)) = Back(i, p) - 1
      BY Zenon, <3>1, Distances
    <3>3. Back(i, n) = Back(i, p) - 1 /\ Back(i, n) <= Far(i) /\ n # p
      BY SMTT(30), <1>2, <3>1, <3>2
    <3>4. Occ(n) /\ Far(n) + Back(i, n) >= Far(i)
      BY <1>1, <1>4, <2>1, <3>3 DEF Path, HoleAt
    <3>. QED
      BY SMTT(30), <1>5, <3>1, <3>3, <3>4
  <2>. QED
    BY Zenon, <1>1, <2>2, <2>3 DEF HoleAt
<1>8. Unique' /\ SizeExact'
  BY Zenon, <1>3, <1>4, SameTable
<1>9. Probing' /\ Shifting'
  BY <1>3 DEF Probing, Shifting
<1>. QED
  BY <1>6, <1>7, <1>8, <1>9 DEF MInv

------------------------------------------------------------------------------
(* The invariants                                                           *)

\* The table starts empty.
LEMMA MInitInv == Init => MInv
<1>1. SUFFICES ASSUME Init PROVE MInv
  BY Zenon
<1>2. 0 \in Slots /\ slots_ = [i \in Slots |-> Free] /\ Free.key = EMPTY
  BY Zenon, <1>1, Ring DEF Init, Free
<1>3. Types
  BY <1>1, <1>2 DEF Init, Types
<1>4. \A i \in Slots : ~ Occ(i)
  BY Zenon, <1>2 DEF Occ
<1>5. Path /\ Unique /\ Probing /\ Shifting
  BY <1>1, <1>4 DEF Init, Path, Unique, Probing, Shifting
<1>6. SizeExact
  <2>1. Occupied = {}
    BY <1>4 DEF Occupied, Occ
  <2>. QED
    BY <1>1, <2>1, FS_EmptySet DEF Init, SizeExact
<1>. QED
  BY <1>3, <1>5, <1>6 DEF MInv

\* One step per action.
LEMMA MNextInv == MInv /\ [Next]_vars => MInv'
<1>1. SUFFICES ASSUME MInv, [Next]_vars PROVE MInv'
  OBVIOUS
<1>2. ASSUME NEW key \in Keys, NEW val \in Values, Insert(key, val) PROVE MInv'
  BY <1>1, <1>2, InsertInv
<1>3. ASSUME NEW key \in Keys, Erase(key) PROVE MInv'
  BY <1>1, <1>3, EraseInv
<1>4. CASE Probe
  BY <1>1, <1>4, ProbeKeepInv, ProbeSwapInv
<1>5. CASE Refuse
  BY <1>1, <1>5, RefuseInv
<1>6. CASE Place
  BY Zenon, <1>1, <1>6, PlaceInv
<1>7. CASE Shift
  BY Zenon, <1>1, <1>7, ShiftInv
<1>8. CASE ShiftEnd
  BY <1>1, <1>8, ShiftEndInv
<1>9. CASE UNCHANGED vars
  <2>1. Types'
    BY Zenon, <1>1, <1>9 DEF vars, MInv, Types
  <2>2. Path'
    <3>1. /\ \A i : (Occ(i)' <=> Occ(i)) /\ (HoleAt(i)' <=> HoleAt(i)) /\ Far(i)' = Far(i)
          /\ Path
      BY Zenon, <1>1, <1>9 DEF vars, MInv, HoleAt, Occ, Far
    <3>. QED
      BY Zenon, <3>1 DEF Path
  <2>3. Unique' /\ SizeExact' /\ Shifting'
    BY Zenon, <1>1, <1>9 DEF vars, MInv, Unique, SizeExact, Shifting, Occ, Occupied
  <2>4. Probing'
    <3>1. /\ \A i : (Occ(i)' <=> Occ(i)) /\ Far(i)' = Far(i)
          /\ pc' = pc /\ arg' = arg /\ k' = k /\ v' = v /\ dist' = dist /\ ctr' = ctr
          /\ pos' = pos /\ home' = home /\ slots_' = slots_ /\ size_' = size_
          /\ Probing
      BY Zenon, <1>1, <1>9 DEF vars, MInv, Occ, Far
    <3>. QED
      BY Zenon, <3>1 DEF Probing
  <2>. QED
    BY Zenon, <2>1, <2>2, <2>3, <2>4 DEF MInv
<1>. QED
  BY <1>1, <1>2, <1>3, <1>4, <1>5, <1>6, <1>7, <1>8, <1>9 DEF Next, Steps, EraseMiss

\* Every path in the table stays occupied, at every iteration of every call.
THEOREM MapInvariance == Spec => []MInv
BY MInitInv, MNextInv, PTL DEF Spec

\* The types of the table and of the loops, for every table size and hash
\* function: no loop of insert or erase leaves the slots, and size() is never
\* negative.
THEOREM MapTypes == Spec => []TypeOK
<1>1. MInv => TypeOK
  BY OccupiedFinite DEF MInv, Types, Entries, SizeExact, TypeOK
<1>. QED
  BY <1>1, MapInvariance, PTL

\* size() is the number of occupied slots, for every table size.
THEOREM SizeIsExact == Spec => []SizeExact
<1>1. MInv => SizeExact
  BY DEF MInv
<1>. QED
  BY <1>1, MapInvariance, PTL

\* The Robin Hood order of neighbours is what Path says at distance one.
THEOREM OrderIsKept == Spec => []RobinHood
<1>1. ASSUME MInv PROVE RobinHood
  <2>1. SUFFICES ASSUME NEW i \in Slots, slots_[After(i)].key # EMPTY,
                        probe_distance_(slots_[After(i)].key, After(i)) > 0
                 PROVE  \/ HoleAt(i)
                        \/ /\ i \in Occupied
                           /\ probe_distance_(slots_[i].key, i)
                                 >= probe_distance_(slots_[After(i)].key, After(i)) - 1
    BY DEF RobinHood
  <2>2. PICK n \in Slots : n = After(i)
    BY Zenon, Ring
  <2>3. Types /\ Path /\ Occ(n) /\ probe_distance_(slots_[n].key, n) = Far(n) /\ Far(n) \in Slots
    BY <1>1, <2>1, <2>2, ProbeDistance, SlotFacts DEF MInv, Occ
  <2>4. Far(n) \in Int /\ Far(n) > 0 /\ Far(n) <= Capacity - 1 /\ Capacity \in Int
    BY <2>1, <2>2, <2>3, Remainder DEF Slots
  <2>5. Back(n, i) = 1
    <3>1. Back(i, i) = 0 /\ Back(After(i), i) = IF Back(i, i) = Capacity - 1 THEN 0 ELSE Back(i, i) + 1
      BY Distances
    <3>. QED
      BY <2>2, <2>4, <3>1
  <2>6. HoleAt(i) \/ (Occ(i) /\ Far(i) + 1 >= Far(n))
    BY <2>3, <2>4, <2>5 DEF Path
  <2>7. ASSUME Occ(i), Far(i) + 1 >= Far(n)
        PROVE  i \in Occupied /\ probe_distance_(slots_[i].key, i) >= Far(n) - 1
    <3>1. probe_distance_(slots_[i].key, i) = Far(i) /\ Far(i) \in Int
      BY <2>3, <2>7, ProbeDistance, SlotFacts, Distances
    <3>. QED
      BY SMTT(30), <2>4, <2>7, <3>1 DEF Occupied, Occ
  <2>. QED
    BY <2>2, <2>3, <2>6, <2>7
<1>. QED
  BY <1>1, MapInvariance, PTL

------------------------------------------------------------------------------
(* The map a caller sees                                                    *)

\* Between calls find sees every key in the table: no free slot and no slot
\* with the key comes before it.
LEMMA FoundAll ==
    ASSUME MInv, pc # "shift", NEW key \in Keys
    PROVE  Found(key) = {i \in Slots : slots_[i].key = key}
<1>1. SUFFICES ASSUME NEW i \in Slots, slots_[i].key = key,
                      NEW d \in 0 .. probe_distance_(key, i) - 1
               PROVE  slots_[Visits(key, d)].key \notin {key, EMPTY}
  BY DEF Found
<1>2. Types /\ Path /\ Unique
  BY Zenon DEF MInv
<1>3. Occ(i) /\ probe_distance_(key, i) = Far(i) /\ Far(i) \in Slots
  BY <1>1, <1>2, SlotFacts, ProbeDistance DEF Occ
<1>4. PICK h \in Slots : h = home[key] /\ Far(i) = Back(i, h)
  BY Zenon, <1>1, <1>2 DEF Types, Far
<1>5. d \in Slots /\ d < Back(i, h) /\ d \in Int /\ Back(i, h) \in Int
  BY <1>1, <1>3, <1>4, Remainder DEF Slots
<1>6. PICK j \in Slots : j = Visits(key, d) /\ Back(j, h) = d
  <2>1. Visits(key, d) = IF h + d < Capacity THEN h + d ELSE h + d - Capacity
    BY <1>4, <1>5, Ring DEF Visits
  <2>2. PICK j : j = IF h + d < Capacity THEN h + d ELSE h + d - Capacity
    BY Zenon
  <2>3. j \in Slots /\ Back(j, h) = d
    BY SMTT(30), <1>5, <2>2, Remainder DEF Back, Slots
  <2>. QED
    BY Zenon, <2>1, <2>2, <2>3
<1>7. Back(i, j) = Back(i, h) - d
  <2>1. Back(i, h) >= Back(j, h)
    BY <1>5, <1>6
  <2>. QED
    BY <1>6, <2>1, Between
<1>8. Back(i, j) <= Far(i) /\ Back(i, j) # 0
  <2>1. d >= 0
    BY <1>5, Distances
  <2>. QED
    BY SMTT(30), <1>4, <1>5, <1>7, <2>1
<1>9. Occ(j)
  BY Zenon, <1>2, <1>3, <1>8 DEF Path, HoleAt
<1>10. i # j
  BY <1>8, Distances
<1>. QED
  BY <1>1, <1>2, <1>6, <1>9, <1>10 DEF Unique, Occ

\* The entries of the map: those in the slots, and the one in hand.
Graph(x, val) ==
    /\ x \in Keys
    /\ \/ \E i \in Slots : slots_[i].key = x /\ slots_[i].value = val
       \/ InHand /\ x = k /\ val = v

\* Contents is the function with these entries.
ContentsFacts ==
    /\ Contents = [x \in DOMAIN Contents |-> Contents[x]]
    /\ \A x, val : (x \in DOMAIN Contents /\ Contents[x] = val) <=> Graph(x, val)

\* A key has one entry, whose value is the one Contents gives.
LEMMA ContentsGraph == MInv => ContentsFacts
<1>1. SUFFICES ASSUME MInv PROVE ContentsFacts
  OBVIOUS
<1>2. Types /\ Unique /\ (InHand => \A i \in Slots : slots_[i].key # k)
  BY <1>1 DEF MInv, InHand, Probing
<1>3. \A x \in Keys : Visible(x) = {i \in Slots : slots_[i].key = x}
  BY <1>1, FoundAll DEF Visible
<1>4. DOMAIN Contents = {x \in Keys : Visible(x) # {} \/ (InHand /\ x = k)}
  BY DEF Contents
<1>5. Contents = [x \in DOMAIN Contents |-> Contents[x]]
  BY DEF Contents
<1>6. ASSUME NEW x, NEW val PROVE (x \in DOMAIN Contents /\ Contents[x] = val) <=> Graph(x, val)
  <2>1. CASE x \notin Keys
    BY <1>4, <2>1 DEF Graph
  <2>2. CASE x \in Keys /\ InHand /\ x = k
    <3>1. x \in DOMAIN Contents /\ Contents[x] = v
      BY Zenon, <1>4, <2>2 DEF Contents
    <3>. QED
      BY <1>2, <2>2, <3>1 DEF Graph
  <2>3. CASE x \in Keys /\ ~ (InHand /\ x = k) /\ Visible(x) = {}
    BY Zenon, <1>3, <1>4, <2>3 DEF Graph
  <2>4. CASE x \in Keys /\ ~ (InHand /\ x = k) /\ Visible(x) # {}
    <3>1. x \in DOMAIN Contents /\ Contents[x] = slots_[CHOOSE i \in Visible(x) : TRUE].value
      BY <1>4, <2>4 DEF Contents
    <3>2. PICK c : c = (CHOOSE i \in Visible(x) : TRUE) /\ c \in Visible(x)
      BY Zenon, <2>4
    <3>3. c \in Slots /\ slots_[c].key = x /\ Contents[x] = slots_[c].value
      BY Zenon, <1>3, <2>4, <3>1, <3>2
    <3>4. x # EMPTY
      BY <1>2, <2>4, SlotFacts
    <3>5. \A i \in Slots : slots_[i].key = x => i = c
      BY <1>2, <3>3, <3>4 DEF Unique, Occ
    <3>. QED
      BY Zenon, <2>4, <3>1, <3>3, <3>5 DEF Graph
  <2>. QED
    BY Zenon, <2>1, <2>2, <2>3, <2>4
<1>. QED
  BY Zenon, <1>5, <1>6 DEF ContentsFacts

\* The same after a step.
LEMMA ContentsGraphNext == MInv' => ContentsFacts'
BY ContentsGraph, PTL

\* Functions with the same entries are equal.
LEMMA SameEntries ==
    ASSUME NEW f, NEW g, f = [x \in DOMAIN f |-> f[x]], g = [x \in DOMAIN g |-> g[x]],
           \A x, val : (x \in DOMAIN f /\ f[x] = val) <=> (x \in DOMAIN g /\ g[x] = val)
    PROVE  f = g
<1>1. DOMAIN f = DOMAIN g /\ \A x \in DOMAIN f : f[x] = g[x]
  BY Zenon
<1>. QED
  BY <1>1

\* What a step does to the entries, it does to the map.
LEMMA StepOnMap ==
    ASSUME MInv, MInv'
    PROVE  /\ (\A x, val : Graph(x, val)' <=> Graph(x, val)) => UNCHANGED Contents
           /\ \A key \in Keys : (\A x, val : Graph(x, val)' <=> x # key /\ Graph(x, val)) => Map!Delete(key)
           /\ \A key \in Keys, w \in Values :
                 (\A x, val : Graph(x, val)' <=> IF x = key THEN val = w ELSE Graph(x, val)) => Map!Put(key, w)
<1>1. PICK f, g : f = Contents /\ g = Contents'
  OBVIOUS
<1>2. /\ f = [x \in DOMAIN f |-> f[x]] /\ g = [x \in DOMAIN g |-> g[x]]
      /\ \A x, val : (x \in DOMAIN f /\ f[x] = val) <=> Graph(x, val)
      /\ \A x, val : (x \in DOMAIN g /\ g[x] = val) <=> Graph(x, val)'
  BY <1>1, ContentsGraph, ContentsGraphNext DEF ContentsFacts
<1>3. ASSUME \A x, val : Graph(x, val)' <=> Graph(x, val) PROVE UNCHANGED Contents
  <2>1. f = g
    BY <1>2, <1>3, SameEntries
  <2>. QED
    BY <1>1, <2>1
<1>4. ASSUME NEW key \in Keys, \A x, val : Graph(x, val)' <=> x # key /\ Graph(x, val) PROVE Map!Delete(key)
  <2>1. PICK e : e = [x \in DOMAIN f \ {key} |-> f[x]]
    BY Zenon
  <2>2. /\ DOMAIN e = DOMAIN f \ {key} /\ \A x \in DOMAIN e : e[x] = f[x]
        /\ e = [x \in DOMAIN e |-> e[x]]
    BY <2>1
  <2>3. \A x, val : (x \in DOMAIN e /\ e[x] = val) <=> (x \in DOMAIN g /\ g[x] = val)
    BY Zenon, <1>2, <1>4, <2>2
  <2>4. e = g
    <3>1. e = [x \in DOMAIN e |-> e[x]] /\ g = [x \in DOMAIN g |-> g[x]]
      BY Zenon, <1>2, <2>2
    <3>2. DOMAIN e = DOMAIN g /\ \A x \in DOMAIN e : e[x] = g[x]
      BY Zenon, <2>3
    <3>. QED
      BY <3>1, <3>2
  <2>. QED
    BY <1>1, <2>1, <2>4 DEF Map!Delete
<1>5. ASSUME NEW key \in Keys, NEW w \in Values,
             \A x, val : Graph(x, val)' <=> IF x = key THEN val = w ELSE Graph(x, val)
      PROVE  Map!Put(key, w)
  <2>1. PICK e : e = [x \in DOMAIN f \cup {key} |-> IF x = key THEN w ELSE f[x]]
    BY Zenon
  <2>2. /\ DOMAIN e = DOMAIN f \cup {key} /\ \A x \in DOMAIN e : e[x] = IF x = key THEN w ELSE f[x]
        /\ e = [x \in DOMAIN e |-> e[x]]
    BY <2>1
  <2>3. \A x, val : (x \in DOMAIN e /\ e[x] = val) <=> (x \in DOMAIN g /\ g[x] = val)
    BY <1>2, <1>5, <2>2
  <2>4. e = g
    <3>1. e = [x \in DOMAIN e |-> e[x]] /\ g = [x \in DOMAIN g |-> g[x]]
      BY Zenon, <1>2, <2>2
    <3>2. DOMAIN e = DOMAIN g /\ \A x \in DOMAIN e : e[x] = g[x]
      BY Zenon, <2>3
    <3>. QED
      BY <3>1, <3>2
  <2>. QED
    BY <1>1, <2>1, <2>4 DEF Map!Put
<1>. QED
  BY Zenon, <1>3, <1>4, <1>5

\* While a displaced entry is in hand insert is not refused: every slot passed
\* is occupied, so there would be as many keys as slots.
LEMMA NeverRefusedInHand ==
    ASSUME MInv, Refuse, MaxLoad <= Capacity
    PROVE  k = arg
<1>1. SUFFICES ASSUME k # arg PROVE FALSE
  OBVIOUS
<1>2. /\ pc = "probe" /\ slots_[pos].key # EMPTY /\ ctr + 1 = Capacity
      /\ pos \in Slots /\ ctr \in Slots /\ SizeExact /\ size_ < MaxLoad
      /\ \A j \in Slots : Back(pos, j) \in 1 .. ctr => Occ(j)
  BY <1>1 DEF Refuse, Taken, MInv, Types, Probing
<1>3. ASSUME NEW j \in Slots PROVE Occ(j)
  <2>1. CASE j = pos
    BY <1>2, <2>1 DEF Occ
  <2>2. CASE j # pos
    <3>1. Back(pos, j) \in Slots /\ Back(pos, j) # 0
      BY Zenon, <1>2, <2>2, Distances
    <3>2. Back(pos, j) \in 1 .. ctr
      BY <1>2, <3>1, Remainder DEF Slots
    <3>. QED
      BY Zenon, <1>2, <3>2
  <2>. QED
    BY <2>1, <2>2
<1>4. Occupied = Slots
  BY <1>3 DEF Occupied, Occ
<1>5. size_ = Capacity
  BY <1>2, <1>4, OccupiedFinite DEF SizeExact
<1>. QED
  BY <1>2, <1>5, Remainder, MapAssumption

\* A step that leaves the slots alone, and the hand, leaves the map alone.
LEMMA SlotsSame ==
    ASSUME slots_' = slots_,
           \/ ~ InHand /\ ~ InHand'
           \/ InHand /\ InHand' /\ k' = k /\ v' = v
    PROVE  \A x, val : Graph(x, val)' <=> Graph(x, val)
BY DEF Graph

\* An iteration of insert: the first exchange puts the key of the call into the
\* table, the others only carry an entry on.
LEMMA ProbeStep ==
    ASSUME MInv, MInv', Probe
    PROVE  UNCHANGED Contents \/ Map!Put(arg, v)
<1>1. CASE ~ (probe_distance_(slots_[pos].key, pos) < dist)
  <2>1. slots_' = slots_ /\ k' = k /\ v' = v /\ arg' = arg /\ pc' = pc
    BY <1>1 DEF Probe
  <2>2. \A x, val : Graph(x, val)' <=> Graph(x, val)
    <3>1. InHand' <=> InHand
      BY <2>1 DEF InHand
    <3>. QED
      BY <2>1, <3>1, SlotsSame
  <2>. QED
    BY Zenon, <2>2, StepOnMap
<1>2. CASE probe_distance_(slots_[pos].key, pos) < dist
  <2>1. PICK p \in Slots : p = pos
    BY DEF MInv, Types
  <2>2. /\ pc = "probe" /\ pc' = pc /\ arg' = arg /\ k' # arg
        /\ slots_' = [slots_ EXCEPT ![p] = [key |-> k, value |-> v]]
        /\ k' = slots_[p].key /\ v' = slots_[p].value /\ k' \in Keys
        /\ (k = arg => \A i \in Slots : slots_[i].key # arg)
    BY Zenon, <1>2, <2>1, ProbeSwapInv, ProbeFacts DEF Probe
  <2>3. /\ slots_'[p].key = k /\ slots_'[p].value = v
        /\ \A i \in Slots \ {p} : slots_'[i] = slots_[i]
        /\ arg \in Keys /\ k \in Keys /\ v \in Values
    BY Zenon, <2>2 DEF MInv, Types, Probing
  <2>4. InHand'
    BY Zenon, <2>2 DEF InHand
  <2>5. CASE k = arg
    <3>1. ~ InHand
      BY Zenon, <2>5 DEF InHand
    <3>2. \A x, val : Graph(x, val)' <=> IF x = arg THEN val = v ELSE Graph(x, val)
      BY SMTT(30), <2>2, <2>3, <2>4, <2>5, <3>1 DEF Graph
    <3>. QED
      BY <2>3, <3>2, StepOnMap
  <2>6. CASE k # arg
    <3>1. InHand
      BY Zenon, <2>2, <2>6 DEF InHand
    <3>2. \A x, val : Graph(x, val)' <=> Graph(x, val)
      BY SMTT(30), <2>2, <2>3, <2>4, <3>1 DEF Graph
    <3>. QED
      BY Zenon, <3>2, StepOnMap
  <2>. QED
    BY Zenon, <2>5, <2>6
<1>. QED
  BY <1>1, <1>2

\* The end of insert: the key of the call gets its value, or the entry in hand
\* gets a slot.
LEMMA PlaceStep ==
    ASSUME MInv, MInv', Place
    PROVE  UNCHANGED Contents \/ Map!Put(arg, v)
<1>1. PICK p \in Slots : p = pos
  BY DEF MInv, Types
<1>2. /\ pc = "probe" /\ pc' = "idle" /\ slots_[p].key \in {EMPTY, k}
      /\ slots_' = [slots_ EXCEPT ![p] = [key |-> k, value |-> v]]
  BY <1>1 DEF Place, Taken, Return
<1>3. /\ slots_'[p].key = k /\ slots_'[p].value = v
      /\ \A i \in Slots \ {p} : slots_'[i] = slots_[i]
      /\ arg \in Keys /\ k \in Keys /\ v \in Values /\ EMPTY \notin Keys
  <2>1. arg \in Keys /\ k \in Keys /\ v \in Values /\ EMPTY \notin Keys
    BY Zenon, <1>2, MapAssumption DEF MInv, Probing
  <2>2. slots_ \in [Slots -> Entries \cup {Free}]
    BY Zenon DEF MInv, Types
  <2>. QED
    BY <1>2, <2>1, <2>2
<1>4. ~ InHand'
  BY Zenon, <1>2 DEF InHand
<1>5. \A i \in Slots \ {p} : slots_[i].key # k
  <2>1. CASE slots_[p].key = EMPTY
    BY <1>1, <2>1, PlaceInv DEF Occ
  <2>2. CASE slots_[p].key = k
    BY Zenon, <1>3, <2>2 DEF MInv, Unique, Occ
  <2>. QED
    BY <1>2, <2>1, <2>2
<1>6. CASE k = arg
  <2>1. ~ InHand
    BY <1>6 DEF InHand
  <2>2. \A x, val : Graph(x, val)' <=> IF x = arg THEN val = v ELSE Graph(x, val)
    BY <1>2, <1>3, <1>4, <1>5, <1>6, <2>1 DEF Graph
  <2>. QED
    BY Zenon, <1>3, <2>2, StepOnMap
<1>7. CASE k # arg
  <2>1. InHand /\ slots_[p].key # k
    BY Zenon, <1>2, <1>7 DEF InHand, MInv, Probing
  <2>2. slots_[p].key = EMPTY
    BY Zenon, <1>2, <2>1
  <2>3. \A x, val : Graph(x, val)' <=> Graph(x, val)
    BY Zenon, <1>3, <1>4, <2>1, <2>2 DEF Graph
  <2>. QED
    BY <2>3, StepOnMap
<1>. QED
  BY <1>6, <1>7

\* erase takes out the key of the call and no other.
LEMMA EraseStep ==
    ASSUME MInv, MInv', NEW key \in Keys, Erase(key)
    PROVE  Map!Delete(key)
<1>1. PICK p \in Found(key) : slots_' = [slots_ EXCEPT ![p] = Free]
  BY Zenon DEF Erase
<1>2. p \in Slots /\ slots_[p].key = key /\ Free.key = EMPTY /\ EMPTY \notin Keys
  BY Zenon, <1>1, FoundHolds, SlotFacts DEF MInv
<1>3. slots_'[p].key = EMPTY /\ \A i \in Slots \ {p} : slots_'[i] = slots_[i] /\ slots_[i].key # key
  BY <1>1, <1>2 DEF MInv, Types, Unique, Occ
<1>4. ~ InHand /\ ~ InHand'
  BY Zenon DEF Erase, InHand
<1>5. ASSUME NEW x, NEW val PROVE Graph(x, val)' <=> x # key /\ Graph(x, val)
  <2>1. (\E i \in Slots : slots_'[i].key = x /\ slots_'[i].value = val) /\ x \in Keys
          <=> (\E i \in Slots : slots_[i].key = x /\ slots_[i].value = val) /\ x \in Keys /\ x # key
    BY Zenon, <1>2, <1>3
  <2>. QED
    BY Zenon, <1>4, <2>1 DEF Graph
<1>. QED
  BY <1>5, StepOnMap

\* The backward shift moves an entry and changes none.
LEMMA ShiftStep ==
    ASSUME MInv, MInv', Shift
    PROVE  UNCHANGED Contents
<1>1. PICK p, n \in Slots : /\ p # n /\ ~ Occ(p) /\ Occ(n) /\ ~ Occ(n)' /\ slots_'[p] = slots_[n]
                            /\ \A i \in Slots \ {p, n} : slots_'[i] = slots_[i]
  BY Zenon, ShiftInv
<1>2. ~ InHand /\ ~ InHand' /\ EMPTY \notin Keys
  BY Zenon, MapAssumption DEF Shift, InHand
<1>3. \A x, val : Graph(x, val)' <=> Graph(x, val)
  BY <1>1, <1>2 DEF Graph, Occ
<1>. QED
  BY Zenon, <1>3, StepOnMap

\* For every capacity, hash function and sequence of calls that asks for no
\* more keys than there are slots, the table is a finite map: insert and erase
\* change their own key only, at one iteration, and find returns what was last
\* inserted, although entries are displaced and shifted all the time.
THEOREM MapImplements ==
    ASSUME MaxLoad <= Capacity
    PROVE  Spec => Implements
<1>1. Init => Map!Init
  <2>1. SUFFICES ASSUME Init PROVE Contents = <<>>
    BY Zenon DEF Map!Init
  <2>2. ContentsFacts /\ ~ InHand /\ \A i \in Slots : slots_[i].key = EMPTY
    BY <2>1, MInitInv, ContentsGraph, Ring DEF Init, InHand, Free
  <2>3. \A x, val : ~ Graph(x, val)
    BY <2>2, MapAssumption DEF Graph
  <2>4. DOMAIN Contents = {} /\ Contents = [x \in DOMAIN Contents |-> Contents[x]]
    BY Zenon, <2>2, <2>3 DEF ContentsFacts
  <2>. QED
    BY <2>4
<1>2. ASSUME MInv, MInv', [Next]_vars PROVE [Map!Next]_Contents
  <2>1. ASSUME NEW key \in Keys, NEW val \in Values, Insert(key, val) PROVE UNCHANGED Contents
    <3>1. slots_' = slots_ /\ ~ InHand /\ ~ InHand'
      BY <2>1 DEF Insert, tableVars, InHand
    <3>. QED
      BY <1>2, <3>1, SlotsSame, StepOnMap
  <2>2. ASSUME NEW key \in Keys, Erase(key) PROVE Map!Next
    BY <1>2, <2>2, EraseStep DEF Map!Next
  <2>3. ASSUME Probe \/ Place PROVE [Map!Next]_Contents
    <3>1. UNCHANGED Contents \/ Map!Put(arg, v)
      BY Zenon, <1>2, <2>3, ProbeStep, PlaceStep
    <3>2. arg \in Keys /\ v \in Values
      BY Zenon, <1>2, <2>3 DEF MInv, Probing, Probe, Place
    <3>. QED
      BY <3>1, <3>2 DEF Map!Next
  <2>4. CASE Refuse
    <3>1. slots_' = slots_ /\ ~ InHand /\ ~ InHand'
      BY <1>2, <2>4, NeverRefusedInHand DEF Refuse, Return, tableVars, InHand
    <3>. QED
      BY Zenon, <1>2, <3>1, SlotsSame, StepOnMap
  <2>5. CASE Shift
    BY <1>2, <2>5, ShiftStep
  <2>6. CASE ShiftEnd
    <3>1. slots_' = slots_ /\ ~ InHand /\ ~ InHand'
      BY Zenon, <2>6 DEF ShiftEnd, Return, tableVars, InHand
    <3>. QED
      BY <1>2, <3>1, SlotsSame, StepOnMap
  <2>7. CASE UNCHANGED vars
    <3>1. slots_' = slots_ /\ (InHand' <=> InHand) /\ k' = k /\ v' = v
      BY <2>7 DEF vars, InHand
    <3>. QED
      BY <1>2, <3>1, SlotsSame, StepOnMap
  <2>. QED
    BY <1>2, <2>1, <2>2, <2>3, <2>4, <2>5, <2>6, <2>7 DEF Next, Steps, EraseMiss
<1>. QED
  BY <1>1, <1>2, MapInvariance, PTL DEF Spec, Implements, Map!Spec
==============================================================================
