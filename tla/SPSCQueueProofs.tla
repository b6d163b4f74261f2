--------------------------- MODULE SPSCQueueProofs ---------------------------
(***************************************************************************)
(* Proofs, for every Capacity, every counter range and every set of items, *)
(* that SPSCQueue keeps its counters in order, never races on a slot and   *)
(* implements BoundedFifo.                                                 *)
(***************************************************************************)
EXTENDS SPSCQueue, SequenceTheorems, TLAPS

\* The inductive invariant: besides types and the order of the counters, what
\* each thread has established before it touches a slot and what the slot it
\* touched still holds.
ProducerInv ==
    /\ ppc \in {"write", "publish"} => Diff(head_, cached_tail_) < Capacity
    /\ ppc = "publish" => data_[Slot(head_)] = item

ConsumerInv ==
    /\ (cpc \in {"read", "store"} \/ held) => Diff(head_, cached_head_) < Diff(head_, tail_)
    /\ cpc = "read" => call = "try_pop"
    /\ (cpc = "store" /\ call = "try_pop") => tmp = data_[Slot(tail_)]
    /\ cpc \in {"read", "store"} => ~ held

\* Every slot between tail_ and head_ has been written.
WindowWritten ==
    \A i \in 1 .. Diff(head_, tail_) : data_[(tail_ + i - 1) % Capacity] \in Items

IInv ==
    /\ TypeOK
    /\ CountersOrdered
    /\ WindowWritten
    /\ ProducerInv
    /\ ConsumerInv

------------------------------------------------------------------------------
(* Arithmetic of counters and slots.                                        *)

\* The counter range is a positive multiple of Capacity, larger than Capacity.
LEMMA WidthFacts ==
    /\ Capacity \in Nat
    /\ Capacity >= 1
    /\ Width \in Nat
    /\ Width > Capacity
    /\ Laps \in Nat
<1>1. Capacity \in Nat /\ Capacity >= 1 /\ Laps \in Nat /\ Laps >= 2
  BY QueueAssumption
<1>2. Laps * Capacity \in Nat
  BY <1>1
<1>3. Laps * Capacity >= 2 * Capacity
  BY <1>1
<1>. QED
  BY <1>1, <1>2, <1>3 DEF Width

\* Remainders by a positive number, spelled out.
LEMMA ModFacts ==
    ASSUME NEW a \in Nat
    PROVE  /\ a % Capacity \in Slots
           /\ \E k \in Nat : a = Capacity * k + (a % Capacity)
<1>1. Capacity \in Nat /\ Capacity >= 1
  BY WidthFacts
<1>2. a = Capacity * (a \div Capacity) + (a % Capacity)
  BY <1>1
<1>3. a \div Capacity \in Nat /\ a % Capacity \in 0 .. Capacity - 1
  BY <1>1
<1>. QED
  BY <1>2, <1>3 DEF Slots

\* A multiple of Capacity strictly between -Capacity and Capacity is zero.
LEMMA SmallMultiple ==
    ASSUME NEW k \in Int, Capacity * k < Capacity, Capacity * k > 0 - Capacity
    PROVE  k = 0
<1>1. Capacity \in Nat /\ Capacity >= 1
  BY WidthFacts
<1>2. CASE k >= 1
  <2>1. Capacity * k >= Capacity
    BY <1>1, <1>2
  <2>. QED
    BY <2>1, <1>1
<1>3. CASE k <= -1
  <2>1. Capacity * k <= 0 - Capacity
    BY <1>1, <1>3
  <2>. QED
    BY <2>1, <1>1
<1>. QED
  BY <1>2, <1>3

\* Two numbers less than Capacity apart that share a slot are equal.
LEMMA SlotsDistinct ==
    ASSUME NEW a \in Nat, NEW b \in Nat, a < b, b - a < Capacity
    PROVE  a % Capacity # b % Capacity
<1>1. Capacity \in Nat /\ Capacity >= 1
  BY WidthFacts
<1>2. PICK i \in Nat : a = Capacity * i + (a % Capacity)
  BY ModFacts
<1>3. PICK j \in Nat : b = Capacity * j + (b % Capacity)
  BY ModFacts
<1>4. a % Capacity \in Int /\ b % Capacity \in Int
  BY ModFacts DEF Slots
<1>5. SUFFICES ASSUME a % Capacity = b % Capacity PROVE FALSE
  OBVIOUS
<1>6. b - a = Capacity * (j - i)
  <2>1. Capacity * (j - i) = Capacity * j - Capacity * i
    BY <1>1
  <2>2. Capacity * j \in Int /\ Capacity * i \in Int
    BY <1>1
  <2>. QED
    BY <1>2, <1>3, <1>4, <1>5, <2>1, <2>2
<1>7. j - i = 0
  BY <1>1, <1>6, SmallMultiple
<1>. QED
  BY <1>1, <1>6, <1>7

\* Adding the counter range does not change the slot.
LEMMA SlotPeriodic ==
    ASSUME NEW a \in Nat
    PROVE  (a + Width) % Capacity = a % Capacity
<1>1. Capacity \in Nat /\ Capacity >= 1 /\ Laps \in Nat /\ Width \in Nat
  BY WidthFacts
<1>2. PICK i \in Nat : a = Capacity * i + (a % Capacity)
  BY ModFacts
<1>. DEFINE b == a + Width
<1>b. b \in Nat
  BY <1>1
<1>. HIDE DEF b
<1>3. PICK j \in Nat : b = Capacity * j + (b % Capacity)
  BY <1>b, ModFacts
<1>4. a % Capacity \in Slots /\ b % Capacity \in Slots
  BY <1>b, ModFacts
<1>5. (b % Capacity) - (a % Capacity) = Capacity * (i + Laps - j)
  <2>1. Capacity * (i + Laps - j) = Capacity * i + Laps * Capacity - Capacity * j
    BY <1>1
  <2>2. /\ Capacity * i \in Int
        /\ Capacity * j \in Int
        /\ Width = Laps * Capacity
    BY <1>1 DEF Width
  <2>. QED
    BY <1>1, <1>2, <1>3, <1>4, <2>1, <2>2 DEF Slots, b
<1>6. i + Laps - j = 0
  BY <1>1, <1>4, <1>5, SmallMultiple DEF Slots
<1>. QED
  BY <1>1, <1>4, <1>5, <1>6 DEF Slots, b

\* What moving a counter one step does to its distance from another.
LEMMA DiffFacts ==
    ASSUME NEW a \in Counters, NEW b \in Counters
    PROVE  /\ Diff(a, b) \in Nat
           /\ Diff(a, b) < Width
           /\ Inc(a) \in Counters
           /\ Diff(a, b) < Width - 1 => Diff(Inc(a), b) = Diff(a, b) + 1
           /\ Diff(a, b) > 0 => Diff(a, Inc(b)) = Diff(a, b) - 1
           /\ Diff(a, b) = 0 <=> a = b
BY WidthFacts DEF Counters, Diff, Inc

\* A load between two counters preserves the order it was taken in.
LEMMA BetweenFacts ==
    ASSUME NEW a \in Counters, NEW b \in Counters, NEW v \in Between(a, b)
    PROVE  /\ v \in Counters
           /\ Diff(b, v) <= Diff(b, a)
<1>1. v \in Counters /\ Diff(v, a) + Diff(b, v) = Diff(b, a)
  BY DEF Between
<1>2. Diff(v, a) \in Nat /\ Diff(b, v) \in Nat /\ Diff(b, a) \in Nat
  BY <1>1, DiffFacts
<1>. QED
  BY <1>1, <1>2

\* Two counters less than Capacity apart, and different, have different slots.
LEMMA CounterSlots ==
    ASSUME NEW a \in Counters, NEW b \in Counters,
           Diff(a, b) > 0, Diff(a, b) < Capacity
    PROVE  Slot(a) # Slot(b)
<1>1. a \in Nat /\ b \in Nat /\ Width \in Nat /\ Capacity \in Nat
  BY WidthFacts DEF Counters
<1>2. CASE a >= b
  BY <1>1, <1>2, SlotsDistinct DEF Diff, Slot
<1>3. CASE a < b
  <2>. DEFINE c == a + Width
  <2>1. c \in Nat /\ b < c /\ c - b < Capacity
    BY <1>1, <1>3 DEF Diff, Counters
  <2>2. c % Capacity = a % Capacity
    BY <1>1, SlotPeriodic
  <2>. HIDE DEF c
  <2>3. b % Capacity # c % Capacity
    BY Zenon, <1>1, <2>1, SlotsDistinct
  <2>. QED
    BY <2>2, <2>3 DEF Slot
<1>. QED
  BY <1>1, <1>2, <1>3

\* The slot of a counter is a slot.
LEMMA SlotType == ASSUME NEW a \in Counters PROVE Slot(a) \in Slots
<1>1. a \in Nat
  BY WidthFacts DEF Counters
<1>. QED
  BY <1>1, ModFacts DEF Slot

\* Moving tail_ one step makes every slot of the window one nearer.
LEMMA SlotShift ==
    ASSUME NEW t \in Counters, NEW i \in Nat, i >= 1
    PROVE  (Inc(t) + i - 1) % Capacity = (t + i) % Capacity
<1>1. t \in Nat /\ Width \in Nat
  BY WidthFacts DEF Counters
<1>2. CASE t + 1 = Width
  <2>. DEFINE a == i - 1
  <2>1. a \in Nat /\ Inc(t) + i - 1 = a /\ t + i = a + Width
    BY <1>1, <1>2 DEF Inc
  <2>. HIDE DEF a
  <2>. QED
    BY <2>1, SlotPeriodic
<1>3. CASE t + 1 # Width
  <2>1. Inc(t) + i - 1 = t + i
    BY <1>1, <1>3 DEF Inc
  <2>. QED
    BY <2>1
<1>. QED
  BY <1>2, <1>3

\* The slots of the window are slots.
LEMMA WindowType ==
    ASSUME TypeOK, NEW i \in 1 .. Diff(head_, tail_)
    PROVE  (tail_ + i - 1) % Capacity \in Slots
<1>1. Diff(head_, tail_) \in Nat /\ tail_ \in Nat
  BY DiffFacts, WidthFacts DEF TypeOK, Counters
<1>2. tail_ + i - 1 \in Nat
  BY <1>1
<1>. QED
  BY <1>2, ModFacts

\* A step that leaves the counters and the slots alone leaves the window alone.
LEMMA WindowUnchanged ==
    ASSUME WindowWritten, head_' = head_, tail_' = tail_, data_' = data_
    PROVE  WindowWritten'
BY DEF WindowWritten, Diff

------------------------------------------------------------------------------
(* The invariant is inductive.                                              *)

\* The constructed, empty queue satisfies the invariant.
LEMMA InitIInv == Init => IInv
<1>. SUFFICES ASSUME Init PROVE IInv
  OBVIOUS
<1>1. 0 \in Counters /\ Diff(0, 0) = 0
  BY WidthFacts DEF Counters, Diff
<1>2. TypeOK
  BY Zenon, <1>1 DEF Init, TypeOK
<1>3. CountersOrdered
  BY <1>1, WidthFacts DEF Init, CountersOrdered
<1>4. ProducerInv /\ ConsumerInv
  BY DEF Init, ProducerInv, ConsumerInv
<1>5. WindowWritten
  BY <1>1 DEF Init, WindowWritten
<1>. QED
  BY <1>2, <1>3, <1>4, <1>5 DEF IInv

\* Starting try_push.
LEMMA TryPushIInv == ASSUME NEW x \in Items, IInv, TryPush(x) PROVE IInv'
<1>. USE DEF IInv, TryPush, consumerVars
<1>1. TypeOK'
  BY DEF TypeOK
<1>2. CountersOrdered'
  BY DEF CountersOrdered, Diff
<1>3. Diff(head_, cached_tail_) \in Nat
  BY Zenon, DiffFacts DEF TypeOK
<1>4. ProducerInv'
  BY <1>3, WidthFacts DEF ProducerInv, CountersOrdered, Full, Diff
<1>5. ConsumerInv'
  BY DEF ConsumerInv, Diff
<1>6. WindowWritten'
  BY WindowUnchanged
<1>. QED
  BY <1>1, <1>2, <1>4, <1>5, <1>6

\* The acquire load of tail_: a stale value is still in order.
LEMMA ReloadTailIInv == ASSUME IInv, ReloadTail PROVE IInv'
<1>. USE DEF IInv
<1>1. PICK t \in Between(cached_tail_, tail_) :
         /\ cached_tail_' = t
         /\ ppc' = IF Full(t) THEN "idle" ELSE "write"
  BY DEF ReloadTail
<1>2. UNCHANGED <<head_, data_, item, tail_, cached_head_, cpc, call, held, tmp, out>>
  BY DEF ReloadTail, consumerVars
<1>3. t \in Counters /\ Diff(tail_, t) <= Diff(tail_, cached_tail_)
  BY BetweenFacts DEF TypeOK
<1>4. Diff(head_, tail_) <= Diff(head_, t) /\ Diff(head_, t) <= Diff(head_, cached_tail_)
  BY <1>3, WidthFacts DEF TypeOK, CountersOrdered, Counters, Diff
<1>5. TypeOK'
  BY <1>1, <1>2, <1>3 DEF TypeOK
<1>6. CountersOrdered'
  <2>1. /\ Diff(head_, t) \in Nat
        /\ Diff(head_, tail_) \in Nat
        /\ Diff(head_, cached_tail_) \in Nat
    BY Zenon, <1>3, DiffFacts DEF TypeOK
  <2>. QED
    BY <1>1, <1>2, <1>4, <2>1, WidthFacts DEF CountersOrdered, Diff
<1>7. ProducerInv'
  <2>1. Diff(head_, t) \in Nat /\ Diff(head_, t) <= Capacity
    BY Zenon, <1>1, <1>2, <1>3, <1>6, DiffFacts DEF CountersOrdered, TypeOK, Diff
  <2>. QED
    BY <1>1, <1>2, <2>1, WidthFacts DEF ProducerInv, Full, Diff
<1>8. ConsumerInv'
  BY <1>2 DEF ConsumerInv, Diff
<1>9. WindowWritten'
  BY <1>2, WindowUnchanged
<1>. QED
  BY <1>5, <1>6, <1>7, <1>8, <1>9

\* The slot being written is outside the window the consumer may read.
LEMMA WindowSlots ==
    ASSUME IInv, Diff(head_, tail_) < Capacity
    PROVE  /\ Diff(head_, tail_) > 0 => Slot(head_) # Slot(tail_)
           /\ \A i \in 1 .. Diff(head_, tail_) : (tail_ + i - 1) % Capacity # Slot(head_)
           /\ Slot(head_) = (tail_ + Diff(head_, tail_)) % Capacity
<1>1. head_ \in Counters /\ tail_ \in Counters
  BY DEF IInv, TypeOK
<1>2. Diff(head_, tail_) \in Nat
  BY <1>1, DiffFacts
<1>3. Diff(head_, tail_) > 0 => Slot(head_) # Slot(tail_)
  BY <1>1, CounterSlots
<1>. DEFINE e == tail_ + Diff(head_, tail_)
<1>4. e \in Nat /\ head_ \in Nat /\ tail_ \in Nat /\ (e = head_ \/ e = head_ + Width)
  BY <1>1, <1>2, WidthFacts DEF Counters, Diff
<1>5. Slot(head_) = e % Capacity
  BY <1>4, SlotPeriodic DEF Slot
<1>6. ASSUME NEW i \in 1 .. Diff(head_, tail_)
      PROVE  (tail_ + i - 1) % Capacity # Slot(head_)
  <2>. DEFINE d == tail_ + i - 1
  <2>1. d \in Nat /\ d < e /\ e - d < Capacity
    BY <1>2, <1>4, WidthFacts
  <2>. HIDE DEF d, e
  <2>2. d % Capacity # e % Capacity
    BY <1>4, <2>1, SlotsDistinct
  <2>. QED
    BY <1>5, <2>2 DEF d
<1>. QED
  BY <1>3, <1>5, <1>6

\* Room seen through the cached tail is room.
LEMMA RoomToWrite ==
    ASSUME IInv, ppc \in {"write", "publish"}
    PROVE  /\ Diff(head_, tail_) \in Nat
           /\ Diff(head_, tail_) < Capacity
<1>1. Diff(head_, cached_tail_) \in Nat /\ Diff(head_, tail_) \in Nat
  BY Zenon, DiffFacts DEF IInv, TypeOK
<1>. QED
  BY <1>1, WidthFacts DEF IInv, ProducerInv, CountersOrdered

\* An item seen through the cached head is there.
LEMMA ItemToRead ==
    ASSUME IInv, cpc \in {"read", "store"} \/ held
    PROVE  /\ Diff(head_, tail_) \in Nat
           /\ Diff(head_, tail_) > 0
<1>1. Diff(head_, cached_head_) \in Nat /\ Diff(head_, tail_) \in Nat
  BY Zenon, DiffFacts DEF IInv, TypeOK
<1>2. Diff(head_, cached_head_) < Diff(head_, tail_)
  BY DEF IInv, ConsumerInv
<1>. QED
  BY <1>1, <1>2

\* What the consumer reads has been written.
LEMMA FrontWritten ==
    ASSUME IInv, cpc \in {"read", "store"} \/ held
    PROVE  data_[Slot(tail_)] \in Items
<1>1. Diff(head_, tail_) \in Nat /\ Diff(head_, tail_) > 0
  BY ItemToRead
<1>2. 1 \in 1 .. Diff(head_, tail_)
  BY <1>1
<1>3. tail_ \in Nat /\ tail_ + 1 - 1 = tail_
  BY WidthFacts DEF IInv, TypeOK, Counters
<1>4. data_[(tail_ + 1 - 1) % Capacity] \in Items
  BY <1>2 DEF IInv, WindowWritten
<1>. QED
  BY <1>3, <1>4 DEF Slot

\* The plain write leaves the item try_pop has read untouched.
LEMMA WriteSlotIInv == ASSUME IInv, WriteSlot PROVE IInv'
<1>. USE DEF IInv, WriteSlot, consumerVars
<1>1. Slot(head_) \in Slots /\ Slot(tail_) \in Slots
  BY SlotType DEF TypeOK
<1>2. TypeOK'
  BY <1>1 DEF TypeOK
<1>3. CountersOrdered'
  BY DEF CountersOrdered, Diff
<1>4. ProducerInv'
  BY <1>1 DEF ProducerInv, TypeOK, Diff, Slot
<1>5. (cpc = "store") => Slot(head_) # Slot(tail_)
  BY RoomToWrite, ItemToRead, WindowSlots
<1>6. ConsumerInv'
  BY <1>1, <1>5 DEF ConsumerInv, TypeOK, Diff, Slot
<1>7. WindowWritten'
  <2>1. ASSUME NEW i \in 1 .. Diff(head_, tail_)
        PROVE  data_'[(tail_ + i - 1) % Capacity] \in Items
    <3>1. (tail_ + i - 1) % Capacity # Slot(head_)
      BY RoomToWrite, WindowSlots
    <3>2. (tail_ + i - 1) % Capacity \in Slots
      BY WindowType
    <3>3. data_'[(tail_ + i - 1) % Capacity] = data_[(tail_ + i - 1) % Capacity]
      BY <3>1, <3>2 DEF TypeOK
    <3>. QED
      BY <3>3 DEF WindowWritten
  <2>. QED
    BY <2>1 DEF WindowWritten, Diff
<1>. QED
  BY <1>2, <1>3, <1>4, <1>6, <1>7

\* The release store of head_.
LEMMA StoreHeadIInv == ASSUME IInv, StoreHead PROVE IInv'
<1>. USE DEF IInv
<1>1. /\ head_' = Inc(head_)
      /\ ppc' = "idle"
      /\ UNCHANGED <<cached_tail_, data_, item, tail_, cached_head_, cpc, call, held, tmp, out>>
  BY DEF StoreHead, consumerVars
<1>2. /\ head_ \in Counters /\ tail_ \in Counters
      /\ cached_tail_ \in Counters /\ cached_head_ \in Counters
  BY DEF TypeOK
<1>3. /\ Diff(head_, cached_tail_) \in Nat
      /\ Diff(head_, tail_) \in Nat
      /\ Diff(head_, cached_head_) \in Nat
      /\ Diff(head_, cached_tail_) < Capacity
      /\ Diff(head_, tail_) <= Diff(head_, cached_tail_)
      /\ Diff(head_, cached_head_) <= Diff(head_, tail_)
  BY <1>2, DiffFacts DEF ProducerInv, CountersOrdered, StoreHead
<1>4. /\ Diff(Inc(head_), cached_tail_) = Diff(head_, cached_tail_) + 1
      /\ Diff(Inc(head_), tail_) = Diff(head_, tail_) + 1
      /\ Diff(Inc(head_), cached_head_) = Diff(head_, cached_head_) + 1
      /\ Inc(head_) \in Counters
  <2>1. /\ Diff(head_, cached_tail_) < Width - 1
        /\ Diff(head_, tail_) < Width - 1
        /\ Diff(head_, cached_head_) < Width - 1
    BY <1>3, WidthFacts
  <2>. QED
    BY <1>2, <2>1, DiffFacts
<1>5. /\ Diff(head_, cached_tail_)' = Diff(head_, cached_tail_) + 1
      /\ Diff(head_, tail_)' = Diff(head_, tail_) + 1
      /\ Diff(head_, cached_head_)' = Diff(head_, cached_head_) + 1
  BY <1>1, <1>4 DEF Diff
<1>6. TypeOK'
  BY <1>1, <1>4 DEF TypeOK
<1>7. CountersOrdered'
  BY <1>3, <1>5, WidthFacts DEF CountersOrdered
<1>8. ProducerInv'
  BY <1>1 DEF ProducerInv
<1>9. ConsumerInv'
  BY <1>1, <1>3, <1>5 DEF ConsumerInv, Slot
<1>10. WindowWritten'
  <2>. DEFINE n == Diff(head_, tail_)
  <2>1. data_[(tail_ + n) % Capacity] \in Items
    BY RoomToWrite, WindowSlots DEF StoreHead, ProducerInv, TypeOK
  <2>2. n \in Nat /\ tail_ \in Nat
    BY <1>2, <1>3, WidthFacts DEF Counters
  <2>3. \A i \in 1 .. n : data_[(tail_ + i - 1) % Capacity] \in Items
    BY DEF WindowWritten
  <2>. HIDE DEF n
  <2>4. ASSUME NEW i \in 1 .. n + 1 PROVE data_[(tail_ + i - 1) % Capacity] \in Items
    <3>1. i \in 1 .. n \/ tail_ + i - 1 = tail_ + n
      BY <2>2
    <3>. QED
      BY <2>1, <2>3, <3>1
  <2>5. Diff(head_, tail_)' = n + 1
    BY <1>5 DEF n
  <2>. QED
    BY <1>1, <2>4, <2>5 DEF WindowWritten
<1>. QED
  BY <1>6, <1>7, <1>8, <1>9, <1>10

\* Starting try_pop, front or pop.
LEMMA CallIInv ==
    ASSUME NEW c \in {"try_pop", "front", "pop"}, IInv, Call(c)
    PROVE  IInv'
<1>. USE DEF IInv
<1>1. UNCHANGED <<head_, cached_tail_, data_, ppc, item, tail_, cached_head_, tmp, out>>
  BY DEF Call, producerVars
<1>2. /\ call' = c
      /\ \/ cpc' = "reload" /\ held' = held /\ Empty(cached_head_)
         \/ ~ Empty(cached_head_) /\ cpc' = AfterTest(c) /\ held' = (c = "front")
  BY DEF Call
<1>3. AfterTest(c) \in {"read", "idle", "store"} /\ (AfterTest(c) = "read" => c = "try_pop")
      /\ (AfterTest(c) = "store" => c = "pop") /\ (c = "front" => AfterTest(c) = "idle")
  BY DEF AfterTest
<1>4. TypeOK'
  BY Zenon, <1>1, <1>2, <1>3 DEF TypeOK
<1>5. CountersOrdered' /\ ProducerInv'
  BY <1>1 DEF CountersOrdered, ProducerInv, Diff, Slot
<1>6. ~ Empty(cached_head_) => Diff(head_, cached_head_) < Diff(head_, tail_)
  BY WidthFacts DEF Empty, TypeOK, CountersOrdered, Counters, Diff
<1>7. held => ~ Empty(cached_head_)
  BY WidthFacts DEF Empty, TypeOK, ConsumerInv, Counters, Diff
<1>8. ConsumerInv'
  <2>1. (cpc' \in {"read", "store"} \/ held') => Diff(head_, cached_head_) < Diff(head_, tail_)
    BY <1>2, <1>6, <1>7, Zenon
  <2>2. (cpc' = "read" => call' = "try_pop") /\ ~ (cpc' = "store" /\ call' = "try_pop")
    BY <1>2, <1>3
  <2>3. cpc' \in {"read", "store"} => ~ held'
    BY Zenon, <1>2, <1>3
  <2>. QED
    BY <1>1, <2>1, <2>2, <2>3 DEF ConsumerInv, Diff
<1>9. WindowWritten'
  BY <1>1, WindowUnchanged
<1>. QED
  BY <1>4, <1>5, <1>8, <1>9

\* The acquire load of head_: a stale value is still in order.
LEMMA ReloadHeadIInv == ASSUME IInv, ReloadHead PROVE IInv'
<1>. USE DEF IInv
<1>1. PICK h \in Between(cached_head_, head_) :
         /\ cached_head_' = h
         /\ \/ Empty(h) /\ cpc' = "idle" /\ held' = held
            \/ ~ Empty(h) /\ cpc' = AfterTest(call) /\ held' = (call = "front")
  BY DEF ReloadHead
<1>2. UNCHANGED <<head_, cached_tail_, data_, ppc, item, tail_, call, tmp, out>>
  BY DEF ReloadHead, producerVars
<1>3. h \in Counters /\ Diff(head_, h) <= Diff(head_, cached_head_)
  BY BetweenFacts DEF TypeOK
<1>4. call \in {"try_pop", "front", "pop"}
  BY DEF TypeOK
<1>5. /\ AfterTest(call) \in {"read", "idle", "store"}
      /\ AfterTest(call) = "read" => call = "try_pop"
      /\ AfterTest(call) = "store" => call = "pop"
      /\ call = "front" => AfterTest(call) = "idle"
  BY <1>4 DEF AfterTest
<1>6. TypeOK'
  BY Zenon, <1>1, <1>2, <1>3, <1>5 DEF TypeOK
<1>7. CountersOrdered'
  <2>1. /\ Diff(head_, h) \in Nat
        /\ Diff(head_, tail_) \in Nat
        /\ Diff(head_, cached_head_) \in Nat
    BY Zenon, <1>3, DiffFacts DEF TypeOK
  <2>. QED
    BY <1>1, <1>2, <1>3, <2>1 DEF CountersOrdered, Diff
<1>8. ProducerInv'
  BY <1>2 DEF ProducerInv, Diff, Slot
<1>9. ~ Empty(h) => Diff(head_, h) < Diff(head_, tail_)
  BY <1>3, WidthFacts DEF Empty, TypeOK, CountersOrdered, Counters, Diff
<1>10. held => Diff(head_, h) < Diff(head_, tail_)
  <2>1. /\ Diff(head_, h) \in Nat
        /\ Diff(head_, tail_) \in Nat
        /\ Diff(head_, cached_head_) \in Nat
    BY Zenon, <1>3, DiffFacts DEF TypeOK
  <2>. QED
    BY <1>3, <2>1 DEF ConsumerInv
<1>11. ConsumerInv'
  <2>1. (cpc' \in {"read", "store"} \/ held') => Diff(head_, h) < Diff(head_, tail_)
    BY <1>1, <1>9, <1>10, Zenon
  <2>2. (cpc' = "read" => call' = "try_pop") /\ ~ (cpc' = "store" /\ call' = "try_pop")
    BY <1>1, <1>2, <1>5
  <2>3. cpc' \in {"read", "store"} => ~ held'
    BY Zenon, <1>1, <1>5
  <2>. QED
    BY <1>1, <1>2, <2>1, <2>2, <2>3 DEF ConsumerInv, Diff
<1>12. WindowWritten'
  BY <1>2, WindowUnchanged
<1>. QED
  BY <1>6, <1>7, <1>8, <1>11, <1>12

\* The move out of the slot.
LEMMA ReadSlotIInv == ASSUME IInv, ReadSlot PROVE IInv'
<1>. USE DEF IInv, ReadSlot, producerVars
<1>1. data_[Slot(tail_)] \in Items
  BY FrontWritten
<1>2. TypeOK'
  BY <1>1 DEF TypeOK
<1>3. CountersOrdered' /\ ProducerInv'
  BY DEF CountersOrdered, ProducerInv, Diff, Slot
<1>4. ConsumerInv'
  BY DEF ConsumerInv, Diff, Slot
<1>5. WindowWritten'
  BY WindowUnchanged
<1>. QED
  BY <1>2, <1>3, <1>4, <1>5

\* The release store of tail_.
LEMMA StoreTailIInv == ASSUME IInv, StoreTail PROVE IInv'
<1>. USE DEF IInv
<1>1. /\ tail_' = Inc(tail_)
      /\ cpc' = "idle"
      /\ out' \in {tmp, out}
      /\ UNCHANGED <<head_, cached_tail_, data_, ppc, item, cached_head_, call, held, tmp>>
  BY DEF StoreTail, producerVars
<1>2. /\ head_ \in Counters /\ tail_ \in Counters
      /\ cached_tail_ \in Counters /\ cached_head_ \in Counters
  BY DEF TypeOK
<1>3. /\ Diff(head_, cached_tail_) \in Nat
      /\ Diff(head_, tail_) \in Nat
      /\ Diff(head_, cached_head_) \in Nat
      /\ Diff(head_, cached_head_) < Diff(head_, tail_)
      /\ ~ held
  BY <1>2, DiffFacts DEF ConsumerInv, StoreTail
<1>4. Diff(head_, Inc(tail_)) = Diff(head_, tail_) - 1 /\ Inc(tail_) \in Counters
  BY <1>2, <1>3, DiffFacts
<1>5. /\ Diff(head_, tail_)' = Diff(head_, tail_) - 1
      /\ Diff(head_, cached_tail_)' = Diff(head_, cached_tail_)
      /\ Diff(head_, cached_head_)' = Diff(head_, cached_head_)
  BY <1>1, <1>4 DEF Diff
<1>6. TypeOK'
  BY <1>1, <1>4 DEF TypeOK
<1>7. CountersOrdered'
  BY <1>3, <1>5, WidthFacts DEF CountersOrdered
<1>8. ProducerInv'
  BY <1>1 DEF ProducerInv, Diff, Slot
<1>9. ConsumerInv'
  BY <1>1, <1>3 DEF ConsumerInv
<1>10. WindowWritten'
  <2>. DEFINE n == Diff(head_, tail_)
  <2>1. n \in Nat /\ tail_ \in Nat
    BY <1>2, <1>3, WidthFacts DEF Counters
  <2>2. \A i \in 1 .. n : data_[(tail_ + i - 1) % Capacity] \in Items
    BY DEF WindowWritten
  <2>. HIDE DEF n
  <2>3. ASSUME NEW i \in 1 .. n - 1 PROVE data_[(Inc(tail_) + i - 1) % Capacity] \in Items
    <3>1. /\ i \in Nat /\ i >= 1
          /\ i + 1 \in 1 .. n
          /\ tail_ + (i + 1) - 1 = tail_ + i
      BY <2>1
    <3>2. (Inc(tail_) + i - 1) % Capacity = (tail_ + i) % Capacity
      BY <1>2, <3>1, SlotShift
    <3>. QED
      BY <2>2, <3>1, <3>2
  <2>4. Diff(head_, tail_)' = n - 1
    BY <1>5 DEF n
  <2>. QED
    BY <1>1, <2>3, <2>4 DEF WindowWritten
<1>. QED
  BY <1>6, <1>7, <1>8, <1>9, <1>10

\* Reading through the pointer front() returned.
LEMMA DerefIInv == ASSUME IInv, Deref PROVE IInv'
<1>. USE DEF IInv, Deref, producerVars
<1>1. data_[Slot(tail_)] \in Items
  BY FrontWritten
<1>2. TypeOK'
  BY <1>1 DEF TypeOK
<1>3. CountersOrdered' /\ ProducerInv' /\ ConsumerInv'
  BY DEF CountersOrdered, ProducerInv, ConsumerInv, Diff, Slot
<1>4. WindowWritten'
  BY WindowUnchanged
<1>. QED
  BY <1>2, <1>3, <1>4

\* Every step of either thread preserves the invariant.
LEMMA NextIInv == IInv /\ [Next]_vars => IInv'
<1>. SUFFICES ASSUME IInv, [Next]_vars PROVE IInv'
  OBVIOUS
<1>1. CASE Producer
  BY <1>1, TryPushIInv, ReloadTailIInv, WriteSlotIInv, StoreHeadIInv DEF Producer
<1>2. CASE Consumer
  BY Zenon, <1>2, CallIInv, ReloadHeadIInv, ReadSlotIInv, StoreTailIInv, DerefIInv DEF Consumer
<1>3. CASE UNCHANGED vars
  <2>1. WindowWritten'
    BY <1>3, WindowUnchanged DEF IInv, vars
  <2>. QED
    BY <1>3, <2>1 DEF IInv, vars, TypeOK, CountersOrdered, ProducerInv, ConsumerInv, Diff, Slot
<1>. QED
  BY <1>1, <1>2, <1>3 DEF Next

\* The inductive invariant holds in every reachable state of the queue.
THEOREM Invariance == Spec => []IInv
BY InitIInv, NextIInv, PTL DEF Spec

\* Whatever the capacity and the items, the consumer only ever gets items that
\* were pushed: it never reads a slot of the default-initialised array that no
\* push has written.
THEOREM TypeCorrect == Spec => []TypeOK
<1>1. IInv => TypeOK
  BY DEF IInv
<1>. QED
  BY <1>1, Invariance, PTL

\* However stale the cached counters, the four counters of the ring are in
\* order and at most Capacity apart.
THEOREM OrderedCounters == Spec => []CountersOrdered
<1>1. IInv => CountersOrdered
  BY DEF IInv
<1>. QED
  BY <1>1, Invariance, PTL

\* The unsynchronised write of try_push never meets the unsynchronised read
\* of try_pop, or a pointer returned by front(), in one slot.
THEOREM RaceFreedom == Spec => []NoDataRace
<1>1. IInv => NoDataRace
  BY RoomToWrite, ItemToRead, WindowSlots DEF NoDataRace
<1>. QED
  BY <1>1, Invariance, PTL

------------------------------------------------------------------------------
(* Refinement: contents is the queue of BoundedFifo.                        *)

\* contents is a sequence of items as long as the counters are apart.
LEMMA ContentsFacts ==
    ASSUME IInv
    PROVE  /\ Diff(head_, tail_) \in Nat
           /\ contents \in Seq(Items)
           /\ Len(contents) = Diff(head_, tail_)
           /\ \A i \in 1 .. Diff(head_, tail_) :
                 contents[i] = data_[(tail_ + i - 1) % Capacity]
<1>1. Diff(head_, tail_) \in Nat
  BY DiffFacts DEF IInv, TypeOK
<1>. DEFINE n == Diff(head_, tail_)
<1>3. contents \in [1 .. n -> Items]
  BY DEF contents, IInv, WindowWritten
<1>4. \A i \in 1 .. n : contents[i] = data_[(tail_ + i - 1) % Capacity]
  BY DEF contents
<1>. HIDE DEF n
<1>5. contents \in Seq(Items)
  BY <1>1, <1>3, SeqDef DEF n
<1>6. Len(contents) = n
  <2>1. Len(contents) \in Nat /\ DOMAIN contents = 1 .. Len(contents)
    BY <1>5, LenProperties
  <2>. QED
    BY <1>1, <1>3, <2>1 DEF n
<1>. QED
  BY <1>1, <1>4, <1>5, <1>6 DEF n

\* A step that leaves the counters and the slots in the window alone leaves
\* the abstract queue alone.
LEMMA ContentsUnchanged ==
    ASSUME UNCHANGED <<head_, tail_>>,
           \A i \in 1 .. Diff(head_, tail_) :
              data_'[(tail_ + i - 1) % Capacity] = data_[(tail_ + i - 1) % Capacity]
    PROVE  contents' = contents
BY DEF contents, Diff

\* Publishing appends the pushed item.
LEMMA StoreHeadPushes == ASSUME IInv, IInv', StoreHead PROVE Fifo!Push(item)
<1>. DEFINE n == Diff(head_, tail_)
<1>1. n \in Nat /\ n < Capacity
  BY RoomToWrite DEF StoreHead
<1>2. Diff(head_, tail_)' = n + 1
  <2>1. Diff(Inc(head_), tail_) = n + 1
    BY <1>1, DiffFacts, WidthFacts DEF IInv, TypeOK
  <2>. QED
    BY <2>1 DEF StoreHead, Diff, consumerVars
<1>3. /\ contents \in Seq(Items) /\ Len(contents) = n
      /\ \A i \in 1 .. n : contents[i] = data_[(tail_ + i - 1) % Capacity]
  BY ContentsFacts
<1>4. contents' = [i \in 1 .. n + 1 |-> data_[(tail_ + i - 1) % Capacity]]
  BY Zenon, <1>2 DEF contents, StoreHead, consumerVars
<1>5. item \in Items /\ item = data_[(tail_ + n) % Capacity]
  BY <1>1, WindowSlots DEF IInv, TypeOK, ProducerInv, StoreHead
<1>6. tail_ + (n + 1) - 1 = tail_ + n
  BY SMTT(30), <1>1, WidthFacts DEF IInv, TypeOK, Counters
<1>. HIDE DEF n
<1>7. contents' = Append(contents, item)
  BY <1>1, <1>3, <1>4, <1>5, <1>6
<1>8. out' = out
  BY DEF StoreHead, consumerVars
<1>. QED
  BY <1>1, <1>3, <1>7, <1>8 DEF Fifo!Push

\* What try_pop and front see is the head of the abstract queue, and storing
\* tail_ drops exactly that item.
LEMMA HeadOfQueue ==
    ASSUME IInv, Diff(head_, tail_) > 0
    PROVE  contents # <<>> /\ Head(contents) = data_[Slot(tail_)]
<1>1. tail_ \in Nat /\ tail_ + 1 - 1 = tail_
  BY WidthFacts DEF IInv, TypeOK, Counters
<1>2. Len(contents) > 0 /\ contents \in Seq(Items) /\ contents[1] = data_[(tail_ + 1 - 1) % Capacity]
  BY ContentsFacts
<1>. QED
  BY <1>1, <1>2 DEF Slot

\* Storing tail_ removes the oldest item and leaves the others in place.
LEMMA StoreTailDrops == ASSUME IInv, StoreTail PROVE contents' = Tail(contents)
<1>. DEFINE n == Diff(head_, tail_)
<1>1. n \in Nat /\ n > 0
  BY ItemToRead DEF StoreTail
<1>2. tail_ \in Counters /\ head_ \in Counters /\ tail_ \in Nat /\ Width \in Nat
  BY WidthFacts DEF IInv, TypeOK, Counters
<1>3. Diff(head_, tail_)' = n - 1
  <2>1. Diff(head_, Inc(tail_)) = n - 1
    BY <1>1, <1>2, DiffFacts
  <2>. QED
    BY <2>1 DEF StoreTail, Diff, producerVars
<1>4. ASSUME NEW i \in 1 .. n - 1
      PROVE  (Inc(tail_) + i - 1) % Capacity = (tail_ + i) % Capacity
  BY <1>1, <1>2, SlotShift
<1>5. contents' = [i \in 1 .. n - 1 |-> data_[(Inc(tail_) + i - 1) % Capacity]]
  BY <1>3 DEF contents, StoreTail, producerVars
<1>6. contents' = [i \in 1 .. n - 1 |-> data_[(tail_ + i) % Capacity]]
  BY <1>4, <1>5
<1>7. /\ contents \in Seq(Items) /\ Len(contents) = n
      /\ \A i \in 1 .. n : contents[i] = data_[(tail_ + i - 1) % Capacity]
  BY ContentsFacts
<1>. HIDE DEF n
<1>8. \A i \in 1 .. n - 1 : contents[i + 1] = data_[(tail_ + i) % Capacity]
  <2>. TAKE i \in 1 .. n - 1
  <2>1. i + 1 \in 1 .. n /\ tail_ + (i + 1) - 1 = tail_ + i
    BY <1>1, <1>2
  <2>. QED
    BY <1>7, <2>1
<1>9. Tail(contents) = [i \in 1 .. n - 1 |-> contents[i + 1]]
  <2>1. contents # <<>>
    BY <1>1, <1>7
  <2>2. /\ Tail(contents) \in Seq(Items)
        /\ Len(Tail(contents)) = n - 1
        /\ \A i \in 1 .. Len(Tail(contents)) : Tail(contents)[i] = contents[i + 1]
    BY <1>7, <2>1, HeadTailProperties
  <2>3. Tail(contents) \in [1 .. n - 1 -> Items]
    BY Zenon, <2>2, LenProperties
  <2>. QED
    BY Zenon, <2>2, <2>3
<1>. QED
  BY <1>6, <1>8, <1>9

\* Every step of either thread is a step of the abstract queue or a stutter.
LEMMA NextRefines == IInv /\ IInv' /\ [Next]_vars => [Fifo!Next]_(Fifo!vars)
<1>. SUFFICES ASSUME IInv, IInv', [Next]_vars PROVE [Fifo!Next]_(Fifo!vars)
  OBVIOUS
<1>1. ASSUME UNCHANGED <<head_, tail_, data_, out>> PROVE UNCHANGED Fifo!vars
  BY <1>1, ContentsUnchanged DEF Fifo!vars
<1>2. ASSUME NEW x \in Items, TryPush(x) PROVE UNCHANGED Fifo!vars
  BY <1>1, <1>2 DEF TryPush, consumerVars
<1>3. CASE ReloadTail
  BY <1>1, <1>3 DEF ReloadTail, consumerVars
<1>4. CASE WriteSlot
  <2>1. Slot(head_) \in Slots /\ data_ \in [Slots -> Items \cup {Unwritten}]
    BY SlotType DEF IInv, TypeOK
  <2>2. \A i \in 1 .. Diff(head_, tail_) : (tail_ + i - 1) % Capacity # Slot(head_)
    BY <1>4, RoomToWrite, WindowSlots DEF WriteSlot
  <2>3. \A i \in 1 .. Diff(head_, tail_) : (tail_ + i - 1) % Capacity \in Slots
    BY WindowType DEF IInv
  <2>4. contents' = contents
    BY <1>4, <2>1, <2>2, <2>3, ContentsUnchanged DEF WriteSlot, consumerVars
  <2>. QED
    BY <1>4, <2>4 DEF WriteSlot, consumerVars, Fifo!vars
<1>5. CASE StoreHead
  <2>1. item \in Items
    BY DEF IInv, TypeOK
  <2>. QED
    BY <1>5, <2>1, StoreHeadPushes DEF Fifo!Next
<1>6. ASSUME NEW c \in {"try_pop", "front", "pop"}, Call(c) PROVE UNCHANGED Fifo!vars
  BY <1>1, <1>6 DEF Call, producerVars
<1>7. CASE ReloadHead
  BY <1>1, <1>7 DEF ReloadHead, producerVars
<1>8. CASE ReadSlot
  BY <1>1, <1>8 DEF ReadSlot, producerVars
<1>9. CASE StoreTail
  <2>1. contents # <<>> /\ Head(contents) = data_[Slot(tail_)] /\ contents' = Tail(contents)
    BY <1>9, ItemToRead, HeadOfQueue, StoreTailDrops DEF StoreTail
  <2>2. CASE call = "try_pop"
    <3>1. out' = Head(contents)
      BY <1>9, <2>1, <2>2 DEF StoreTail, IInv, ConsumerInv
    <3>. QED
      BY Zenon, <2>1, <3>1 DEF Fifo!Next, Fifo!Take
  <2>3. CASE call # "try_pop"
    <3>1. out' = out
      BY <1>9, <2>3 DEF StoreTail
    <3>. QED
      BY <2>1, <3>1 DEF Fifo!Next, Fifo!Drop
  <2>. QED
    BY <2>2, <2>3
<1>10. CASE Deref
  <2>1. contents # <<>> /\ Head(contents) = data_[Slot(tail_)]
    BY <1>10, ItemToRead, HeadOfQueue DEF Deref
  <2>2. contents' = contents
    BY <1>10, ContentsUnchanged DEF Deref, producerVars
  <2>. QED
    BY <1>10, <2>1, <2>2 DEF Deref, Fifo!Next, Fifo!Peek
<1>11. CASE UNCHANGED vars
  BY <1>1, <1>11 DEF vars
<1>. QED
  BY <1>2, <1>3, <1>4, <1>5, <1>6, <1>7, <1>8, <1>9, <1>10, <1>11
     DEF Next, Producer, Consumer

\* The ring implements a bounded first-in first-out queue: with any stale
\* loads and any interleaving, items come out once, in order, unchanged.
THEOREM Refinement == Spec => Implements
<1>1. Init => Fifo!Init
  <2>. SUFFICES ASSUME Init PROVE Fifo!Init
    OBVIOUS
  <2>1. Diff(head_, tail_) = 0
    BY WidthFacts DEF Init, Diff
  <2>2. Len(contents) = 0 /\ contents \in Seq(Items)
    BY <2>1, InitIInv, ContentsFacts
  <2>. QED
    BY <2>2, EmptySeq DEF Init, Fifo!Init
<1>. QED
  BY <1>1, Invariance, NextRefines, PTL DEF Spec, Implements, Fifo!Spec
==============================================================================
