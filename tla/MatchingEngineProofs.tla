------------------------ MODULE MatchingEngineProofs -------------------------
(***************************************************************************)
(* Proofs about the memory of the matching engine, for any pool, prices,   *)
(* quantities and sequence of calls: free list, price levels and order map *)
(* never share a block, the lists are linked in both directions, matching  *)
(* begins with the oldest order of a price, and the free list is a stack.  *)
(*                                                                         *)
(* The properties that TLC checks follow the lists link by link.  The      *)
(* invariant says the same of each link alone, and that is inductive: no   *)
(* step looks further than the neighbours of one block.  The last part is  *)
(* about the best prices, for counters that are 0 for empty levels only.   *)
(***************************************************************************)
EXTENDS MatchingEngine, WellFoundedInduction, TLAPS

\* The first-order prover, unless a step names another.
USE Zenon

------------------------------------------------------------------------------
(* The inductive invariant                                                  *)

Ids == 0 .. MaxOrders + PoolSize
Cells ==
    [order_id : Ids \cup {NULL}, client : Clients \cup {0}, side : Sides,
     price : 0 .. MaxPrice, qty : 0 .. MaxQty, prev : Pointers, next : Pointers]
PriceLevels == [head : Pointers, tail : Pointers, total : 0 .. QtyModulus - 1]

\* The blocks that are neither in the book nor in the hands of place_limit.
FreeBlocks == Blocks \ (Resting \cup Working)

\* The free list: it begins with a free block, every link leads to a free block,
\* and no block is reached in two ways.
FreeLinked ==
    /\ free_head_ \in FreeBlocks \cup {NULL}
    /\ \A b \in FreeBlocks :
          /\ mem[b].order_id \in FreeBlocks \cup {NULL}
          /\ mem[b].order_id = free_head_ => free_head_ = NULL
    /\ \A b, c \in FreeBlocks : mem[b].order_id = mem[c].order_id /\ mem[b].order_id # NULL => b = c

\* The order map and the orders agree.
Registered ==
    /\ \A id \in DOMAIN orders_ : mem[orders_[id]].order_id = id /\ id < next_order_id_
    /\ \A b \in Resting : mem[b].qty > 0 /\ mem[b].price # 0

SameLevel(b, c) == mem[b].side = mem[c].side /\ mem[b].price = mem[c].price
LevelOf(b) == level[mem[b].side][mem[b].price]

\* The list of each price level, link by link: neighbours point at each other,
\* are at the same price and in the order of arrival; the ends are head and tail.
PrevLinked(b) ==
    /\ mem[b].prev = NULL => LevelOf(b).head = b
    /\ mem[b].prev # NULL =>
          /\ mem[b].prev \in Resting /\ SameLevel(mem[b].prev, b)
          /\ mem[mem[b].prev].next = b
          /\ mem[mem[b].prev].order_id < mem[b].order_id
NextLinked(b) ==
    /\ mem[b].next = NULL => LevelOf(b).tail = b
    /\ mem[b].next # NULL =>
          /\ mem[b].next \in Resting /\ SameLevel(mem[b].next, b)
          /\ mem[mem[b].next].prev = b
EndsLinked(s, p) ==
    /\ level[s][p].head = NULL <=> level[s][p].tail = NULL
    /\ level[s][p].head # NULL =>
          LET b == level[s][p].head
          IN  b \in Resting /\ mem[b].side = s /\ mem[b].price = p /\ mem[b].prev = NULL
    /\ level[s][p].tail # NULL =>
          LET b == level[s][p].tail
          IN  b \in Resting /\ mem[b].side = s /\ mem[b].price = p /\ mem[b].next = NULL
Linked ==
    /\ \A b \in Resting : PrevLinked(b) /\ NextLinked(b)
    /\ \A s \in Sides, p \in Levels : EndsLinked(s, p)

\* The order in the hands of place_limit, the youngest of all, is in no list;
\* the cursor is the head of the level at a price within its limit.
Held ==
    pc \in {"scan", "match", "finish"} =>
        /\ incoming \in Blocks \ Resting
        /\ mem[incoming].price # 0
        /\ mem[incoming].order_id \in 1 .. MaxOrders
        /\ mem[incoming].order_id + 1 = next_order_id_
        /\ mem[incoming].order_id \notin DOMAIN orders_
        /\ mem[incoming].prev = NULL /\ mem[incoming].next = NULL
        /\ pc = "match" => ScanOn /\ cur = level[Other(Side)][ptr].head

MemInv == TypeOK /\ FreeLinked /\ Registered /\ Linked /\ Held

------------------------------------------------------------------------------
(* Types                                                                    *)

\* The constants, and the null pointer, which is none of the blocks and ids.
LEMMA Constants ==
    /\ PoolSize \in Nat \ {0} /\ MaxPrice \in Nat \ {0} /\ MaxQty \in Nat \ {0}
    /\ MaxOrders \in Nat /\ QtyModulus \in Nat \ {0}
    /\ NULL \notin Blocks /\ NULL \notin Ids
    /\ Blocks \subseteq Ids /\ Blocks \subseteq Pointers /\ NULL \in Pointers
    /\ 1 \in Blocks
BY SMT, EngineAssumption DEF Blocks, Ids, Pointers

\* What TypeOK says of the blocks and the book.
LEMMA CellTypes ==
    ASSUME TypeOK
    PROVE  /\ mem \in [Blocks -> Cells]
           /\ \A b \in Blocks : /\ mem[b].order_id \in Ids \cup {NULL}
                                /\ mem[b].side \in Sides
                                /\ mem[b].price \in 0 .. MaxPrice
                                /\ mem[b].price \in Levels
                                /\ mem[b].qty \in 0 .. MaxQty
                                /\ mem[b].prev \in Pointers
                                /\ mem[b].next \in Pointers
           /\ Resting \subseteq Blocks
<1>1. mem \in [Blocks -> Cells]
  BY DEF TypeOK, Cells, Ids
<1>. USE <1>1
<1>2. ASSUME NEW b \in Blocks
      PROVE  /\ mem[b].order_id \in Ids \cup {NULL}
             /\ mem[b].side \in Sides /\ mem[b].price \in 0 .. MaxPrice /\ mem[b].qty \in 0 .. MaxQty
             /\ mem[b].prev \in Pointers /\ mem[b].next \in Pointers
  BY DEF Cells
<1>3. \A p \in 0 .. MaxPrice : p \in Levels
  BY SMT, Constants DEF Levels
<1>4. Resting \subseteq Blocks
  BY SMT DEF TypeOK, Resting
<1>. QED
  BY SMT, <1>2, <1>3, <1>4

\* And of the price levels.
LEMMA LevelTypes ==
    ASSUME TypeOK
    PROVE  /\ level \in [Sides -> [Levels -> PriceLevels]]
           /\ \A s \in Sides, p \in Levels : /\ level[s][p] \in PriceLevels
                                             /\ level[s][p].head \in Pointers
                                             /\ level[s][p].tail \in Pointers
                                             /\ level[s][p].total \in 0 .. QtyModulus - 1
<1>1. level \in [Sides -> [Levels -> PriceLevels]]
  BY DEF TypeOK, PriceLevels
<1>. USE <1>1
<1>2. ASSUME NEW s \in Sides, NEW p \in Levels
      PROVE  /\ level[s][p] \in PriceLevels /\ level[s][p].head \in Pointers
             /\ level[s][p].tail \in Pointers /\ level[s][p].total \in 0 .. QtyModulus - 1
  BY DEF PriceLevels
<1>. QED
  BY <1>2

\* The orders in the book have different ids, which the map knows.
LEMMA RestingIds ==
    ASSUME TypeOK, Registered
    PROVE  /\ \A b \in Resting : /\ b \in Blocks
                                 /\ mem[b].order_id \in DOMAIN orders_
                                 /\ orders_[mem[b].order_id] = b
                                 /\ mem[b].order_id \in 1 .. MaxOrders
                                 /\ mem[b].order_id < next_order_id_
           /\ \A b, c \in Resting : mem[b].order_id = mem[c].order_id => b = c
<1>1. ASSUME NEW b \in Resting
      PROVE  /\ b \in Blocks /\ mem[b].order_id \in DOMAIN orders_ /\ orders_[mem[b].order_id] = b
             /\ mem[b].order_id \in 1 .. MaxOrders /\ mem[b].order_id < next_order_id_
  <2>1. PICK id \in DOMAIN orders_ : b = orders_[id]
    BY DEF Resting
  <2>. USE <2>1
  <2>2. mem[b].order_id = id /\ id < next_order_id_ /\ id \in 1 .. MaxOrders
    BY DEF Registered, TypeOK
  <2>. QED
    BY <2>2 DEF TypeOK
<1>. QED
  BY <1>1

\* An order leaves the map.
LEMMA WithoutOrder ==
    ASSUME TypeOK, Registered, NEW b \in Resting, orders_' = Without(orders_, mem[b].order_id)
    PROVE  /\ Resting' = Resting \ {b}
           /\ DOMAIN orders_' = DOMAIN orders_ \ {mem[b].order_id}
           /\ \A id \in DOMAIN orders_' : orders_'[id] = orders_[id] /\ orders_[id] \in Resting \ {b}
<1>1. /\ DOMAIN orders_' = DOMAIN orders_ \ {mem[b].order_id}
      /\ \A id \in DOMAIN orders_' : orders_'[id] = orders_[id]
  BY DEF Without
<1>2. \A c \in Resting : mem[c].order_id \in DOMAIN orders_ /\ orders_[mem[c].order_id] = c
  BY SMT, RestingIds
<1>3. \A id \in DOMAIN orders_ : orders_[id] \in Resting /\ mem[orders_[id]].order_id = id
  BY DEF Resting, Registered
<1>4. Resting' = {orders_'[id] : id \in DOMAIN orders_'}
  BY DEF Resting
<1>5. \A id \in DOMAIN orders_' : orders_[id] \in Resting \ {b}
  BY <1>1, <1>3
<1>6. ASSUME NEW c \in Resting \ {b} PROVE c \in Resting'
  <2>. USE <1>2
  <2>1. PICK id \in DOMAIN orders_ : id = mem[c].order_id /\ orders_[id] = c
    OBVIOUS
  <2>. USE <2>1
  <2>2. id # mem[b].order_id
    OBVIOUS
  <2>. QED
    BY SMT, <1>1, <1>4, <2>2
<1>. QED
  BY SMT, <1>1, <1>4, <1>5, <1>6

------------------------------------------------------------------------------
(* An order leaves its list                                                 *)

\* What the memory n has in common with m, when b has left its list and become
\* the head of the free list: its neighbours are joined.
FreedCells(m, n, b) ==
    /\ n[b].order_id = free_head_
    /\ \A x \in Blocks \ {b} : n[x].order_id = m[x].order_id
    /\ \A x \in Blocks :
          /\ n[x].client = m[x].client
          /\ n[x].side = m[x].side
          /\ n[x].price = m[x].price
          /\ x = m[b].prev => n[x].next = m[b].next
          /\ x # m[b].prev => n[x].next = m[x].next
          /\ x = m[b].next => n[x].prev = m[b].prev
          /\ x # m[b].next => n[x].prev = m[x].prev

\* And its level: an end of the list that was b is now its neighbour.
FreedEnds(l, n, m, b) ==
    /\ m[b].prev = NULL => n.head = m[b].next
    /\ m[b].prev # NULL => n.head = l.head
    /\ m[b].next = NULL => n.tail = m[b].prev
    /\ m[b].next # NULL => n.tail = l.tail

\* The other levels keep their ends.
OthersKept(t, r) ==
    \A s \in Sides, p \in Levels : s # t \/ p # r =>
        level'[s][p].head = level[s][p].head /\ level'[s][p].tail = level[s][p].tail

\* Block b of the book is unlinked and freed: the free list, the map and the
\* lists stay sound.  Both place_limit, for a filled order, and cancel do this;
\* they differ in what they do to the quantities.
LEMMA Unlinked ==
    ASSUME TypeOK, FreeLinked, Registered, Linked, NEW b \in Resting,
           Resting \cap Working = {}, Working' = Working, next_order_id_' = next_order_id_,
           orders_' = Without(orders_, mem[b].order_id), free_head_' = b,
           \A x \in Resting \ {b} : mem'[x].qty > 0, FreedCells(mem, mem', b),
           NEW t \in Sides, NEW r \in Levels, t = mem[b].side, r = mem[b].price,
           FreedEnds(level[t][r], level'[t][r], mem, b), OthersKept(t, r)
    PROVE  FreeLinked' /\ Registered' /\ Linked'
<1>1. Resting \subseteq Blocks /\ b \in Blocks /\ NULL \notin Blocks
  BY CellTypes, Constants
<1>2. /\ Resting' = Resting \ {b}
      /\ \A id \in DOMAIN orders_' : orders_'[id] = orders_[id] /\ orders_[id] \in Resting \ {b}
      /\ DOMAIN orders_' \subseteq DOMAIN orders_
  BY WithoutOrder
<1>3. FreeBlocks' = FreeBlocks \cup {b} /\ b \notin FreeBlocks
  BY <1>1, <1>2 DEF FreeBlocks
<1>4. FreeLinked'
  <2>. USE <1>3
  <2>1. \A x \in FreeBlocks : x \in Blocks /\ x # b /\ mem'[x].order_id = mem[x].order_id
    BY DEF FreeBlocks, FreedCells
  <2>2. mem'[b].order_id = free_head_
    BY DEF FreedCells
  <2>. USE <2>2
  <2>3. free_head_' \in FreeBlocks' \cup {NULL}
    OBVIOUS
  <2>4. ASSUME NEW x \in FreeBlocks'
        PROVE  /\ mem'[x].order_id \in FreeBlocks' \cup {NULL}
               /\ mem'[x].order_id = free_head_' => free_head_' = NULL
    BY <1>1, <2>1, <2>4 DEF FreeLinked
  <2>5. ASSUME NEW x \in FreeBlocks', NEW y \in FreeBlocks', mem'[x].order_id = mem'[y].order_id,
               mem'[x].order_id # NULL
        PROVE  x = y
    BY SMT, <1>1, <2>1, <2>5 DEF FreeLinked
  <2>. QED
    BY <2>3, <2>4, <2>5 DEF FreeLinked
<1>5. Registered'
  <2>. USE <1>1, <1>2
  <2>1. ASSUME NEW id \in DOMAIN orders_' PROVE mem'[orders_'[id]].order_id = id /\ id < next_order_id_'
    BY SMT DEF Registered, FreedCells
  <2>2. ASSUME NEW x \in Resting' PROVE mem'[x].qty > 0 /\ mem'[x].price # 0
    BY DEF Registered, FreedCells
  <2>. QED
    BY <2>1, <2>2 DEF Registered
<1>6. PICK P, N \in Pointers : P = mem[b].prev /\ N = mem[b].next
  BY <1>1, CellTypes
<1>7. PrevLinked(b) /\ NextLinked(b) /\ (N \in Resting => PrevLinked(N))
  BY DEF Linked
<1>8. /\ P # NULL => /\ P \in Resting /\ mem[P].side = t /\ mem[P].price = r /\ mem[P].next = b
                     /\ mem[P].order_id < mem[b].order_id
      /\ P = NULL => level[t][r].head = b
      /\ N # NULL => /\ N \in Resting /\ mem[N].side = t /\ mem[N].price = r /\ mem[N].prev = b
                     /\ mem[b].order_id < mem[N].order_id
      /\ N = NULL => level[t][r].tail = b
  <2>. USE <1>6, <1>7
  <2>1. /\ N # NULL => N \in Resting /\ mem[N].side = t /\ mem[N].price = r /\ mem[N].prev = b
        /\ N = NULL => level[t][r].tail = b
    BY DEF NextLinked, SameLevel, LevelOf
  <2>. USE <2>1
  <2>2. N # NULL => mem[b].order_id < mem[N].order_id
    BY <1>1 DEF PrevLinked
  <2>3. /\ P # NULL => /\ P \in Resting /\ mem[P].side = t /\ mem[P].price = r /\ mem[P].next = b
                       /\ mem[P].order_id < mem[b].order_id
        /\ P = NULL => level[t][r].head = b
    BY DEF PrevLinked, SameLevel, LevelOf
  <2>. QED
    BY <2>2, <2>3
<1>9. \A x \in Resting : mem[x].order_id \in Int
  BY SMT, RestingIds
<1>10. P # b /\ N # b /\ (P # NULL => P # N)
  <2>1. ASSUME NEW x \in Resting, NEW y \in Resting, mem[x].order_id < mem[y].order_id
        PROVE  ~ (mem[y].order_id < mem[x].order_id)
    BY SMT, <1>9, <2>1
  <2>2. b # NULL
    BY <1>1, CellTypes, Constants
  <2>3. /\ P # NULL => P \in Resting /\ mem[P].order_id < mem[b].order_id
        /\ N # NULL => N \in Resting /\ mem[b].order_id < mem[N].order_id
    BY Zenon, <1>8
  <2>. QED
    BY Zenon, <2>1, <2>2, <2>3
<1>11. /\ \A x \in Blocks : /\ x = P => mem'[x].next = N
                            /\ x # P => mem'[x].next = mem[x].next
                            /\ x = N => mem'[x].prev = P
                            /\ x # N => mem'[x].prev = mem[x].prev
                            /\ mem'[x].side = mem[x].side /\ mem'[x].price = mem[x].price
       /\ \A x \in Blocks \ {b} : mem'[x].order_id = mem[x].order_id
  BY <1>6 DEF FreedCells
<1>12. /\ P = NULL => level'[t][r].head = N
       /\ P # NULL => level'[t][r].head = level[t][r].head
       /\ N = NULL => level'[t][r].tail = P
       /\ N # NULL => level'[t][r].tail = level[t][r].tail
  BY <1>6 DEF FreedEnds
<1>13. /\ P # NULL => /\ P \in Resting' /\ mem'[P].side = t /\ mem'[P].price = r
                      /\ mem'[P].next = N /\ mem'[P].order_id = mem[P].order_id
       /\ N # NULL => /\ N \in Resting' /\ mem'[N].side = t /\ mem'[N].price = r
                      /\ mem'[N].prev = P
  <2>. USE <1>1, <1>2, <1>8, <1>10, <1>11
  <2>1. ASSUME P # NULL
        PROVE  /\ P \in Resting' /\ mem'[P].side = t /\ mem'[P].price = r
               /\ mem'[P].next = N /\ mem'[P].order_id = mem[P].order_id
    BY <2>1
  <2>2. ASSUME N # NULL
        PROVE  N \in Resting' /\ mem'[N].side = t /\ mem'[N].price = r /\ mem'[N].prev = P
    BY <2>2
  <2>. QED
    BY <2>1, <2>2
<1>14. ASSUME NEW x \in Resting \ {b} PROVE PrevLinked(x)'
  <2>1. PICK s \in Sides, p \in Levels, q \in Pointers :
           s = mem[x].side /\ p = mem[x].price /\ q = mem[x].prev
    BY <1>1, CellTypes
  <2>2. /\ q = NULL => level[s][p].head = x
        /\ q # NULL => /\ q \in Resting /\ mem[q].side = s /\ mem[q].price = p
                       /\ mem[q].next = x /\ mem[q].order_id < mem[x].order_id
    <3>1. PrevLinked(x)
      BY DEF Linked
    <3>. QED
      BY <2>1, <3>1 DEF PrevLinked, SameLevel, LevelOf
  <2>3. mem'[x].side = s /\ mem'[x].price = p /\ mem'[x].order_id = mem[x].order_id
    BY <1>1, <1>11, <2>1
  <2>4. SUFFICES /\ mem'[x].prev = NULL => level'[s][p].head = x
                 /\ mem'[x].prev # NULL =>
                       /\ mem'[x].prev \in Resting'
                       /\ mem'[mem'[x].prev].side = s /\ mem'[mem'[x].prev].price = p
                       /\ mem'[mem'[x].prev].next = x
                       /\ mem'[mem'[x].prev].order_id < mem[x].order_id
    BY <2>3 DEF PrevLinked, SameLevel, LevelOf
  <2>5. CASE x = N
    <3>. USE <2>5
    <3>1. mem'[x].prev = P /\ s = t /\ p = r
      BY <1>1, <1>8, <1>11, <2>1
    <3>. USE <3>1
    <3>2. P = NULL => level'[s][p].head = x
      BY <1>12
    <3>3. P # NULL => /\ P \in Resting' /\ mem'[P].side = s /\ mem'[P].price = p
                      /\ mem'[P].next = x /\ mem'[P].order_id = mem[P].order_id
      BY <1>13
    <3>4. P # NULL => mem[P].order_id < mem[x].order_id
      <4>1. SUFFICES ASSUME P # NULL PROVE mem[P].order_id < mem[x].order_id
        BY Zenon
      <4>2. /\ mem[P].order_id < mem[b].order_id /\ mem[b].order_id < mem[x].order_id
            /\ P \in Resting /\ x \in Resting
        BY <1>1, <1>8, <4>1
      <4>3. PICK d, e, f \in Int : d = mem[P].order_id /\ e = mem[b].order_id /\ f = mem[x].order_id
        BY Zenon, <1>9, <4>2
      <4>4. d < e /\ e < f
        BY Zenon, <4>2, <4>3
      <4>5. d < f
        BY SMT, <4>4
      <4>. QED
        BY Zenon, <4>3, <4>5
    <3>. QED
      BY <3>2, <3>3, <3>4
  <2>6. CASE x # N
    <3>. USE <2>2
    <3>1. mem'[x].prev = q
      BY <1>1, <1>11, <2>1, <2>6
    <3>2. q = NULL => level'[s][p].head = x
      <4>1. CASE s = t /\ p = r
        BY <1>8, <1>12, <4>1
      <4>2. CASE s # t \/ p # r
        BY <4>2 DEF OthersKept
      <4>. QED
        BY <4>1, <4>2
    <3>3. q # NULL => q # b /\ q # P
      BY <1>6, <1>8, <2>6
    <3>4. q # NULL => /\ q \in Resting' /\ mem'[q].side = s /\ mem'[q].price = p
                      /\ mem'[q].next = x /\ mem'[q].order_id = mem[q].order_id
      BY <1>1, <1>2, <1>11, <3>3
    <3>. QED
      BY <3>1, <3>2, <3>4
  <2>. QED
    BY <2>5, <2>6
<1>15. ASSUME NEW x \in Resting \ {b} PROVE NextLinked(x)'
  <2>1. PICK s \in Sides, p \in Levels, q \in Pointers :
           s = mem[x].side /\ p = mem[x].price /\ q = mem[x].next
    BY <1>1, CellTypes
  <2>2. /\ q = NULL => level[s][p].tail = x
        /\ q # NULL => q \in Resting /\ mem[q].side = s /\ mem[q].price = p /\ mem[q].prev = x
    <3>1. NextLinked(x)
      BY DEF Linked
    <3>. QED
      BY <2>1, <3>1 DEF NextLinked, SameLevel, LevelOf
  <2>3. mem'[x].side = s /\ mem'[x].price = p
    BY <1>1, <1>11, <2>1
  <2>4. SUFFICES /\ mem'[x].next = NULL => level'[s][p].tail = x
                 /\ mem'[x].next # NULL =>
                       /\ mem'[x].next \in Resting'
                       /\ mem'[mem'[x].next].side = s /\ mem'[mem'[x].next].price = p
                       /\ mem'[mem'[x].next].prev = x
    BY <2>3 DEF NextLinked, SameLevel, LevelOf
  <2>5. CASE x = P
    <3>. USE <2>5
    <3>1. mem'[x].next = N /\ s = t /\ p = r
      BY <1>1, <1>8, <1>11, <2>1
    <3>. USE <3>1
    <3>2. N = NULL => level'[s][p].tail = x
      BY <1>12
    <3>3. N # NULL => N \in Resting' /\ mem'[N].side = s /\ mem'[N].price = p /\ mem'[N].prev = x
      BY <1>13
    <3>. QED
      BY <3>2, <3>3
  <2>6. CASE x # P
    <3>. USE <2>2
    <3>1. mem'[x].next = q
      BY <1>1, <1>11, <2>1, <2>6
    <3>2. q = NULL => level'[s][p].tail = x
      <4>1. CASE s = t /\ p = r
        BY <1>8, <1>12, <4>1
      <4>2. CASE s # t \/ p # r
        BY <4>2 DEF OthersKept
      <4>. QED
        BY <4>1, <4>2
    <3>3. q # NULL => q # b /\ q # N
      BY <1>6, <1>8, <2>6
    <3>4. q # NULL => q \in Resting' /\ mem'[q].side = s /\ mem'[q].price = p /\ mem'[q].prev = x
      BY <1>1, <1>2, <1>11, <3>3
    <3>. QED
      BY <3>1, <3>2, <3>4
  <2>. QED
    BY <2>5, <2>6
<1>16. ASSUME NEW s \in Sides, NEW p \in Levels PROVE EndsLinked(s, p)'
  <2>1. PICK h, e, g, f \in Pointers \cup {level'[s][p].head, level'[s][p].tail} :
           /\ h = level[s][p].head /\ e = level[s][p].tail
           /\ g = level'[s][p].head /\ f = level'[s][p].tail
    BY LevelTypes
  <2>2. /\ h = NULL <=> e = NULL
        /\ h # NULL => h \in Resting /\ mem[h].side = s /\ mem[h].price = p /\ mem[h].prev = NULL
        /\ e # NULL => e \in Resting /\ mem[e].side = s /\ mem[e].price = p /\ mem[e].next = NULL
    <3>1. EndsLinked(s, p)
      BY DEF Linked
    <3>. QED
      BY <2>1, <3>1 DEF EndsLinked
  <2>3. SUFFICES /\ g = NULL <=> f = NULL
                 /\ g # NULL => g \in Resting' /\ mem'[g].side = s /\ mem'[g].price = p /\ mem'[g].prev = NULL
                 /\ f # NULL => f \in Resting' /\ mem'[f].side = s /\ mem'[f].price = p /\ mem'[f].next = NULL
    BY <2>1 DEF EndsLinked
  <2>4. CASE s = t /\ p = r
    <3>1. (P = NULL => g = N) /\ (P # NULL => g = h) /\ (N = NULL => f = P) /\ (N # NULL => f = e)
      BY <1>12, <2>1, <2>4
    <3>2. P # NULL /\ h # NULL => h # b /\ h # N
      BY <1>1, <1>6, <1>8, <2>2
    <3>3. N # NULL /\ e # NULL => e # b /\ e # P
      BY <1>1, <1>6, <1>8, <2>2
    <3>4. g # NULL => g \in Resting' /\ mem'[g].side = s /\ mem'[g].price = p /\ mem'[g].prev = NULL
      <4>1. CASE P = NULL
        BY <1>13, <2>4, <3>1, <4>1
      <4>2. CASE P # NULL
        <5>. USE <4>2
        <5>1. g = h
          BY <3>1
        <5>2. h # NULL => h \in Resting' /\ mem'[h].side = s /\ mem'[h].price = p /\ mem'[h].prev = NULL
          BY <1>1, <1>2, <1>11, <2>2, <3>2
        <5>. QED
          BY <5>1, <5>2
      <4>. QED
        BY <4>1, <4>2
    <3>5. f # NULL => f \in Resting' /\ mem'[f].side = s /\ mem'[f].price = p /\ mem'[f].next = NULL
      <4>1. CASE N = NULL
        BY <1>13, <2>4, <3>1, <4>1
      <4>2. CASE N # NULL
        <5>. USE <4>2
        <5>1. f = e
          BY <3>1
        <5>2. e # NULL => e \in Resting' /\ mem'[e].side = s /\ mem'[e].price = p /\ mem'[e].next = NULL
          BY <1>1, <1>2, <1>11, <2>2, <3>3
        <5>. QED
          BY <5>1, <5>2
      <4>. QED
        BY <4>1, <4>2
    <3>6. g = NULL <=> f = NULL
      <4>1. (P = NULL => h = b) /\ (N = NULL => e = b)
        BY <1>8, <2>1, <2>4
      <4>. QED
        BY <1>1, <2>2, <3>1, <4>1
    <3>. QED
      BY <3>4, <3>5, <3>6
  <2>5. CASE s # t \/ p # r
    <3>. USE <2>2
    <3>1. g = h /\ f = e
      BY <2>1, <2>5 DEF OthersKept
    <3>2. (h # NULL => h # b /\ h # N) /\ (e # NULL => e # b /\ e # P)
      BY <1>8, <2>5
    <3>. USE <3>2
    <3>3. h # NULL => h \in Resting' /\ mem'[h].side = s /\ mem'[h].price = p /\ mem'[h].prev = NULL
      BY <1>1, <1>2, <1>11
    <3>4. e # NULL => e \in Resting' /\ mem'[e].side = s /\ mem'[e].price = p /\ mem'[e].next = NULL
      BY <1>1, <1>2, <1>11
    <3>. QED
      BY <3>1, <3>3, <3>4
  <2>. QED
    BY <2>4, <2>5
<1>17. Linked'
  BY <1>2, <1>14, <1>15, <1>16 DEF Linked
<1>. QED
  BY <1>4, <1>5, <1>17

------------------------------------------------------------------------------
(* What the helpers of the engine return                                    *)

\* The smaller and the larger of two numbers.
LEMMA OfTwo ==
    ASSUME NEW a \in Int, NEW b \in Int
    PROVE  /\ Min({a, b}) \in {a, b} /\ Min({a, b}) <= a /\ Min({a, b}) <= b
           /\ Max({a, b}) \in {a, b} /\ Max({a, b}) >= a /\ Max({a, b}) >= b
<1>1. \E x \in {a, b} : \A y \in {a, b} : x <= y
  BY SMT
<1>2. \E x \in {a, b} : \A y \in {a, b} : x >= y
  BY SMT
<1>3. Min({a, b}) \in {a, b} /\ \A y \in {a, b} : Min({a, b}) <= y
  BY <1>1 DEF Min
<1>4. Max({a, b}) \in {a, b} /\ \A y \in {a, b} : Max({a, b}) >= y
  BY <1>2 DEF Max
<1>. QED
  BY SMT, <1>3, <1>4

\* A nonempty set of naturals has a least element.
LEMMA LeastNatural ==
    ASSUME NEW B, B \subseteq Nat, B # {}
    PROVE  \E n \in B : \A m \in B : n <= m
<1>1. PICK n \in B : \A m \in B : ~ (<<m, n>> \in OpToRel(<, Nat))
  BY NatLessThanWellFounded, WFMin
<1>2. ASSUME NEW m \in B PROVE n <= m
  <2>1. m \in Nat /\ n \in Nat
    OBVIOUS
  <2>. USE <2>1
  <2>2. ~ (m < n)
    BY <1>1, <1>2 DEF OpToRel
  <2>. QED
    BY SMT, <2>2
<1>. QED
  BY <1>2

\* A nonempty set of numbers between two bounds has a least and a greatest one.
LEMMA Extremes ==
    ASSUME NEW lo \in Nat, NEW hi \in Nat, NEW S, S \subseteq lo .. hi, S # {}
    PROVE  /\ Min(S) \in S /\ \A z \in S : Min(S) <= z
           /\ Max(S) \in S /\ \A z \in S : Max(S) >= z
<1>1. \A x \in S : x \in Nat /\ x <= hi
  BY SMT
<1>2. PICK y \in S : TRUE
  OBVIOUS
<1>3. S \subseteq Nat
  BY SMT, <1>1
<1>4. PICK x \in S : \A z \in S : x <= z
  BY <1>2, <1>3, LeastNatural
<1>5. Min(S) \in S /\ \A z \in S : Min(S) <= z
  BY <1>4 DEF Min
<1>. DEFINE D == {hi - z : z \in S}
<1>6. D \subseteq Nat /\ hi - y \in D
  BY SMT, <1>1, <1>2
<1>7. PICK d \in D : \A z \in D : d <= z
  <2>. HIDE DEF D
  <2>. QED
    BY <1>6, LeastNatural
<1>8. PICK m \in S : d = hi - m
  OBVIOUS
<1>9. ASSUME NEW z \in S PROVE m >= z
  <2>1. d <= hi - z
    BY <1>7
  <2>. HIDE DEF D
  <2>. QED
    BY SMT, <1>1, <1>8, <2>1
<1>10. Max(S) \in S /\ \A z \in S : Max(S) >= z
  BY <1>9 DEF Max
<1>. QED
  BY <1>5, <1>10

\* The best prices stay within the arrays when they are moved off empty levels.
LEMMA PrunedTypes ==
    ASSUME NEW lv, NEW b \in 0 .. MaxPrice, NEW a \in 1 .. MaxPrice + 1
    PROVE  PrunedBid(lv, b) \in 0 .. MaxPrice /\ PrunedAsk(lv, a) \in 1 .. MaxPrice + 1
<1>. DEFINE L == {p \in 1 .. b : lv["YES"][p].total # 0}
            R == {p \in a .. MaxPrice : lv["NO"][p].total # 0}
<1>0. MaxPrice \in Nat /\ b \in Nat /\ a \in Nat
  BY SMT, Constants
<1>1. L \subseteq 1 .. b /\ R \subseteq a .. MaxPrice
  BY SMT
<1>2. (L = {} => PrunedBid(lv, b) = 0) /\ (L # {} => PrunedBid(lv, b) = Max(L))
  BY DEF PrunedBid
<1>3. (R = {} => PrunedAsk(lv, a) = MaxPrice + 1) /\ (R # {} => PrunedAsk(lv, a) = Min(R))
  BY DEF PrunedAsk
<1>. HIDE DEF L, R
<1>4. L # {} => Max(L) \in L
  BY <1>0, <1>1, Extremes
<1>5. R # {} => Min(R) \in R
  BY <1>0, <1>1, Extremes
<1>6. PrunedBid(lv, b) \in 0 .. MaxPrice
  <2>1. L # {} => Max(L) \in 1 .. b
    BY <1>1, <1>4
  <2>. QED
    BY SMT, <1>0, <1>2, <2>1
<1>7. PrunedAsk(lv, a) \in 1 .. MaxPrice + 1
  <2>1. R # {} => Min(R) \in a .. MaxPrice
    BY <1>1, <1>5
  <2>. QED
    BY SMT, <1>0, <1>3, <2>1
<1>. QED
  BY <1>6, <1>7

\* The memory after a block left its list and went back to the pool.
LEMMA FreedMemory ==
    ASSUME NEW m \in [Blocks -> Cells], NEW b \in Blocks, free_head_ \in Pointers,
           NEW n, n = Deallocated(UnlinkedMem(m, b), b)
    PROVE  /\ n \in [Blocks -> Cells] /\ FreedCells(m, n, b)
           /\ \A x \in Blocks : n[x].qty = m[x].qty
<1>1. PICK P, N \in Pointers : P = m[b].prev /\ N = m[b].next
  BY DEF Cells
<1>2. free_head_ \in Ids \cup {NULL}
  BY Constants DEF Pointers
<1>3. PICK u : u = UnlinkedMem(m, b)
  OBVIOUS
<1>4. ASSUME NEW x \in Blocks
      PROVE  /\ u[x] \in Cells
             /\ u[x].order_id = m[x].order_id
             /\ u[x].client = m[x].client
             /\ u[x].side = m[x].side
             /\ u[x].price = m[x].price
             /\ u[x].qty = m[x].qty
             /\ (x = P => u[x].next = N) /\ (x # P => u[x].next = m[x].next)
             /\ (x = N => u[x].prev = P) /\ (x # N => u[x].prev = m[x].prev)
  <2>1. PICK y, z \in Pointers : /\ u[x] = [m[x] EXCEPT !.next = y, !.prev = z]
                                 /\ (x = P => y = N) /\ (x # P => y = m[x].next)
                                 /\ (x = N => z = P) /\ (x # N => z = m[x].prev)
    <3>1. u[x] = [m[x] EXCEPT !.next = IF x = P THEN N ELSE @, !.prev = IF x = N THEN P ELSE @]
      BY <1>1, <1>3 DEF UnlinkedMem
    <3>2. m[x].next \in Pointers /\ m[x].prev \in Pointers
      BY DEF Cells
    <3>. USE <3>2
    <3>3. PICK y \in Pointers : y = IF x = P THEN N ELSE m[x].next
      OBVIOUS
    <3>. USE <3>3
    <3>4. PICK z \in Pointers : z = IF x = N THEN P ELSE m[x].prev
      OBVIOUS
    <3>. USE <3>4
    <3>5. u[x] = [m[x] EXCEPT !.next = y, !.prev = z]
      BY <3>1
    <3>. QED
      BY <3>5
  <2>. USE <2>1
  <2>2. m[x] \in Cells
    OBVIOUS
  <2>3. /\ u[x] \in Cells /\ u[x].order_id = m[x].order_id /\ u[x].side = m[x].side /\ u[x].client = m[x].client
        /\ u[x].price = m[x].price /\ u[x].qty = m[x].qty /\ u[x].next = y /\ u[x].prev = z
    BY <2>2 DEF Cells
  <2>. QED
    BY <2>3
<1>5. u \in [Blocks -> Cells]
  <2>1. u = [x \in Blocks |-> u[x]]
    BY <1>3 DEF UnlinkedMem
  <2>. QED
    BY SMT, <1>4, <2>1
<1>6. n = [u EXCEPT ![b].order_id = free_head_]
  BY <1>3 DEF Deallocated
<1>7. /\ n[b] = [u[b] EXCEPT !.order_id = free_head_]
      /\ \A x \in Blocks \ {b} : n[x] = u[x]
  BY <1>5, <1>6
<1>8. /\ n[b] \in Cells /\ n[b].order_id = free_head_ /\ n[b].side = u[b].side /\ n[b].price = u[b].price
      /\ n[b].client = u[b].client /\ n[b].qty = u[b].qty /\ n[b].next = u[b].next /\ n[b].prev = u[b].prev
  <2>1. u[b] \in Cells
    BY SMT, <1>4
  <2>. QED
    BY SMT, <1>2, <1>7, <2>1 DEF Cells
<1>9. ASSUME NEW x \in Blocks
      PROVE  /\ n[x] \in Cells /\ n[x].side = u[x].side /\ n[x].price = u[x].price
             /\ n[x].client = u[x].client /\ n[x].qty = u[x].qty /\ n[x].next = u[x].next /\ n[x].prev = u[x].prev
  <2>1. CASE x = b
    BY <1>8, <2>1
  <2>2. CASE x # b
    BY <1>4, <1>7, <2>2
  <2>. QED
    BY <2>1, <2>2
<1>. USE <1>9
<1>10. n \in [Blocks -> Cells]
  <2>1. n = [x \in Blocks |-> n[x]]
    BY <1>5, <1>6
  <2>. QED
    BY <2>1
<1>11. \A x \in Blocks \ {b} : n[x].order_id = m[x].order_id
  BY SMT, <1>4, <1>7
<1>12. FreedCells(m, n, b)
  BY SMT, <1>1, <1>4, <1>8, <1>11 DEF FreedCells
<1>. QED
  BY SMT, <1>4, <1>10, <1>12

\* The level after a block left its list.
LEMMA FreedLevel ==
    ASSUME NEW m \in [Blocks -> Cells], NEW b \in Blocks, NEW l \in PriceLevels,
           NEW n, n = UnlinkedLevel(l, m, b)
    PROVE  n \in PriceLevels /\ FreedEnds(l, n, m, b)
<1>1. PICK P, N \in Pointers : P = m[b].prev /\ N = m[b].next
  BY SMT DEF Cells
<1>2. n = [l EXCEPT !.head = IF P = NULL THEN N ELSE @, !.tail = IF N = NULL THEN P ELSE @]
  BY <1>1 DEF UnlinkedLevel
<1>3. l.head \in Pointers /\ l.tail \in Pointers
  BY DEF PriceLevels
<1>4. PICK h \in Pointers : h = IF P = NULL THEN N ELSE l.head
  BY SMT, <1>3
<1>. USE <1>4
<1>5. PICK e \in Pointers : e = IF N = NULL THEN P ELSE l.tail
  BY <1>3
<1>. USE <1>5
<1>6. n = [l EXCEPT !.head = h, !.tail = e]
  BY SMT, <1>2
<1>7. n \in PriceLevels /\ n.head = h /\ n.tail = e
  BY <1>6 DEF PriceLevels
<1>. QED
  BY <1>1, <1>7 DEF FreedEnds

\* Unlinking a block leaves total_qty of its level alone.
LEMMA FreedTotal ==
    ASSUME NEW m, NEW b, NEW l \in PriceLevels
    PROVE  UnlinkedLevel(l, m, b).total = l.total
<1>1. PICK h, e : UnlinkedLevel(l, m, b) = [l EXCEPT !.head = h, !.tail = e]
  BY DEF UnlinkedLevel
<1>. QED
  BY <1>1 DEF PriceLevels

------------------------------------------------------------------------------
(* What a step does to the orders of the book                               *)

SameOrder(b) ==
    /\ mem'[b].order_id = mem[b].order_id
    /\ mem'[b].client = mem[b].client
    /\ mem'[b].side = mem[b].side
    /\ mem'[b].price = mem[b].price
SameQty(b) == mem'[b].qty = mem[b].qty

\* The counter of one level moves by d, the others stay.
TotalsMove(t, r, d) ==
    \A s \in Sides, p \in Levels :
        level'[s][p].total = IF s = t /\ p = r THEN (level[s][p].total + d) % QtyModulus
                             ELSE level[s][p].total

KeptBook == Resting' = Resting /\ level' = level /\ \A b \in Resting : mem'[b] = mem[b]
LeftBook(b) ==
    /\ b \in Resting /\ Resting' = Resting \ {b}
    /\ \A x \in Resting \ {b} : SameOrder(x) /\ SameQty(x)
    /\ TotalsMove(mem[b].side, mem[b].price, - mem[b].qty)
ShrunkBook(b, q) ==
    /\ b \in Resting /\ Resting' = Resting
    /\ \A x \in Resting : SameOrder(x) /\ (x # b => SameQty(x))
    /\ mem'[b].qty = mem[b].qty - q
    /\ TotalsMove(mem[b].side, mem[b].price, - q)
JoinedBook(b) ==
    /\ b \notin Resting /\ Resting' = Resting \cup {b}
    /\ \A x \in Resting \cup {b} : SameOrder(x) /\ SameQty(x)
    /\ TotalsMove(mem[b].side, mem[b].price, mem[b].qty)

------------------------------------------------------------------------------
(* Every step preserves the invariant                                       *)

\* Steps that touch no link of an order of the book.
LEMMA LinksKept ==
    ASSUME TypeOK, Linked, Resting' = Resting,
           \A x \in Resting : /\ mem'[x].prev = mem[x].prev /\ mem'[x].next = mem[x].next
                              /\ mem'[x].side = mem[x].side /\ mem'[x].price = mem[x].price
                              /\ mem'[x].order_id = mem[x].order_id,
           \A s \in Sides, p \in Levels : /\ level'[s][p].head = level[s][p].head
                                          /\ level'[s][p].tail = level[s][p].tail
    PROVE  Linked'
<1>1. ASSUME NEW x \in Resting' PROVE PrevLinked(x)' /\ NextLinked(x)'
  <2>1. x \in Resting /\ x \in Blocks
    BY CellTypes
  <2>2. PICK s \in Sides, p \in Levels : s = mem[x].side /\ p = mem[x].price
    BY <2>1, CellTypes
  <2>3. PICK a, z \in Pointers : a = mem[x].prev /\ z = mem[x].next
    BY <2>1, CellTypes
  <2>4. /\ mem'[x].prev = a /\ mem'[x].next = z /\ mem'[x].side = s /\ mem'[x].price = p
        /\ mem'[x].order_id = mem[x].order_id
    BY <2>1, <2>2, <2>3
  <2>5. PrevLinked(x) /\ NextLinked(x)
    BY <2>1 DEF Linked
  <2>6. PrevLinked(x)'
    <3>1. /\ a = NULL => level[s][p].head = x
          /\ a # NULL => /\ a \in Resting /\ mem[a].side = s /\ mem[a].price = p
                         /\ mem[a].next = x /\ mem[a].order_id < mem[x].order_id
      BY <2>2, <2>3, <2>5 DEF PrevLinked, SameLevel, LevelOf
    <3>2. /\ a = NULL => level'[s][p].head = x
          /\ a # NULL => /\ a \in Resting' /\ mem'[a].side = s /\ mem'[a].price = p
                         /\ mem'[a].next = x /\ mem'[a].order_id < mem[x].order_id
      BY <3>1
    <3>. QED
      BY <2>4, <3>2 DEF PrevLinked, SameLevel, LevelOf
  <2>7. NextLinked(x)'
    <3>1. /\ z = NULL => level[s][p].tail = x
          /\ z # NULL => z \in Resting /\ mem[z].side = s /\ mem[z].price = p /\ mem[z].prev = x
      BY <2>2, <2>3, <2>5 DEF NextLinked, SameLevel, LevelOf
    <3>2. /\ z = NULL => level'[s][p].tail = x
          /\ z # NULL => z \in Resting' /\ mem'[z].side = s /\ mem'[z].price = p /\ mem'[z].prev = x
      BY <3>1
    <3>. QED
      BY <2>4, <3>2 DEF NextLinked, SameLevel, LevelOf
  <2>. QED
    BY <2>6, <2>7
<1>2. ASSUME NEW s \in Sides, NEW p \in Levels PROVE EndsLinked(s, p)'
  <2>1. EndsLinked(s, p)
    BY DEF Linked
  <2>. QED
    BY <2>1 DEF EndsLinked
<1>. QED
  BY <1>1, <1>2 DEF Linked

\* One price level is written.
LEMMA LevelWritten ==
    ASSUME level \in [Sides -> [Levels -> PriceLevels]], NEW t \in Sides, NEW r \in Levels,
           NEW n \in PriceLevels, level' = [level EXCEPT ![t][r] = n]
    PROVE  /\ level' \in [Sides -> [Levels -> PriceLevels]]
           /\ level'[t][r] = n
           /\ \A s \in Sides, p \in Levels : s # t \/ p # r => level'[s][p] = level[s][p]
OBVIOUS

\* Steps that touch neither the pool nor the book.
LEMMA BookUnchanged ==
    ASSUME TypeOK, FreeLinked, Registered, Linked, Working' = Working,
           UNCHANGED <<mem, free_head_, level, orders_, next_order_id_>>
    PROVE  FreeLinked' /\ Registered' /\ Linked'
<1>1. Resting' = Resting /\ FreeBlocks' = FreeBlocks
  BY DEF Resting, FreeBlocks
<1>. USE <1>1
<1>2. FreeLinked'
  BY SMT DEF FreeLinked
<1>3. Registered'
  BY DEF Registered
<1>4. Linked'
  BY LinksKept
<1>. QED
  BY <1>2, <1>3, <1>4

\* The sides, and the level that place_limit scans.
LEMMA Scanning ==
    ASSUME TypeOK, Held, pc \in {"scan", "match", "finish"}
    PROVE  /\ incoming \in Blocks /\ incoming \notin Resting
           /\ Working = {incoming} /\ Resting \cap Working = {}
           /\ Side \in Sides /\ Other(Side) \in Sides
           /\ mem[incoming].price \in 1 .. MaxPrice
           /\ ptr \in Levels
           /\ pc = "match" => ptr + ScanDir \in Levels
<1>1. incoming \in Blocks \ Resting /\ mem[incoming].price # 0
  BY DEF Held
<1>2. Side \in Sides /\ Other(Side) \in Sides
  BY <1>1, CellTypes DEF Side, Other, Sides
<1>3. mem[incoming].price \in 1 .. MaxPrice
  BY SMT, <1>1, CellTypes, Constants
<1>4. ptr \in Levels
  BY DEF TypeOK
<1>5. pc = "match" => ptr + ScanDir \in Levels
  <2>1. SUFFICES ASSUME pc = "match" PROVE ptr + ScanDir \in Levels
    OBVIOUS
  <2>2. ScanOn
    BY <2>1 DEF Held
  <2>. USE <2>2
  <2>3. ptr \in 0 .. MaxPrice + 1 /\ MaxPrice \in Nat
    BY <1>4, Constants DEF Levels
  <2>. USE <2>3
  <2>4. CASE Side = "YES"
    BY SMT, <1>3, <2>4 DEF ScanOn, ScanDir, Levels
  <2>5. CASE Side # "YES"
    BY SMT, <1>3, <2>5 DEF ScanOn, ScanDir, Levels
  <2>. QED
    BY SMT, <2>4, <2>5
<1>. QED
  BY <1>1, <1>2, <1>3, <1>4, <1>5 DEF Working

\* The outer loop of place_limit sets the cursor.
LEMMA ScanInv ==
    ASSUME MemInv, Scan
    PROVE  MemInv'
<1>1. /\ pc = "scan" /\ pc' \in {"match", "finish"}
      /\ pc' = "match" => ScanOn /\ cur' = level[Other(Side)][ptr].head
      /\ pc' = "finish" => cur' = cur
      /\ UNCHANGED <<mem, free_head_, level, orders_, best_bid_, best_ask_, next_order_id_, incoming, ptr, fills, asked>>
  BY DEF Scan, poolVars, bookVars
<1>. USE <1>1
<1>2. Working' = Working
  BY DEF Working
<1>3. FreeLinked' /\ Registered' /\ Linked'
  BY <1>2, BookUnchanged DEF MemInv
<1>4. Other(Side) \in Sides /\ ptr \in Levels
  BY Scanning DEF MemInv
<1>5. cur' \in Pointers
  BY SMT, <1>4, LevelTypes DEF MemInv, TypeOK
<1>6. TypeOK'
  BY <1>5 DEF MemInv, TypeOK
<1>7. Held'
  <2>1. Resting' = Resting /\ Side' = Side /\ (ScanOn <=> ScanOn')
    BY DEF Resting, Side, ScanOn
  <2>. QED
    BY <2>1 DEF MemInv, Held
<1>. QED
  BY <1>3, <1>6, <1>7 DEF MemInv

\* The end of a price level.
LEMMA NextLevelInv ==
    ASSUME MemInv, NextLevel
    PROVE  MemInv'
<1>1. /\ pc = "match" /\ pc' = "scan" /\ ptr' = ptr + ScanDir
      /\ UNCHANGED <<mem, free_head_, level, orders_, best_bid_, best_ask_, next_order_id_, incoming, cur, fills, asked>>
  BY DEF NextLevel, poolVars, bookVars
<1>. USE <1>1
<1>2. Working' = Working
  BY DEF Working
<1>3. FreeLinked' /\ Registered' /\ Linked'
  BY <1>2, BookUnchanged DEF MemInv
<1>4. ptr' \in Levels
  BY Scanning DEF MemInv
<1>5. TypeOK'
  BY <1>4 DEF MemInv, TypeOK
<1>6. Held'
  <2>1. Resting' = Resting
    BY DEF Resting
  <2>. QED
    BY <2>1 DEF MemInv, Held
<1>. QED
  BY <1>3, <1>5, <1>6 DEF MemInv

\* The return of place_limit.
LEMMA ReturnInv ==
    ASSUME MemInv, Return
    PROVE  MemInv'
<1>1. /\ pc = "return" /\ pc' = "idle" /\ incoming' = NULL /\ ptr' = 0 /\ cur' = NULL /\ asked' = 0
      /\ UNCHANGED <<mem, free_head_, level, orders_, best_bid_, best_ask_, next_order_id_>>
  BY DEF Return, poolVars, bookVars
<1>. USE <1>1
<1>2. Working' = Working
  BY DEF Working
<1>3. FreeLinked' /\ Registered' /\ Linked'
  BY <1>2, BookUnchanged DEF MemInv
<1>4. 0 \in Levels /\ 0 \in 0 .. MaxQty /\ NULL \in Pointers
  BY SMT, Constants DEF Levels
<1>5. TypeOK'
  BY <1>4 DEF MemInv, TypeOK
<1>6. Held'
  BY DEF Held
<1>. QED
  BY SMT, <1>3, <1>5, <1>6 DEF MemInv

\* place_limit takes a block from the pool.
LEMMA PlaceLimitInv ==
    ASSUME MemInv, NEW c \in Clients, NEW s \in Sides, NEW p \in Levels, NEW q \in 0 .. MaxQty,
           PlaceLimit(c, s, p, q)
    PROVE  /\ MemInv' /\ KeptBook /\ incoming' = free_head_
           /\ free_head_ \in FreeBlocks /\ FreeBlocks' = FreeBlocks \ {free_head_}
           /\ mem'[incoming'] = [order_id |-> next_order_id_, client |-> c, side |-> s, price |-> p,
                                 qty |-> q, prev |-> NULL, next |-> NULL]
           /\ \A x \in Blocks \ {free_head_} : mem'[x] = mem[x]
<1>. DEFINE o == [order_id |-> next_order_id_, client |-> c, side |-> s, price |-> p,
                  qty |-> q, prev |-> NULL, next |-> NULL]
<1>1. PICK f \in Pointers : f = free_head_
  BY DEF MemInv, TypeOK
<1>2. /\ pc = "idle" /\ pc' = "scan" /\ p \in 1 .. MaxPrice /\ f # NULL
      /\ next_order_id_ <= MaxOrders /\ next_order_id_' = next_order_id_ + 1
      /\ incoming' = f /\ free_head_' = mem[f].order_id
      /\ mem' = [mem EXCEPT ![f] = o]
      /\ ptr' = IF s = "YES" THEN best_ask_ ELSE best_bid_
      /\ asked' = q /\ cur' = cur
      /\ UNCHANGED <<level, orders_, best_bid_, best_ask_>>
  BY <1>1 DEF PlaceLimit, bookVars
<1>. USE <1>2
<1>3. f \in FreeBlocks /\ f \in Blocks /\ f \notin Resting
  BY <1>1 DEF MemInv, FreeLinked, FreeBlocks
<1>4. Resting' = Resting /\ Working = {} /\ Working' = {f} /\ FreeBlocks' = FreeBlocks \ {f}
  BY DEF Resting, Working, FreeBlocks
<1>5. next_order_id_ \in 1 .. MaxOrders /\ MaxOrders \in Nat
  BY SMT, Constants DEF MemInv, TypeOK
<1>6. o \in Cells
  BY SMT, <1>5, Constants DEF Cells, Ids
<1>7. mem' \in [Blocks -> Cells] /\ mem'[f] = o /\ \A x \in Blocks \ {f} : mem'[x] = mem[x]
  BY <1>3, <1>6, CellTypes DEF MemInv
<1>8. Resting \subseteq Blocks \ {f}
  BY <1>3, CellTypes DEF MemInv
<1>9. FreeLinked'
  <2>1. \A x \in FreeBlocks' : x \in FreeBlocks /\ x # f /\ mem'[x] = mem[x]
    BY SMT, <1>4, <1>7 DEF FreeBlocks
  <2>. USE <2>1
  <2>2. mem[f].order_id \in FreeBlocks \cup {NULL} /\ mem[f].order_id # f
    BY <1>1, <1>3 DEF MemInv, FreeLinked
  <2>3. free_head_' \in FreeBlocks' \cup {NULL}
    BY <1>4, <2>2
  <2>4. ASSUME NEW x \in FreeBlocks'
        PROVE  /\ mem'[x].order_id \in FreeBlocks' \cup {NULL}
               /\ mem'[x].order_id = free_head_' => free_head_' = NULL
    <3>. USE <2>4
    <3>1. mem[x].order_id \in FreeBlocks \cup {NULL} /\ mem[x].order_id # f
      BY <1>1 DEF MemInv, FreeLinked
    <3>2. mem[x].order_id = mem[f].order_id => mem[f].order_id = NULL
      BY <1>3 DEF MemInv, FreeLinked
    <3>. QED
      BY SMT, <1>4, <3>1, <3>2
  <2>5. ASSUME NEW x \in FreeBlocks', NEW y \in FreeBlocks', mem'[x].order_id = mem'[y].order_id,
               mem'[x].order_id # NULL
        PROVE  x = y
    BY SMT, <2>5 DEF MemInv, FreeLinked
  <2>. QED
    BY SMT, <2>3, <2>4, <2>5 DEF FreeLinked
<1>10. Registered'
  <2>1. \A id \in DOMAIN orders_ : orders_[id] \in Resting
    BY SMT DEF Resting
  <2>2. \A id \in DOMAIN orders_ : id \in Int
    BY SMT DEF MemInv, TypeOK
  <2>3. ASSUME NEW id \in DOMAIN orders_' PROVE mem'[orders_'[id]].order_id = id /\ id < next_order_id_'
    BY SMT, <1>5, <1>7, <1>8, <2>1, <2>2 DEF MemInv, Registered
  <2>4. ASSUME NEW x \in Resting' PROVE mem'[x].qty > 0 /\ mem'[x].price # 0
    BY <1>4, <1>7, <1>8 DEF MemInv, Registered
  <2>. QED
    BY <2>3, <2>4 DEF Registered
<1>11. Linked'
  <2>1. \A x \in Resting : mem'[x] = mem[x]
    BY <1>7, <1>8
  <2>2. level' = level
    BY SMT
  <2>. QED
    BY <1>4, <2>1, <2>2, LinksKept DEF MemInv
<1>12. TypeOK'
  <2>. USE Constants
  <2>1. free_head_' \in Pointers
    BY <1>3 DEF MemInv, FreeLinked, FreeBlocks, Pointers
  <2>2. ptr' \in Levels
    <3>1. best_ask_ \in 1 .. MaxPrice + 1 /\ best_bid_ \in 0 .. MaxPrice /\ MaxPrice \in Nat
      BY DEF MemInv, TypeOK
    <3>2. ptr' = best_ask_ \/ ptr' = best_bid_
      BY SMT
    <3>. QED
      BY SMT, <3>1, <3>2 DEF Levels
  <2>. QED
    BY SMT, <1>3, <1>5, <1>7, <2>1, <2>2 DEF MemInv, TypeOK, Cells, Ids
<1>13. Held'
  <2>. USE <1>5
  <2>1. next_order_id_ \notin DOMAIN orders_
    BY SMT DEF MemInv, Registered
  <2>. QED
    BY SMT, <1>3, <1>4, <1>7, <2>1 DEF Held
<1>14. KeptBook
  BY <1>4, <1>7, <1>8 DEF KeptBook
<1>. QED
  BY <1>1, <1>3, <1>4, <1>7, <1>9, <1>10, <1>11, <1>12, <1>13, <1>14 DEF MemInv

\* A filled order's block goes back to the pool.
LEMMA FreeIncomingInv ==
    ASSUME MemInv, FreeIncoming
    PROVE  /\ MemInv' /\ KeptBook /\ incoming \in Blocks \ FreeBlocks
           /\ FreeBlocks' = FreeBlocks \cup {incoming}
           /\ mem'[incoming].order_id = free_head_
           /\ \A x \in Blocks \ {incoming} : mem'[x] = mem[x]
<1>1. PICK i \in Blocks : i = incoming
  BY Scanning DEF MemInv, FreeIncoming
<1>2. /\ pc = "finish" /\ pc' = "return"
      /\ mem' = [mem EXCEPT ![i].order_id = free_head_]
      /\ free_head_' = i
      /\ best_bid_' = PrunedBid(level, best_bid_)
      /\ best_ask_' = PrunedAsk(level, best_ask_)
      /\ UNCHANGED <<level, orders_, next_order_id_, incoming, ptr, cur, fills, asked>>
  BY <1>1 DEF FreeIncoming, Deallocated
<1>. USE <1>2
<1>3. /\ i \notin Resting /\ Working = {i} /\ Working' = {} /\ Resting' = Resting
      /\ FreeBlocks' = FreeBlocks \cup {i} /\ i \notin FreeBlocks
      /\ Resting \subseteq Blocks /\ NULL \notin Blocks
  <2>1. i \notin Resting /\ Working = {i}
    BY <1>1, Scanning DEF MemInv
  <2>2. Working' = {} /\ Resting' = Resting
    BY DEF Working, Resting
  <2>. QED
    BY <2>1, <2>2, CellTypes, Constants DEF FreeBlocks, MemInv
<1>4. free_head_ \in FreeBlocks \cup {NULL} /\ free_head_ \in Ids \cup {NULL}
  BY Constants DEF MemInv, FreeLinked, FreeBlocks
<1>5. /\ mem' \in [Blocks -> Cells]
      /\ mem'[i].order_id = free_head_
      /\ \A x \in Blocks \ {i} : mem'[x] = mem[x]
  <2>1. mem \in [Blocks -> Cells] /\ mem[i] \in Cells
    BY SMT, CellTypes DEF MemInv
  <2>. USE <2>1
  <2>2. [mem[i] EXCEPT !.order_id = free_head_] \in Cells
    BY SMT, <1>4 DEF Cells
  <2>3. [mem[i] EXCEPT !.order_id = free_head_].order_id = free_head_
    BY DEF Cells
  <2>. QED
    BY <2>2, <2>3
<1>6. FreeLinked'
  <2>. USE <1>3, <1>5
  <2>1. \A x \in FreeBlocks : x \in Blocks /\ x # i /\ mem'[x] = mem[x]
    BY SMT DEF FreeBlocks
  <2>. USE <2>1
  <2>2. free_head_' \in FreeBlocks' \cup {NULL}
    OBVIOUS
  <2>3. ASSUME NEW x \in FreeBlocks'
        PROVE  /\ mem'[x].order_id \in FreeBlocks' \cup {NULL}
               /\ mem'[x].order_id = free_head_' => free_head_' = NULL
    BY SMT, <1>4, <2>3 DEF MemInv, FreeLinked
  <2>4. ASSUME NEW x \in FreeBlocks', NEW y \in FreeBlocks', mem'[x].order_id = mem'[y].order_id,
               mem'[x].order_id # NULL
        PROVE  x = y
    BY SMT, <2>4 DEF MemInv, FreeLinked
  <2>. QED
    BY SMT, <2>2, <2>3, <2>4 DEF FreeLinked
<1>7. \A x \in Resting : mem'[x] = mem[x]
  BY SMT, <1>3, <1>5
<1>8. Registered'
  <2>1. \A id \in DOMAIN orders_ : orders_[id] \in Resting
    BY DEF Resting
  <2>. QED
    BY SMT, <1>3, <1>7, <2>1 DEF MemInv, Registered
<1>9. Linked'
  BY <1>3, <1>7, LinksKept DEF MemInv
<1>10. TypeOK'
  <2>1. best_bid_' \in 0 .. MaxPrice /\ best_ask_' \in 1 .. MaxPrice + 1
    BY PrunedTypes DEF MemInv, TypeOK
  <2>2. free_head_' \in Pointers
    BY Constants
  <2>. QED
    BY <1>5, <2>1, <2>2 DEF MemInv, TypeOK, Cells, Ids
<1>11. Held'
  BY DEF Held
<1>12. KeptBook
  BY <1>3, <1>7 DEF KeptBook
<1>. QED
  BY <1>1, <1>3, <1>5, <1>6, <1>8, <1>9, <1>10, <1>11, <1>12 DEF MemInv

\* cancel takes an order out of the middle of its list.
LEMMA CancelInv ==
    ASSUME MemInv, NEW id \in 0 .. MaxOrders, NEW c, Cancel(id, c)
    PROVE  /\ MemInv' /\ LeftBook(orders_[id])
           /\ best_bid_' = PrunedBid(level', best_bid_) /\ best_ask_' = PrunedAsk(level', best_ask_)
           /\ FreedCells(mem, mem', orders_[id])
<1>1. PICK b \in Blocks : b = orders_[id]
  <2>1. id \in DOMAIN orders_
    BY DEF Cancel
  <2>2. \A x \in DOMAIN orders_ : orders_[x] \in Blocks
    BY SMT DEF MemInv, TypeOK
  <2>. QED
    BY <2>1, <2>2
<1>2. PICK t \in Sides, r \in Levels : t = mem[b].side /\ r = mem[b].price
  BY CellTypes DEF MemInv
<1>3. PICK l \in PriceLevels : l = level[t][r]
  BY LevelTypes DEF MemInv
<1>4. PICK u, n : /\ u = UnlinkedLevel(l, mem, b)
                  /\ n = [u EXCEPT !.total = (u.total - mem[b].qty) % QtyModulus]
  OBVIOUS
<1>5. /\ pc = "idle" /\ id \in DOMAIN orders_
      /\ mem' = Deallocated(UnlinkedMem(mem, b), b)
      /\ free_head_' = b
      /\ level' = [level EXCEPT ![t][r] = n]
      /\ orders_' = Without(orders_, id)
      /\ best_bid_' = PrunedBid(level', best_bid_)
      /\ best_ask_' = PrunedAsk(level', best_ask_)
      /\ UNCHANGED <<next_order_id_, pc, incoming, ptr, cur, fills, asked>>
  BY <1>1, <1>2, <1>3, <1>4 DEF Cancel, callVars
<1>6. b \in Resting /\ mem[b].order_id = id
  BY <1>1, <1>5 DEF Resting, MemInv, Registered
<1>7. /\ mem \in [Blocks -> Cells] /\ level \in [Sides -> [Levels -> PriceLevels]]
      /\ free_head_ \in Pointers
      /\ mem[b].qty \in Int /\ QtyModulus \in Nat \ {0}
      /\ Working = {} /\ Working' = {}
  <2>1. TypeOK
    BY DEF MemInv
  <2>. USE <2>1
  <2>2. mem \in [Blocks -> Cells] /\ mem[b].qty \in 0 .. MaxQty /\ QtyModulus \in Nat \ {0}
    BY CellTypes, Constants
  <2>3. level \in [Sides -> [Levels -> PriceLevels]] /\ free_head_ \in Pointers
    BY LevelTypes DEF TypeOK
  <2>4. Working = {} /\ Working' = {}
    BY <1>5 DEF Working
  <2>. QED
    BY SMT, <2>2, <2>3, <2>4
<1>8. n \in PriceLevels /\ FreedEnds(l, n, mem, b) /\ n.total = (l.total - mem[b].qty) % QtyModulus
  <2>. USE <1>4
  <2>1. u \in PriceLevels /\ FreedEnds(l, u, mem, b)
    BY <1>7, FreedLevel
  <2>. USE <2>1
  <2>2. n = [u EXCEPT !.total = (u.total - mem[b].qty) % QtyModulus]
    OBVIOUS
  <2>3. (u.total - mem[b].qty) % QtyModulus \in 0 .. QtyModulus - 1
    BY SMT, <1>7 DEF PriceLevels
  <2>4. /\ n \in PriceLevels /\ n.head = u.head /\ n.tail = u.tail
        /\ n.total = (u.total - mem[b].qty) % QtyModulus
    BY <2>2, <2>3 DEF PriceLevels
  <2>5. u.total = l.total
    BY SMT, FreedTotal
  <2>. QED
    BY <2>4, <2>5 DEF FreedEnds
<1>9. /\ level' \in [Sides -> [Levels -> PriceLevels]]
      /\ level'[t][r] = n
      /\ \A s \in Sides, p \in Levels : s # t \/ p # r => level'[s][p] = level[s][p]
  BY SMT, <1>5, <1>7, <1>8, LevelWritten
<1>10. /\ mem' \in [Blocks -> Cells] /\ FreedCells(mem, mem', b)
       /\ \A x \in Blocks : mem'[x].qty = mem[x].qty
  BY SMT, <1>5, <1>7, FreedMemory
<1>11. FreeLinked' /\ Registered' /\ Linked'
  <2>1. FreedEnds(level[t][r], level'[t][r], mem, b)
    BY <1>3, <1>8, <1>9
  <2>2. OthersKept(t, r)
    BY <1>9 DEF OthersKept
  <2>3. \A x \in Resting \ {b} : mem'[x].qty > 0
    BY <1>10, CellTypes DEF MemInv, Registered
  <2>4. orders_' = Without(orders_, mem[b].order_id) /\ next_order_id_' = next_order_id_ /\ free_head_' = b
    BY <1>5, <1>6
  <2>5. Resting \cap Working = {} /\ Working' = Working
    BY <1>7
  <2>6. TypeOK /\ FreeLinked /\ Registered /\ Linked
    BY DEF MemInv
  <2>. QED
    BY <1>2, <1>6, <1>10, <2>1, <2>2, <2>3, <2>4, <2>5, <2>6, Unlinked
<1>12. TypeOK'
  <2>. USE <1>5
  <2>1. best_bid_' \in 0 .. MaxPrice /\ best_ask_' \in 1 .. MaxPrice + 1
    BY PrunedTypes DEF MemInv, TypeOK
  <2>2. free_head_' \in Pointers
    BY Constants
  <2>3. DOMAIN orders_' \subseteq 1 .. MaxOrders /\ \A x \in DOMAIN orders_' : orders_'[x] \in Blocks
    BY DEF MemInv, TypeOK, Without
  <2>. QED
    BY <1>9, <1>10, <2>1, <2>2, <2>3 DEF MemInv, TypeOK, Cells, Ids, PriceLevels
<1>13. Held'
  BY <1>5 DEF Held
<1>14. LeftBook(b)
  <2>1. Resting' = Resting \ {b}
    BY <1>5, <1>6, WithoutOrder DEF MemInv
  <2>2. \A x \in Resting \ {b} : SameOrder(x) /\ SameQty(x)
    BY <1>10, CellTypes DEF FreedCells, SameOrder, SameQty, MemInv
  <2>3. level'[t][r].total = (level[t][r].total + (- mem[b].qty)) % QtyModulus
    <3>1. l.total \in Int /\ level[t][r].total = l.total /\ level'[t][r].total = (l.total - mem[b].qty) % QtyModulus
      BY SMT, <1>3, <1>8, <1>9 DEF PriceLevels
    <3>. USE <3>1
    <3>2. l.total - mem[b].qty = l.total + (- mem[b].qty)
      BY SMT, <1>7
    <3>. QED
      BY <3>2
  <2>4. TotalsMove(t, r, - mem[b].qty)
    BY <1>9, <2>3 DEF TotalsMove
  <2>. QED
    BY <1>2, <1>6, <2>1, <2>2, <2>4 DEF LeftBook
<1>. QED
  BY <1>1, <1>5, <1>10, <1>11, <1>12, <1>13, <1>14 DEF MemInv

\* What a match changes, before anything is unlinked: quantities only.
LEMMA Traded ==
    ASSUME MemInv, pc = "match", cur # NULL, NEW traded, traded = TradedQty, NEW m, m = TradedMem
    PROVE  /\ cur \in Resting /\ cur \in Blocks /\ cur # incoming
           /\ mem[cur].side = Other(Side) /\ mem[cur].price = ptr /\ mem[cur].prev = NULL
           /\ traded \in Int
           /\ traded \in {mem[cur].qty, mem[incoming].qty}
           /\ m[cur].qty = mem[cur].qty - traded /\ m[incoming].qty = mem[incoming].qty - traded
           /\ m \in [Blocks -> Cells]
           /\ \A x \in Blocks : /\ m[x].order_id = mem[x].order_id
                                /\ m[x].client = mem[x].client
                                /\ m[x].side = mem[x].side
                                /\ m[x].price = mem[x].price
                                /\ m[x].prev = mem[x].prev
                                /\ m[x].next = mem[x].next
           /\ \A x \in Blocks \ {cur, incoming} : m[x].qty = mem[x].qty
<1>1. /\ incoming \in Blocks /\ incoming \notin Resting
      /\ Other(Side) \in Sides /\ ptr \in Levels
  BY Scanning DEF MemInv
<1>2. cur = level[Other(Side)][ptr].head
  BY DEF MemInv, Held
<1>3. PICK s \in Sides, k \in Blocks, i \in Blocks : s = Other(Side) /\ k = cur /\ i = incoming
  BY <1>1 DEF MemInv, TypeOK, Pointers
<1>4. k \in Resting /\ mem[k].side = s /\ mem[k].price = ptr /\ mem[k].prev = NULL
  <2>1. k = level[s][ptr].head /\ k # NULL
    BY <1>2, <1>3
  <2>2. EndsLinked(s, ptr)
    BY <1>1 DEF MemInv, Linked
  <2>. QED
    BY <2>1, <2>2 DEF EndsLinked
<1>5. k # i
  BY <1>1, <1>3, <1>4
<1>6. PICK a, b \in 0 .. MaxQty : a = mem[k].qty /\ b = mem[i].qty
  BY CellTypes DEF MemInv
<1>7. traded \in Int /\ a - traded \in 0 .. MaxQty /\ b - traded \in 0 .. MaxQty /\ traded \in {a, b}
  <2>1. traded = Min({a, b})
    BY <1>3, <1>6 DEF TradedQty
  <2>2. traded \in {a, b} /\ traded <= a /\ traded <= b
    BY SMT, <2>1, OfTwo
  <2>. QED
    BY SMT, <2>2, Constants
<1>8. mem \in [Blocks -> Cells] /\ \A x \in Blocks : mem[x] \in Cells
  BY SMT, CellTypes DEF MemInv
<1>9. /\ m[k] = [mem[k] EXCEPT !.qty = a - traded]
      /\ m[i] = [mem[i] EXCEPT !.qty = b - traded]
      /\ \A x \in Blocks : x # k /\ x # i => m[x] = mem[x]
  <2>1. m = [mem EXCEPT ![k].qty = a - traded, ![i].qty = b - traded]
    BY SMT, <1>3, <1>6 DEF TradedMem
  <2>. QED
    BY SMT, <1>5, <1>8, <2>1
<1>10. ASSUME NEW x \in Blocks, NEW q \in 0 .. MaxQty, NEW y, y = [mem[x] EXCEPT !.qty = q]
       PROVE  /\ y \in Cells /\ y.order_id = mem[x].order_id /\ y.qty = q
              /\ y.client = mem[x].client /\ y.side = mem[x].side /\ y.price = mem[x].price
              /\ y.prev = mem[x].prev /\ y.next = mem[x].next
  BY <1>8, <1>10 DEF Cells
<1>11. ASSUME NEW x \in Blocks
       PROVE  /\ m[x] \in Cells /\ m[x].order_id = mem[x].order_id
              /\ (x = k => m[x].qty = a - traded) /\ (x = i => m[x].qty = b - traded)
              /\ m[x].client = mem[x].client /\ m[x].side = mem[x].side /\ m[x].price = mem[x].price
              /\ m[x].prev = mem[x].prev /\ m[x].next = mem[x].next
              /\ x # k /\ x # i => m[x].qty = mem[x].qty
  <2>. USE <1>9, <1>5
  <2>1. CASE x = k
    <3>. USE <2>1
    <3>1. m[x] = [mem[x] EXCEPT !.qty = a - traded]
      OBVIOUS
    <3>. QED
      BY SMT, <1>7, <1>10, <3>1
  <2>2. CASE x = i
    <3>. USE <2>2
    <3>1. m[x] = [mem[x] EXCEPT !.qty = b - traded]
      OBVIOUS
    <3>. QED
      BY SMT, <1>7, <1>10, <3>1
  <2>3. CASE x # k /\ x # i
    BY SMT, <1>8, <2>3
  <2>. QED
    BY <2>1, <2>2, <2>3
<1>. USE <1>11
<1>12. m \in [Blocks -> Cells]
  <2>1. m = [x \in Blocks |-> m[x]]
    BY <1>8 DEF TradedMem
  <2>. QED
    BY <2>1
<1>13. m[cur].qty = mem[cur].qty - traded /\ m[incoming].qty = mem[incoming].qty - traded
  BY <1>3, <1>6
<1>. QED
  BY <1>1, <1>3, <1>4, <1>5, <1>6, <1>7, <1>12, <1>13

\* The counter of a level goes down.
LEMMA Reduced ==
    ASSUME TypeOK, Other(Side) \in Sides, ptr \in Levels, TradedQty \in Int
    PROVE  /\ TradedLevel \in PriceLevels
           /\ TradedLevel.head = level[Other(Side)][ptr].head
           /\ TradedLevel.tail = level[Other(Side)][ptr].tail
           /\ TradedLevel.total = (level[Other(Side)][ptr].total + (- TradedQty)) % QtyModulus
<1>1. PICK e \in PriceLevels : e = level[Other(Side)][ptr]
  BY LevelTypes
<1>2. PICK t \in Int : t = TradedQty
  OBVIOUS
<1>. USE <1>2
<1>3. (e.total - t) % QtyModulus \in 0 .. QtyModulus - 1
  BY SMT, Constants DEF PriceLevels
<1>4. TradedLevel = [e EXCEPT !.total = (e.total - t) % QtyModulus]
  BY <1>1 DEF TradedLevel
<1>5. e.total - t = e.total + (- t)
  BY SMT DEF PriceLevels
<1>. QED
  BY <1>1, <1>3, <1>4, <1>5 DEF PriceLevels

\* The incoming order is used up: the resting one keeps the rest.
LEMMA MatchPartInv ==
    ASSUME MemInv, Match, pc' = "scan"
    PROVE  /\ MemInv' /\ ShrunkBook(cur, mem[incoming].qty) /\ SameOrder(incoming)
           /\ mem'[incoming].qty = 0 /\ mem[incoming].qty < mem[cur].qty
           /\ fills' = Append(fills, <<ptr, mem[incoming].qty>>)
           /\ FreeBlocks' = FreeBlocks /\ \A x \in FreeBlocks : mem'[x].order_id = mem[x].order_id
<1>1. PICK s, traded, m, l : s = Other(Side) /\ traded = TradedQty /\ m = TradedMem /\ l = TradedLevel
  OBVIOUS
<1>2. /\ pc = "match" /\ cur # NULL
      /\ m[cur].qty # 0
      /\ mem' = m
      /\ level' = [level EXCEPT ![s][ptr] = l]
      /\ ptr' = ptr + ScanDir
      /\ fills' = Append(fills, <<ptr, traded>>)
      /\ UNCHANGED <<free_head_, orders_, cur, best_bid_, best_ask_, next_order_id_, incoming, asked>>
  BY <1>1 DEF Match, Fill
<1>. USE <1>2
<1>3. /\ cur \in Resting /\ cur \in Blocks /\ cur # incoming
      /\ mem[cur].side = s /\ mem[cur].price = ptr
      /\ traded \in Int /\ traded \in {mem[cur].qty, mem[incoming].qty}
      /\ m[cur].qty = mem[cur].qty - traded /\ m[incoming].qty = mem[incoming].qty - traded
      /\ m \in [Blocks -> Cells]
      /\ \A x \in Blocks : /\ m[x].order_id = mem[x].order_id
                           /\ m[x].client = mem[x].client
                           /\ m[x].side = mem[x].side
                           /\ m[x].price = mem[x].price
                           /\ m[x].prev = mem[x].prev
                           /\ m[x].next = mem[x].next
      /\ \A x \in Blocks \ {cur, incoming} : m[x].qty = mem[x].qty
  BY SMT, <1>1, Traded
<1>4. /\ incoming \in Blocks /\ incoming \notin Resting /\ s \in Sides /\ ptr \in Levels /\ ptr' \in Levels
  BY <1>1, Scanning DEF MemInv
<1>5. /\ l \in PriceLevels /\ l.head = level[s][ptr].head /\ l.tail = level[s][ptr].tail
      /\ l.total = (level[s][ptr].total + (- traded)) % QtyModulus
  BY <1>1, <1>3, <1>4, Reduced DEF MemInv
<1>6. level \in [Sides -> [Levels -> PriceLevels]]
  BY LevelTypes DEF MemInv
<1>7. /\ level' \in [Sides -> [Levels -> PriceLevels]]
      /\ level'[s][ptr] = l
      /\ \A t \in Sides, p \in Levels : t # s \/ p # ptr => level'[t][p] = level[t][p]
  BY SMT, <1>4, <1>5, <1>6, LevelWritten
<1>8. /\ Resting' = Resting /\ Working' = Working /\ FreeBlocks' = FreeBlocks
      /\ Resting \subseteq Blocks /\ FreeBlocks \subseteq Blocks
  <2>1. Resting' = Resting /\ Working' = Working
    BY SMT DEF Resting, Working
  <2>. QED
    BY <2>1, CellTypes DEF FreeBlocks, MemInv
<1>9. FreeLinked'
  <2>. USE <1>8
  <2>1. \A x \in FreeBlocks : mem'[x].order_id = mem[x].order_id
    BY <1>3
  <2>2. free_head_' = free_head_
    OBVIOUS
  <2>. QED
    BY SMT, <2>1, <2>2 DEF MemInv, FreeLinked
<1>10. Registered'
  <2>1. ASSUME NEW x \in Resting PROVE mem'[x].qty > 0 /\ mem'[x].price # 0
    <3>. USE <1>3
    <3>1. m[x].qty \in 0 .. MaxQty /\ x \in Blocks /\ x # incoming
      BY <1>4, <1>8, <2>1 DEF Cells
    <3>. USE <3>1
    <3>2. mem[x].qty > 0 /\ mem[x].price # 0
      BY <2>1 DEF MemInv, Registered
    <3>. USE <3>2
    <3>3. CASE x = cur
      BY SMT, <3>3
    <3>4. CASE x # cur
      BY <3>4
    <3>. QED
      BY <3>3, <3>4
  <2>2. \A id \in DOMAIN orders_ : orders_[id] \in Resting /\ orders_[id] \in Blocks
    BY <1>8 DEF Resting
  <2>3. ASSUME NEW id \in DOMAIN orders_ PROVE mem'[orders_[id]].order_id = id /\ id < next_order_id_
    BY <1>3, <2>2 DEF MemInv, Registered
  <2>4. orders_' = orders_ /\ next_order_id_' = next_order_id_
    BY SMT
  <2>. QED
    BY <1>8, <2>1, <2>3, <2>4 DEF Registered
<1>11. Linked'
  <2>. USE <1>8
  <2>1. \A x \in Resting : /\ mem'[x].prev = mem[x].prev /\ mem'[x].next = mem[x].next
                           /\ mem'[x].side = mem[x].side /\ mem'[x].price = mem[x].price
                           /\ mem'[x].order_id = mem[x].order_id
    BY <1>3
  <2>2. \A t \in Sides, p \in Levels : /\ level'[t][p].head = level[t][p].head
                                       /\ level'[t][p].tail = level[t][p].tail
    BY <1>5, <1>7
  <2>. QED
    BY <2>1, <2>2, LinksKept DEF MemInv
<1>12. TypeOK'
  <2>1. mem' \in [Blocks -> Cells]
    BY <1>3
  <2>. QED
    BY <1>4, <1>7, <2>1 DEF MemInv, TypeOK, Cells, Ids, PriceLevels
<1>13. Held'
  <2>1. /\ mem'[incoming].price = mem[incoming].price /\ mem'[incoming].order_id = mem[incoming].order_id
        /\ mem'[incoming].prev = mem[incoming].prev /\ mem'[incoming].next = mem[incoming].next
    BY <1>3, <1>4
  <2>2. pc' = "scan"
    OBVIOUS
  <2>. QED
    BY <1>8, <2>1, <2>2 DEF MemInv, Held
<1>14. traded = mem[incoming].qty /\ mem[incoming].qty < mem[cur].qty /\ mem'[incoming].qty = 0
  <2>1. m[cur].qty \in 0 .. MaxQty /\ mem[cur].qty \in 0 .. MaxQty /\ mem[incoming].qty \in 0 .. MaxQty
    BY <1>3, <1>4, CellTypes DEF Cells, MemInv
  <2>2. /\ mem[cur].qty - traded # 0 /\ mem[cur].qty - traded \in 0 .. MaxQty
        /\ traded \in {mem[cur].qty, mem[incoming].qty} /\ mem'[incoming].qty = mem[incoming].qty - traded
    BY <1>3, <2>1
  <2>. HIDE <1>2
  <2>. QED
    BY SMT, <2>1, <2>2, Constants
<1>15. ShrunkBook(cur, traded)
  <2>. USE <1>3, <1>8
  <2>1. \A x \in Resting : SameOrder(x) /\ (x # cur => SameQty(x))
    BY <1>4 DEF SameOrder, SameQty
  <2>2. TotalsMove(s, ptr, - traded)
    <3>1. level'[s][ptr].total = (level[s][ptr].total + (- traded)) % QtyModulus
      BY Zenon, <1>5, <1>7
    <3>2. \A t \in Sides, p \in Levels : t # s \/ p # ptr => level'[t][p].total = level[t][p].total
      BY Zenon, <1>7
    <3>3. ASSUME NEW t \in Sides, NEW p \in Levels
          PROVE  level'[t][p].total = IF t = s /\ p = ptr THEN (level[t][p].total + (- traded)) % QtyModulus
                                      ELSE level[t][p].total
      <4>1. CASE t = s /\ p = ptr
        BY Zenon, <3>1, <4>1
      <4>2. CASE t # s \/ p # ptr
        BY SMT, <3>2, <4>2
      <4>. QED
        BY Zenon, <4>1, <4>2
    <3>. QED
      BY Zenon, <3>3 DEF TotalsMove
  <2>. QED
    BY <2>1, <2>2 DEF ShrunkBook
<1>16. SameOrder(incoming)
  BY <1>3, <1>4 DEF SameOrder
<1>17. \A x \in FreeBlocks : mem'[x].order_id = mem[x].order_id
  BY <1>3, <1>8
<1>. QED
  BY <1>8, <1>9, <1>10, <1>11, <1>12, <1>13, <1>14, <1>15, <1>16, <1>17 DEF MemInv

\* The resting order is used up and leaves.
LEMMA MatchFullInv ==
    ASSUME MemInv, Match, pc' # "scan"
    PROVE  /\ MemInv' /\ LeftBook(cur) /\ SameOrder(incoming)
           /\ mem'[incoming].qty = mem[incoming].qty - mem[cur].qty /\ mem[cur].qty <= mem[incoming].qty
           /\ fills' = Append(fills, <<ptr, mem[cur].qty>>)
           /\ FreedCells(mem, mem', cur)
<1>1. PICK s, traded, m, l, u :
         s = Other(Side) /\ traded = TradedQty /\ m = TradedMem /\ l = TradedLevel /\ u = UnlinkedLevel(l, m, cur)
  OBVIOUS
<1>2. /\ pc = "match" /\ cur # NULL
      /\ m[cur].qty = 0
      /\ fills' = Append(fills, <<ptr, traded>>)
      /\ mem' = Deallocated(UnlinkedMem(m, cur), cur)
      /\ free_head_' = cur
      /\ level' = [level EXCEPT ![s][ptr] = u]
      /\ orders_' = Without(orders_, mem[cur].order_id)
      /\ cur' = mem[cur].next
      /\ UNCHANGED <<ptr, pc, best_bid_, best_ask_, next_order_id_, incoming, asked>>
  BY <1>1 DEF Match, Fill
<1>3. /\ cur \in Resting /\ cur \in Blocks /\ cur # incoming
      /\ mem[cur].side = s /\ mem[cur].price = ptr /\ mem[cur].prev = NULL
      /\ traded \in Int /\ traded \in {mem[cur].qty, mem[incoming].qty}
      /\ m[cur].qty = mem[cur].qty - traded /\ m[incoming].qty = mem[incoming].qty - traded
      /\ m \in [Blocks -> Cells]
      /\ \A x \in Blocks : /\ m[x].order_id = mem[x].order_id
                           /\ m[x].client = mem[x].client
                           /\ m[x].side = mem[x].side
                           /\ m[x].price = mem[x].price
                           /\ m[x].prev = mem[x].prev
                           /\ m[x].next = mem[x].next
      /\ \A x \in Blocks \ {cur, incoming} : m[x].qty = mem[x].qty
  BY SMT, <1>1, <1>2, Traded
<1>4. /\ incoming \in Blocks /\ incoming \notin Resting /\ s \in Sides /\ ptr \in Levels
      /\ Resting \cap Working = {} /\ Working' = Working
  <2>. USE <1>2
  <2>1. Working' = Working
    BY DEF Working
  <2>. QED
    BY <1>1, <2>1, Scanning DEF MemInv
<1>5. /\ l \in PriceLevels /\ l.head = level[s][ptr].head /\ l.tail = level[s][ptr].tail
      /\ l.total = (level[s][ptr].total + (- traded)) % QtyModulus
  BY <1>1, <1>3, <1>4, Reduced DEF MemInv
<1>6. u \in PriceLevels /\ FreedEnds(level[s][ptr], u, mem, cur) /\ u.total = l.total
  <2>. USE <1>1, <1>3, <1>5
  <2>1. u \in PriceLevels /\ FreedEnds(l, u, m, cur)
    BY FreedLevel
  <2>2. m[cur].prev = mem[cur].prev /\ m[cur].next = mem[cur].next
    OBVIOUS
  <2>3. u.total = l.total
    <3>1. u = UnlinkedLevel(l, m, cur) /\ l \in PriceLevels
      BY Zenon
    <3>. HIDE <1>1, <1>3, <1>5
    <3>2. UnlinkedLevel(l, m, cur).total = l.total
      BY SMT, <3>1, FreedTotal
    <3>. QED
      BY Zenon, <3>1, <3>2
  <2>. QED
    BY <2>1, <2>2, <2>3 DEF FreedEnds
<1>7. /\ level \in [Sides -> [Levels -> PriceLevels]] /\ free_head_ \in Pointers
      /\ mem[cur].next \in Pointers
  BY <1>3, CellTypes, LevelTypes DEF MemInv, TypeOK
<1>8. /\ level' \in [Sides -> [Levels -> PriceLevels]]
      /\ level'[s][ptr] = u
      /\ \A t \in Sides, p \in Levels : t # s \/ p # ptr => level'[t][p] = level[t][p]
  <2>1. level' = [level EXCEPT ![s][ptr] = u]
    BY <1>2
  <2>2. s \in Sides /\ ptr \in Levels /\ u \in PriceLevels
    BY <1>4, <1>6
  <2>. QED
    BY SMT, <1>7, <2>1, <2>2
<1>9. /\ mem' \in [Blocks -> Cells] /\ FreedCells(m, mem', cur)
      /\ \A x \in Blocks : mem'[x].qty = m[x].qty
  <2>1. m \in [Blocks -> Cells] /\ free_head_ \in Pointers
    BY Zenon, <1>3, <1>7
  <2>2. PICK b \in Blocks : b = cur
    BY Zenon, <1>3
  <2>3. PICK n : n = mem' /\ n = Deallocated(UnlinkedMem(m, b), b)
    BY Zenon, <1>2, <2>2
  <2>4. n \in [Blocks -> Cells] /\ FreedCells(m, n, b) /\ \A x \in Blocks : n[x].qty = m[x].qty
    BY SMT, <2>1, <2>3, FreedMemory
  <2>. QED
    BY Zenon, <2>2, <2>3, <2>4
<1>10. FreedCells(mem, mem', cur)
  <2>. USE <1>3
  <2>1. m[cur].prev = mem[cur].prev /\ m[cur].next = mem[cur].next
    OBVIOUS
  <2>. QED
    BY SMT, <1>9, <2>1 DEF FreedCells
<1>11. FreeLinked' /\ Registered' /\ Linked'
  <2>1. FreedEnds(level[s][ptr], level'[s][ptr], mem, cur)
    BY <1>6, <1>8
  <2>2. OthersKept(s, ptr)
    BY <1>8 DEF OthersKept
  <2>3. ASSUME NEW x \in Resting \ {cur} PROVE mem'[x].qty > 0
    <3>1. x \in Blocks \ {cur, incoming} /\ mem[x].qty > 0
      BY <1>4, CellTypes DEF MemInv, Registered
    <3>. QED
      BY <1>3, <1>9, <3>1
  <2>4. orders_' = Without(orders_, mem[cur].order_id) /\ next_order_id_' = next_order_id_ /\ free_head_' = cur
    BY <1>2
  <2>5. TypeOK /\ FreeLinked /\ Registered /\ Linked
    BY DEF MemInv
  <2>6. \A x \in Resting \ {cur} : mem'[x].qty > 0
    BY <2>3
  <2>. QED
    BY <1>3, <1>4, <1>10, <2>1, <2>2, <2>4, <2>5, <2>6, Unlinked
<1>12. DOMAIN orders_' \subseteq DOMAIN orders_ /\ \A x \in DOMAIN orders_' : orders_'[x] = orders_[x]
  BY <1>2 DEF Without
<1>13. TypeOK'
  <2>. USE <1>2
  <2>1. DOMAIN orders_' \subseteq 1 .. MaxOrders /\ \A x \in DOMAIN orders_' : orders_'[x] \in Blocks
    BY <1>12 DEF MemInv, TypeOK
  <2>2. free_head_' \in Pointers
    BY <1>3, Constants
  <2>. QED
    BY <1>7, <1>8, <1>9, <2>1, <2>2 DEF MemInv, TypeOK, Cells, Ids, PriceLevels
<1>14. Held'
  <2>1. incoming \notin Resting'
    BY <1>4, <1>12 DEF Resting
  <2>2. mem[cur].next # incoming
    <3>1. NextLinked(cur)
      BY <1>3 DEF MemInv, Linked
    <3>2. mem[cur].next # NULL => mem[cur].next \in Resting
      BY <3>1 DEF NextLinked
    <3>. QED
      BY <1>4, <3>2, Constants
  <2>3. /\ mem'[incoming].price = mem[incoming].price /\ mem'[incoming].order_id = mem[incoming].order_id
        /\ mem'[incoming].prev = mem[incoming].prev /\ mem'[incoming].next = mem[incoming].next
        /\ mem'[incoming].side = mem[incoming].side
    BY <1>3, <1>4, <1>10, <2>2, Constants DEF FreedCells
  <2>. USE <2>3
  <2>4. Side' = Side /\ (ScanOn => ScanOn')
    BY <1>2 DEF Side, ScanOn
  <2>5. cur' = level'[s][ptr].head
    BY <1>2, <1>3, <1>6, <1>8 DEF FreedEnds
  <2>6. Other(Side') = s /\ ScanOn'
    BY <1>1, <1>2, <2>4 DEF MemInv, Held
  <2>. QED
    BY <1>2, <1>4, <1>12, <2>1, <2>5, <2>6 DEF MemInv, Held
<1>15. traded = mem[cur].qty /\ mem[cur].qty <= mem[incoming].qty
  <2>. USE <1>3
  <2>1. m[incoming].qty \in 0 .. MaxQty /\ mem[cur].qty \in 0 .. MaxQty /\ mem[incoming].qty \in 0 .. MaxQty
    BY <1>4, CellTypes DEF Cells, MemInv
  <2>. USE <2>1
  <2>2. mem[cur].qty - traded = 0 /\ traded \in Int /\ mem[incoming].qty - traded \in 0 .. MaxQty
    BY <1>2
  <2>. QED
    <3>1. PICK c, n, M \in Int : c = mem[cur].qty /\ n = mem[incoming].qty /\ M = MaxQty
      BY SMT, Constants
    <3>2. c - traded = 0 /\ traded \in Int /\ n - traded \in 0 .. M
      BY Zenon, <2>2, <3>1
    <3>3. traded = c /\ c <= n
      BY SMT, <3>2
    <3>. QED
      BY Zenon, <3>1, <3>3
<1>16. LeftBook(cur)
  <2>. USE <1>3
  <2>1. Resting' = Resting \ {cur}
    BY <1>2, WithoutOrder DEF MemInv
  <2>2. \A x \in Resting \ {cur} : x \in Blocks \ {cur, incoming}
    BY <1>4, CellTypes DEF MemInv
  <2>3. ASSUME NEW x \in Resting \ {cur} PROVE SameOrder(x) /\ SameQty(x)
    <3>1. x \in Blocks /\ x \in Blocks \ {cur} /\ x \in Blocks \ {cur, incoming}
      BY Zenon, <2>2
    <3>2. SameOrder(x)
      BY Zenon, <1>10, <3>1 DEF FreedCells, SameOrder
    <3>3. mem'[x].qty = m[x].qty /\ m[x].qty = mem[x].qty
      BY Zenon, <1>3, <1>9, <3>1
    <3>. QED
      BY Zenon, <3>2, <3>3 DEF SameQty
  <2>4. TotalsMove(s, ptr, - traded)
    BY <1>5, <1>6, <1>8 DEF TotalsMove
  <2>. QED
    BY <1>15, <2>1, <2>3, <2>4 DEF LeftBook
<1>17. SameOrder(incoming) /\ mem'[incoming].qty = mem[incoming].qty - mem[cur].qty
  BY <1>3, <1>4, <1>9, <1>10, <1>15 DEF SameOrder, FreedCells
<1>. QED
  BY <1>2, <1>10, <1>11, <1>13, <1>14, <1>15, <1>16, <1>17 DEF MemInv

\* The incoming order joins the end of its level.
LEMMA RestIncomingInv ==
    ASSUME MemInv, RestIncoming
    PROVE  /\ MemInv' /\ JoinedBook(incoming) /\ FreeBlocks' = FreeBlocks
           /\ \A x \in Blocks : mem'[x].order_id = mem[x].order_id
           /\ orders_'[mem[incoming].order_id] = incoming /\ mem[incoming].order_id \in DOMAIN orders_'
           /\ best_bid_' = PrunedBid(level', IF Side = "YES" THEN Max({best_bid_, mem[incoming].price}) ELSE best_bid_)
           /\ best_ask_' = PrunedAsk(level', IF Side = "NO" THEN Min({best_ask_, mem[incoming].price}) ELSE best_ask_)
<1>1. PICK i \in Blocks : i = incoming
  BY Scanning DEF MemInv, RestIncoming
<1>2. PICK s \in Sides, p \in Levels : s = mem[i].side /\ p = mem[i].price
  BY SMT, CellTypes DEF MemInv
<1>3. PICK l \in PriceLevels : l = level[s][p]
  BY LevelTypes DEF MemInv
<1>4. PICK old \in Pointers : old = l.tail
  BY DEF PriceLevels
<1>5. PICK n : n = [head |-> IF old = NULL THEN i ELSE l.head, tail |-> i,
                     total |-> (l.total + mem[i].qty) % QtyModulus]
  OBVIOUS
<1>6. /\ pc = "finish" /\ pc' = "return" /\ mem[i].qty > 0
      /\ orders_' = With(orders_, mem[i].order_id, i)
      /\ (old = NULL => mem' = mem)
      /\ (old # NULL => mem' = [mem EXCEPT ![i].prev = old, ![old].next = i])
      /\ level' = [level EXCEPT ![s][p] = n]
      /\ best_bid_' = PrunedBid(level', IF s = "YES" THEN Max({best_bid_, p}) ELSE best_bid_)
      /\ best_ask_' = PrunedAsk(level', IF s = "NO" THEN Min({best_ask_, p}) ELSE best_ask_)
      /\ UNCHANGED <<free_head_, next_order_id_, incoming, ptr, cur, fills, asked>>
  BY <1>1, <1>2, <1>3, <1>4, <1>5 DEF RestIncoming
<1>7. /\ i \notin Resting /\ Working = {i} /\ Working' = {}
      /\ mem[i].prev = NULL /\ mem[i].next = NULL
      /\ p \in 1 .. MaxPrice
      /\ mem[i].order_id \in 1 .. MaxOrders /\ mem[i].order_id + 1 = next_order_id_
      /\ mem[i].order_id \notin DOMAIN orders_
  BY <1>1, <1>2, <1>6, Scanning DEF MemInv, Held, Working
<1>8. /\ n \in PriceLevels /\ n.tail = i
      /\ (old = NULL => n.head = i) /\ (old # NULL => n.head = l.head)
      /\ n.total = (l.total + mem[i].qty) % QtyModulus
  <2>1. (l.total + mem[i].qty) % QtyModulus \in 0 .. QtyModulus - 1
    BY SMT, CellTypes, Constants DEF MemInv, PriceLevels
  <2>2. i \in Pointers /\ l.head \in Pointers
    BY SMT, Constants DEF PriceLevels
  <2>3. /\ n.tail = i /\ n.head = IF old = NULL THEN i ELSE l.head
        /\ n.total = (l.total + mem[i].qty) % QtyModulus
    BY SMT, <1>5
  <2>4. n \in PriceLevels
    BY SMT, <1>5, <2>1, <2>2 DEF PriceLevels
  <2>. QED
    BY SMT, <2>3, <2>4
<1>9. level \in [Sides -> [Levels -> PriceLevels]] /\ mem \in [Blocks -> Cells] /\ NULL \notin Blocks
  BY CellTypes, LevelTypes, Constants DEF MemInv
<1>10. /\ level' \in [Sides -> [Levels -> PriceLevels]]
       /\ level'[s][p] = n
       /\ \A t \in Sides, q \in Levels : t # s \/ q # p => level'[t][q] = level[t][q]
  BY SMT, <1>6, <1>8, <1>9, LevelWritten
<1>11. old # NULL => /\ old \in Resting /\ old \in Blocks /\ old # i /\ mem[old].side = s
                     /\ mem[old].price = p /\ mem[old].next = NULL
  <2>1. old # NULL => old \in Resting /\ mem[old].side = s /\ mem[old].price = p /\ mem[old].next = NULL
    <3>1. EndsLinked(s, p)
      BY DEF MemInv, Linked
    <3>. QED
      BY <1>3, <1>4, <3>1 DEF EndsLinked
  <2>. QED
    BY <1>7, <2>1, CellTypes DEF MemInv
<1>12. /\ mem' \in [Blocks -> Cells]
       /\ \A x \in Blocks : /\ mem'[x].order_id = mem[x].order_id
                            /\ mem'[x].client = mem[x].client
                            /\ mem'[x].side = mem[x].side
                            /\ mem'[x].price = mem[x].price
                            /\ mem'[x].qty = mem[x].qty
                            /\ (x = i => mem'[x].prev = old) /\ (x # i => mem'[x].prev = mem[x].prev)
                            /\ (x = old => mem'[x].next = i) /\ (x # old => mem'[x].next = mem[x].next)
  <2>1. CASE old = NULL
    BY <1>6, <1>7, <1>9, <2>1
  <2>2. CASE old # NULL
    <3>1. mem' = [mem EXCEPT ![i].prev = old, ![old].next = i]
      BY <1>6, <2>2
    <3>2. /\ mem'[i] = [mem[i] EXCEPT !.prev = old]
          /\ mem'[old] = [mem[old] EXCEPT !.next = i]
          /\ \A x \in Blocks : x # i /\ x # old => mem'[x] = mem[x]
      BY <1>9, <1>11, <2>2, <3>1
    <3>3. ASSUME NEW x \in Blocks
          PROVE  /\ mem'[x] \in Cells
                 /\ mem'[x].order_id = mem[x].order_id
                 /\ mem'[x].client = mem[x].client
                 /\ mem'[x].side = mem[x].side
                 /\ mem'[x].price = mem[x].price
                 /\ mem'[x].qty = mem[x].qty
                 /\ (x = i => mem'[x].prev = old) /\ (x # i => mem'[x].prev = mem[x].prev)
                 /\ (x = old => mem'[x].next = i) /\ (x # old => mem'[x].next = mem[x].next)
      <4>1. mem[x] \in Cells /\ i \in Pointers
        BY <1>9, Constants
      <4>. USE <4>1
      <4>2. CASE x = i
        <5>. USE <4>2
        <5>1. mem'[x] = [mem[x] EXCEPT !.prev = old]
          BY <3>2
        <5>. QED
          BY <1>11, <2>2, <5>1 DEF Cells
      <4>3. CASE x = old
        <5>. USE <1>11, <2>2, <4>3
        <5>1. mem'[x] = [mem[x] EXCEPT !.next = i]
          BY <3>2
        <5>. QED
          BY SMT, <5>1 DEF Cells
      <4>4. CASE x # i /\ x # old
        BY <3>2, <4>4
      <4>. QED
        BY <4>2, <4>3, <4>4
    <3>4. mem' = [x \in Blocks |-> mem'[x]]
      BY <1>9, <3>1
    <3>. QED
      BY SMT, <3>3, <3>4
  <2>. QED
    BY <2>1, <2>2
<1>13. /\ DOMAIN orders_' = DOMAIN orders_ \cup {mem[i].order_id}
       /\ orders_'[mem[i].order_id] = i
       /\ \A id \in DOMAIN orders_ : orders_'[id] = orders_[id]
  BY <1>6, <1>7 DEF With
<1>14. /\ Resting' = Resting \cup {i} /\ FreeBlocks' = FreeBlocks
       /\ Resting \subseteq Blocks /\ FreeBlocks \subseteq Blocks
  <2>1. Resting' = Resting \cup {i}
    BY SMT, <1>13 DEF Resting
  <2>. QED
    BY <1>7, <2>1, CellTypes DEF FreeBlocks, MemInv
<1>15. FreeLinked'
  <2>. USE <1>14
  <2>1. \A x \in FreeBlocks : mem'[x].order_id = mem[x].order_id
    BY <1>12
  <2>2. free_head_' = free_head_
    BY <1>6
  <2>. QED
    BY SMT, <2>1, <2>2 DEF MemInv, FreeLinked
<1>16. Registered'
  <2>. USE <1>12
  <2>1. ASSUME NEW x \in Resting' PROVE mem'[x].qty > 0 /\ mem'[x].price # 0
    <3>1. CASE x = i
      BY SMT, <1>2, <1>6, <1>7, <3>1
    <3>2. CASE x # i
      BY <1>14, <3>2 DEF MemInv, Registered
    <3>. QED
      BY <3>1, <3>2
  <2>2. ASSUME NEW id \in DOMAIN orders_' PROVE mem'[orders_'[id]].order_id = id /\ id < next_order_id_'
    <3>. USE <1>6, <1>13
    <3>1. CASE id = mem[i].order_id
      <4>1. orders_'[id] = i /\ mem'[i].order_id = mem[i].order_id
        BY <3>1
      <4>2. next_order_id_' = next_order_id_
        BY Zenon
      <4>3. id \in 1 .. MaxOrders /\ id + 1 = next_order_id_
        BY Zenon, <1>7, <3>1
      <4>. HIDE <1>6, <1>12, <1>13
      <4>4. id < next_order_id_
        BY SMT, <4>3
      <4>. QED
        BY Zenon, <3>1, <4>1, <4>2, <4>4
    <3>2. CASE id \in DOMAIN orders_
      <4>. USE <3>2
      <4>1. orders_[id] \in Blocks
        BY SMT, <1>14 DEF Resting
      <4>2. orders_'[id] = orders_[id] /\ next_order_id_' = next_order_id_
        BY Zenon
      <4>3. mem[orders_[id]].order_id = id /\ id < next_order_id_
        BY Zenon DEF MemInv, Registered
      <4>4. mem'[orders_[id]].order_id = mem[orders_[id]].order_id
        BY Zenon, <4>1
      <4>. QED
        BY Zenon, <4>2, <4>3, <4>4
    <3>. QED
      BY <3>1, <3>2
  <2>. QED
    BY <2>1, <2>2 DEF Registered
<1>17. ASSUME NEW x \in Resting', x = i PROVE PrevLinked(x)' /\ NextLinked(x)'
  <2>1. /\ mem'[i].prev = old /\ mem'[i].next = NULL /\ mem'[i].side = s /\ mem'[i].price = p
        /\ mem'[i].order_id = mem[i].order_id
    BY <1>2, <1>7, <1>11, <1>12
  <2>2. level'[s][p].tail = i /\ (old = NULL => level'[s][p].head = i)
    BY <1>8, <1>10
  <2>3. ASSUME old # NULL
        PROVE  /\ old \in Resting' /\ mem'[old].side = s /\ mem'[old].price = p
               /\ mem'[old].next = i /\ mem'[old].order_id < mem[i].order_id
    <3>. USE <1>11, <2>3, RestingIds, <1>7
    <3>1. mem[old].order_id \in 1 .. MaxOrders /\ mem[old].order_id < next_order_id_
      BY DEF MemInv
    <3>2. mem[old].order_id # mem[i].order_id
      BY DEF MemInv
    <3>3. mem[old].order_id < mem[i].order_id
      BY SMT, <3>1, <3>2
    <3>. QED
      BY <1>12, <1>14, <3>3
  <2>4. PrevLinked(i)'
    BY <2>1, <2>2, <2>3 DEF PrevLinked, SameLevel, LevelOf
  <2>5. NextLinked(i)'
    BY <2>1, <2>2 DEF NextLinked, SameLevel, LevelOf
  <2>. QED
    BY <1>17, <2>4, <2>5
<1>18. ASSUME NEW x \in Resting', x # i PROVE PrevLinked(x)' /\ NextLinked(x)'
  <2>1. x \in Resting /\ x \in Blocks
    BY <1>14, <1>18
  <2>2. PICK t \in Sides, q \in Levels : t = mem[x].side /\ q = mem[x].price
    BY <2>1, CellTypes DEF MemInv
  <2>3. PICK a, z \in Pointers : a = mem[x].prev /\ z = mem[x].next
    BY <2>1, CellTypes DEF MemInv
  <2>4. PrevLinked(x) /\ NextLinked(x)
    BY <2>1 DEF MemInv, Linked
  <2>5. /\ mem'[x].prev = a /\ mem'[x].side = t /\ mem'[x].price = q
        /\ mem'[x].order_id = mem[x].order_id
    BY <1>12, <1>18, <2>1, <2>2, <2>3
  <2>6. PrevLinked(x)'
    <3>1. /\ a = NULL => level[t][q].head = x
          /\ a # NULL => /\ a \in Resting /\ mem[a].side = t /\ mem[a].price = q
                         /\ mem[a].next = x /\ mem[a].order_id < mem[x].order_id
      BY <2>2, <2>3, <2>4 DEF PrevLinked, SameLevel, LevelOf
    <3>. USE <3>1
    <3>2. ASSUME a = NULL PROVE level'[t][q].head = x
      <4>1. CASE t = s /\ q = p
        <5>. USE <1>3, <4>1
        <5>1. l.head = x /\ x # NULL
          BY <1>9, <2>1, <3>2
        <5>. USE <5>1
        <5>2. EndsLinked(s, p)
          BY DEF MemInv, Linked
        <5>3. old # NULL
          BY <1>4, <5>2 DEF EndsLinked
        <5>. QED
          BY <1>8, <1>10, <5>3
      <4>2. CASE t # s \/ q # p
        BY <1>10, <3>2, <4>2
      <4>. QED
        BY <4>1, <4>2
    <3>3. ASSUME a # NULL
          PROVE  /\ a \in Resting' /\ mem'[a].side = t /\ mem'[a].price = q
                 /\ mem'[a].next = x /\ mem'[a].order_id = mem[a].order_id
      <4>. USE <1>14, <3>3
      <4>1. a \in Resting /\ a \in Blocks
        OBVIOUS
      <4>2. a # old
        BY <1>9, <1>11, <2>1
      <4>. QED
        BY <1>12, <4>1, <4>2
    <3>. QED
      BY <2>5, <3>2, <3>3 DEF PrevLinked, SameLevel, LevelOf
  <2>7. CASE x = old
    <3>. USE <1>12, <2>7
    <3>1. mem'[x].next = i /\ t = s /\ q = p /\ i # NULL
      BY <1>9, <1>11, <2>1, <2>2
    <3>2. i \in Resting' /\ mem'[i].side = s /\ mem'[i].price = p /\ mem'[i].prev = x
      BY <1>2, <1>14
    <3>3. NextLinked(x)'
      BY <2>5, <3>1, <3>2 DEF NextLinked, SameLevel, LevelOf
    <3>. QED
      BY <2>6, <3>3
  <2>8. CASE x # old
    <3>1. /\ z = NULL => level[t][q].tail = x
          /\ z # NULL => z \in Resting /\ mem[z].side = t /\ mem[z].price = q /\ mem[z].prev = x
      BY <2>2, <2>3, <2>4 DEF NextLinked, SameLevel, LevelOf
    <3>2. mem'[x].next = z
      BY <1>12, <2>1, <2>3, <2>8
    <3>3. z = NULL => level'[t][q].tail = x
      BY <1>3, <1>4, <1>10, <2>8, <3>1
    <3>4. z # NULL => z \in Resting' /\ mem'[z].side = t /\ mem'[z].price = q /\ mem'[z].prev = x
      BY <1>7, <1>12, <1>14, <3>1
    <3>5. NextLinked(x)'
      BY <2>5, <3>2, <3>3, <3>4 DEF NextLinked, SameLevel, LevelOf
    <3>. QED
      BY <2>6, <3>5
  <2>. QED
    BY <2>7, <2>8
<1>19. Linked'
  <2>1. ASSUME NEW t \in Sides, NEW q \in Levels PROVE EndsLinked(t, q)'
    <3>1. PICK h, e \in Pointers : h = level[t][q].head /\ e = level[t][q].tail
      BY LevelTypes DEF MemInv
    <3>2. /\ h = NULL <=> e = NULL
          /\ h # NULL => h \in Resting /\ mem[h].side = t /\ mem[h].price = q /\ mem[h].prev = NULL
          /\ e # NULL => e \in Resting /\ mem[e].side = t /\ mem[e].price = q /\ mem[e].next = NULL
      <4>1. EndsLinked(t, q)
        BY DEF MemInv, Linked
      <4>. QED
        BY <3>1, <4>1 DEF EndsLinked
    <3>3. h # NULL => h \in Resting' /\ mem'[h].side = t /\ mem'[h].price = q /\ mem'[h].prev = NULL
      BY <1>7, <1>12, <1>14, <3>2
    <3>4. CASE t = s /\ q = p
      <4>1. /\ e = old /\ level'[t][q].tail = i
            /\ (old = NULL => level'[t][q].head = i) /\ (old # NULL => level'[t][q].head = h)
        BY <1>3, <1>4, <1>8, <1>10, <3>1, <3>4
      <4>. USE <4>1
      <4>2. /\ i \in Resting' /\ mem'[i].side = t /\ mem'[i].price = q /\ mem'[i].next = NULL
            /\ mem'[i].prev = old /\ i # NULL
        BY <1>2, <1>7, <1>9, <1>11, <1>12, <1>14, <3>4
      <4>. USE <4>2
      <4>3. CASE old = NULL
        BY <4>3 DEF EndsLinked
      <4>4. CASE old # NULL
        BY <3>2, <3>3, <4>4 DEF EndsLinked
      <4>. QED
        BY <4>3, <4>4
    <3>5. CASE t # s \/ q # p
      <4>. USE <3>5, <1>14, <3>2
      <4>1. level'[t][q].head = h /\ level'[t][q].tail = e
        BY <1>10, <3>1
      <4>2. e # NULL => e # old /\ e \in Blocks
        BY <1>11
      <4>3. e # NULL => e \in Resting' /\ mem'[e].side = t /\ mem'[e].price = q /\ mem'[e].next = NULL
        BY <1>12, <4>2
      <4>. QED
        BY <3>3, <4>1, <4>3 DEF EndsLinked
    <3>. QED
      BY <3>4, <3>5
  <2>. QED
    BY <1>17, <1>18, <2>1 DEF Linked
<1>20. TypeOK'
  <2>1. PICK a, b : /\ a = IF s = "NO" THEN Min({best_ask_, p}) ELSE best_ask_
                    /\ b = IF s = "YES" THEN Max({best_bid_, p}) ELSE best_bid_
    OBVIOUS
  <2>2. a \in 1 .. MaxPrice + 1 /\ b \in 0 .. MaxPrice
    <3>1. best_ask_ \in 1 .. MaxPrice + 1 /\ best_bid_ \in 0 .. MaxPrice /\ MaxPrice \in Nat
      BY Constants DEF MemInv, TypeOK
    <3>. USE <3>1
    <3>2. Min({best_ask_, p}) \in {best_ask_, p} /\ Max({best_bid_, p}) \in {best_bid_, p}
      <4>1. best_ask_ \in Int /\ best_bid_ \in Int /\ p \in Int
        BY SMT, <1>7
      <4>. QED
        BY <4>1, OfTwo
    <3>3. a \in {best_ask_, p} /\ b \in {best_bid_, p}
      BY <2>1, <3>2
    <3>4. p \in 1 .. MaxPrice + 1 /\ p \in 0 .. MaxPrice
      BY SMT, <1>7
    <3>. QED
      BY Zenon, <3>1, <3>3, <3>4
  <2>3. best_bid_' \in 0 .. MaxPrice /\ best_ask_' \in 1 .. MaxPrice + 1
    BY <1>6, <2>1, <2>2, PrunedTypes
  <2>4. DOMAIN orders_' \subseteq 1 .. MaxOrders /\ \A id \in DOMAIN orders_' : orders_'[id] \in Blocks
    BY <1>7, <1>13 DEF MemInv, TypeOK
  <2>. QED
    BY <1>6, <1>10, <1>12, <2>3, <2>4 DEF MemInv, TypeOK, Cells, Ids, PriceLevels
<1>21. Held'
  BY <1>6 DEF Held
<1>22. JoinedBook(i)
  <2>. USE <1>14
  <2>1. \A x \in Resting \cup {i} : SameOrder(x) /\ SameQty(x)
    BY <1>12 DEF SameOrder, SameQty
  <2>2. TotalsMove(s, p, mem[i].qty)
    BY <1>3, <1>8, <1>10 DEF TotalsMove
  <2>. QED
    BY <1>2, <1>7, <2>1, <2>2 DEF JoinedBook
<1>23. /\ best_bid_' = PrunedBid(level', IF Side = "YES" THEN Max({best_bid_, mem[incoming].price}) ELSE best_bid_)
       /\ best_ask_' = PrunedAsk(level', IF Side = "NO" THEN Min({best_ask_, mem[incoming].price}) ELSE best_ask_)
  BY <1>1, <1>2, <1>6 DEF Side
<1>. QED
  BY <1>1, <1>12, <1>13, <1>14, <1>15, <1>16, <1>19, <1>20, <1>21, <1>22, <1>23 DEF MemInv

\* The free list is threaded through the whole pool.
LEMMA InitInv ==
    ASSUME Init
    PROVE  MemInv
<1>1. /\ mem = [b \in Blocks |-> FreshBlock(b)] /\ free_head_ = 1 /\ orders_ = <<>>
      /\ level = [s \in Sides |-> [p \in Levels |-> [head |-> NULL, tail |-> NULL, total |-> 0]]]
      /\ best_bid_ = 0 /\ best_ask_ = MaxPrice + 1 /\ next_order_id_ = 1 /\ pc = "idle"
      /\ incoming = NULL /\ ptr = 0 /\ cur = NULL /\ asked = 0
  BY SMT DEF Init
<1>2. DOMAIN orders_ = {}
  BY SMT, <1>1
<1>3. Resting = {} /\ Working = {} /\ FreeBlocks = Blocks
  BY <1>1, <1>2 DEF Resting, Working, FreeBlocks
<1>4. /\ \A b \in Blocks : b = PoolSize => mem[b].order_id = NULL
      /\ \A b \in Blocks : b # PoolSize => mem[b].order_id = b + 1
  BY SMT, <1>1 DEF FreshBlock
<1>5. \A b \in Blocks : b # PoolSize => b + 1 \in Blocks /\ b + 1 # 1
  BY SMT, Constants DEF Blocks
<1>6. FreeLinked
  <2>. USE <1>3, <1>4
  <2>1. free_head_ \in FreeBlocks \cup {NULL}
    BY <1>1, Constants
  <2>2. ASSUME NEW b \in FreeBlocks
        PROVE  /\ mem[b].order_id \in FreeBlocks \cup {NULL}
               /\ mem[b].order_id = free_head_ => free_head_ = NULL
    <3>. USE <1>1
    <3>1. CASE b = PoolSize
      BY <3>1
    <3>2. CASE b # PoolSize
      BY <1>5, <3>2
    <3>. QED
      BY <3>1, <3>2
  <2>3. ASSUME NEW b \in FreeBlocks, NEW c \in FreeBlocks, mem[b].order_id = mem[c].order_id,
               mem[b].order_id # NULL
        PROVE  b = c
    <3>. USE <2>3
    <3>1. b # PoolSize /\ c # PoolSize
      BY SMT
    <3>2. b + 1 = c + 1
      BY SMT, <3>1
    <3>. QED
      BY SMT, <3>2 DEF Blocks
  <2>. QED
    BY <2>1, <2>2, <2>3 DEF FreeLinked
<1>7. Registered
  BY <1>2, <1>3 DEF Registered
<1>8. Linked
  <2>1. ASSUME NEW s \in Sides, NEW p \in Levels PROVE EndsLinked(s, p)
    <3>1. level[s][p].head = NULL /\ level[s][p].tail = NULL
      BY SMT, <1>1
    <3>. QED
      BY <3>1 DEF EndsLinked
  <2>. QED
    BY <1>3, <2>1 DEF Linked
<1>9. Held
  BY <1>1 DEF Held
<1>10. mem \in [Blocks -> Cells]
  <2>. USE Constants
  <2>1. ASSUME NEW b \in Blocks PROVE FreshBlock(b) \in Cells
    <3>1. (IF b = PoolSize THEN NULL ELSE b + 1) \in Ids \cup {NULL}
      BY <1>5
    <3>2. 0 \in 0 .. MaxPrice /\ 0 \in 0 .. MaxQty /\ NULL \in Pointers
      BY SMT
    <3>. QED
      BY <3>1, <3>2 DEF FreshBlock, Cells, Sides
  <2>. QED
    BY <1>1, <2>1
<1>11. level \in [Sides -> [Levels -> PriceLevels]]
  <2>1. [head |-> NULL, tail |-> NULL, total |-> 0] \in PriceLevels
    BY SMT, Constants DEF PriceLevels
  <2>. QED
    BY <1>1, <2>1
<1>12. TypeOK
  <2>. USE <1>1
  <2>1. /\ free_head_ \in Pointers /\ best_bid_ \in 0 .. MaxPrice /\ best_ask_ \in 1 .. MaxPrice + 1
        /\ next_order_id_ \in 1 .. MaxOrders + 1 /\ ptr \in Levels /\ asked \in 0 .. MaxQty
        /\ incoming \in Pointers /\ cur \in Pointers
    <3>1. free_head_ \in Pointers /\ incoming \in Pointers /\ cur \in Pointers
      BY SMT, Constants
    <3>2. best_bid_ \in 0 .. MaxPrice /\ best_ask_ \in 1 .. MaxPrice + 1
      BY SMT, Constants
    <3>3. next_order_id_ \in 1 .. MaxOrders + 1 /\ asked \in 0 .. MaxQty
      BY SMT, Constants
    <3>4. ptr \in Levels
      BY SMT, Constants DEF Levels
    <3>. QED
      BY Zenon, <3>1, <3>2, <3>3, <3>4
  <2>. QED
    BY SMT, <1>2, <1>10, <1>11, <2>1 DEF TypeOK, Cells, Ids, PriceLevels
<1>. QED
  BY SMT, <1>6, <1>7, <1>8, <1>9, <1>12 DEF MemInv

\* Every step of the engine keeps the invariant.
LEMMA NextInv ==
    ASSUME MemInv, [Next]_vars
    PROVE  MemInv'
<1>1. ASSUME UNCHANGED vars PROVE MemInv'
  <2>1. UNCHANGED <<mem, free_head_, level, orders_, best_bid_, best_ask_, next_order_id_, pc,
                    incoming, ptr, cur, asked>>
    BY <1>1 DEF vars
  <2>. USE <2>1
  <2>2. Working' = Working /\ Resting' = Resting /\ (ScanOn <=> ScanOn') /\ Side' = Side
    BY SMT DEF Working, Resting, ScanOn, Side
  <2>. USE <2>2
  <2>3. FreeLinked' /\ Registered' /\ Linked'
    BY BookUnchanged DEF MemInv
  <2>4. TypeOK'
    BY DEF MemInv, TypeOK
  <2>5. Held'
    BY DEF MemInv, Held
  <2>. QED
    BY <2>3, <2>4, <2>5 DEF MemInv
<1>2. ASSUME NEW c \in Clients, NEW s \in Sides, NEW p \in Levels, NEW q \in 0 .. MaxQty, PlaceLimit(c, s, p, q)
      PROVE  MemInv'
  BY <1>2, PlaceLimitInv
<1>3. ASSUME NEW p \in Levels, NEW q \in 0 .. MaxQty, Reject(p, q) PROVE MemInv'
  BY <1>1, <1>3 DEF Reject
<1>4. CASE Match
  BY <1>4, MatchPartInv, MatchFullInv
<1>5. CASE Steps
  BY <1>4, <1>5, ScanInv, NextLevelInv, RestIncomingInv, FreeIncomingInv, ReturnInv DEF Steps
<1>6. ASSUME NEW id \in 0 .. MaxOrders, NEW c \in Clients \cup Strangers, Cancel(id, c) PROVE MemInv'
  BY <1>6, CancelInv
<1>7. ASSUME NEW id \in 0 .. MaxOrders, NEW c \in Clients \cup Strangers, CancelRefused(id, c) PROVE MemInv'
  BY <1>1, <1>7 DEF CancelRefused
<1>. QED
  BY SMT, <1>1, <1>2, <1>3, <1>5, <1>6, <1>7 DEF Next

------------------------------------------------------------------------------
(* Theorems                                                                 *)

\* The memory of the engine is sound at every moment, within calls too.
THEOREM EngineInvariance == Spec => []MemInv
<1>1. Init => MemInv
  BY InitInv
<1>2. MemInv /\ [Next]_vars => MemInv'
  BY SMT, NextInv
<1>. QED
  BY <1>1, <1>2, PTL DEF Spec

\* No pointer leaves the pool and no scan leaves the arrays of price levels,
\* whatever the sizes and whatever the calls.
THEOREM EngineTypes == Spec => []TypeOK
<1>1. MemInv => TypeOK
  BY SMT DEF MemInv
<1>. QED
  BY <1>1, EngineInvariance, PTL

\* A block is on one way only: the free list leads from free block to free
\* block, none is reached twice, and none of them is in the book or in the hands
\* of place_limit.
BlocksApart ==
    /\ FreeLinked
    /\ Resting \cap Working = {}
    /\ \A id, jd \in DOMAIN orders_ : orders_[id] = orders_[jd] => id = jd

\* No block is both free and in use, and no two orders share one.
THEOREM BlocksStayApart == Spec => []BlocksApart
<1>1. ASSUME MemInv PROVE BlocksApart
  <2>. USE <1>1
  <2>1. Resting \cap Working = {}
    BY Scanning DEF MemInv, Working
  <2>2. \A id, jd \in DOMAIN orders_ : orders_[id] = orders_[jd] => id = jd
    BY DEF MemInv, Registered
  <2>. QED
    BY SMT, <2>1, <2>2 DEF MemInv, BlocksApart
<1>. QED
  BY <1>1, EngineInvariance, PTL

\* Matching starts with the oldest order of a price: the head of a level has the
\* smallest id of all orders there.
HeadIsOldest ==
    \A b \in Resting :
        /\ LevelOf(b).head \in Resting /\ SameLevel(LevelOf(b).head, b)
        /\ mem[LevelOf(b).head].order_id <= mem[b].order_id

\* The head of a level has no predecessor, so no order of the level is older.
LEMMA HeadFirst ==
    ASSUME MemInv
    PROVE  HeadIsOldest
<1>1. SUFFICES ASSUME NEW b \in Resting
               PROVE  /\ LevelOf(b).head \in Resting /\ SameLevel(LevelOf(b).head, b)
                      /\ mem[LevelOf(b).head].order_id <= mem[b].order_id
  BY SMT DEF HeadIsOldest
<1>. DEFINE S == {id \in DOMAIN orders_ : SameLevel(orders_[id], b)}
<1>2. /\ mem[b].order_id \in S
      /\ S \subseteq 1 .. MaxOrders /\ MaxOrders \in Nat
  <2>1. mem[b].order_id \in DOMAIN orders_ /\ orders_[mem[b].order_id] = b
    BY RestingIds DEF MemInv
  <2>2. DOMAIN orders_ \subseteq 1 .. MaxOrders
    BY DEF MemInv, TypeOK
  <2>. QED
    BY <2>1, <2>2, Constants DEF SameLevel
<1>3. PICK low \in S : \A id \in S : low <= id
  <2>. USE <1>2
  <2>. HIDE DEF S
  <2>1. S \subseteq Nat
    BY SMT
  <2>. QED
    BY <2>1, LeastNatural
<1>4. PICK h \in Resting : h = orders_[low] /\ mem[h].order_id = low /\ SameLevel(h, b)
  BY DEF MemInv, Registered, Resting
<1>5. mem[h].prev = NULL
  <2>1. SUFFICES ASSUME mem[h].prev # NULL PROVE FALSE
    OBVIOUS
  <2>2. PICK a \in Resting : SameLevel(a, h) /\ mem[a].order_id < mem[h].order_id
    <3>1. PrevLinked(h)
      BY DEF MemInv, Linked
    <3>. QED
      BY <2>1, <3>1 DEF PrevLinked
  <2>. USE <2>2
  <2>3. mem[a].order_id \in DOMAIN orders_ /\ orders_[mem[a].order_id] = a
    BY SMT, RestingIds DEF MemInv
  <2>4. mem[a].order_id \in S
    BY <1>4, <2>3 DEF SameLevel
  <2>5. low <= mem[a].order_id /\ low \in Int /\ mem[a].order_id \in Int
    BY SMT, <1>2, <1>3, <2>4
  <2>. QED
    BY SMT, <1>4, <2>5
<1>6. LevelOf(h).head = h
  <2>1. PrevLinked(h)
    BY DEF MemInv, Linked
  <2>. QED
    BY <1>5, <2>1 DEF PrevLinked
<1>7. LevelOf(b).head = h
  BY <1>4, <1>6 DEF LevelOf, SameLevel
<1>. QED
  BY <1>2, <1>3, <1>4, <1>7

\* Whatever was filled and cancelled before, time priority within a price holds.
THEOREM TimePriority == Spec => []HeadIsOldest
<1>1. MemInv => HeadIsOldest
  BY SMT, HeadFirst
<1>. QED
  BY <1>1, EngineInvariance, PTL

\* Nobody's order is forgotten by its level: the lists are linked in both
\* directions from the head to the tail, so an order can always be taken out.
THEOREM ListsStayLinked == Spec => []Linked
<1>1. MemInv => Linked
  BY DEF MemInv
<1>. QED
  BY <1>1, EngineInvariance, PTL

------------------------------------------------------------------------------
(* The free list                                                            *)

\* The free list is a stack: n blocks, the last of them free_head_, each linked
\* to the one below it.
Stacked(n, at) ==
    /\ at \in [1 .. n -> FreeBlocks]
    /\ \A b \in FreeBlocks : \E k \in 1 .. n : at[k] = b
    /\ \A j, k \in 1 .. n : at[j] = at[k] => j = k
    /\ free_head_ = IF n = 0 THEN NULL ELSE at[n]
    /\ \A k \in 1 .. n : mem[at[k]].order_id = IF k = 1 THEN NULL ELSE at[k - 1]
FreeStack == \E n \in Nat : \E at : Stacked(n, at)

\* Every step leaves a stack, and works on its top only.
LEMMA FreeStackInv ==
    ASSUME MemInv, FreeStack, [Next]_vars
    PROVE  FreeStack'
\* A block given back goes on top.
<1>Push. ASSUME NEW b \in Blocks \ FreeBlocks, FreeBlocks' = FreeBlocks \cup {b}, free_head_' = b,
                mem'[b].order_id = free_head_,
                \A x \in FreeBlocks : mem'[x].order_id = mem[x].order_id
         PROVE  FreeStack'
  <2>. USE <1>Push
  <2>0. PICK n \in Nat : \E at : Stacked(n, at)
    BY DEF FreeStack
  <2>1. PICK at \in [1 .. n -> FreeBlocks] : Stacked(n, at)
    BY <2>0 DEF Stacked
  <2>2. /\ \A c \in FreeBlocks : \E k \in 1 .. n : at[k] = c
        /\ \A j, k \in 1 .. n : at[j] = at[k] => j = k
        /\ free_head_ = IF n = 0 THEN NULL ELSE at[n]
        /\ \A k \in 1 .. n : mem[at[k]].order_id = IF k = 1 THEN NULL ELSE at[k - 1]
    BY <2>1 DEF Stacked
  <2>3. PICK to : to = [k \in 1 .. n + 1 |-> IF k = n + 1 THEN b ELSE at[k]]
    OBVIOUS
  <2>4. /\ \A k \in 1 .. n : k \in 1 .. n + 1 /\ k # n + 1 /\ at[k] \in FreeBlocks
        /\ \A k \in 1 .. n + 1 : k \in 1 .. n \/ k = n + 1
        /\ n + 1 \in 1 .. n + 1 /\ n + 1 \in Nat /\ n + 1 # 0
    BY SMT, <2>1
  <2>5. to[n + 1] = b /\ \A k \in 1 .. n : to[k] = at[k]
    BY SMT, <2>3, <2>4
  <2>6. to \in [1 .. n + 1 -> FreeBlocks']
    BY SMT, <2>3, <2>4
  <2>7. ASSUME NEW c \in FreeBlocks' PROVE \E k \in 1 .. n + 1 : to[k] = c
    <3>1. CASE c = b
      BY Zenon, <2>4, <2>5, <3>1
    <3>2. CASE c \in FreeBlocks
      <4>1. PICK k \in 1 .. n : at[k] = c
        BY Zenon, <2>2, <3>2
      <4>2. k \in 1 .. n + 1 /\ to[k] = c
        BY Zenon, <2>4, <2>5, <4>1
      <4>. QED
        BY Zenon, <4>2
    <3>. QED
      BY Zenon, <3>1, <3>2
  <2>8. \A j, k \in 1 .. n + 1 : to[j] = to[k] => j = k
    <3>. USE <2>4, <2>5
    <3>1. \A k \in 1 .. n : to[k] # b
      OBVIOUS
    <3>. QED
      <4>1. SUFFICES ASSUME NEW j \in 1 .. n + 1, NEW k \in 1 .. n + 1, to[j] = to[k] PROVE j = k
        BY Zenon
      <4>2. CASE j \in 1 .. n /\ k \in 1 .. n
        <5>1. at[j] = at[k]
          BY Zenon, <4>1, <4>2
        <5>. QED
          BY Zenon, <2>2, <4>2, <5>1
      <4>3. CASE j \in 1 .. n /\ k = n + 1
        BY Zenon, <3>1, <4>1, <4>3
      <4>4. CASE j = n + 1 /\ k \in 1 .. n
        BY Zenon, <3>1, <4>1, <4>4
      <4>. QED
        BY Zenon, <4>2, <4>3, <4>4
  <2>9. ASSUME NEW k \in 1 .. n + 1 PROVE mem'[to[k]].order_id = IF k = 1 THEN NULL ELSE to[k - 1]
    <3>1. CASE k = n + 1
      <4>. USE <3>1
      <4>1. mem'[to[k]].order_id = free_head_
        BY <2>5
      <4>2. CASE n = 0
        BY SMT, <2>2, <4>1, <4>2
      <4>3. CASE n # 0
        <5>. USE <4>3
        <5>1. k # 1 /\ k - 1 = n /\ n \in 1 .. n
          BY SMT, <2>1
        <5>. USE <5>1
        <5>2. to[k - 1] = at[n]
          BY <2>5
        <5>. QED
          BY <2>2, <4>1, <5>2
      <4>. QED
        BY <4>2, <4>3
    <3>2. CASE k \in 1 .. n
      <4>. USE <3>2
      <4>1. mem'[to[k]].order_id = IF k = 1 THEN NULL ELSE at[k - 1]
        <5>1. to[k] = at[k] /\ at[k] \in FreeBlocks
          BY <2>4, <2>5
        <5>. USE <5>1
        <5>2. mem'[at[k]].order_id = mem[at[k]].order_id
          OBVIOUS
        <5>3. mem[at[k]].order_id = IF k = 1 THEN NULL ELSE at[k - 1]
          BY <2>2
        <5>. QED
          BY <5>2, <5>3
      <4>2. k # 1 => k - 1 \in 1 .. n
        BY SMT, <2>1
      <4>. QED
        BY <2>5, <4>1, <4>2
    <3>. QED
      BY <2>4, <3>1, <3>2
  <2>10. Stacked(n + 1, to)'
    BY <2>4, <2>5, <2>6, <2>7, <2>8, <2>9 DEF Stacked
  <2>. QED
    BY <2>4, <2>10 DEF FreeStack
\* A block taken comes from the top.
<1>Pop. ASSUME free_head_ \in FreeBlocks, FreeBlocks' = FreeBlocks \ {free_head_},
               free_head_' = mem[free_head_].order_id,
               \A x \in FreeBlocks' : mem'[x].order_id = mem[x].order_id
        PROVE  FreeStack'
  <2>. USE <1>Pop
  <2>0. PICK n \in Nat : \E at : Stacked(n, at)
    BY DEF FreeStack
  <2>1. PICK at \in [1 .. n -> FreeBlocks] : Stacked(n, at)
    BY <2>0 DEF Stacked
  <2>2. /\ \A c \in FreeBlocks : \E k \in 1 .. n : at[k] = c
        /\ \A j, k \in 1 .. n : at[j] = at[k] => j = k
        /\ free_head_ = IF n = 0 THEN NULL ELSE at[n]
        /\ \A k \in 1 .. n : mem[at[k]].order_id = IF k = 1 THEN NULL ELSE at[k - 1]
    BY <2>1 DEF Stacked
  <2>3. n # 0 /\ free_head_ = at[n]
    <3>1. free_head_ # NULL
      BY Constants DEF FreeBlocks
    <3>. QED
      BY <2>2, <3>1
  <2>4. PICK to : to = [k \in 1 .. n - 1 |-> at[k]]
    OBVIOUS
  <2>5. /\ n \in 1 .. n /\ n - 1 \in Nat /\ (n = 1 <=> n - 1 = 0) /\ (n # 1 => n - 1 \in 1 .. n - 1)
        /\ \A k \in 1 .. n : k \in 1 .. n - 1 \/ k = n
        /\ \A k \in 1 .. n - 1 : k \in 1 .. n /\ k # n /\ (k # 1 => k - 1 \in 1 .. n - 1)
    BY SMT, <2>1, <2>3
  <2>6. ASSUME NEW k \in 1 .. n - 1 PROVE to[k] = at[k] /\ to[k] \in FreeBlocks' /\ to[k] \in FreeBlocks
    <3>1. k \in 1 .. n /\ k # n /\ n \in 1 .. n
      BY <2>5
    <3>. USE <3>1
    <3>2. at[k] \in FreeBlocks
      BY <2>1
    <3>3. to[k] = at[k]
      BY <2>4
    <3>4. at[k] # at[n]
      BY <2>2
    <3>. QED
      BY <2>3, <3>2, <3>3, <3>4
  <2>7. to \in [1 .. n - 1 -> FreeBlocks']
    BY SMT, <2>4, <2>6
  <2>8. ASSUME NEW c \in FreeBlocks' PROVE \E k \in 1 .. n - 1 : to[k] = c
    <3>1. PICK k \in 1 .. n : at[k] = c
      BY <2>2
    <3>. USE <3>1
    <3>2. k # n
      BY <2>3
    <3>3. k \in 1 .. n - 1
      BY <2>5, <3>2
    <3>. QED
      BY <2>6, <3>3
  <2>9. ASSUME NEW j \in 1 .. n - 1, NEW k \in 1 .. n - 1, to[j] = to[k] PROVE j = k
    <3>1. j \in 1 .. n /\ k \in 1 .. n
      BY <2>5
    <3>2. at[j] = at[k]
      BY <2>6, <2>9
    <3>. QED
      BY <2>2, <3>1, <3>2
  <2>10. ASSUME NEW k \in 1 .. n - 1 PROVE mem'[to[k]].order_id = IF k = 1 THEN NULL ELSE to[k - 1]
    <3>1. mem'[to[k]].order_id = IF k = 1 THEN NULL ELSE at[k - 1]
      <4>1. k \in 1 .. n /\ to[k] = at[k] /\ at[k] \in FreeBlocks'
        BY <2>5, <2>6
      <4>. USE <4>1
      <4>2. mem'[at[k]].order_id = mem[at[k]].order_id
        OBVIOUS
      <4>3. mem[at[k]].order_id = IF k = 1 THEN NULL ELSE at[k - 1]
        BY <2>2
      <4>. QED
        BY <4>2, <4>3
    <3>. QED
      BY <2>5, <2>6, <3>1
  <2>11. free_head_' = IF n - 1 = 0 THEN NULL ELSE to[n - 1]
    <3>. USE <2>5
    <3>1. free_head_' = IF n = 1 THEN NULL ELSE at[n - 1]
      BY <2>2, <2>3
    <3>. QED
      BY <2>6, <3>1
  <2>12. Stacked(n - 1, to)'
    BY <2>7, <2>8, <2>9, <2>10, <2>11 DEF Stacked
  <2>. QED
    BY <2>5, <2>12 DEF FreeStack
<1>SameStack. ASSUME FreeBlocks' = FreeBlocks, free_head_' = free_head_,
                     \A x \in FreeBlocks : mem'[x].order_id = mem[x].order_id
              PROVE  FreeStack'
  <2>. USE <1>SameStack
  <2>0. PICK n \in Nat : \E at : Stacked(n, at)
    BY DEF FreeStack
  <2>1. PICK at \in [1 .. n -> FreeBlocks] : Stacked(n, at)
    BY <2>0 DEF Stacked
  <2>. USE <2>1
  <2>2. \A k \in 1 .. n : at[k] \in FreeBlocks
    OBVIOUS
  <2>3. Stacked(n, at)'
    BY <2>2 DEF Stacked
  <2>. QED
    BY <2>3 DEF FreeStack
\* An order that leaves the book gives its block back.
<1>LeftStack. ASSUME NEW b, LeftBook(b), Working' = Working, FreedCells(mem, mem', b),
                     free_head_' = b
              PROVE  FreeStack'
  <2>. USE <1>LeftStack
  <2>1. b \in Resting /\ b \in Blocks /\ b \notin Working
    BY CellTypes DEF MemInv, LeftBook, Held, Working
  <2>2. b \notin FreeBlocks /\ FreeBlocks' = FreeBlocks \cup {b}
    <3>. USE <2>1
    <3>1. b \notin FreeBlocks
      BY DEF FreeBlocks
    <3>2. FreeBlocks' = FreeBlocks \cup {b}
      <4>1. Resting' = Resting \ {b} /\ Working' = Working
        BY DEF LeftBook
      <4>. QED
        BY SMT, <4>1 DEF FreeBlocks
    <3>. QED
      BY <3>1, <3>2
  <2>. USE <2>2
  <2>3. mem'[b].order_id = free_head_ /\ \A x \in Blocks \ {b} : mem'[x].order_id = mem[x].order_id
    BY DEF FreedCells
  <2>. USE <2>3
  <2>4. \A x \in FreeBlocks : mem'[x].order_id = mem[x].order_id
    BY DEF FreeBlocks
  <2>. QED
    BY <2>1, <2>4, <1>Push
<1>1. ASSUME UNCHANGED <<mem, free_head_, orders_>>, Working' = Working PROVE FreeStack'
  <2>. USE <1>1
  <2>1. FreeBlocks' = FreeBlocks
    BY DEF FreeBlocks, Resting
  <2>. QED
    BY <2>1, <1>SameStack
<1>2. ASSUME UNCHANGED vars PROVE FreeStack'
  BY <1>1, <1>2 DEF vars, Working
<1>3. ASSUME NEW c \in Clients, NEW s \in Sides, NEW p \in Levels, NEW q \in 0 .. MaxQty, PlaceLimit(c, s, p, q)
      PROVE  FreeStack'
  <2>. USE <1>3
  <2>1. /\ free_head_ \in FreeBlocks /\ FreeBlocks' = FreeBlocks \ {free_head_}
        /\ \A x \in Blocks \ {free_head_} : mem'[x] = mem[x]
    BY PlaceLimitInv
  <2>. USE <2>1
  <2>2. free_head_' = mem[free_head_].order_id
    BY DEF PlaceLimit
  <2>3. \A x \in FreeBlocks' : mem'[x].order_id = mem[x].order_id
    BY DEF FreeBlocks
  <2>. QED
    BY <2>2, <2>3, <1>Pop
<1>4. CASE Scan \/ NextLevel
  BY <1>1, <1>4 DEF Scan, NextLevel, poolVars, bookVars, Working
<1>5. CASE Return
  BY <1>1, <1>5 DEF Return, poolVars, bookVars, Working
<1>6. CASE Match /\ pc' = "scan"
  <2>. USE <1>6
  <2>1. FreeBlocks' = FreeBlocks /\ \A x \in FreeBlocks : mem'[x].order_id = mem[x].order_id
    BY MatchPartInv
  <2>2. free_head_' = free_head_
    BY DEF Match
  <2>. QED
    BY <2>1, <2>2, <1>SameStack
<1>7. CASE Match /\ pc' # "scan"
  <2>. USE <1>7
  <2>1. LeftBook(cur) /\ FreedCells(mem, mem', cur)
    BY MatchFullInv
  <2>2. free_head_' = cur /\ Working' = Working
    BY DEF Match, Working
  <2>. QED
    BY <2>1, <2>2, <1>LeftStack
<1>8. CASE RestIncoming
  <2>. USE <1>8
  <2>1. FreeBlocks' = FreeBlocks /\ \A x \in Blocks : mem'[x].order_id = mem[x].order_id
    BY RestIncomingInv
  <2>2. free_head_' = free_head_
    BY DEF RestIncoming
  <2>. QED
    BY <2>1, <2>2, <1>SameStack DEF FreeBlocks
<1>9. CASE FreeIncoming
  <2>. USE <1>9
  <2>1. /\ incoming \in Blocks \ FreeBlocks /\ FreeBlocks' = FreeBlocks \cup {incoming}
        /\ mem'[incoming].order_id = free_head_ /\ \A x \in Blocks \ {incoming} : mem'[x] = mem[x]
    BY FreeIncomingInv
  <2>. USE <2>1
  <2>2. free_head_' = incoming
    BY DEF FreeIncoming
  <2>3. \A x \in FreeBlocks : mem'[x].order_id = mem[x].order_id
    BY DEF FreeBlocks
  <2>. QED
    BY <2>2, <2>3, <1>Push
<1>10. ASSUME NEW id \in 0 .. MaxOrders, NEW c, Cancel(id, c) PROVE FreeStack'
  <2>. USE <1>10
  <2>1. LeftBook(orders_[id]) /\ FreedCells(mem, mem', orders_[id])
    BY CancelInv
  <2>2. free_head_' = orders_[id] /\ Working' = Working
    BY DEF Cancel, callVars, Working
  <2>. QED
    BY <2>1, <2>2, <1>LeftStack
<1>11. ASSUME NEW p, NEW q, Reject(p, q) PROVE FreeStack'
  BY <1>2, <1>11 DEF Reject
<1>12. ASSUME NEW id, NEW c, CancelRefused(id, c) PROVE FreeStack'
  BY <1>2, <1>12 DEF CancelRefused
<1>. QED
  BY <1>2, <1>3, <1>4, <1>5, <1>6, <1>7, <1>8, <1>9, <1>10, <1>11, <1>12 DEF Next, Steps

\* The constructor links all blocks.
LEMMA InitStack == Init => FreeStack
<1>1. SUFFICES ASSUME Init PROVE FreeStack
  OBVIOUS
<1>2. free_head_ = 1 /\ pc = "idle" /\ DOMAIN orders_ = {}
  BY SMT, <1>1 DEF Init
<1>3. FreeBlocks = Blocks
  <2>. USE <1>2
  <2>1. Resting = {}
    BY SMT DEF Resting
  <2>2. Working = {}
    BY DEF Working
  <2>. QED
    BY SMT, <2>1, <2>2 DEF FreeBlocks
<1>4. PICK n \in Nat : n = PoolSize /\ n # 0 /\ Blocks = 1 .. n
  BY Constants DEF Blocks
<1>. USE <1>4
<1>5. PICK at : at = [k \in 1 .. n |-> n + 1 - k]
  OBVIOUS
<1>6. at \in [1 .. n -> FreeBlocks] /\ at[n] = 1
  BY SMT, <1>3, <1>5
<1>7. ASSUME NEW b \in FreeBlocks PROVE \E k \in 1 .. n : at[k] = b
  <2>1. b \in 1 .. n
    BY <1>3
  <2>2. n + 1 - b \in 1 .. n /\ n + 1 - (n + 1 - b) = b
    BY SMT, <2>1
  <2>. QED
    BY <1>5, <2>2
<1>8. \A j, k \in 1 .. n : at[j] = at[k] => j = k
  BY SMT, <1>5
<1>9. ASSUME NEW k \in 1 .. n PROVE mem[at[k]].order_id = IF k = 1 THEN NULL ELSE at[k - 1]
  <2>1. at[k] \in Blocks /\ at[k] = n + 1 - k /\ n + 1 - k \in Int
    BY SMT, <1>5
  <2>. USE <2>1
  <2>2. mem[at[k]] = FreshBlock(at[k])
    BY <1>1 DEF Init
  <2>3. mem[at[k]].order_id = IF at[k] = n THEN NULL ELSE at[k] + 1
    BY SMT, <2>2 DEF FreshBlock
  <2>4. at[k] = n <=> k = 1
    BY SMT
  <2>5. k # 1 => at[k - 1] = at[k] + 1
    <3>1. ASSUME k # 1 PROVE k - 1 \in 1 .. n /\ n + 1 - (k - 1) = n + 1 - k + 1
      BY SMT, <3>1
    <3>. QED
      BY <1>5, <3>1
  <2>. QED
    BY <2>3, <2>4, <2>5
<1>10. Stacked(n, at)
  BY <1>2, <1>6, <1>7, <1>8, <1>9 DEF Stacked
<1>. QED
  BY <1>10 DEF FreeStack

\* The free list is a stack of exactly the blocks nobody holds: it has no cycle,
\* and deallocate and allocate work on its top only.
THEOREM FreeListIsStack == Spec => []FreeStack
<1>1. MemInv /\ FreeStack /\ [Next]_vars => FreeStack'
  BY FreeStackInv
<1>. QED
  BY <1>1, InitStack, EngineInvariance, PTL DEF Spec

\* One step along the free list.
WalkStep(w, k) ==
    w[k] = IF k = 0 THEN free_head_
           ELSE IF w[k - 1] \in Blocks THEN mem[w[k - 1]].order_id ELSE NULL
Walks(w) == w = [k \in 0 .. PoolSize |-> IF k = 0 THEN free_head_
                                         ELSE IF w[k - 1] \in Blocks THEN mem[w[k - 1]].order_id ELSE NULL]

\* Followed from free_head_, the free list is the stack from the top.
LEMMA WalkStack ==
    ASSUME NEW n \in Nat, n <= PoolSize, NEW at, Stacked(n, at)
    PROVE  \A k \in 0 .. PoolSize : FreeWalk[k] = IF k < n THEN at[n - k] ELSE NULL
<1>. DEFINE G(k) == IF k < n THEN at[n - k] ELSE NULL
<1>1. PICK g : g = [k \in 0 .. PoolSize |-> G(k)]
  OBVIOUS
<1>2. /\ \A k \in 1 .. n : at[k] \in Blocks
      /\ free_head_ = IF n = 0 THEN NULL ELSE at[n]
      /\ \A k \in 1 .. n : mem[at[k]].order_id = IF k = 1 THEN NULL ELSE at[k - 1]
  BY DEF Stacked, FreeBlocks
<1>3. /\ PoolSize \in Nat /\ NULL \notin Blocks
  BY Constants
<1>4. ASSUME NEW k \in 0 .. PoolSize
      PROVE  /\ k = 0 => G(k) = free_head_
             /\ k # 0 => G(k) = IF G(k - 1) \in Blocks THEN mem[G(k - 1)].order_id ELSE NULL
  <2>1. CASE k = 0
    <3>. USE <2>1
    <3>1. (k < n <=> n # 0) /\ n - k = n
      BY SMT
    <3>. QED
      BY <1>2, <3>1
  <2>2. CASE k # 0 /\ k - 1 < n
    <3>. USE <2>2, <1>2
    <3>1. PICK j \in 1 .. n : j = n - (k - 1) /\ n - k = j - 1 /\ (k < n <=> j # 1)
      BY SMT
    <3>. USE <3>1
    <3>2. G(k - 1) = at[j] /\ at[j] \in Blocks
      OBVIOUS
    <3>3. mem[at[j]].order_id = IF j = 1 THEN NULL ELSE at[j - 1]
      OBVIOUS
    <3>. QED
      BY <3>2, <3>3
  <2>3. CASE k # 0 /\ ~ (k - 1 < n)
    <3>. USE <2>3
    <3>1. ~ (k < n)
      BY SMT
    <3>. QED
      BY <1>3, <3>1
  <2>. QED
    BY <2>1, <2>2, <2>3
<1>5. Walks(g)
  <2>. USE <1>1
  <2>1. ASSUME NEW k \in 0 .. PoolSize
        PROVE  G(k) = IF k = 0 THEN free_head_ ELSE IF g[k - 1] \in Blocks THEN mem[g[k - 1]].order_id ELSE NULL
    <3>1. k # 0 => k - 1 \in 0 .. PoolSize
      BY SMT, <1>3
    <3>2. k # 0 => g[k - 1] = G(k - 1)
      BY <3>1
    <3>3. /\ k = 0 => G(k) = free_head_
          /\ k # 0 => G(k) = IF G(k - 1) \in Blocks THEN mem[G(k - 1)].order_id ELSE NULL
      BY <1>4
    <3>. HIDE DEF G
    <3>. QED
      BY <3>2, <3>3
  <2>. HIDE DEF G
  <2>. QED
    BY SMT, <2>1 DEF Walks
<1>6. PICK w : w = FreeWalk /\ Walks(w)
  <2>1. FreeWalk = CHOOSE w : Walks(w)
    BY SMT DEF FreeWalk, Walks
  <2>. QED
    BY <1>5, <2>1
<1>7. \A k \in 0 .. PoolSize : WalkStep(w, k) /\ WalkStep(g, k)
  BY <1>5, <1>6 DEF Walks, WalkStep
<1>. DEFINE B == {k \in 0 .. PoolSize : w[k] # g[k]}
<1>8. ASSUME B # {} PROVE FALSE
  <2>1. PICK k \in B : \A j \in B : k <= j
    <3>1. B \subseteq Nat
      BY SMT, <1>3
    <3>. QED
      BY <1>8, <3>1, LeastNatural
  <2>2. k \in 0 .. PoolSize /\ w[k] # g[k]
    BY <2>1
  <2>. USE <2>2
  <2>3. CASE k = 0
    BY <1>7, <2>3 DEF WalkStep
  <2>4. CASE k # 0
    <3>. USE <2>4
    <3>1. k - 1 \in 0 .. PoolSize /\ ~ (k <= k - 1)
      BY SMT, <1>3
    <3>2. w[k - 1] = g[k - 1]
      BY <2>1, <3>1
    <3>. QED
      BY <1>7, <3>2 DEF WalkStep
  <2>. QED
    BY <2>3, <2>4
<1>9. \A k \in 0 .. PoolSize : w[k] = g[k]
  BY <1>8
<1>. QED
  BY <1>1, <1>6, <1>9

------------------------------------------------------------------------------
(* The list of a price level                                                *)

IdOf(b) == mem[b].order_id

\* The tail of a level is its youngest order.
LEMMA TailLast ==
    ASSUME MemInv, NEW b \in Resting
    PROVE  /\ LevelOf(b).tail \in Resting /\ SameLevel(LevelOf(b).tail, b)
           /\ IdOf(b) <= IdOf(LevelOf(b).tail)
<1>. DEFINE S == {id \in DOMAIN orders_ : SameLevel(orders_[id], b)}
<1>1. IdOf(b) \in S /\ S \subseteq 1 .. MaxOrders /\ MaxOrders \in Nat /\ 1 \in Nat
  <2>1. IdOf(b) \in DOMAIN orders_ /\ orders_[IdOf(b)] = b
    BY RestingIds DEF MemInv, IdOf
  <2>2. DOMAIN orders_ \subseteq 1 .. MaxOrders
    BY DEF MemInv, TypeOK
  <2>3. MaxOrders \in Nat /\ 1 \in Nat
    BY SMT, Constants
  <2>. QED
    BY <2>1, <2>2, <2>3 DEF SameLevel
<1>2. PICK top \in S : \A id \in S : top >= id
  <2>. USE <1>1
  <2>. HIDE DEF S
  <2>1. S # {}
    OBVIOUS
  <2>. QED
    BY <2>1, Extremes
<1>3. PICK t \in Resting : t = orders_[top] /\ IdOf(t) = top /\ SameLevel(t, b)
  BY DEF MemInv, Registered, Resting, IdOf
<1>4. mem[t].next = NULL
  <2>1. SUFFICES ASSUME mem[t].next # NULL PROVE FALSE
    OBVIOUS
  <2>2. PICK a \in Resting : a = mem[t].next /\ SameLevel(a, t) /\ mem[a].prev = t
    BY <2>1 DEF MemInv, Linked, NextLinked
  <2>3. IdOf(t) < IdOf(a)
    BY <2>2, Constants, RestingIds DEF MemInv, Linked, PrevLinked, IdOf
  <2>4. IdOf(a) \in DOMAIN orders_ /\ orders_[IdOf(a)] = a
    BY RestingIds DEF MemInv, IdOf
  <2>5. IdOf(a) \in S
    BY <1>3, <2>2, <2>4 DEF SameLevel
  <2>6. top >= IdOf(a) /\ top \in 1 .. MaxOrders /\ IdOf(a) \in 1 .. MaxOrders
    BY <1>1, <1>2, <2>5
  <2>. QED
    BY SMT, <1>1, <1>3, <2>3, <2>6
<1>5. LevelOf(t).tail = t
  BY <1>4 DEF MemInv, Linked, NextLinked
<1>6. LevelOf(b).tail = t
  BY <1>3, <1>5 DEF LevelOf, SameLevel
<1>7. IdOf(b) <= IdOf(t)
  BY SMT, <1>1, <1>2, <1>3
<1>. QED
  BY <1>3, <1>6, <1>7

\* No order of the level is between two neighbours: the oldest such order
\* would itself follow an older one.
LEMMA Adjacent ==
    ASSUME MemInv
    PROVE  \A a, c, b \in Resting :
              mem[b].prev = a /\ SameLevel(c, b) => ~ (IdOf(a) < IdOf(c) /\ IdOf(c) < IdOf(b))
<1>. DEFINE Between(a, c, b) == /\ mem[b].prev = a /\ SameLevel(c, b)
                                /\ IdOf(a) < IdOf(c) /\ IdOf(c) < IdOf(b)
            V == {IdOf(c) : c \in {d \in Resting : \E a, b \in Resting : Between(a, d, b)}}
<1>1. \A x \in Resting : IdOf(x) \in 1 .. MaxOrders /\ x \in Blocks /\ x # NULL
  BY RestingIds, Constants DEF MemInv, IdOf
<1>2. V \subseteq Nat
  BY SMT, <1>1, Constants
<1>3. ASSUME V # {} PROVE FALSE
  <2>1. PICK v \in V : \A u \in V : v <= u
    BY <1>2, <1>3, LeastNatural
  <2>2. PICK c \in Resting : v = IdOf(c) /\ \E a, b \in Resting : Between(a, c, b)
    BY <2>1
  <2>3. PICK a, b \in Resting : Between(a, c, b)
    BY <2>2
  <2>4. /\ SameLevel(a, b) /\ mem[a].next = b /\ IdOf(a) < IdOf(b)
    BY <1>1, <2>3 DEF MemInv, Linked, PrevLinked, IdOf
  <2>5. /\ IdOf(a) \in Nat /\ IdOf(b) \in Nat /\ IdOf(c) \in Nat
        /\ IdOf(a) < IdOf(c) /\ IdOf(c) < IdOf(b)
    <3>1. IdOf(a) \in Nat /\ IdOf(b) \in Nat /\ IdOf(c) \in Nat
      BY SMT, <1>1, Constants
    <3>. QED
      BY <2>3, <3>1
  <2>6. SameLevel(a, c) /\ SameLevel(c, b)
    BY <2>3, <2>4 DEF SameLevel
  <2>7. CASE mem[c].prev = NULL
    <3>1. LevelOf(c).head = c
      BY <2>7 DEF MemInv, Linked, PrevLinked
    <3>2. LevelOf(a).head = c
      BY <2>6, <3>1 DEF LevelOf, SameLevel
    <3>3. IdOf(c) <= IdOf(a)
      BY <3>2, HeadFirst DEF HeadIsOldest, IdOf
    <3>. QED
      BY SMT, <2>5, <3>3
  <2>8. CASE mem[c].prev # NULL
    <3>1. PICK d \in Resting : d = mem[c].prev /\ SameLevel(d, c) /\ mem[d].next = c /\ IdOf(d) < IdOf(c)
      BY <2>8 DEF MemInv, Linked, PrevLinked, IdOf
    <3>2. IdOf(d) \in Nat
      BY SMT, <1>1, Constants
    <3>3. SameLevel(d, b) /\ SameLevel(a, c)
      BY <2>6, <3>1 DEF SameLevel
    <3>4. CASE IdOf(d) = IdOf(a)
      <4>1. d = a
        BY <3>4, RestingIds DEF MemInv, IdOf
      <4>2. c = b
        BY <2>4, <3>1, <4>1
      <4>. QED
        BY SMT, <2>5, <4>2
    <3>5. CASE IdOf(a) < IdOf(d)
      <4>1. IdOf(d) < IdOf(b)
        BY SMT, <2>5, <3>1, <3>2
      <4>2. Between(a, d, b)
        BY <2>3, <3>3, <3>5, <4>1
      <4>3. IdOf(d) \in V
        BY <4>2
      <4>4. IdOf(c) <= IdOf(d)
        BY <2>1, <2>2, <4>3
      <4>5. IdOf(d) < IdOf(c) /\ IdOf(d) \in Int /\ IdOf(c) \in Int
        BY SMT, <2>5, <3>1, <3>2
      <4>. QED
        BY SMT, <4>4, <4>5
    <3>6. CASE IdOf(d) < IdOf(a)
      <4>. USE <2>5
      <4>1. Between(d, a, c)
        BY <3>1, <3>3, <3>6
      <4>2. IdOf(a) \in V
        BY <4>1
      <4>3. IdOf(c) <= IdOf(a)
        BY <2>1, <2>2, <4>2
      <4>. QED
        BY SMT, <4>3
    <3>. QED
      BY SMT, <2>5, <3>2, <3>4, <3>5, <3>6
  <2>. QED
    BY <2>7, <2>8
<1>. QED
  BY <1>3

------------------------------------------------------------------------------
(* The best prices                                                          *)

\* The orders of a price level.
At(s, p) == {b \in Resting : mem[b].side = s /\ mem[b].price = p}

\* A level has orders exactly when its counter is not 0.
LiveLevels == \A s \in Sides, p \in Levels : level[s][p].total # 0 <=> At(s, p) # {}

\* No order is better than the cached best prices, and no two orders cross.
BestBound ==
    \A b \in Resting : /\ mem[b].side = "YES" => mem[b].price <= best_bid_
                       /\ mem[b].side = "NO" => mem[b].price >= best_ask_
Uncrossed ==
    \A b, c \in Resting : mem[b].side = "YES" /\ mem[c].side = "NO" => mem[b].price < mem[c].price

\* Between calls the cached prices have orders.
Live ==
    pc \in {"idle", "return"} =>
        /\ best_bid_ # 0 => At("YES", best_bid_) # {}
        /\ best_ask_ # MaxPrice + 1 => At("NO", best_ask_) # {}

\* While place_limit has something left, what it has scanned is empty.
Swept ==
    pc \in {"scan", "match", "finish"} /\ mem[incoming].qty > 0 =>
        /\ \A b \in Resting : mem[b].side = Other(Side) =>
              IF Side = "YES" THEN mem[b].price >= ptr ELSE mem[b].price <= ptr
        /\ pc = "finish" => ~ ScanOn

\* All that is known of the prices.
Prices == BestBound /\ Uncrossed /\ Live /\ Swept

\* After the loops, when the book was within their starting prices.
LEMMA PrunedBounds ==
    ASSUME MemInv', LiveLevels', NEW b \in 0 .. MaxPrice, NEW a \in 1 .. MaxPrice + 1,
           best_bid_' = PrunedBid(level', b), best_ask_' = PrunedAsk(level', a),
           \A x \in Resting' : /\ mem'[x].side = "YES" => mem'[x].price <= b
                               /\ mem'[x].side = "NO" => mem'[x].price >= a
    PROVE  BestBound' /\ Live'
\* What the loops leave in best_bid_ and best_ask_.
<1>PrunedBest. ASSUME NEW lv, NEW x, x = PrunedBid(lv, b), NEW y, y = PrunedAsk(lv, a)
               PROVE  /\ x \in 0 .. MaxPrice /\ y \in 1 .. MaxPrice + 1
                      /\ x # 0 => lv["YES"][x].total # 0
                      /\ y # MaxPrice + 1 => lv["NO"][y].total # 0
                      /\ \A p \in 1 .. b : lv["YES"][p].total # 0 => p <= x
                      /\ \A p \in a .. MaxPrice : lv["NO"][p].total # 0 => p >= y
  <2>. USE <1>PrunedBest
  <2>. DEFINE L == {p \in 1 .. b : lv["YES"][p].total # 0}
              R == {p \in a .. MaxPrice : lv["NO"][p].total # 0}
  <2>1. MaxPrice \in Nat /\ b \in Nat /\ a \in Nat /\ 1 \in Nat
    BY SMT, Constants
  <2>2. L \subseteq 1 .. b /\ R \subseteq a .. MaxPrice
    BY SMT
  <2>3. /\ \A p \in 1 .. b : p \in L <=> lv["YES"][p].total # 0
        /\ \A p \in a .. MaxPrice : p \in R <=> lv["NO"][p].total # 0
        /\ \A p \in L : lv["YES"][p].total # 0
        /\ \A p \in R : lv["NO"][p].total # 0
    OBVIOUS
  <2>4. (L = {} => x = 0) /\ (L # {} => x = Max(L))
    BY DEF PrunedBid
  <2>5. (R = {} => y = MaxPrice + 1) /\ (R # {} => y = Min(R))
    BY DEF PrunedAsk
  <2>6. x \in 0 .. MaxPrice /\ y \in 1 .. MaxPrice + 1
    BY PrunedTypes
  <2>. HIDE DEF L, R
  <2>7. L # {} => x \in L /\ \A p \in L : x >= p
    <3>1. L # {} => Max(L) \in L /\ \A p \in L : Max(L) >= p
      BY <2>1, <2>2, Extremes
    <3>. QED
      BY <2>4, <3>1
  <2>8. R # {} => y \in R /\ \A p \in R : y <= p
    <3>1. R # {} => Min(R) \in R /\ \A p \in R : Min(R) <= p
      BY <2>1, <2>2, Extremes
    <3>. QED
      BY <2>5, <3>1
  <2>9. (x # 0 => lv["YES"][x].total # 0) /\ (y # MaxPrice + 1 => lv["NO"][y].total # 0)
    BY <2>3, <2>4, <2>5, <2>7, <2>8
  <2>10. ASSUME NEW p \in 1 .. b, lv["YES"][p].total # 0 PROVE p <= x
    <3>1. p \in L
      BY <2>3, <2>10
    <3>2. x >= p
      BY <2>7, <3>1
    <3>. QED
      BY SMT, <2>1, <2>6, <3>2
  <2>11. ASSUME NEW p \in a .. MaxPrice, lv["NO"][p].total # 0 PROVE p >= y
    <3>1. p \in R
      BY <2>3, <2>11
    <3>2. y <= p
      BY <2>8, <3>1
    <3>. QED
      BY SMT, <2>1, <2>6, <3>2
  <2>. QED
    BY <2>6, <2>9, <2>10, <2>11
<1>1. PICK lv, x, y : lv = level' /\ x = best_bid_' /\ y = best_ask_'
  OBVIOUS
<1>2. /\ x \in 0 .. MaxPrice /\ y \in 1 .. MaxPrice + 1
      /\ x # 0 => lv["YES"][x].total # 0
      /\ y # MaxPrice + 1 => lv["NO"][y].total # 0
      /\ \A p \in 1 .. b : lv["YES"][p].total # 0 => p <= x
      /\ \A p \in a .. MaxPrice : lv["NO"][p].total # 0 => p >= y
  BY SMT, <1>1, <1>PrunedBest
<1>3. \A s \in Sides, p \in Levels : lv[s][p].total # 0 <=> At(s, p)' # {}
  BY <1>1 DEF LiveLevels
<1>4. MaxPrice \in Nat /\ "YES" \in Sides /\ "NO" \in Sides
  BY Constants DEF Sides
<1>5. ASSUME NEW z \in Resting'
      PROVE  /\ mem'[z].side = "YES" => mem'[z].price <= x
             /\ mem'[z].side = "NO" => mem'[z].price >= y
  <2>1. PICK p \in 1 .. MaxPrice : p = mem'[z].price
    <3>. USE <1>5
    <3>1. mem' \in [Blocks -> Cells] /\ z \in Blocks
      BY SMT DEF MemInv, TypeOK, Cells, Ids, Resting
    <3>2. mem'[z].price \in 0 .. MaxPrice /\ mem'[z].price # 0
      BY <3>1 DEF Cells, MemInv, Registered
    <3>3. PICK v : v = mem'[z].price
      BY Zenon
    <3>4. v \in 0 .. MaxPrice /\ v # 0 /\ MaxPrice \in Nat
      BY Zenon, <1>4, <3>2, <3>3
    <3>5. v \in 1 .. MaxPrice
      BY SMT, <3>4
    <3>. QED
      BY Zenon, <3>3, <3>5
  <2>2. p \in Levels
    BY SMT, <1>4 DEF Levels
  <2>3. \A s \in Sides : mem'[z].side = s => z \in At(s, p)'
    BY <1>5, <2>1 DEF At
  <2>4. CASE mem'[z].side = "YES"
    <3>. USE <2>1, <2>4
    <3>1. p \in 1 .. b
      <4>1. p <= b
        BY <1>5
      <4>. QED
        BY SMT, <4>1
    <3>2. lv["YES"][p].total # 0
      BY <1>3, <1>4, <2>2, <2>3
    <3>. QED
      BY <1>2, <3>1, <3>2
  <2>5. CASE mem'[z].side = "NO"
    <3>. USE <2>1, <2>5, <1>4
    <3>1. p \in a .. MaxPrice
      <4>1. p >= a
        BY <1>5
      <4>. QED
        BY SMT, <4>1
    <3>2. lv["NO"][p].total # 0
      BY <1>3, <2>2, <2>3
    <3>. QED
      BY <1>2, <3>1, <3>2
  <2>. QED
    BY <2>4, <2>5
<1>6. Live'
  <2>. USE <1>2, <1>4
  <2>1. x \in Levels /\ y \in Levels
    BY SMT DEF Levels
  <2>. QED
    BY <1>1, <1>3, <2>1 DEF Live
<1>. QED
  BY <1>1, <1>5, <1>6 DEF BestBound

\* Every step preserves what is known of the prices.
LEMMA PricesInv ==
    ASSUME MemInv, MemInv', LiveLevels', Prices, [Next]_vars
    PROVE  Prices'
\* Orders that leave or shrink cross nothing and stay behind the best prices.
<1>FewerOrders. ASSUME BestBound, Uncrossed, Resting' \subseteq Resting,
                       UNCHANGED <<best_bid_, best_ask_>>,
                       \A x \in Resting' : mem'[x].side = mem[x].side /\ mem'[x].price = mem[x].price
                PROVE  BestBound' /\ Uncrossed'
  BY <1>FewerOrders DEF BestBound, Uncrossed
<1>FewerUncrossed. ASSUME Uncrossed, Resting' \subseteq Resting,
                          \A x \in Resting' : mem'[x].side = mem[x].side /\ mem'[x].price = mem[x].price
                   PROVE  Uncrossed'
  BY <1>FewerUncrossed DEF Uncrossed
<1>KeptOrders. ASSUME KeptBook
               PROVE  /\ Resting' \subseteq Resting
                      /\ \A x \in Resting' : mem'[x].side = mem[x].side /\ mem'[x].price = mem[x].price
  BY <1>KeptOrders DEF KeptBook
<1>LeftOrders. ASSUME NEW b, LeftBook(b)
               PROVE  /\ Resting' \subseteq Resting
                      /\ \A x \in Resting' : mem'[x].side = mem[x].side /\ mem'[x].price = mem[x].price
  BY <1>LeftOrders DEF LeftBook, SameOrder
\* place_limit starts at the best price of the other side: nothing is before it.
<1>PlaceLimitPrices. ASSUME NEW c \in Clients, NEW s \in Sides, NEW p \in Levels,
                            NEW q \in 0 .. MaxQty, PlaceLimit(c, s, p, q)
                     PROVE  Prices'
  <2>. USE <1>PlaceLimitPrices
  <2>1. /\ pc' = "scan" /\ UNCHANGED <<best_bid_, best_ask_>>
        /\ ptr' = IF s = "YES" THEN best_ask_ ELSE best_bid_
    BY DEF PlaceLimit, bookVars
  <2>2. PICK o : o = [order_id |-> next_order_id_, client |-> c, side |-> s, price |-> p,
                       qty |-> q, prev |-> NULL, next |-> NULL]
    OBVIOUS
  <2>3. KeptBook /\ mem'[incoming'] = o
    <3>1. KeptBook
      BY PlaceLimitInv
    <3>2. mem'[incoming'] = [order_id |-> next_order_id_, client |-> c, side |-> s, price |-> p,
                              qty |-> q, prev |-> NULL, next |-> NULL]
      BY Zenon, PlaceLimitInv
    <3>. QED
      BY Zenon, <2>2, <3>1, <3>2
  <2>. USE <2>3
  <2>4. Side' = s
    BY SMT, <2>2 DEF Side
  <2>5. BestBound' /\ Uncrossed'
    BY <2>1, <1>FewerOrders, <1>KeptOrders DEF Prices
  <2>6. ASSUME NEW b \in Resting', mem'[b].side = Other(s)
        PROVE  IF s = "YES" THEN mem'[b].price >= ptr' ELSE mem'[b].price <= ptr'
    <3>1. b \in Resting /\ mem[b].side = Other(s) /\ mem'[b].price = mem[b].price
      BY <2>6 DEF KeptBook
    <3>. QED
      BY <2>1, <3>1 DEF Prices, BestBound, Other, Sides
  <2>7. Swept' /\ Live'
    BY <2>1, <2>4, <2>6 DEF Swept, Live
  <2>. QED
    BY <2>5, <2>7 DEF Prices
\* The outer loop ends beyond the limit, or with nothing left.
<1>ScanPrices. ASSUME Scan
               PROVE  Prices'
  <2>. USE <1>ScanPrices
  <2>1. /\ pc = "scan" /\ pc' \in {"match", "finish"}
        /\ pc' = "finish" => ~ ScanOn \/ mem[incoming].qty = 0
        /\ UNCHANGED <<mem, level, orders_, best_bid_, best_ask_, incoming, ptr>>
    BY DEF Scan, poolVars, bookVars
  <2>. USE <2>1
  <2>2. Resting' = Resting /\ Side' = Side /\ (ScanOn' <=> ScanOn)
    BY DEF Resting, Side, ScanOn
  <2>. USE <2>2
  <2>3. BestBound' /\ Uncrossed' /\ Live'
    BY DEF Prices, BestBound, Uncrossed, Live
  <2>4. Swept'
    <3>1. ASSUME mem[incoming].qty > 0 PROVE mem[incoming].qty # 0
      BY SMT, <3>1
    <3>. QED
      BY <3>1 DEF Prices, Swept
  <2>. QED
    BY <2>3, <2>4 DEF Prices
\* A level is left behind when it is empty, or when nothing is left to match.
<1>NextLevelPrices. ASSUME NextLevel
                    PROVE  Prices'
  <2>. USE <1>NextLevelPrices
  <2>1. /\ pc = "match" /\ pc' = "scan" /\ ptr' = ptr + ScanDir
        /\ cur = NULL \/ mem[incoming].qty = 0
        /\ UNCHANGED <<mem, level, orders_, best_bid_, best_ask_, incoming>>
    BY DEF NextLevel, poolVars, bookVars
  <2>2. Resting' = Resting /\ Side' = Side
    BY <2>1 DEF Resting, Side
  <2>3. BestBound' /\ Uncrossed' /\ Live'
    BY <2>1, <2>2 DEF Prices, BestBound, Uncrossed, Live
  <2>4. ASSUME mem[incoming].qty > 0, NEW b \in Resting, mem[b].side = Other(Side)
        PROVE  IF Side = "YES" THEN mem[b].price >= ptr + ScanDir ELSE mem[b].price <= ptr + ScanDir
    <3>1. mem[b].price # ptr
      <4>1. SUFFICES ASSUME mem[b].price = ptr PROVE FALSE
        OBVIOUS
      <4>2. cur = level[Other(Side)][ptr].head
        BY <2>1 DEF MemInv, Held
      <4>3. cur \in Resting
        BY <2>4, <4>1, <4>2, HeadFirst DEF HeadIsOldest, LevelOf
      <4>4. cur # NULL
        BY <4>3, CellTypes, Constants DEF MemInv
      <4>5. mem[incoming].qty # 0
        BY SMT, <2>4
      <4>. QED
        BY <2>1, <4>4, <4>5
    <3>2. IF Side = "YES" THEN mem[b].price >= ptr ELSE mem[b].price <= ptr
      BY <2>1, <2>4 DEF Prices, Swept
    <3>3. mem[b].price \in 0 .. MaxPrice /\ ptr \in 0 .. MaxPrice + 1 /\ MaxPrice \in Nat
      BY <2>4, CellTypes, Constants DEF MemInv, TypeOK, Levels
    <3>. QED
      BY SMT, <3>1, <3>2, <3>3 DEF ScanDir
  <2>5. Swept'
    BY <2>1, <2>2, <2>4 DEF Swept
  <2>. QED
    BY <2>3, <2>5 DEF Prices
\* A match takes an order out, or uses up the incoming one.
<1>MatchPrices. ASSUME Match
                PROVE  Prices'
  <2>. USE <1>MatchPrices
  <2>1. pc = "match" /\ pc' \in {"match", "scan"} /\ UNCHANGED <<best_bid_, best_ask_, incoming>>
    BY DEF Match
  <2>. USE <2>1
  <2>2. CASE pc' = "scan"
    <3>1. ShrunkBook(cur, mem[incoming].qty) /\ mem'[incoming].qty = 0
      BY <2>2, MatchPartInv
    <3>. USE <3>1
    <3>2. /\ Resting' \subseteq Resting
          /\ \A x \in Resting' : mem'[x].side = mem[x].side /\ mem'[x].price = mem[x].price
      BY DEF ShrunkBook, SameOrder
    <3>3. BestBound' /\ Uncrossed'
      BY <3>2, <1>FewerOrders DEF Prices
    <3>4. ~ (mem'[incoming'].qty > 0)
      BY SMT
    <3>. QED
      BY <2>2, <3>3, <3>4 DEF Prices, Swept, Live
  <2>3. CASE pc' # "scan"
    <3>1. /\ LeftBook(cur) /\ SameOrder(incoming)
          /\ mem'[incoming].qty = mem[incoming].qty - mem[cur].qty /\ ptr' = ptr /\ pc' = "match"
          /\ mem[incoming].qty > 0
      BY <2>3, MatchFullInv DEF Match
    <3>. USE <3>1
    <3>2. /\ Resting' \subseteq Resting
          /\ \A x \in Resting' : mem'[x].side = mem[x].side /\ mem'[x].price = mem[x].price
      BY <1>LeftOrders
    <3>. USE <3>2
    <3>3. BestBound' /\ Uncrossed'
      BY <1>FewerOrders DEF Prices
    <3>4. Side' = Side
      BY DEF Side, SameOrder
    <3>5. Swept'
      BY <3>4 DEF Prices, Swept
    <3>. QED
      BY <3>3, <3>5 DEF Prices, Live
  <2>. QED
    BY <2>2, <2>3
\* The order rests once it crosses nothing.
<1>RestIncomingPrices. ASSUME RestIncoming
                       PROVE  Prices'
  <2>. USE <1>RestIncomingPrices
  <2>1. PICK i, s, p : i = incoming /\ s = mem[i].side /\ p = mem[i].price /\ s = Side
    BY DEF Side
  <2>2. pc = "finish" /\ pc' = "return" /\ mem[i].qty > 0
    BY <2>1 DEF RestIncoming
  <2>3. i \in Blocks /\ s \in Sides /\ p \in 1 .. MaxPrice
    BY <2>1, <2>2, Scanning DEF MemInv
  <2>4. PICK b, a : /\ b = IF s = "YES" THEN Max({best_bid_, p}) ELSE best_bid_
                    /\ a = IF s = "NO" THEN Min({best_ask_, p}) ELSE best_ask_
    OBVIOUS
  <2>5. JoinedBook(i) /\ best_bid_' = PrunedBid(level', b) /\ best_ask_' = PrunedAsk(level', a)
    BY <2>1, <2>4, RestIncomingInv
  <2>6. /\ Resting' = Resting \cup {i}
        /\ \A x \in Resting' : mem'[x].side = mem[x].side /\ mem'[x].price = mem[x].price
    BY <2>5 DEF JoinedBook, SameOrder
  <2>7. /\ best_bid_ \in 0 .. MaxPrice /\ best_ask_ \in 1 .. MaxPrice + 1 /\ MaxPrice \in Nat
        /\ \A x \in Resting : mem[x].price \in 0 .. MaxPrice /\ mem[x].side \in Sides
    BY CellTypes, Constants DEF MemInv, TypeOK
  <2>8. /\ b \in 0 .. MaxPrice /\ best_bid_ <= b /\ (s = "YES" => p <= b)
        /\ a \in 1 .. MaxPrice + 1 /\ a <= best_ask_ /\ (s = "NO" => a <= p)
    <3>1. PICK x, y : x = Max({best_bid_, p}) /\ y = Min({best_ask_, p})
      OBVIOUS
    <3>. USE <3>1
    <3>0. best_bid_ \in Int /\ best_ask_ \in Int /\ p \in Int
      BY SMT, <2>3, <2>7
    <3>2. x \in {best_bid_, p} /\ x >= best_bid_ /\ x >= p /\ y \in {best_ask_, p} /\ y <= best_ask_ /\ y <= p
      BY <3>0, OfTwo
    <3>3. (b = best_bid_ /\ s # "YES") \/ b = x
      BY <2>4
    <3>4. (a = best_ask_ /\ s # "NO") \/ a = y
      BY <2>4
    <3>5. p \in 0 .. MaxPrice /\ p \in 1 .. MaxPrice + 1 /\ best_bid_ <= best_bid_ /\ best_ask_ <= best_ask_
      BY SMT, <2>3, <2>7
    <3>6. x \in 0 .. MaxPrice /\ best_bid_ <= x /\ p <= x
      BY Zenon, <2>7, <3>2, <3>5
    <3>7. y \in 1 .. MaxPrice + 1 /\ y <= best_ask_ /\ y <= p
      BY SMT, <2>7, <3>0, <3>2, <3>5
    <3>8. b \in 0 .. MaxPrice /\ best_bid_ <= b /\ (s = "YES" => p <= b)
      BY Zenon, <2>7, <3>3, <3>5, <3>6
    <3>9. a \in 1 .. MaxPrice + 1 /\ a <= best_ask_ /\ (s = "NO" => a <= p)
      BY Zenon, <2>7, <3>4, <3>5, <3>7
    <3>. QED
      BY Zenon, <3>8, <3>9
  <2>9. ASSUME NEW x \in Resting'
        PROVE  /\ mem'[x].side = "YES" => mem'[x].price <= b
               /\ mem'[x].side = "NO" => mem'[x].price >= a
    <3>. USE <2>6
    <3>1. CASE x = i
      <4>1. mem'[x].side = s /\ mem'[x].price = p
        BY <2>1, <2>9, <3>1
      <4>. QED
        BY SMT, <2>3, <2>8, <4>1
    <3>2. CASE x \in Resting
      <4>. USE <2>7
      <4>1. /\ mem'[x].side = mem[x].side /\ mem'[x].price = mem[x].price /\ mem[x].price \in 0 .. MaxPrice
            /\ mem[x].side = "YES" => mem[x].price <= best_bid_
            /\ mem[x].side = "NO" => mem[x].price >= best_ask_
        BY <2>9, <3>2 DEF Prices, BestBound
      <4>. QED
        BY SMT, <2>8, <4>1
    <3>. QED
      BY <3>1, <3>2
  <2>10. BestBound' /\ Live'
    BY <2>5, <2>8, <2>9, PrunedBounds
  <2>11. ASSUME NEW x \in Resting, mem[x].side = Other(s)
         PROVE  IF s = "YES" THEN mem[x].price > p ELSE mem[x].price < p
    <3>. USE <2>11, <2>7
    <3>1. /\ IF s = "YES" THEN mem[x].price >= ptr ELSE mem[x].price <= ptr
          /\ ~ IF s = "YES" THEN ptr <= p ELSE ptr >= p
      BY <2>1, <2>2 DEF Prices, Swept, ScanOn
    <3>2. mem[x].price \in 0 .. MaxPrice /\ ptr \in 0 .. MaxPrice + 1
      BY DEF MemInv, TypeOK, Levels
    <3>. QED
      BY SMT, <2>3, <3>1, <3>2
  <2>12. ASSUME NEW x \in Resting', NEW y \in Resting', mem'[x].side = "YES", mem'[y].side = "NO"
         PROVE  mem'[x].price < mem'[y].price
    <3>1. /\ mem[x].side = "YES" /\ mem'[x].price = mem[x].price
          /\ mem[y].side = "NO" /\ mem'[y].price = mem[y].price
      BY <2>6, <2>12
    <3>. USE <3>1
    <3>2. x # y
      OBVIOUS
    <3>3. CASE x = i
      <4>. USE <2>1, <3>3
      <4>1. y \in Resting /\ s = "YES" /\ mem[y].side = Other(s)
        BY <2>6, <3>2 DEF Other
      <4>2. mem[y].price > p /\ mem[y].price \in 0 .. MaxPrice
        BY <2>7, <2>11, <4>1
      <4>. QED
        BY SMT, <2>3, <4>2
    <3>4. CASE y = i
      <4>. USE <2>1, <3>4
      <4>1. x \in Resting /\ s = "NO" /\ mem[x].side = Other(s)
        BY <2>6, <3>2 DEF Other
      <4>2. mem[x].price < p
        BY <2>11, <4>1
      <4>. QED
        BY <4>2
    <3>5. CASE x # i /\ y # i
      BY <2>6, <3>5 DEF Prices, Uncrossed
    <3>. QED
      BY <3>3, <3>4, <3>5
  <2>13. Uncrossed'
    BY <2>12 DEF Uncrossed
  <2>14. Swept'
    BY <2>2 DEF Swept
  <2>. QED
    BY <2>10, <2>13, <2>14 DEF Prices
\* The other ends of calls.
<1>FreeIncomingPrices. ASSUME FreeIncoming
                       PROVE  Prices'
  <2>. USE <1>FreeIncomingPrices
  <2>1. /\ pc' = "return" /\ best_bid_' = PrunedBid(level', best_bid_) /\ best_ask_' = PrunedAsk(level', best_ask_)
    BY DEF FreeIncoming
  <2>2. /\ Resting' \subseteq Resting
        /\ \A x \in Resting' : mem'[x].side = mem[x].side /\ mem'[x].price = mem[x].price
    BY FreeIncomingInv, <1>KeptOrders
  <2>3. Uncrossed'
    BY <2>2, <1>FewerUncrossed DEF Prices
  <2>4. \A x \in Resting' : /\ mem'[x].side = "YES" => mem'[x].price <= best_bid_
                            /\ mem'[x].side = "NO" => mem'[x].price >= best_ask_
    BY <2>2 DEF Prices, BestBound
  <2>5. BestBound' /\ Live'
    BY <2>1, <2>4, PrunedBounds DEF MemInv, TypeOK
  <2>6. Swept'
    BY <2>1 DEF Swept
  <2>. QED
    BY <2>3, <2>5, <2>6 DEF Prices
<1>CancelPrices. ASSUME NEW id \in 0 .. MaxOrders, NEW c, Cancel(id, c)
                 PROVE  Prices'
  <2>. USE <1>CancelPrices
  <2>1. /\ LeftBook(orders_[id])
        /\ best_bid_' = PrunedBid(level', best_bid_) /\ best_ask_' = PrunedAsk(level', best_ask_)
    BY CancelInv
  <2>2. pc' = "idle"
    BY DEF Cancel, callVars
  <2>3. /\ Resting' \subseteq Resting
        /\ \A x \in Resting' : mem'[x].side = mem[x].side /\ mem'[x].price = mem[x].price
    BY <2>1, <1>LeftOrders
  <2>4. Uncrossed'
    BY <2>3, <1>FewerUncrossed DEF Prices
  <2>5. \A x \in Resting' : /\ mem'[x].side = "YES" => mem'[x].price <= best_bid_
                            /\ mem'[x].side = "NO" => mem'[x].price >= best_ask_
    BY <2>3 DEF Prices, BestBound
  <2>6. BestBound' /\ Live'
    BY <2>1, <2>5, PrunedBounds DEF MemInv, TypeOK
  <2>7. Swept'
    BY <2>2 DEF Swept
  <2>. QED
    BY <2>4, <2>6, <2>7 DEF Prices
<1>ReturnPrices. ASSUME Return
                 PROVE  Prices'
  <2>. USE <1>ReturnPrices
  <2>1. pc = "return" /\ pc' = "idle" /\ UNCHANGED <<mem, orders_, best_bid_, best_ask_>>
    BY DEF Return, poolVars, bookVars
  <2>. USE <2>1
  <2>2. Resting' = Resting
    BY DEF Resting
  <2>. QED
    BY <2>2 DEF Prices, BestBound, Uncrossed, Live, Swept, At
<1>1. ASSUME UNCHANGED vars PROVE Prices'
  <2>1. UNCHANGED <<mem, orders_, best_bid_, best_ask_, pc, incoming, ptr>>
    BY <1>1 DEF vars
  <2>. USE <2>1
  <2>2. Resting' = Resting /\ Side' = Side /\ (ScanOn' <=> ScanOn)
    BY DEF Resting, Side, ScanOn
  <2>. QED
    BY <2>2 DEF Prices, BestBound, Uncrossed, Live, Swept, At
<1>. USE <1>1
<1>2. ASSUME NEW c \in Clients, NEW s \in Sides, NEW p \in Levels, NEW q \in 0 .. MaxQty, PlaceLimit(c, s, p, q)
      PROVE  Prices'
  BY <1>2, <1>PlaceLimitPrices
<1>3. CASE Steps
  BY <1>3, <1>ScanPrices, <1>MatchPrices, <1>NextLevelPrices, <1>RestIncomingPrices,
     <1>FreeIncomingPrices, <1>ReturnPrices DEF Steps
<1>4. ASSUME NEW id \in 0 .. MaxOrders, NEW c \in Clients \cup Strangers, Cancel(id, c) PROVE Prices'
  BY <1>4, <1>CancelPrices
<1>5. ASSUME NEW p, NEW q, Reject(p, q) PROVE Prices'
  BY <1>5 DEF Reject
<1>6. ASSUME NEW id, NEW c, CancelRefused(id, c) PROVE Prices'
  BY <1>6 DEF CancelRefused
<1>. QED
  BY <1>2, <1>3, <1>4, <1>5, <1>6 DEF Next

\* Between calls best_bid_ and best_ask_ are the best prices of the resting orders.
LEMMA BestsAreExact ==
    ASSUME MemInv, Prices
    PROVE  BestsExact
<1>1. SUFFICES ASSUME pc \in {"idle", "return"}
      PROVE  /\ best_bid_ = Max({mem[b].price : b \in {x \in Resting : mem[x].side = "YES"}} \cup {0})
             /\ best_ask_ = Min({mem[b].price : b \in {x \in Resting : mem[x].side = "NO"}} \cup {MaxPrice + 1})
             /\ best_bid_ < best_ask_
  BY DEF BestsExact
<1>2. PICK B, A : /\ B = {mem[b].price : b \in {x \in Resting : mem[x].side = "YES"}} \cup {0}
                  /\ A = {mem[b].price : b \in {x \in Resting : mem[x].side = "NO"}} \cup {MaxPrice + 1}
  OBVIOUS
<1>3. /\ best_bid_ \in 0 .. MaxPrice /\ best_ask_ \in 1 .. MaxPrice + 1 /\ MaxPrice \in Nat
      /\ \A x \in Resting : mem[x].price \in 0 .. MaxPrice
  BY CellTypes, Constants DEF MemInv, TypeOK
<1>4. \A p \in B : p \in 0 .. MaxPrice + 1 /\ p <= best_bid_
  <2>1. SUFFICES ASSUME NEW p \in B PROVE p \in 0 .. MaxPrice + 1 /\ p <= best_bid_
    OBVIOUS
  <2>2. p = 0 \/ \E x \in Resting : mem[x].side = "YES" /\ p = mem[x].price
    BY <1>2
  <2>3. ASSUME NEW x \in Resting, mem[x].side = "YES"
        PROVE  mem[x].price \in 0 .. MaxPrice /\ mem[x].price <= best_bid_
    BY <1>3, <2>3 DEF Prices, BestBound
  <2>4. p = 0 \/ (p \in 0 .. MaxPrice /\ p <= best_bid_)
    BY SMT, <2>2, <2>3
  <2>. QED
    BY SMT, <1>3, <2>4
<1>5. \A p \in A : p \in 0 .. MaxPrice + 1 /\ p >= best_ask_
  <2>1. SUFFICES ASSUME NEW p \in A PROVE p \in 0 .. MaxPrice + 1 /\ p >= best_ask_
    OBVIOUS
  <2>2. p = MaxPrice + 1 \/ \E x \in Resting : mem[x].side = "NO" /\ p = mem[x].price
    BY <1>2
  <2>3. ASSUME NEW x \in Resting, mem[x].side = "NO"
        PROVE  mem[x].price \in 0 .. MaxPrice /\ mem[x].price >= best_ask_
    BY <1>3, <2>3 DEF Prices, BestBound
  <2>4. p = MaxPrice + 1 \/ (p \in 0 .. MaxPrice /\ p >= best_ask_)
    BY SMT, <2>2, <2>3
  <2>. QED
    BY SMT, <1>3, <2>4
<1>6. /\ best_bid_ # 0 => \E x \in Resting : mem[x].side = "YES" /\ mem[x].price = best_bid_
      /\ best_ask_ # MaxPrice + 1 => \E x \in Resting : mem[x].side = "NO" /\ mem[x].price = best_ask_
  BY <1>1 DEF Prices, Live, At
<1>7. best_bid_ \in B /\ best_ask_ \in A
  BY <1>2, <1>6
<1>8. /\ Max(B) \in B /\ \A p \in B : Max(B) >= p
      /\ Min(A) \in A /\ \A p \in A : Min(A) <= p
  <2>1. B \subseteq 0 .. MaxPrice + 1 /\ B # {} /\ A \subseteq 0 .. MaxPrice + 1 /\ A # {}
    BY <1>4, <1>5, <1>7
  <2>. USE <2>1
  <2>2. PICK lo, hi \in Nat : lo = 0 /\ hi = MaxPrice + 1
    BY SMT, <1>3
  <2>3. B \subseteq lo .. hi /\ A \subseteq lo .. hi
    BY <2>2
  <2>. USE <2>3
  <2>4. Max(B) \in B /\ \A p \in B : Max(B) >= p
    BY Extremes
  <2>5. Min(A) \in A /\ \A p \in A : Min(A) <= p
    BY Extremes
  <2>. QED
    BY <2>4, <2>5
<1>9. best_bid_ = Max(B)
  <2>1. PICK m : m = Max(B) /\ m >= best_bid_ /\ m <= best_bid_ /\ m \in 0 .. MaxPrice + 1
    BY <1>4, <1>7, <1>8
  <2>. QED
    BY SMT, <1>3, <2>1
<1>10. best_ask_ = Min(A)
  <2>1. PICK m : m = Min(A) /\ m >= best_ask_ /\ m <= best_ask_ /\ m \in 0 .. MaxPrice + 1
    BY <1>5, <1>7, <1>8
  <2>. QED
    BY SMT, <1>3, <2>1
<1>11. best_bid_ < best_ask_
  <2>1. best_bid_ = 0 \/ best_ask_ = MaxPrice + 1 \/ best_bid_ < best_ask_
    BY <1>6 DEF Prices, Uncrossed
  <2>. QED
    BY SMT, <1>3, <2>1
<1>. QED
  BY <1>2, <1>9, <1>10, <1>11
==============================================================================
