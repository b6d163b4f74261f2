---------------------------- MODULE QuoterProofs -----------------------------
(***************************************************************************)
(* Proofs, for any price range, minimum spread, quantities and number of   *)
(* deltas, that the book's best bids are exact, that the venue has exactly *)
(* the orders OrderManager believes open less those it has itself taken    *)
(* off, that our own two quotes never meet, at every point of a bundle,    *)
(* and that a bundle has room for what reconcile puts into it.             *)
(***************************************************************************)
EXTENDS Quoter, SequenceTheorems, FiniteSetTheorems, TLAPS

------------------------------------------------------------------------------
(* The inductive invariant                                                  *)

Levels == [Sides -> [Prices -> 0 .. MaxLevel]]
Deltas == [side : Sides, price : Prices, delta : Int]

Applied(levels, d) == [levels EXCEPT ![d.side][d.price] = @ + d.delta]

\* The deltas on their way lead from our book to the venue's, through books
\* the venue had: no level is ever negative on the way.
FeedLeads ==
    /\ feed \in Seq(Deltas)
    /\ \E h \in [0 .. Len(feed) -> Levels] :
          /\ h[0] = levels_
          /\ h[Len(feed)] = venue
          /\ \A k \in 1 .. Len(feed) : h[k] = Applied(h[k - 1], feed[k])

\* b is the best price of one side of the book.
IsBest(levels, b) ==
    /\ b \in 0 .. Par - 1
    /\ b # 0 => levels[b] > 0
    /\ \A p \in Prices : levels[p] > 0 => p <= b

BestsExact == \A s \in Sides : IsBest(levels_[s], best_[s])

Ids == 1 .. next_client_id_ - 1

OrderTypes ==
    /\ open_ \in [Sides -> [open : BOOLEAN, price : 0 .. Par - 1, client_id : Nat]]
    /\ next_client_id_ \in Nat \ {0}
    /\ \A s \in Sides : open_[s].open => open_[s].price \in Prices /\ open_[s].client_id \in Ids
    /\ open_["YES"].open /\ open_["NO"].open => open_["YES"].client_id # open_["NO"].client_id

Other(s) == IF s = "YES" THEN "NO" ELSE "YES"
IsOpen(s) == open_[s].open = TRUE
AtQuote(s) == IF Active(best_) THEN IsOpen(s) /\ open_[s].price = QuotePrice(best_, s) ELSE ~ IsOpen(s)

\* An id that no open order has.
Fresh(id) == id \in Ids /\ \A s \in Sides : IsOpen(s) => open_[s].client_id # id

\* A PLACE of what the book calls for on side s.
Quote(s, id) == Place(s, QuotePrice(best_, s), id)

\* What a bundle can be while it is being sent: a delta changes one best bid
\* only, so either one side is replaced, or both are opened, or both closed.
Phase ==
    \/ bundle = <<>> /\ AtQuote("YES") /\ AtQuote("NO")
    \/ \E s \in Sides, id \in Ids :
          /\ Active(best_) /\ AtQuote(Other(s)) /\ IsOpen(s) /\ Fresh(id)
          /\ bundle = <<CancelOf(s), Quote(s, id)>>
    \/ \E s \in Sides, id \in Ids :
          /\ Active(best_) /\ AtQuote(Other(s)) /\ ~ IsOpen(s) /\ Fresh(id)
          /\ bundle = <<Quote(s, id)>>
    \/ \E id1, id2 \in Ids :
          /\ Active(best_) /\ ~ IsOpen("YES") /\ ~ IsOpen("NO") /\ id1 # id2
          /\ bundle = <<Quote("YES", id1), Quote("NO", id2)>>
    \/ /\ ~ Active(best_) /\ IsOpen("YES") /\ IsOpen("NO")
       /\ bundle = <<CancelOf("YES"), CancelOf("NO")>>
    \/ /\ ~ Active(best_) /\ ~ IsOpen("YES") /\ IsOpen("NO")
       /\ bundle = <<CancelOf("NO")>>

\* The orders the venue has taken off are believed open.
GoneKnown == gone \subseteq {open_[s].client_id : s \in {x \in Sides : IsOpen(x)}}

QInv ==
    /\ venue \in Levels /\ levels_ \in Levels /\ deltas \in 0 .. MaxDeltas
    /\ best_ \in [Sides -> 0 .. Par - 1]
    /\ FeedLeads /\ BestsExact /\ OrderTypes /\ Phase /\ NoOrphans /\ NeverSelfCrossed
    /\ GoneKnown

------------------------------------------------------------------------------
(* The book                                                                 *)

\* The highest price with quantity is what Max finds.
LEMMA BestIsMax ==
    ASSUME NEW levels \in [Prices -> 0 .. MaxLevel], NEW b, IsBest(levels, b)
    PROVE  b = Max({0} \cup {p \in Prices : levels[p] > 0})
<1>. DEFINE S == {0} \cup {p \in Prices : levels[p] > 0}
<1>1. b \in S /\ b \in Int
  BY QuoterAssumption DEF IsBest, Prices
<1>2. \A x \in S : x \in Int
  BY DEF Prices
<1>3. \A x \in S : b >= x
  BY <1>1, <1>2 DEF IsBest
<1>. HIDE DEF S
<1>4. \A x \in S : (\A y \in S : x >= y) => x = b
  BY <1>1, <1>2, <1>3
<1>5. b = Max(S)
  BY Zenon, <1>1, <1>3, <1>4 DEF Max
<1>. QED
  BY <1>5 DEF S

\* Raising the best price or walking it down finds the new one.
LEMMA NewBestExact ==
    ASSUME NEW old \in [Prices -> 0 .. MaxLevel], NEW levels \in [Prices -> 0 .. MaxLevel],
           NEW p \in Prices, \A x \in Prices \ {p} : levels[x] = old[x],
           NEW best, IsBest(old, best), NEW new \in 0 .. Par - 1, NewBest(levels, best, p, new)
    PROVE  IsBest(levels, new)
<1>1. best \in 0 .. Par - 1 /\ p \in 1 .. Par - 1 /\ Par \in Nat
  BY QuoterAssumption DEF IsBest, Prices
<1>2. \A x \in Prices : x \in Nat \ {0} /\ levels[x] \in Nat /\ old[x] \in Nat
  BY QuoterAssumption DEF Prices
<1>3. CASE levels[p] > 0 /\ p > best
  BY <1>1, <1>2, <1>3 DEF NewBest, IsBest
<1>4. CASE p = best /\ levels[p] = 0
  <2>1. /\ new \in 0 .. best
        /\ new # 0 => levels[new] # 0
        /\ \A x \in new + 1 .. best : levels[x] = 0
    BY <1>1, <1>2, <1>4 DEF NewBest
  <2>2. new # 0 => new \in Prices
    BY <1>1 DEF Prices
  <2>3. new # 0 => levels[new] > 0
    BY <1>2, <2>1, <2>2
  <2>4. ASSUME NEW x \in Prices, levels[x] > 0 PROVE x <= new
    <3>1. x # p
      BY <1>4, <2>4
    <3>2. x <= best
      BY <1>2, <2>4, <3>1 DEF IsBest
    <3>3. x \notin new + 1 .. best
      BY <1>2, <2>1, <2>4
    <3>. QED
      BY <1>1, <1>2, <3>2, <3>3
  <2>. QED
    BY <2>3, <2>4 DEF IsBest
<1>5. CASE ~ (levels[p] > 0 /\ p > best) /\ ~ (p = best /\ levels[p] = 0)
  <2>1. new = best
    BY <1>5 DEF NewBest
  <2>2. best # 0 => levels[best] > 0
    BY <1>1, <1>2, <1>5 DEF IsBest, Prices
  <2>3. ASSUME NEW x \in Prices, levels[x] > 0 PROVE x <= best
    BY <1>1, <1>2, <1>5, <2>3 DEF IsBest
  <2>. QED
    BY <2>1, <2>2, <2>3 DEF IsBest
<1>. QED
  BY <1>3, <1>4, <1>5

\* The venue announces what it does.
LEMMA VenueFeed ==
    ASSUME QInv, NEW s \in Sides, NEW p \in Prices, NEW d \in Int, VenueChanges(s, p, d)
    PROVE  venue' \in Levels /\ FeedLeads'
<1>. DEFINE r == [side |-> s, price |-> p, delta |-> d]
            n == Len(feed)
<1>1. /\ venue' = [venue EXCEPT ![s][p] = venue[s][p] + d]
      /\ venue[s][p] + d \in 0 .. MaxLevel
      /\ feed' = Append(feed, r)
      /\ levels_' = levels_
  BY DEF VenueChanges
<1>2. venue \in Levels /\ feed \in Seq(Deltas) /\ n \in Nat
  BY DEF QInv, FeedLeads
<1>3. venue' \in Levels
  BY <1>1, <1>2 DEF Levels
<1>4. r \in Deltas /\ r.side = s /\ r.price = p /\ r.delta = d
  BY DEF Deltas
<1>5. venue' = Applied(venue, r)
  BY <1>1, <1>4 DEF Applied
<1>6. PICK h \in [0 .. n -> Levels] :
          /\ h[0] = levels_
          /\ h[n] = venue
          /\ \A k \in 1 .. n : h[k] = Applied(h[k - 1], feed[k])
  BY DEF QInv, FeedLeads
<1>. HIDE DEF r
<1>7. /\ feed' \in Seq(Deltas) /\ Len(feed') = n + 1 /\ feed'[n + 1] = r
      /\ \A k \in 1 .. n : feed'[k] = feed[k]
  BY <1>1, <1>2, <1>4
<1>. DEFINE g == [k \in 0 .. n + 1 |-> IF k = n + 1 THEN venue' ELSE h[k]]
<1>8. g \in [0 .. n + 1 -> Levels]
  BY <1>2, <1>3
<1>9. g[0] = levels_ /\ g[n + 1] = venue'
  BY <1>2, <1>6
<1>10. \A k \in 1 .. n + 1 : g[k] = Applied(g[k - 1], feed'[k])
  <2>1. ASSUME NEW k \in 1 .. n PROVE g[k] = Applied(g[k - 1], feed'[k])
    <3>1. g[k] = h[k] /\ g[k - 1] = h[k - 1]
      BY <1>2
    <3>. QED
      BY <1>6, <1>7, <3>1
  <2>2. g[n + 1] = Applied(g[(n + 1) - 1], feed'[n + 1])
    BY <1>2, <1>5, <1>6, <1>7
  <2>. HIDE DEF g
  <2>3. SUFFICES ASSUME NEW k \in 1 .. n + 1 PROVE g[k] = Applied(g[k - 1], feed'[k])
    OBVIOUS
  <2>4. CASE k = n + 1
    BY <2>2, <2>4
  <2>5. CASE k # n + 1
    BY <1>2, <2>1, <2>5
  <2>. QED
    BY <2>4, <2>5
<1>. HIDE DEF g, n
<1>11. \E f \in [0 .. n + 1 -> Levels] :
          /\ f[0] = levels_
          /\ f[n + 1] = venue'
          /\ \A k \in 1 .. n + 1 : f[k] = Applied(f[k - 1], feed'[k])
  BY Zenon, <1>8, <1>9, <1>10
<1>12. levels_' = levels_
  BY <1>1
<1>13. FeedLeads'
  BY <1>7, <1>11, <1>12 DEF FeedLeads
<1>. QED
  BY <1>3, <1>13

\* Applying the oldest delta leads to a book the venue had.
LEMMA DeltaFeed ==
    ASSUME QInv, OnDelta
    PROVE  /\ Head(feed) \in Deltas
           /\ levels_' \in Levels
           /\ levels_' = Applied(levels_, Head(feed))
           /\ FeedLeads'
<1>. DEFINE n == Len(feed)
<1>1. /\ feed # <<>> /\ feed' = Tail(feed) /\ venue' = venue
      /\ levels_' = Applied(levels_, Head(feed))
  BY Zenon DEF OnDelta, Applied
<1>2. feed \in Seq(Deltas) /\ n \in Nat /\ n # 0
  BY <1>1 DEF QInv, FeedLeads
<1>3. /\ Head(feed) = feed[1] /\ feed[1] \in Deltas
      /\ feed' \in Seq(Deltas) /\ Len(feed') = n - 1
      /\ \A k \in 1 .. n - 1 : feed'[k] = feed[k + 1]
  BY <1>1, <1>2
<1>4. PICK h \in [0 .. n -> Levels] :
          /\ h[0] = levels_
          /\ h[n] = venue
          /\ \A k \in 1 .. n : h[k] = Applied(h[k - 1], feed[k])
  BY Zenon DEF QInv, FeedLeads
<1>5. levels_' = h[1] /\ h[1] \in Levels
  <2>1. h[1] = Applied(h[0], feed[1])
    BY <1>2, <1>4
  <2>. QED
    BY <1>1, <1>2, <1>3, <1>4, <2>1
<1>. DEFINE g == [k \in 0 .. n - 1 |-> h[k + 1]]
<1>6. g \in [0 .. n - 1 -> Levels]
  BY <1>2
<1>7. g[0] = levels_' /\ g[n - 1] = venue
  BY <1>2, <1>4, <1>5
<1>8. ASSUME NEW k \in 1 .. n - 1 PROVE g[k] = Applied(g[k - 1], feed'[k])
  <2>1. g[k] = h[k + 1] /\ g[k - 1] = h[k]
    BY <1>2
  <2>2. h[k + 1] = Applied(h[(k + 1) - 1], feed[k + 1])
    BY <1>2, <1>4
  <2>. QED
    BY <1>2, <1>3, <2>1, <2>2
<1>. HIDE DEF g, n
<1>9. \E f \in [0 .. n - 1 -> Levels] :
          /\ f[0] = levels_'
          /\ f[n - 1] = venue
          /\ \A k \in 1 .. n - 1 : f[k] = Applied(f[k - 1], feed'[k])
  BY Zenon, <1>6, <1>7, <1>8
<1>. QED
  BY Zenon, <1>1, <1>3, <1>5, <1>9 DEF FeedLeads

------------------------------------------------------------------------------
(* The orders                                                               *)

\* How many ids the bundles take that occur.
LEMMA PlacesCount ==
    /\ Places(<<>>) = 0
    /\ \A c : c.kind = "CANCEL" => Places(<<c>>) = 0
    /\ \A c, d : c.kind = "CANCEL" /\ d.kind = "CANCEL" => Places(<<c, d>>) = 0
    /\ \A p : p.kind = "PLACE" => Places(<<p>>) = 1
    /\ \A c, p : c.kind = "CANCEL" /\ p.kind = "PLACE" => Places(<<c, p>>) = 1
    /\ \A p, r : p.kind = "PLACE" /\ r.kind = "PLACE" => Places(<<p, r>>) = 2
<1>1. Cardinality({}) = 0 /\ (\A x : Cardinality({x}) = 1)
  BY FS_EmptySet, FS_Singleton
<1>2. Cardinality({1, 2}) = 2
  <2>. DEFINE a == 1
              b == 2
  <2>1. a \in Int /\ b \in Int /\ ~ (a > b) /\ b - a + 1 = 2
    OBVIOUS
  <2>. HIDE DEF a, b
  <2>2. Cardinality(a .. b) = 2
    BY <2>1, FS_Interval
  <2>3. a .. b = {1, 2}
    BY DEF a, b
  <2>. QED
    BY Zenon, <2>2, <2>3
<1>3. Places(<<>>) = 0
  <2>1. {i \in DOMAIN <<>> : <<>>[i].kind = "PLACE"} = {}
    OBVIOUS
  <2>. QED
    BY <1>1, <2>1 DEF Places
<1>4. ASSUME NEW p, p.kind = "PLACE" PROVE Places(<<p>>) = 1
  <2>1. {i \in DOMAIN <<p>> : <<p>>[i].kind = "PLACE"} = {1}
    BY <1>4
  <2>. QED
    BY <1>1, <2>1, Zenon DEF Places
<1>5. ASSUME NEW c, c.kind = "CANCEL" PROVE Places(<<c>>) = 0
  <2>1. {i \in DOMAIN <<c>> : <<c>>[i].kind = "PLACE"} = {}
    BY <1>5
  <2>. QED
    BY <1>1, <2>1, Zenon DEF Places
<1>6. ASSUME NEW c, NEW p, c.kind = "CANCEL", p.kind = "PLACE" PROVE Places(<<c, p>>) = 1
  <2>1. {i \in DOMAIN <<c, p>> : <<c, p>>[i].kind = "PLACE"} = {2}
    BY <1>6
  <2>. QED
    BY <1>1, <2>1, Zenon DEF Places
<1>7. ASSUME NEW p, NEW r, p.kind = "PLACE", r.kind = "PLACE" PROVE Places(<<p, r>>) = 2
  <2>1. {i \in DOMAIN <<p, r>> : <<p, r>>[i].kind = "PLACE"} = {1, 2}
    BY <1>7
  <2>. QED
    BY <1>2, <2>1, Zenon DEF Places
<1>8. ASSUME NEW c, NEW d, c.kind = "CANCEL", d.kind = "CANCEL" PROVE Places(<<c, d>>) = 0
  <2>1. {i \in DOMAIN <<c, d>> : <<c, d>>[i].kind = "PLACE"} = {}
    BY <1>8
  <2>. QED
    BY <1>1, <2>1, Zenon DEF Places
<1>. QED
  BY <1>3, <1>4, <1>5, <1>6, <1>7, <1>8

\* Two short bundles, one after the other.
LEMMA Concatenated ==
    /\ <<>> \o <<>> = <<>>
    /\ \A x, y : /\ <<x, y>> \o <<>> = <<x, y>>
                 /\ <<>> \o <<x, y>> = <<x, y>>
                 /\ <<x>> \o <<y>> = <<x, y>>
<1>. SUFFICES ASSUME NEW x, NEW y
              PROVE  /\ <<>> \o <<>> = <<>>
                     /\ <<x, y>> \o <<>> = <<x, y>>
                     /\ <<>> \o <<x, y>> = <<x, y>>
                     /\ <<x>> \o <<y>> = <<x, y>>
  BY Zenon
<1>1. <<>> \in Seq({x, y}) /\ <<x>> \in Seq({x, y}) /\ <<y>> \in Seq({x, y}) /\ <<x, y>> \in Seq({x, y})
  OBVIOUS
<1>2. /\ <<>> \o <<>> = <<>>
      /\ <<x, y>> \o <<>> = <<x, y>>
      /\ <<>> \o <<x, y>> = <<x, y>>
  BY <1>1, ConcatEmptySeq, Zenon
<1>3. <<x>> \o <<y>> = <<x, y>>
  <2>. DEFINE t == <<x>> \o <<y>>
  <2>1. Len(<<x>>) = 1 /\ Len(<<y>>) = 1 /\ <<x>>[1] = x /\ <<y>>[1] = y
    OBVIOUS
  <2>2. /\ t \in Seq({x, y})
        /\ Len(t) = Len(<<x>>) + Len(<<y>>)
        /\ \A i \in 1 .. Len(<<x>>) + Len(<<y>>) :
              t[i] = IF i <= Len(<<x>>) THEN <<x>>[i] ELSE <<y>>[i - Len(<<x>>)]
    BY <1>1, ConcatProperties, Zenon
  <2>. HIDE DEF t
  <2>3. Len(t) = 2 /\ t[1] = x /\ t[2] = y
    BY <2>1, <2>2
  <2>4. t = <<x, y>>
    BY <2>2, <2>3
  <2>. QED
    BY <2>4 DEF t
<1>. QED
  BY <1>2, <1>3

\* An active book leaves room for both quotes.
LEMMA QuotesApart ==
    ASSUME NEW best \in [Sides -> 0 .. Par - 1], Active(best)
    PROVE  /\ \A s \in Sides : QuotePrice(best, s) \in Prices
           /\ QuotePrice(best, "YES") + QuotePrice(best, "NO") < Par
<1>1. best["YES"] \in 0 .. Par - 1 /\ best["NO"] \in 0 .. Par - 1
  BY DEF Sides
<1>2. best["YES"] + 1 + best["NO"] + 1 < Par
  BY <1>1, QuoterAssumption DEF Active
<1>. QED
  BY <1>1, <1>2, QuoterAssumption DEF QuotePrice, Prices, Sides

\* Only the empty phase has an empty bundle.
LEMMA EmptyPhase ==
    ASSUME Phase, bundle = <<>>
    PROVE  AtQuote("YES") /\ AtQuote("NO")
BY DEF Phase

\* A delta is handled: the bundle is one of those of Phase.
LEMMA DeltaPhase ==
    ASSUME QInv, OnDelta, best_' \in [Sides -> 0 .. Par - 1]
    PROVE  Phase' /\ next_client_id_' \in Nat /\ next_client_id_' >= next_client_id_
<1>0. PICK id \in Nat \ {0} : id = next_client_id_
  BY Zenon DEF QInv, OrderTypes
<1>. DEFINE new == best_'
            t == Head(feed).side
            yes == reconcile_helper("YES", Active(new), QuotePrice(new, "YES"), id)
            no == reconcile_helper("NO", Active(new), QuotePrice(new, "NO"), id + Places(yes))
<1>1. /\ t \in Sides /\ (\A s \in Sides \ {t} : new[s] = best_[s])
      /\ bundle = <<>>
      /\ bundle' = yes \o no
      /\ next_client_id_' = id + Places(yes \o no)
      /\ UNCHANGED <<open_>>
  <2>1. t \in Sides
    BY DeltaFeed DEF Deltas
  <2>2. bundle' = yes \o no /\ next_client_id_' = id + Places(yes \o no)
    <3>1. bundle' = reconcile(best_') /\ next_client_id_' = next_client_id_ + Places(reconcile(best_'))
      BY Zenon DEF OnDelta
    <3>2. reconcile(best_') = yes \o no
      BY Zenon, <1>0 DEF reconcile
    <3>. QED
      BY Zenon, <1>0, <3>1, <3>2
  <2>3. \A s \in Sides \ {t} : new[s] = best_[s]
    BY DEF OnDelta, QInv
  <2>. QED
    BY Zenon, <2>1, <2>2, <2>3 DEF OnDelta
<1>2. OrderTypes /\ Active(new) \in BOOLEAN /\ Active(best_) \in BOOLEAN
  BY DEF QInv, OrderTypes, Active
<1>3. AtQuote("YES") /\ AtQuote("NO")
  BY <1>1, EmptyPhase DEF QInv
<1>4. /\ \A s \in Sides : IsOpen(s)' <=> IsOpen(s)
      /\ \A s \in Sides : CancelOf(s)' = CancelOf(s) /\ CancelOf(s).kind = "CANCEL"
      /\ \A s \in Sides : open_'[s].price = open_[s].price
  BY <1>1 DEF IsOpen, CancelOf
<1>5. \A s \in Sides, n \in Nat : /\ Quote(s, n)' = Place(s, QuotePrice(new, s), n)
                                  /\ Place(s, QuotePrice(new, s), n).kind = "PLACE"
  BY DEF Quote, Place, QuotePrice
<1>6. Active(best_)' = Active(new)
  BY DEF Active
<1>7. \A s \in Sides : IsOpen(s) => open_[s].client_id \in 1 .. id - 1
  BY <1>0, <1>2 DEF OrderTypes, IsOpen, Ids
<1>8. "YES" \in Sides /\ "NO" \in Sides /\ Sides = {"YES", "NO"}
  BY DEF Sides
<1>9. \A s \in Sides : open_[s].open \in BOOLEAN
  BY Zenon, <1>2 DEF OrderTypes
<1>. DEFINE P(s, n) == Place(s, QuotePrice(new, s), n)
<1>10. /\ Active(new) /\ ~ IsOpen("YES") => yes = <<P("YES", id)>>
       /\ ~ Active(new) /\ IsOpen("YES") => yes = <<CancelOf("YES")>>
       /\ Active(new) /\ IsOpen("YES") /\ open_["YES"].price # QuotePrice(new, "YES") =>
             yes = <<CancelOf("YES"), P("YES", id)>>
       /\ Active(new) /\ IsOpen("YES") /\ open_["YES"].price = QuotePrice(new, "YES") => yes = <<>>
       /\ ~ Active(new) /\ ~ IsOpen("YES") => yes = <<>>
  BY Zenon, <1>8, <1>9 DEF reconcile_helper, IsOpen
<1>11. /\ Active(new) /\ ~ IsOpen("NO") => no = <<P("NO", id + Places(yes))>>
       /\ ~ Active(new) /\ IsOpen("NO") => no = <<CancelOf("NO")>>
       /\ Active(new) /\ IsOpen("NO") /\ open_["NO"].price # QuotePrice(new, "NO") =>
             no = <<CancelOf("NO"), P("NO", id + Places(yes))>>
       /\ Active(new) /\ IsOpen("NO") /\ open_["NO"].price = QuotePrice(new, "NO") => no = <<>>
       /\ ~ Active(new) /\ ~ IsOpen("NO") => no = <<>>
  BY Zenon, <1>8, <1>9 DEF reconcile_helper, IsOpen
<1>12. \A s \in Sides :
          AtQuote(s)' <=> IF Active(new) THEN IsOpen(s) /\ open_[s].price = QuotePrice(new, s) ELSE ~ IsOpen(s)
  BY <1>1, <1>4, <1>6 DEF AtQuote, QuotePrice, IsOpen
<1>13. \A s \in Sides, n \in Nat : Quote(s, n)' = P(s, n) /\ P(s, n).kind = "PLACE"
  BY <1>5
<1>14. \A s \in Sides : best_[s] \in Int /\ new[s] \in Int
  BY DEF QInv
<1>15. \A s \in Sides \ {t} : QuotePrice(new, s) = QuotePrice(best_, s)
  BY <1>1 DEF QuotePrice
<1>16. Ids' = 1 .. next_client_id_' - 1
  BY DEF Ids
<1>17. \A n \in Nat : Fresh(n)' <=> n \in Ids' /\ \A s \in Sides : IsOpen(s) => open_[s].client_id # n
  BY Zenon, <1>1, <1>4 DEF Fresh, IsOpen
<1>. HIDE DEF new, t, yes, no, P
<1>18. CASE Active(new) /\ ~ Active(best_)
  <2>1. ~ IsOpen("YES") /\ ~ IsOpen("NO")
    BY <1>3, <1>18 DEF AtQuote
  <2>2. yes = <<P("YES", id)>>
    BY <1>10, <1>18, <2>1
  <2>3. Places(yes) = 1
    BY <1>2, <1>8, <1>13, <2>2, PlacesCount
  <2>4. no = <<P("NO", id + 1)>>
    BY <1>11, <1>18, <2>1, <2>3
  <2>5. bundle' = <<P("YES", id), P("NO", id + 1)>>
    BY <1>1, <2>2, <2>4, Concatenated
  <2>6. Places(<<P("YES", id), P("NO", id + 1)>>) = 2
    BY <1>2, <1>8, <1>13, PlacesCount
  <2>7. next_client_id_' = id + 2
    BY Zenon, <1>1, <2>2, <2>4, <2>6, Concatenated
  <2>8. id \in Ids' /\ id + 1 \in Ids' /\ id # id + 1
    BY <1>2, <1>16, <2>7
  <2>9. bundle' = <<Quote("YES", id)', Quote("NO", id + 1)'>>
    BY <1>2, <1>8, <1>13, <2>5
  <2>10. /\ Active(best_)' /\ ~ IsOpen("YES")' /\ ~ IsOpen("NO")'
         /\ bundle' = <<Quote("YES", id)', Quote("NO", id + 1)'>>
    BY <1>4, <1>6, <1>8, <1>18, <2>1, <2>9
  <2>11. Phase'
    BY <2>8, <2>10 DEF Phase
  <2>. QED
    BY <1>2, <2>7, <2>11, <1>0
<1>19. CASE ~ Active(new) /\ Active(best_)
  <2>1. IsOpen("YES") /\ IsOpen("NO")
    BY <1>3, <1>19 DEF AtQuote
  <2>2. bundle' = <<CancelOf("YES"), CancelOf("NO")>>
    BY Zenon, <1>1, <1>10, <1>11, <1>19, <2>1, Concatenated
  <2>3. next_client_id_' = id
    BY <1>1, <1>2, <1>4, <1>8, <2>2, PlacesCount
  <2>4. Phase'
    BY Zenon, <1>4, <1>6, <1>8, <1>19, <2>1, <2>2 DEF Phase
  <2>. QED
    BY <1>2, <2>3, <2>4, <1>0
<1>20. CASE ~ Active(new) /\ ~ Active(best_)
  <2>1. ~ IsOpen("YES") /\ ~ IsOpen("NO")
    BY <1>3, <1>20 DEF AtQuote
  <2>2. yes = <<>> /\ no = <<>>
    BY <1>10, <1>11, <1>20, <2>1
  <2>3. bundle' = <<>> /\ next_client_id_' = id
    BY <1>1, <1>2, <2>2, Concatenated, PlacesCount
  <2>4. Phase'
    BY <1>8, <1>12, <1>20, <2>1, <2>3 DEF Phase
  <2>. QED
    BY <1>2, <2>3, <2>4, <1>0
<1>21. CASE Active(new) /\ Active(best_)
  <2>1. \A s \in Sides : IsOpen(s) /\ open_[s].price = QuotePrice(best_, s)
    BY <1>3, <1>8, <1>21 DEF AtQuote
  <2>2. CASE open_[t].price = QuotePrice(new, t)
    <3>1. \A s \in Sides : open_[s].price = QuotePrice(new, s)
      BY <1>15, <2>1, <2>2
    <3>2. yes = <<>> /\ no = <<>>
      BY <1>8, <1>10, <1>11, <1>21, <2>1, <3>1
    <3>3. bundle' = <<>> /\ next_client_id_' = id
      BY <1>1, <1>2, <3>2, Concatenated, PlacesCount
    <3>4. Phase'
      BY <1>8, <1>12, <1>21, <2>1, <3>1, <3>3 DEF Phase
    <3>. QED
      BY <1>2, <3>3, <3>4, <1>0
  <2>3. CASE open_[t].price # QuotePrice(new, t)
    <3>1. \A s \in Sides \ {t} : open_[s].price = QuotePrice(new, s)
      BY <1>15, <2>1
    <3>2. bundle' = <<CancelOf(t), P(t, id)>>
      <4>1. CASE t = "YES"
        <5>1. yes = <<CancelOf("YES"), P("YES", id)>> /\ no = <<>>
          BY <1>8, <1>10, <1>11, <1>21, <2>1, <2>3, <3>1, <4>1
        <5>. QED
          BY <1>1, <4>1, <5>1, Concatenated
      <4>2. CASE t = "NO"
        <5>1. yes = <<>>
          BY <1>8, <1>10, <1>21, <2>1, <3>1, <4>2
        <5>2. id + Places(yes) = id
          BY <5>1, PlacesCount
        <5>3. no = <<CancelOf("NO"), P("NO", id)>>
          BY Zenon, <1>8, <1>11, <1>21, <2>1, <2>3, <4>2, <5>2
        <5>. QED
          BY <1>1, <4>2, <5>1, <5>3, Concatenated
      <4>. QED
        BY <1>1, <1>8, <4>1, <4>2
    <3>3. next_client_id_' = id + 1
      BY <1>1, <1>4, <1>13, <3>2, PlacesCount
    <3>4. PICK u \in Sides : u = t
      BY <1>1
    <3>5. id \in Ids'
      BY <1>16, <3>3
    <3>6. Fresh(id)'
      BY <1>7, <1>17, <3>5
    <3>7. bundle' = <<CancelOf(u)', Quote(u, id)'>>
      BY <1>4, <1>13, <3>2, <3>4
    <3>8. Active(best_)' /\ IsOpen(u)'
      BY <1>4, <1>6, <1>21, <2>1
    <3>9. AtQuote(Other(u))'
      <4>1. Other(u) \in Sides \ {t}
        BY <1>8, <3>4 DEF Other
      <4>. QED
        BY <1>12, <1>21, <2>1, <3>1, <4>1 DEF Other
    <3>10. Phase'
      BY <3>5, <3>6, <3>7, <3>8, <3>9 DEF Phase
    <3>. QED
      BY <1>0, <3>3, <3>10
  <2>. QED
    BY <2>2, <2>3
<1>. QED
  BY <1>18, <1>19, <1>20, <1>21

\* An order that is opened on a side that has none, under an id that is new, at
\* the quote, when the other side is closed or at its quote.
LEMMA PlaceStep ==
    ASSUME QInv, SendPlace, Active(best_),
           NEW s \in Sides, NEW id \in Nat, Fresh(id), ~ IsOpen(s),
           Head(bundle) = Quote(s, id), IsOpen(Other(s)) => AtQuote(Other(s))
    PROVE  /\ OrderTypes' /\ NoOrphans' /\ NeverSelfCrossed' /\ GoneKnown'
           /\ IsOpen(s)' /\ AtQuote(s)'
           /\ IsOpen(Other(s))' <=> IsOpen(Other(s))
           /\ AtQuote(Other(s))' <=> AtQuote(Other(s))
           /\ open_'[Other(s)] = open_[Other(s)]
           /\ open_'[s].client_id = id
           /\ UNCHANGED <<best_, next_client_id_, venue, deltas, feed, levels_>>
<1>. DEFINE price == QuotePrice(best_, s)
            o == [open |-> TRUE, price |-> price, client_id |-> id]
            r == [side |-> s, price |-> price, client_id |-> id]
            u == Other(s)
<1>1. /\ open_' = [open_ EXCEPT ![s] = o]
      /\ live' = live \cup {r}
      /\ gone' = gone
      /\ UNCHANGED <<best_, next_client_id_, venue, deltas, feed, levels_>>
  <2>1. Quote(s, id).side = s /\ Quote(s, id).price = price /\ Quote(s, id).client_id = id
    BY DEF Quote, Place
  <2>2. Head(bundle).side = s /\ Head(bundle).price = price /\ Head(bundle).client_id = id
    BY <2>1
  <2>. QED
    BY <2>2, Zenon DEF SendPlace
<1>2. /\ open_ \in [Sides -> [open : BOOLEAN, price : 0 .. Par - 1, client_id : Nat]]
      /\ id \in Ids /\ (IsOpen(u) => open_[u].client_id # id)
      /\ u \in Sides /\ u # s /\ Sides = {s, u}
  BY DEF QInv, OrderTypes, Fresh, Other, Sides
<1>3. best_ \in [Sides -> 0 .. Par - 1]
  BY DEF QInv
<1>4. price \in Prices /\ price \in 0 .. Par - 1 /\ QuotePrice(best_, s) + QuotePrice(best_, u) < Par
  <2>1. price \in Prices /\ QuotePrice(best_, "YES") + QuotePrice(best_, "NO") < Par
    BY <1>3, QuotesApart
  <2>2. best_["YES"] \in Int /\ best_["NO"] \in Int
    BY <1>3 DEF Sides
  <2>. QED
    BY <2>1, <2>2, QuoterAssumption DEF Prices, QuotePrice, Other, Sides
<1>5. o \in [open : BOOLEAN, price : 0 .. Par - 1, client_id : Nat] /\ o.open = TRUE
        /\ o.price = price /\ o.client_id = id
  BY <1>4
<1>6. r.side = s /\ r.price = price /\ r.client_id = id
  OBVIOUS
<1>. HIDE DEF price, o, r, u
<1>7. open_'[s] = o /\ open_'[u] = open_[u]
  BY <1>1, <1>2
<1>8. open_' \in [Sides -> [open : BOOLEAN, price : 0 .. Par - 1, client_id : Nat]]
  BY <1>1, <1>2, <1>5
<1>9. OrderTypes'
  <2>1. /\ next_client_id_' \in Nat \ {0} /\ Ids' = Ids
        /\ \A x \in Sides : open_[x].open => open_[x].price \in Prices /\ open_[x].client_id \in Ids
    BY <1>1 DEF QInv, OrderTypes, Ids
  <2>2. \A x \in Sides : open_'[x].open => open_'[x].price \in Prices /\ open_'[x].client_id \in Ids'
    BY <1>2, <1>4, <1>5, <1>7, <2>1
  <2>3. open_'[u].open => open_'[s].client_id # open_'[u].client_id
    BY <1>2, <1>5, <1>7 DEF IsOpen
  <2>4. open_'["YES"].open /\ open_'["NO"].open => open_'["YES"].client_id # open_'["NO"].client_id
    BY <2>3 DEF u, Other, Sides
  <2>. QED
    BY <1>8, <2>1, <2>2, <2>4 DEF OrderTypes
<1>10. IsOpen(s)' /\ (IsOpen(u)' <=> IsOpen(u))
  BY Zenon, <1>5, <1>7 DEF IsOpen, u, Other
<1>11. AtQuote(s)' /\ (AtQuote(u)' <=> AtQuote(u))
  BY Zenon, <1>1, <1>5, <1>7, <1>10 DEF AtQuote, u, Other, IsOpen, QuotePrice, Active, price
<1>12. NoOrphans'
  <2>. DEFINE Rec(x) == [side |-> x, price |-> open_[x].price, client_id |-> open_[x].client_id]
  <2>1. Believed = {Rec(x) : x \in {y \in Sides : open_[y].open}}
    BY Zenon DEF Believed
  <2>2. {y \in Sides : open_'[y].open} = {y \in Sides : open_[y].open} \cup {s}
    BY Zenon, <1>2, <1>5, <1>7
  <2>3. [side |-> s, price |-> open_'[s].price, client_id |-> open_'[s].client_id] = r
    BY Zenon, <1>5, <1>7 DEF r
  <2>4. \A x \in {y \in Sides : open_[y].open} :
           [side |-> x, price |-> open_'[x].price, client_id |-> open_'[x].client_id] = Rec(x)
    BY Zenon, <1>2, <1>7 DEF IsOpen
  <2>5. Believed' = {[side |-> x, price |-> open_'[x].price, client_id |-> open_'[x].client_id] :
                        x \in {y \in Sides : open_'[y].open}}
    BY Zenon DEF Believed
  <2>6. Believed' = Believed \cup {r}
    <3>. DEFINE New(x) == [side |-> x, price |-> open_'[x].price, client_id |-> open_'[x].client_id]
                old == {y \in Sides : open_[y].open}
    <3>1. Believed' = {New(x) : x \in old \cup {s}}
      BY Zenon, <2>2, <2>5
    <3>2. New(s) = r /\ (\A x \in old : New(x) = Rec(x)) /\ Believed = {Rec(x) : x \in old}
      BY Zenon, <2>1, <2>3, <2>4
    <3>. HIDE DEF New, Rec, old
    <3>. QED
      BY Zenon, <3>1, <3>2
  <2>7. id \notin gone
    BY Zenon DEF QInv, GoneKnown, Fresh
  <2>8. live = {m \in Believed : m.client_id \notin gone}
    BY Zenon DEF QInv, NoOrphans
  <2>9. live' = {m \in Believed' : m.client_id \notin gone'}
    BY Zenon, <1>1, <1>6, <2>6, <2>7, <2>8
  <2>. QED
    BY Zenon, <2>9 DEF NoOrphans
<1>14. GoneKnown'
  <2>1. ASSUME NEW x \in Sides, IsOpen(x) PROVE open_'[x] = open_[x]
    BY Zenon, <1>2, <1>7, <2>1
  <2>2. ASSUME NEW x \in Sides, IsOpen(x) PROVE IsOpen(x)' /\ open_'[x].client_id = open_[x].client_id
    BY Zenon, <2>1, <2>2 DEF IsOpen
  <2>. QED
    BY Zenon, <1>1, <2>2 DEF QInv, GoneKnown
<1>13. NeverSelfCrossed'
  <2>1. \A m \in live : m.side \in Sides /\ IsOpen(m.side) /\ m.price = open_[m.side].price
    BY DEF QInv, NoOrphans, Believed, OrderTypes, IsOpen
  <2>2. \A m \in live : m.side = u /\ m.price = QuotePrice(best_, u)
    BY <1>2, <2>1 DEF AtQuote, u
  <2>3. price + QuotePrice(best_, u) < Par /\ QuotePrice(best_, u) + price < Par
    <3>1. best_[s] \in Int /\ best_[u] \in Int
      BY SMTT(30), <1>2, <1>3
    <3>. QED
      BY <1>4, <3>1 DEF price, QuotePrice
  <2>. QED
    BY Zenon, <1>1, <1>2, <1>6, <2>2, <2>3 DEF NeverSelfCrossed
<1>. QED
  BY <1>1, <1>5, <1>7, <1>9, <1>10, <1>11, <1>12, <1>13, <1>14 DEF u

\* An order is closed.
LEMMA CancelStep ==
    ASSUME QInv, SendCancel, NEW s \in Sides, IsOpen(s), Head(bundle) = CancelOf(s)
    PROVE  /\ OrderTypes' /\ NoOrphans' /\ NeverSelfCrossed' /\ GoneKnown'
           /\ ~ IsOpen(s)'
           /\ IsOpen(Other(s))' <=> IsOpen(Other(s))
           /\ AtQuote(Other(s))' <=> AtQuote(Other(s))
           /\ open_'[Other(s)] = open_[Other(s)]
           /\ UNCHANGED <<best_, next_client_id_, venue, deltas, feed, levels_>>
<1>. DEFINE u == Other(s)
<1>1. /\ open_' = [open_ EXCEPT ![s] = NotOpen]
      /\ live' = {o \in live : o.client_id # open_[s].client_id}
      /\ gone' = gone \ {open_[s].client_id}
      /\ UNCHANGED <<best_, next_client_id_, venue, deltas, feed, levels_>>
  <2>1. CancelOf(s).side = s /\ CancelOf(s).client_id = open_[s].client_id
    BY DEF CancelOf
  <2>2. Head(bundle).side = s /\ Head(bundle).client_id = open_[s].client_id
    BY <2>1
  <2>. QED
    BY <2>2, Zenon DEF SendCancel
<1>2. /\ open_ \in [Sides -> [open : BOOLEAN, price : 0 .. Par - 1, client_id : Nat]]
      /\ u \in Sides /\ u # s /\ Sides = {s, u}
      /\ IsOpen(u) => open_[u].client_id # open_[s].client_id
  BY DEF QInv, OrderTypes, Other, Sides, IsOpen
<1>3. NotOpen \in [open : BOOLEAN, price : 0 .. Par - 1, client_id : Nat] /\ NotOpen.open = FALSE
  BY QuoterAssumption DEF NotOpen
<1>. HIDE DEF u
<1>4. open_'[s] = NotOpen /\ open_'[u] = open_[u]
  BY <1>1, <1>2
<1>5. open_' \in [Sides -> [open : BOOLEAN, price : 0 .. Par - 1, client_id : Nat]]
  BY <1>1, <1>2, <1>3
<1>6. OrderTypes'
  <2>1. /\ next_client_id_' \in Nat \ {0} /\ Ids' = Ids
        /\ \A x \in Sides : open_[x].open => open_[x].price \in Prices /\ open_[x].client_id \in Ids
    BY Zenon, <1>1 DEF QInv, OrderTypes, Ids
  <2>2. \A x \in Sides : open_'[x].open => open_'[x].price \in Prices /\ open_'[x].client_id \in Ids'
    BY <1>2, <1>3, <1>4, <2>1
  <2>3. ~ (open_'["YES"].open /\ open_'["NO"].open)
    BY <1>2, <1>3, <1>4 DEF Sides
  <2>. QED
    BY <1>5, <2>1, <2>2, <2>3 DEF OrderTypes
<1>7. ~ IsOpen(s)' /\ (IsOpen(u)' <=> IsOpen(u))
  BY Zenon, <1>3, <1>4 DEF IsOpen, u, Other
<1>8. AtQuote(u)' <=> AtQuote(u)
  BY <1>1, <1>4 DEF AtQuote, u, Other, IsOpen, QuotePrice, Active
<1>9. NoOrphans'
  <2>. DEFINE Rec(x) == [side |-> x, price |-> open_[x].price, client_id |-> open_[x].client_id]
              c == open_[s].client_id
  <2>1. Believed = {Rec(x) : x \in {y \in Sides : open_[y].open}}
    BY Zenon DEF Believed
  <2>2. {y \in Sides : open_'[y].open} = {y \in Sides : open_[y].open} \ {s}
    BY Zenon, <1>2, <1>3, <1>4
  <2>3. \A x \in {y \in Sides : open_'[y].open} :
           [side |-> x, price |-> open_'[x].price, client_id |-> open_'[x].client_id] = Rec(x)
    BY Zenon, <1>2, <1>4, <2>2
  <2>4. {m \in Believed : m.client_id # c} = {Rec(x) : x \in {y \in Sides : open_[y].open} \ {s}}
    BY <1>2, <2>1 DEF IsOpen
  <2>5. Believed' = {[side |-> x, price |-> open_'[x].price, client_id |-> open_'[x].client_id] :
                        x \in {y \in Sides : open_'[y].open}}
    BY Zenon DEF Believed
  <2>6. Believed' = {m \in Believed : m.client_id # c}
    <3>. DEFINE New(x) == [side |-> x, price |-> open_'[x].price, client_id |-> open_'[x].client_id]
                rest == {y \in Sides : open_[y].open} \ {s}
    <3>1. Believed' = {New(x) : x \in rest} /\ (\A x \in rest : New(x) = Rec(x))
      BY Zenon, <2>2, <2>3, <2>5
    <3>2. {m \in Believed : m.client_id # c} = {Rec(x) : x \in rest}
      BY Zenon, <2>4
    <3>. HIDE DEF New, Rec, rest
    <3>. QED
      BY Zenon, <3>1, <3>2
  <2>7. live = {m \in Believed : m.client_id \notin gone}
    BY Zenon DEF QInv, NoOrphans
  <2>. HIDE DEF c
  <2>8. live' = {m \in live : m.client_id # c} /\ gone' = gone \ {c}
    BY Zenon, <1>1 DEF c
  <2>9. live' = {m \in Believed' : m.client_id \notin gone'}
    BY Zenon, <2>6, <2>7, <2>8
  <2>. QED
    BY Zenon, <2>9 DEF NoOrphans
<1>11. GoneKnown'
  <2>1. ASSUME NEW x \in Sides, IsOpen(x), open_[x].client_id # open_[s].client_id
        PROVE  IsOpen(x)' /\ open_'[x].client_id = open_[x].client_id
    <3>1. x = u
      BY Zenon, <1>2, <2>1
    <3>2. open_'[x] = open_[x]
      BY Zenon, <1>4, <3>1
    <3>. QED
      BY Zenon, <2>1, <3>2 DEF IsOpen
  <2>. QED
    BY Zenon, <1>1, <2>1 DEF QInv, GoneKnown
<1>10. NeverSelfCrossed'
  BY Zenon, <1>1 DEF QInv, NeverSelfCrossed
<1>. QED
  BY <1>1, <1>4, <1>6, <1>7, <1>8, <1>9, <1>10, <1>11 DEF u

LEMMA SidesAndOther == Sides = {"YES", "NO"} /\ Other("YES") = "NO" /\ Other("NO") = "YES"
BY DEF Sides, Other

\* The next PLACE of a bundle is sent.
LEMMA SendPlaceInv ==
    ASSUME QInv, SendPlace
    PROVE  QInv'
<1>1. bundle # <<>> /\ Head(bundle).kind = "PLACE" /\ bundle' = Tail(bundle)
  BY DEF SendPlace
<1>2. \A s \in Sides : CancelOf(s).kind # "PLACE"
  BY DEF CancelOf
<1>3. Ids \subseteq Nat
  BY DEF Ids
<1>4. \/ \E s \in Sides, id \in Ids :
            /\ Active(best_) /\ AtQuote(Other(s)) /\ ~ IsOpen(s) /\ Fresh(id)
            /\ bundle = <<Quote(s, id)>>
      \/ \E id1, id2 \in Ids :
            /\ Active(best_) /\ ~ IsOpen("YES") /\ ~ IsOpen("NO") /\ id1 # id2
            /\ bundle = <<Quote("YES", id1), Quote("NO", id2)>>
  BY SMTT(30), <1>1, <1>2, SidesAndOther DEF QInv, Phase
<1>5. CASE \E s \in Sides, id \in Ids :
              /\ Active(best_) /\ AtQuote(Other(s)) /\ ~ IsOpen(s) /\ Fresh(id)
              /\ bundle = <<Quote(s, id)>>
  <2>1. PICK s \in Sides, id \in Ids :
              /\ Active(best_) /\ AtQuote(Other(s)) /\ ~ IsOpen(s) /\ Fresh(id)
              /\ bundle = <<Quote(s, id)>>
    BY <1>5
  <2>2. Head(bundle) = Quote(s, id) /\ bundle' = <<>>
    BY SMTT(30), <1>1, <2>1
  <2>3. /\ OrderTypes' /\ NoOrphans' /\ NeverSelfCrossed' /\ GoneKnown' /\ AtQuote(s)'
        /\ AtQuote(Other(s))'
        /\ UNCHANGED <<best_, next_client_id_, venue, deltas, feed, levels_>>
    BY <1>3, <2>1, <2>2, PlaceStep
  <2>4. AtQuote("YES")' /\ AtQuote("NO")'
    <3>1. CASE s = "YES"
      BY Zenon, <2>3, <3>1 DEF Other, AtQuote, IsOpen, QuotePrice
    <3>2. CASE s = "NO"
      BY <2>3, <3>2 DEF Other, AtQuote, IsOpen, QuotePrice
    <3>. QED
      BY Zenon, <3>1, <3>2, SidesAndOther
  <2>5. Phase'
    BY Zenon, <2>2, <2>4 DEF Phase
  <2>. QED
    BY <2>3, <2>5 DEF QInv, FeedLeads, BestsExact
<1>6. CASE \E id1, id2 \in Ids :
              /\ Active(best_) /\ ~ IsOpen("YES") /\ ~ IsOpen("NO") /\ id1 # id2
              /\ bundle = <<Quote("YES", id1), Quote("NO", id2)>>
  <2>1. PICK id1, id2 \in Ids :
              /\ Active(best_) /\ ~ IsOpen("YES") /\ ~ IsOpen("NO") /\ id1 # id2
              /\ bundle = <<Quote("YES", id1), Quote("NO", id2)>>
    BY <1>6
  <2>2. Head(bundle) = Quote("YES", id1) /\ bundle' = <<Quote("NO", id2)>>
    BY <1>1, <2>1
  <2>3. Fresh(id1) /\ "YES" \in Sides /\ "NO" \in Sides /\ Other("YES") = "NO" /\ Other("NO") = "YES"
    BY <2>1, SidesAndOther DEF Fresh
  <2>4. /\ OrderTypes' /\ NoOrphans' /\ NeverSelfCrossed' /\ GoneKnown' /\ IsOpen("YES")' /\ AtQuote("YES")'
        /\ IsOpen(Other("YES"))' <=> IsOpen(Other("YES"))
        /\ open_'["YES"].client_id = id1
        /\ UNCHANGED <<best_, next_client_id_, venue, deltas, feed, levels_>>
    BY Zenon, <1>3, <2>1, <2>2, <2>3, PlaceStep
  <2>5. ~ IsOpen("NO")'
    BY Zenon, <2>1, <2>4 DEF Other, IsOpen
  <2>6. Fresh(id2)' /\ id2 \in Ids'
    BY Zenon, <2>1, <2>4, <2>5, SidesAndOther DEF Fresh, Ids
  <2>7. AtQuote(Other("NO"))' /\ Active(best_)' /\ bundle' = <<Quote("NO", id2)'>>
    BY Zenon, <2>1, <2>2, <2>4 DEF Other, AtQuote, IsOpen, QuotePrice, Active, Quote, Place
  <2>8. Phase'
    BY <2>3, <2>5, <2>6, <2>7 DEF Phase
  <2>. QED
    BY Zenon, <2>4, <2>8 DEF QInv, FeedLeads, BestsExact
<1>. QED
  BY <1>4, <1>5, <1>6

\* The next CANCEL of a bundle is sent.
LEMMA SendCancelInv ==
    ASSUME QInv, SendCancel
    PROVE  QInv'
<1>1. bundle # <<>> /\ Head(bundle).kind = "CANCEL" /\ bundle' = Tail(bundle)
  BY DEF SendCancel
<1>2. \A s \in Sides : \A id : Quote(s, id).kind # "CANCEL"
  BY Zenon DEF Quote, Place
<1>3. \/ \E s \in Sides, id \in Ids :
            /\ Active(best_) /\ AtQuote(Other(s)) /\ IsOpen(s) /\ Fresh(id)
            /\ bundle = <<CancelOf(s), Quote(s, id)>>
      \/ /\ ~ Active(best_) /\ IsOpen("YES") /\ IsOpen("NO")
         /\ bundle = <<CancelOf("YES"), CancelOf("NO")>>
      \/ /\ ~ Active(best_) /\ ~ IsOpen("YES") /\ IsOpen("NO")
         /\ bundle = <<CancelOf("NO")>>
  BY SMTT(30), <1>1, <1>2, SidesAndOther DEF QInv, Phase
<1>4. CASE \E s \in Sides, id \in Ids :
              /\ Active(best_) /\ AtQuote(Other(s)) /\ IsOpen(s) /\ Fresh(id)
              /\ bundle = <<CancelOf(s), Quote(s, id)>>
  <2>1. PICK s \in Sides, id \in Ids :
              /\ Active(best_) /\ AtQuote(Other(s)) /\ IsOpen(s) /\ Fresh(id)
              /\ bundle = <<CancelOf(s), Quote(s, id)>>
    BY <1>4
  <2>2. Head(bundle) = CancelOf(s) /\ bundle' = <<Quote(s, id)>>
    BY <1>1, <2>1
  <2>3. /\ OrderTypes' /\ NoOrphans' /\ NeverSelfCrossed' /\ GoneKnown' /\ ~ IsOpen(s)' /\ AtQuote(Other(s))'
        /\ IsOpen(Other(s))' <=> IsOpen(Other(s))
        /\ open_'[Other(s)] = open_[Other(s)]
        /\ UNCHANGED <<best_, next_client_id_, venue, deltas, feed, levels_>>
    BY <2>1, <2>2, CancelStep
  <2>4. Ids' = Ids /\ Other(s) \in Sides /\ (\A x \in Sides : x = s \/ x = Other(s))
    BY Zenon, <2>3, SidesAndOther DEF Ids
  <2>5. Fresh(id)'
    BY Zenon, <2>1, <2>3, <2>4 DEF Fresh, IsOpen, Other
  <2>6. Active(best_)' /\ bundle' = <<Quote(s, id)'>>
    BY Zenon, <2>1, <2>2, <2>3 DEF Active, Quote, Place, QuotePrice
  <2>7. Phase'
    BY Zenon, <2>3, <2>4, <2>5, <2>6 DEF Phase
  <2>. QED
    BY Zenon, <2>3, <2>7 DEF QInv, FeedLeads, BestsExact
<1>5. CASE /\ ~ Active(best_) /\ IsOpen("YES") /\ IsOpen("NO")
           /\ bundle = <<CancelOf("YES"), CancelOf("NO")>>
  <2>1. Head(bundle) = CancelOf("YES") /\ bundle' = <<CancelOf("NO")>>
    BY <1>1, <1>5
  <2>2. /\ OrderTypes' /\ NoOrphans' /\ NeverSelfCrossed' /\ GoneKnown' /\ ~ IsOpen("YES")'
        /\ IsOpen(Other("YES"))' <=> IsOpen(Other("YES"))
        /\ open_'[Other("YES")] = open_[Other("YES")]
        /\ UNCHANGED <<best_, next_client_id_, venue, deltas, feed, levels_>>
    BY <1>5, <2>1, CancelStep, SidesAndOther
  <2>3. ~ Active(best_)' /\ IsOpen("NO")' /\ bundle' = <<CancelOf("NO")'>>
    BY <1>5, <2>1, <2>2 DEF Active, Other, IsOpen, CancelOf
  <2>4. Phase'
    BY Zenon, <2>2, <2>3 DEF Phase
  <2>. QED
    BY Zenon, <2>2, <2>4 DEF QInv, FeedLeads, BestsExact
<1>6. CASE /\ ~ Active(best_) /\ ~ IsOpen("YES") /\ IsOpen("NO")
           /\ bundle = <<CancelOf("NO")>>
  <2>1. Head(bundle) = CancelOf("NO") /\ bundle' = <<>>
    BY <1>1, <1>6
  <2>2. /\ OrderTypes' /\ NoOrphans' /\ NeverSelfCrossed' /\ GoneKnown' /\ ~ IsOpen("NO")'
        /\ IsOpen(Other("NO"))' <=> IsOpen(Other("NO"))
        /\ open_'[Other("NO")] = open_[Other("NO")]
        /\ UNCHANGED <<best_, next_client_id_, venue, deltas, feed, levels_>>
    BY Zenon, <1>6, <2>1, CancelStep, SidesAndOther
  <2>3. AtQuote("YES")' /\ AtQuote("NO")'
    BY <1>6, <2>2 DEF AtQuote, Active, Other, IsOpen
  <2>4. Phase'
    BY Zenon, <2>1, <2>3 DEF Phase
  <2>. QED
    BY Zenon, <2>2, <2>4 DEF QInv, FeedLeads, BestsExact
<1>. QED
  BY <1>3, <1>4, <1>5, <1>6

\* A delta is handled.
LEMMA OnDeltaInv ==
    ASSUME QInv, OnDelta
    PROVE  QInv'
<1>. DEFINE d == Head(feed)
<1>1. d \in Deltas /\ levels_' \in Levels /\ levels_' = Applied(levels_, d) /\ FeedLeads'
  BY DeltaFeed
<1>2. d.side \in Sides /\ d.price \in Prices
  BY <1>1 DEF Deltas
<1>3. best_ \in [Sides -> 0 .. Par - 1] /\ levels_ \in Levels
  BY Zenon DEF QInv
<1>4. PICK new \in 0 .. Par - 1 :
          /\ NewBest(levels_'[d.side], best_[d.side], d.price, new)
          /\ best_' = [best_ EXCEPT ![d.side] = new]
  BY Zenon DEF OnDelta
<1>5. UNCHANGED <<venue, deltas, open_, live, gone>>
  BY Zenon DEF OnDelta
<1>6. best_' \in [Sides -> 0 .. Par - 1]
  BY Zenon, <1>3, <1>4
<1>. HIDE DEF d
<1>7. BestsExact'
  <2>1. /\ \A s \in Sides \ {d.side} : levels_'[s] = levels_[s] /\ best_'[s] = best_[s]
        /\ best_'[d.side] = new
        /\ \A x \in Prices \ {d.price} : levels_'[d.side][x] = levels_[d.side][x]
    BY <1>1, <1>2, <1>3, <1>4 DEF Applied, Levels
  <2>2. levels_[d.side] \in [Prices -> 0 .. MaxLevel] /\ levels_'[d.side] \in [Prices -> 0 .. MaxLevel]
    BY <1>1, <1>2, <1>3 DEF Levels
  <2>3. IsBest(levels_[d.side], best_[d.side])
    BY Zenon, <1>2 DEF QInv, BestsExact
  <2>4. IsBest(levels_'[d.side], new)
    BY Zenon, <1>2, <1>4, <2>1, <2>2, <2>3, NewBestExact
  <2>5. \A s \in Sides : IsBest(levels_'[s], best_'[s])
    BY <2>1, <2>4 DEF QInv, BestsExact
  <2>. QED
    BY <2>5 DEF BestsExact
<1>8. Phase' /\ next_client_id_' \in Nat /\ next_client_id_' >= next_client_id_
  BY Zenon, <1>6, DeltaPhase
<1>9. OrderTypes'
  <2>1. next_client_id_ \in Nat \ {0} /\ next_client_id_' \in Nat \ {0} /\ Ids \subseteq Ids'
    <3>1. next_client_id_ \in Nat \ {0} /\ next_client_id_' \in Nat \ {0}
      BY <1>8 DEF QInv, OrderTypes
    <3>2. \A a, b \in Nat : a <= b => 1 .. a - 1 \subseteq 1 .. b - 1
      OBVIOUS
    <3>3. next_client_id_ <= next_client_id_'
      BY <1>8, <3>1
    <3>4. 1 .. next_client_id_ - 1 \subseteq 1 .. next_client_id_' - 1
      BY Zenon, <3>1, <3>2, <3>3
    <3>. QED
      BY <3>1, <3>4, Zenon DEF Ids
  <2>. QED
    BY <1>5, <2>1 DEF QInv, OrderTypes
<1>10. NoOrphans' /\ NeverSelfCrossed' /\ GoneKnown'
  BY Zenon, <1>5 DEF QInv, NoOrphans, Believed, NeverSelfCrossed, GoneKnown, IsOpen
<1>. QED
  BY <1>1, <1>5, <1>6, <1>7, <1>8, <1>9, <1>10 DEF QInv

\* What a bundle can be depends on our best bids and orders only.
LEMMA PhaseKept ==
    ASSUME Phase, UNCHANGED <<best_, open_, next_client_id_, bundle>>
    PROVE  Phase'
<1>1. best_' = best_ /\ open_' = open_ /\ next_client_id_' = next_client_id_ /\ bundle' = bundle
  OBVIOUS
<1>2. Ids' = Ids
  BY Zenon, <1>1 DEF Ids
<1>3. ASSUME NEW s
      PROVE  (IsOpen(s)' <=> IsOpen(s)) /\ (AtQuote(s)' <=> AtQuote(s)) /\ CancelOf(s)' = CancelOf(s)
  BY Zenon, <1>1 DEF IsOpen, AtQuote, CancelOf
<1>4. ASSUME NEW id PROVE Fresh(id)' <=> Fresh(id)
  BY Zenon, <1>1, <1>2 DEF Fresh, IsOpen
<1>5. ASSUME NEW s, NEW id PROVE Quote(s, id)' = Quote(s, id)
  BY Zenon, <1>1 DEF Quote
<1>. QED
  BY Zenon, <1>1, <1>2, <1>3, <1>4, <1>5 DEF Phase

\* The venue's book changes.
LEMMA VenueInv ==
    ASSUME QInv, NEW s \in Sides, NEW p \in Prices, NEW d \in Int, VenueChanges(s, p, d)
    PROVE  QInv'
<1>1. venue' \in Levels /\ FeedLeads'
  BY Zenon, VenueFeed
<1>2. /\ UNCHANGED <<levels_, best_, open_, next_client_id_, bundle, live, gone>>
      /\ deltas' \in 0 .. MaxDeltas
  <2>1. /\ UNCHANGED <<levels_, best_, open_, next_client_id_, bundle, live, gone>>
        /\ deltas \in 0 .. MaxDeltas /\ deltas < MaxDeltas /\ deltas' = deltas + 1
    BY Zenon DEF VenueChanges, QInv
  <2>2. deltas' \in 0 .. MaxDeltas
    BY <2>1, QuoterAssumption
  <2>. QED
    BY Zenon, <2>1, <2>2
<1>3. BestsExact' /\ OrderTypes' /\ NoOrphans' /\ NeverSelfCrossed' /\ GoneKnown'
  BY Zenon, <1>2 DEF QInv, BestsExact, OrderTypes, Ids, NoOrphans, Believed, NeverSelfCrossed, GoneKnown, IsOpen
<1>4. Phase'
  BY Zenon, <1>2, PhaseKept DEF QInv
<1>. QED
  BY <1>1, <1>2, <1>3, <1>4 DEF QInv

\* The venue fills, refuses or drops an order of ours.
LEMMA VenueTakesInv ==
    ASSUME QInv, NEW o \in live, VenueTakes(o)
    PROVE  QInv'
<1>1. /\ live' = live \ {o}
      /\ gone' = gone \cup {o.client_id}
      /\ UNCHANGED <<venue, deltas, feed, levels_, best_, open_, next_client_id_, bundle>>
  BY Zenon DEF VenueTakes
<1>2. live = {m \in Believed : m.client_id \notin gone}
  BY Zenon DEF QInv, NoOrphans
<1>3. ASSUME NEW m \in Believed
      PROVE  /\ m.side \in Sides /\ IsOpen(m.side)
             /\ m.client_id = open_[m.side].client_id
             /\ m = [side |-> m.side, price |-> open_[m.side].price, client_id |-> open_[m.side].client_id]
  BY DEF Believed, IsOpen, QInv, OrderTypes
<1>4. ASSUME NEW m \in Believed, m.client_id = o.client_id PROVE m = o
  <2>1. o \in Believed
    BY Zenon, <1>2
  <2>2. /\ m.side \in Sides /\ IsOpen(m.side) /\ m.client_id = open_[m.side].client_id
        /\ o.side \in Sides /\ IsOpen(o.side) /\ o.client_id = open_[o.side].client_id
    BY Zenon, <1>3, <2>1
  <2>3. IsOpen("YES") /\ IsOpen("NO") => open_["YES"].client_id # open_["NO"].client_id
    BY Zenon DEF QInv, OrderTypes, IsOpen
  <2>4. m.side = o.side
    BY Zenon, <1>4, <2>2, <2>3, SidesAndOther
  <2>5. /\ m = [side |-> m.side, price |-> open_[m.side].price, client_id |-> open_[m.side].client_id]
        /\ o = [side |-> o.side, price |-> open_[o.side].price, client_id |-> open_[o.side].client_id]
    BY Zenon, <1>3, <2>1
  <2>. QED
    BY Zenon, <2>4, <2>5
<1>5. Believed' = Believed
  BY Zenon, <1>1 DEF Believed
<1>6. NoOrphans'
  <2>1. live' = {m \in Believed : m.client_id \notin gone'}
    BY Zenon, <1>1, <1>2, <1>4
  <2>. QED
    BY Zenon, <1>5, <2>1 DEF NoOrphans
<1>7. GoneKnown'
  <2>1. o.side \in Sides /\ IsOpen(o.side) /\ o.client_id = open_[o.side].client_id
    BY Zenon, <1>2, <1>3
  <2>. QED
    BY Zenon, <1>1, <2>1 DEF QInv, GoneKnown, IsOpen
<1>8. NeverSelfCrossed'
  BY Zenon, <1>1 DEF QInv, NeverSelfCrossed
<1>9. FeedLeads' /\ BestsExact' /\ OrderTypes'
  BY Zenon, <1>1 DEF QInv, FeedLeads, BestsExact, OrderTypes, Ids
<1>10. Phase'
  BY Zenon, <1>1, PhaseKept DEF QInv
<1>. QED
  BY Zenon, <1>1, <1>6, <1>7, <1>8, <1>9, <1>10 DEF QInv

LEMMA QNextInv == QInv /\ [Next]_vars => QInv'
<1>. SUFFICES ASSUME QInv, [Next]_vars PROVE QInv'
  OBVIOUS
<1>1. ASSUME NEW s \in Sides, NEW p \in Prices, NEW d \in (-MaxLevel .. MaxLevel) \ {0}, VenueChanges(s, p, d)
      PROVE  QInv'
  BY <1>1, VenueInv
<1>2. CASE UNCHANGED vars
  <2>1. UNCHANGED <<venue, deltas, feed, levels_, best_, open_, next_client_id_, bundle, live, gone>>
    BY Zenon, <1>2 DEF vars
  <2>2. FeedLeads' /\ BestsExact' /\ OrderTypes' /\ NoOrphans' /\ NeverSelfCrossed' /\ GoneKnown'
    BY Zenon, <2>1 DEF QInv, FeedLeads, BestsExact, OrderTypes, Ids, NoOrphans, Believed, NeverSelfCrossed,
                       GoneKnown, IsOpen
  <2>3. Phase'
    BY Zenon, <2>1, PhaseKept DEF QInv
  <2>. QED
    BY Zenon, <2>1, <2>2, <2>3 DEF QInv
<1>. QED
  BY <1>1, <1>2, VenueTakesInv, OnDeltaInv, SendPlaceInv, SendCancelInv DEF Next, Strategy

LEMMA QInitInv == Init => QInv
<1>. SUFFICES ASSUME Init PROVE QInv
  OBVIOUS
<1>1. venue \in Levels /\ levels_ = venue /\ feed = <<>> /\ bundle = <<>> /\ live = {} /\ gone = {}
        /\ next_client_id_ = 1 /\ deltas \in 0 .. MaxDeltas
  BY QuoterAssumption DEF Init, Levels
<1>2. best_ \in [Sides -> 0 .. Par - 1] /\ \A s \in Sides : best_[s] = 0
  BY QuoterAssumption DEF Init
<1>3. FeedLeads
  <2>. DEFINE h == [k \in 0 .. 0 |-> venue]
  <2>1. h \in [0 .. 0 -> Levels] /\ h[0] = venue
    BY <1>1
  <2>2. Len(feed) = 0 /\ feed \in Seq(Deltas)
    BY <1>1
  <2>. HIDE DEF h
  <2>3. \A k \in 1 .. 0 : h[k] = Applied(h[k - 1], feed[k])
    BY SMTT(30)
  <2>. QED
    BY <1>1, <2>1, <2>2, <2>3 DEF FeedLeads
<1>4. BestsExact
  <2>1. \A s \in Sides, p \in Prices : levels_[s][p] = 0
    BY DEF Init
  <2>. QED
    BY <1>2, <2>1, QuoterAssumption DEF BestsExact, IsBest
<1>5. \A s \in Sides : open_[s] = NotOpen
  BY Zenon DEF Init
<1>6. NotOpen \in [open : BOOLEAN, price : 0 .. Par - 1, client_id : Nat] /\ NotOpen.open = FALSE
  BY QuoterAssumption DEF NotOpen
<1>7. open_ \in [Sides -> [open : BOOLEAN, price : 0 .. Par - 1, client_id : Nat]]
  BY Zenon, <1>6 DEF Init
<1>. HIDE DEF NotOpen
<1>8. OrderTypes
  BY SMTT(30), <1>1, <1>5, <1>6, <1>7, SidesAndOther DEF OrderTypes
<1>9. Phase
  <2>1. ~ Active(best_)
    BY <1>2, SidesAndOther DEF Active
  <2>2. ~ IsOpen("YES") /\ ~ IsOpen("NO")
    BY Zenon, <1>5, <1>6, SidesAndOther DEF IsOpen
  <2>. QED
    BY <1>1, <2>1, <2>2 DEF Phase, AtQuote
<1>10. NoOrphans /\ NeverSelfCrossed /\ GoneKnown
  BY <1>1, <1>5, <1>6 DEF NoOrphans, Believed, NeverSelfCrossed, GoneKnown
<1>. QED
  BY <1>1, <1>2, <1>3, <1>4, <1>8, <1>9, <1>10 DEF QInv

------------------------------------------------------------------------------
(* Theorems                                                                 *)

\* The invariant holds in every state of the strategy.
THEOREM QuoterInvariance == Spec => []QInv
BY QInitInv, QNextInv, PTL DEF Spec

\* Book's best bids are the highest prices with quantity, whatever deltas come
\* that leave no level below zero.
THEOREM BestsAreExact == Spec => []BestExact
<1>1. ASSUME QInv PROVE BestExact
  <2>1. \A s \in Sides : levels_[s] \in [Prices -> 0 .. MaxLevel] /\ IsBest(levels_[s], best_[s])
    BY <1>1 DEF QInv, Levels, BestsExact
  <2>. QED
    BY <2>1, BestIsMax DEF BestExact
<1>. QED
  BY <1>1, QuoterInvariance, PTL

\* The venue has the orders OrderManager believes open, less those it has taken
\* off itself, also within a bundle.
THEOREM OrdersAreKnown == Spec => []NoOrphans
<1>1. QInv => NoOrphans
  BY DEF QInv
<1>. QED
  BY <1>1, QuoterInvariance, PTL

\* Our own orders never meet each other, for any minimum spread of 3 or more.
THEOREM QuotesNeverCross == Spec => []NeverSelfCrossed
<1>1. QInv => NeverSelfCrossed
  BY DEF QInv
<1>. QED
  BY <1>1, QuoterInvariance, PTL

\* When every delta is handled before the next one and every bundle is sent
\* first, at most two actions are left.
LEMMA AtMostTwo ==
    ASSUME Phase
    PROVE  Len(bundle) \in {0, 1, 2}
<1>1. bundle = <<>> \/ (\E x : bundle = <<x>>) \/ (\E x, y : bundle = <<x, y>>)
  BY Zenon DEF Phase
<1>2. CASE bundle = <<>>
  <2>1. Len(<<>>) = 0
    BY EmptySeq
  <2>. QED
    BY <1>2, <2>1
<1>3. CASE \E x : bundle = <<x>>
  <2>1. PICK x : bundle = <<x>>
    BY <1>3
  <2>2. Len(<<x>>) = 1
    OBVIOUS
  <2>. QED
    BY <2>1, <2>2
<1>4. CASE \E x, y : bundle = <<x, y>>
  <2>1. PICK x, y : bundle = <<x, y>>
    BY <1>4
  <2>2. Len(<<x, y>>) = 2
    OBVIOUS
  <2>. QED
    BY <2>1, <2>2
<1>. QED
  BY <1>1, <1>2, <1>3, <1>4

\* ActionBundle has room for what reconcile() puts into it: from any two open
\* orders, whether the strategy could have reached them or not, to any quote,
\* at most four actions lead, and four exactly when both orders are replaced.
THEOREM BundlesFit ==
    ASSUME open_ \in [Sides -> [open : BOOLEAN, price : Int, client_id : Nat]],
           NEW best \in [Sides -> Int]
    PROVE  /\ Len(reconcile(best)) <= 4
           /\ Len(reconcile(best)) = 4 <=>
                 /\ Active(best)
                 /\ \A s \in Sides : open_[s].open /\ open_[s].price # QuotePrice(best, s)
<1>. DEFINE replaced(s) == Active(best) /\ open_[s].open /\ open_[s].price # QuotePrice(best, s)
            helper(s, id) == reconcile_helper(s, Active(best), QuotePrice(best, s), id)
            cancel(s) == CancelOf(s)
            place(s, id) == Place(s, QuotePrice(best, s), id)
<1>1. ASSUME NEW s \in Sides, NEW id
      PROVE  \/ replaced(s) /\ helper(s, id) = <<cancel(s), place(s, id)>>
             \/ ~ replaced(s) /\ helper(s, id) \in {<<>>, <<place(s, id)>>, <<cancel(s)>>}
  BY DEF reconcile_helper
<1>2. PICK id : id = next_client_id_
  BY Zenon
<1>3. PICK id2 : id2 = next_client_id_ + Places(helper("YES", id))
  BY Zenon
<1>4. reconcile(best) = helper("YES", id) \o helper("NO", id2)
  BY Zenon, <1>2, <1>3 DEF reconcile
<1>. HIDE DEF helper, replaced, cancel, place
<1>5. PICK x, y, z, w : /\ x = cancel("YES") /\ y = place("YES", id)
                        /\ z = cancel("NO") /\ w = place("NO", id2)
  BY Zenon
<1>6. PICK a, b : a = helper("YES", id) /\ b = helper("NO", id2)
  BY Zenon
<1>7. /\ <<x>> # <<x, y>> /\ <<y>> # <<x, y>> /\ <<>> # <<x, y>>
      /\ <<z>> # <<z, w>> /\ <<w>> # <<z, w>> /\ <<>> # <<z, w>>
  OBVIOUS
<1>8. /\ a \in {<<>>, <<x>>, <<y>>, <<x, y>>} /\ (a = <<x, y>> <=> replaced("YES"))
      /\ b \in {<<>>, <<z>>, <<w>>, <<z, w>>} /\ (b = <<z, w>> <=> replaced("NO"))
  <2>1. /\ \/ replaced("YES") /\ a = <<x, y>>
           \/ ~ replaced("YES") /\ a \in {<<>>, <<y>>, <<x>>}
        /\ \/ replaced("NO") /\ b = <<z, w>>
           \/ ~ replaced("NO") /\ b \in {<<>>, <<w>>, <<z>>}
    BY Zenon, <1>1, <1>5, <1>6, SidesAndOther
  <2>2. a \in {<<>>, <<x>>, <<y>>, <<x, y>>} /\ (a = <<x, y>> <=> replaced("YES"))
    BY Zenon, <1>7, <2>1
  <2>3. b \in {<<>>, <<z>>, <<w>>, <<z, w>>} /\ (b = <<z, w>> <=> replaced("NO"))
    BY Zenon, <1>7, <2>1
  <2>. QED
    BY Zenon, <2>2, <2>3
<1>9. Len(a \o b) <= 4 /\ (Len(a \o b) = 4 <=> a = <<x, y>> /\ b = <<z, w>>)
  <2>1. /\ <<>> \in Seq({x, y, z, w})
        /\ <<x>> \in Seq({x, y, z, w}) /\ <<y>> \in Seq({x, y, z, w})
        /\ <<z>> \in Seq({x, y, z, w}) /\ <<w>> \in Seq({x, y, z, w})
        /\ <<x, y>> \in Seq({x, y, z, w}) /\ <<z, w>> \in Seq({x, y, z, w})
    OBVIOUS
  <2>2. a \in Seq({x, y, z, w}) /\ b \in Seq({x, y, z, w})
    BY Zenon, <1>8, <2>1
  <2>3. Len(a \o b) = Len(a) + Len(b)
    BY Zenon, <2>2, ConcatProperties
  <2>4. /\ Len(<<>>) = 0
        /\ Len(<<x>>) = 1 /\ Len(<<y>>) = 1 /\ Len(<<x, y>>) = 2
        /\ Len(<<z>>) = 1 /\ Len(<<w>>) = 1 /\ Len(<<z, w>>) = 2
    OBVIOUS
  <2>5. /\ Len(a) \in {0, 1, 2} /\ (Len(a) = 2 <=> a = <<x, y>>)
        /\ Len(b) \in {0, 1, 2} /\ (Len(b) = 2 <=> b = <<z, w>>)
    <3>1. 0 # 2 /\ 1 # 2
      OBVIOUS
    <3>. QED
      BY Zenon, <1>8, <2>4, <3>1
  <2>6. \A m, n \in {0, 1, 2} : m + n <= 4 /\ (m + n = 4 <=> m = 2 /\ n = 2)
    OBVIOUS
  <2>. QED
    BY Zenon, <2>3, <2>5, <2>6
<1>10. /\ Len(reconcile(best)) <= 4
       /\ Len(reconcile(best)) = 4 <=> replaced("YES") /\ replaced("NO")
  BY Zenon, <1>4, <1>6, <1>8, <1>9
<1>11. replaced("YES") /\ replaced("NO") <=>
         /\ Active(best)
         /\ \A s \in Sides : open_[s].open /\ open_[s].price # QuotePrice(best, s)
  BY Zenon, SidesAndOther DEF replaced
<1>. QED
  BY Zenon, <1>10, <1>11

\* Book, orders and bundles stay in their ranges.
THEOREM QuoterTypes == Spec => []TypeOK
<1>1. ASSUME QInv PROVE TypeOK
  <2>1. Len(bundle) <= 4
    <3>1. Len(bundle) \in {0, 1, 2}
      BY <1>1, AtMostTwo DEF QInv
    <3>2. \A n \in {0, 1, 2} : n <= 4
      OBVIOUS
    <3>. QED
      BY <3>1, <3>2, Zenon
  <2>2. \A k \in DOMAIN feed : feed[k].side \in Sides /\ feed[k].price \in Prices
    <3>1. feed \in Seq(Deltas)
      BY <1>1 DEF QInv, FeedLeads
    <3>2. \A k \in DOMAIN feed : feed[k] \in Deltas
      BY <3>1
    <3>3. \A x \in Deltas : x.side \in Sides /\ x.price \in Prices
      BY Zenon DEF Deltas
    <3>. QED
      BY <3>2, <3>3
  <2>3. live \subseteq [side : Sides, price : Prices, client_id : Nat]
    BY <1>1 DEF QInv, NoOrphans, Believed, OrderTypes
  <2>4. gone \subseteq 1 .. next_client_id_ - 1
    BY <1>1 DEF QInv, GoneKnown, OrderTypes, Ids, IsOpen
  <2>. QED
    BY <1>1, <2>1, <2>2, <2>3, <2>4 DEF QInv, TypeOK, Levels, OrderTypes
<1>. QED
  BY <1>1, QuoterInvariance, PTL
==============================================================================
