----------------------- MODULE AuctionFollowersProofs -----------------------
(***************************************************************************)
(* Proofs about the processes of the example solver that follow auctions:  *)
(* for any number of auctions, any configurations, delays and losses of    *)
(* events and any slots without a block, no order is executed before its   *)
(* auction is over and no offer of ours is improved by another of ours.    *)
(***************************************************************************)
EXTENDS AuctionFollowers, WellFoundedInduction, TLAPS

-----------------------------------------------------------------------------
(* The inductive invariant *)

Events ==
    [auction : Auctions, initial : BOOLEAN, best : InitialBidders \cup {Rival, OfferToken},
     slot : Nat, sourceChain : {AuctionOf[a].sourceChain : a \in Auctions},
     amountIn : {AuctionOf[a].amountIn : a \in Auctions},
     endSlot : Nat, maxOfferPriceAllowed : Int \cup {NoPrice}]

ChainTypeOK ==
    /\ slot \in Nat /\ slot <= LastSlot
    /\ seen \in Nat
    /\ DOMAIN chain = Auctions
    /\ \A a \in Auctions : /\ chain[a].price \in Int
                           /\ chain[a].endSlot \in 0 .. LastSlot + MaxDuration
                           /\ chain[a].status = "None" => chain[a].best = Rival

\* An initial event tells when its auction ends, and that never changes.
FeedOK ==
    /\ feed \in Seq(Events)
    /\ \A i \in DOMAIN feed :
          feed[i].initial => /\ chain[feed[i].auction].status # "None"
                             /\ feed[i].endSlot = chain[feed[i].auction].endSlot

\* The auctions that are kept for a slot end right before it.
WarehouseOK ==
    /\ auctionsPerSlot \in [Slots -> Seq(Auctions)]
    /\ \A s \in Slots : \A i \in DOMAIN auctionsPerSlot[s] :
          LET a == auctionsPerSlot[s][i]
          IN  chain[a].status # "None" /\ s = chain[a].endSlot + 1

\* An order is handed over once its auction is over.
OrdersOK ==
    /\ DOMAIN orders = Auctions
    /\ \A a \in Auctions : orders[a] # "none" =>
          chain[a].status # "None" /\ slot > chain[a].endSlot

\* The offers under way improve offers of competitors.
OffersOK ==
    \A tx \in offers : /\ tx.auction \in Auctions /\ tx.price \in Int
                       /\ ~IsOurs(tx.best)

FollowersInv == ChainTypeOK /\ FeedOK /\ WarehouseOK /\ OrdersOK /\ OffersOK

-----------------------------------------------------------------------------
(* What the steps leave alone *)

\* An auction that began keeps its end, and time goes on.
Continues ==
    /\ DOMAIN chain' = Auctions
    /\ \A a \in Auctions : chain[a].status # "None" =>
          chain'[a].status # "None" /\ chain'[a].endSlot = chain[a].endSlot
    /\ slot' \in Nat /\ slot <= slot'

LEMMA SameChain ==
    ASSUME FollowersInv, UNCHANGED <<slot, chain>>
    PROVE  Continues
BY DEF FollowersInv, ChainTypeOK, Continues

LEMMA WarehouseStays ==
    ASSUME FollowersInv, Continues, UNCHANGED auctionsPerSlot
    PROVE  WarehouseOK'
<1>1. \A s \in Slots : \A i \in DOMAIN auctionsPerSlot[s] : auctionsPerSlot[s][i] \in Auctions
  BY DEF FollowersInv, WarehouseOK
<1>. QED BY <1>1 DEF FollowersInv, WarehouseOK, Continues

LEMMA OrdersStay ==
    ASSUME FollowersInv, Continues, DOMAIN orders' = Auctions,
           \A a \in Auctions : orders'[a] # "none" => orders[a] # "none"
    PROVE  OrdersOK'
<1>1. \A a \in Auctions : chain[a].endSlot \in Nat
  BY ExecutorAssumption DEF FollowersInv, ChainTypeOK
<1>. QED BY <1>1 DEF FollowersInv, OrdersOK, Continues, ChainTypeOK

LEMMA EventType ==
    ASSUME NEW e \in Events
    PROVE  /\ e.auction \in Auctions /\ e.endSlot \in Nat
           /\ e.maxOfferPriceAllowed \in Int \cup {NoPrice}
BY DEF Events

LEMMA FeedType ==
    ASSUME FollowersInv
    PROVE  /\ feed \in Seq(Events)
           /\ \A i \in DOMAIN feed : feed[i].auction \in Auctions
<1>1. feed \in Seq(Events)
  BY DEF FollowersInv, FeedOK
<1>2. \A i \in DOMAIN feed : feed[i] \in Events
  BY <1>1
<1>. QED BY <1>1, <1>2, EventType

LEMMA FeedStays ==
    ASSUME FollowersInv, Continues, UNCHANGED feed
    PROVE  FeedOK'
<1>1. \A i \in DOMAIN feed : feed[i].auction \in Auctions
  BY FeedType
<1>. QED BY <1>1 DEF FollowersInv, FeedOK, Continues

\* An event is handed over or lost.
LEMMA FeedShrinks ==
    ASSUME FollowersInv, UNCHANGED chain, feed # <<>>, feed' = Tail(feed)
    PROVE  FeedOK'
<1>1. feed \in Seq(Events) /\ feed' \in Seq(Events)
  BY DEF FollowersInv, FeedOK
<1>2. \A i \in DOMAIN feed' : i + 1 \in DOMAIN feed /\ feed'[i] = feed[i + 1]
  BY <1>1
<1>. QED BY <1>1, <1>2 DEF FollowersInv, FeedOK

LEMMA FeedGrows ==
    ASSUME FollowersInv, Continues, NEW e \in Events, feed' = Append(feed, e),
           e.initial => /\ chain'[e.auction].status # "None"
                        /\ e.endSlot = chain'[e.auction].endSlot
    PROVE  FeedOK'
<1>1. feed \in Seq(Events) /\ feed' \in Seq(Events)
  BY DEF FollowersInv, FeedOK
<1>2. \A i \in DOMAIN feed' : (i \in DOMAIN feed /\ feed'[i] = feed[i]) \/ feed'[i] = e
  BY <1>1
<1>3. \A i \in DOMAIN feed : feed[i].auction \in Auctions
  BY FeedType
<1>. QED BY <1>1, <1>2, <1>3 DEF FollowersInv, FeedOK, Continues

-----------------------------------------------------------------------------
(* The engine *)

LEMMA MaxOfferType ==
    ASSUME NEW price \in Int
    PROVE  MaxOfferPriceAllowed(price) \in Int \cup {NoPrice}
BY DEF MaxOfferPriceAllowed

\* The improver offers against competitors only.
LEMMA EmitInv ==
    ASSUME FollowersInv, Continues, NEW e \in Events, NEW underWay \in SUBSET offers,
           Emit(e, underWay),
           e.initial => /\ chain'[e.auction].status # "None"
                        /\ e.endSlot = chain'[e.auction].endSlot
    PROVE  FeedOK' /\ OffersOK'
<1>1. FeedOK'
  BY FeedGrows DEF Emit
<1>2. offers' \subseteq underWay \cup {ImproveOfferTx(e)}
      /\ (ImproveOfferTx(e) \in offers' \ underWay =>
             e.best \notin ImproverAccounts /\ e.maxOfferPriceAllowed # NoPrice)
  BY DEF Emit, ImproverOnAuctionUpdated
<1>3. e.auction \in Auctions /\ e.maxOfferPriceAllowed \in Int \cup {NoPrice}
  BY EventType
<1>4. e.best \notin ImproverAccounts => ~IsOurs(e.best)
  BY FollowersAssumption DEF ImproverAccounts, IsOurs
<1>5. /\ ImproveOfferTx(e).auction = e.auction /\ ImproveOfferTx(e).best = e.best
      /\ ImproveOfferTx(e).price = e.maxOfferPriceAllowed
  BY DEF ImproveOfferTx
<1>6. OffersOK'
  BY <1>2, <1>3, <1>4, <1>5 DEF FollowersInv, OffersOK
<1>. QED BY <1>1, <1>6

LEMMA PlaceInv ==
    ASSUME FollowersInv, NEW a \in Auctions, NEW best \in InitialBidders,
           NEW duration \in Durations, PlaceInitialOffer(a, best, duration)
    PROVE  FollowersInv'
<1> DEFINE new == [status |-> "Active", best |-> best, price |-> AuctionOf[a].maxFee,
                   endSlot |-> slot + duration]
           e == Event(a, TRUE, best, AuctionOf[a].maxFee, slot + duration)
<1>1. /\ slot \in Nat /\ slot <= LastSlot /\ LastSlot \in Nat /\ MaxDuration \in Nat
      /\ duration \in 1 .. MaxDuration /\ AuctionOf[a].maxFee \in Int
  BY ExecutorAssumption, FollowersAssumption DEF FollowersInv, ChainTypeOK
<1>2. slot + duration \in 0 .. LastSlot + MaxDuration
  BY <1>1
<1>3. /\ chain[a].status = "None"
      /\ chain' = [chain EXCEPT ![a] = new]
      /\ UNCHANGED <<slot, seen, auctionsPerSlot, orders>>
      /\ Emit(e, offers)
  BY DEF PlaceInitialOffer, executorVars
<1>4. new.status = "Active" /\ new.price = AuctionOf[a].maxFee
      /\ new.endSlot = slot + duration
  OBVIOUS
<1>5. e \in Events /\ e.initial /\ e.auction = a /\ e.endSlot = slot + duration
  BY <1>1, MaxOfferType DEF Event, Events
<1>. HIDE DEF new, e
<1>6. ChainTypeOK' /\ Continues
  BY <1>1, <1>2, <1>3, <1>4 DEF FollowersInv, ChainTypeOK, Continues
<1>7. chain'[a] = new
  BY <1>3 DEF FollowersInv, ChainTypeOK
<1>8. FeedOK' /\ OffersOK'
  BY <1>3, <1>4, <1>5, <1>6, <1>7, EmitInv
<1>9. OrdersOK'
  BY <1>3, <1>6, OrdersStay DEF FollowersInv, OrdersOK
<1>. QED BY <1>3, <1>6, <1>8, <1>9, WarehouseStays DEF FollowersInv

LEMMA ImproveInv ==
    ASSUME FollowersInv, NEW a \in Auctions, NEW best \in {Rival, OfferToken},
           NEW price \in Int, NEW underWay \in SUBSET offers,
           Improve(a, best, price, underWay),
           UNCHANGED <<slot, skipped, seen, excused, executorVars, blockhashVars>>
    PROVE  FollowersInv'
<1> DEFINE e == Event(a, FALSE, best, price, chain[a].endSlot)
<1>1. /\ slot \in Nat /\ DOMAIN chain = Auctions
      /\ chain[a].endSlot \in Nat
      /\ chain' = [chain EXCEPT ![a].best = best, ![a].price = price]
      /\ UNCHANGED <<slot, seen, auctionsPerSlot, orders>>
      /\ chain[a].status = "Active"
      /\ Emit(e, underWay)
  <2>1. slot \in Nat /\ DOMAIN chain = Auctions /\ chain[a].endSlot \in Nat
    BY ExecutorAssumption DEF FollowersInv, ChainTypeOK
  <2>2. /\ chain' = [chain EXCEPT ![a].best = best, ![a].price = price]
        /\ chain[a].status = "Active"
        /\ Emit(e, underWay)
    BY Zenon DEF Improve
  <2>3. UNCHANGED <<slot, seen, auctionsPerSlot, orders>>
    BY DEF executorVars
  <2>. QED BY <2>1, <2>2, <2>3
<1>2. e \in Events /\ ~e.initial
  BY <1>1, MaxOfferType DEF Event, Events
<1>. HIDE DEF e
<1>3. /\ DOMAIN chain' = Auctions
      /\ \A b \in Auctions \ {a} : chain'[b] = chain[b]
      /\ chain'[a] = [[chain[a] EXCEPT !.best = best] EXCEPT !.price = price]
  BY <1>1
<1>4. ChainTypeOK' /\ Continues
  BY <1>1, <1>3 DEF FollowersInv, ChainTypeOK, Continues
<1>5. FeedOK' /\ OffersOK'
  BY <1>1, <1>2, <1>4, EmitInv
<1>6. OrdersOK'
  BY <1>1, <1>4, OrdersStay DEF FollowersInv, OrdersOK
<1>. QED BY <1>1, <1>4, <1>5, <1>6, WarehouseStays DEF FollowersInv

LEMMA ExecuteInv ==
    ASSUME FollowersInv, NEW a \in Auctions, ExecuteFastOrder(a)
    PROVE  FollowersInv'
<1>1. /\ chain' = [chain EXCEPT ![a].status = "Completed"]
      /\ UNCHANGED <<slot, seen, feed, auctionsPerSlot, orders, offers>>
      /\ DOMAIN chain = Auctions /\ slot \in Nat
  BY DEF ExecuteFastOrder, executorVars, improverVars, FollowersInv, ChainTypeOK
<1>2. ChainTypeOK' /\ Continues
  BY <1>1 DEF FollowersInv, ChainTypeOK, Continues
<1>3. OrdersOK'
  BY <1>1, <1>2, OrdersStay DEF FollowersInv, OrdersOK
<1>4. OffersOK'
  BY <1>1 DEF FollowersInv, OffersOK
<1>. QED BY <1>1, <1>2, <1>3, <1>4, FeedStays, WarehouseStays DEF FollowersInv

\* A competitor's offer or ours: the price that an offer names is an integer.
LEMMA OfferInv ==
    ASSUME FollowersInv,
           \/ \E a \in Auctions : RivalImproves(a)
           \/ \E tx \in offers : OfferLands(tx) \/ OfferFails(tx)
    PROVE  FollowersInv'
<1>1. ASSUME NEW a \in Auctions, RivalImproves(a)
      PROVE  FollowersInv'
  <2>1. chain[a].price - 1 \in Int
    BY <1>1 DEF FollowersInv, ChainTypeOK
  <2>. QED BY <1>1, <2>1, ImproveInv DEF RivalImproves
<1>2. ASSUME NEW tx \in offers, OfferLands(tx)
      PROVE  FollowersInv'
  <2>1. tx.auction \in Auctions /\ tx.price \in Int
    BY <1>2 DEF FollowersInv, OffersOK
  <2>2. offers \ {tx} \in SUBSET offers
    OBVIOUS
  <2>. QED BY <1>2, <2>1, <2>2, ImproveInv DEF OfferLands
<1>3. ASSUME NEW tx \in offers, OfferFails(tx)
      PROVE  FollowersInv'
  <2>1. UNCHANGED <<slot, seen, chain, feed, auctionsPerSlot, orders>>
        /\ offers' \subseteq offers
    BY <1>3 DEF OfferFails, chainVars, executorVars
  <2>. QED BY <2>1 DEF FollowersInv, ChainTypeOK, FeedOK, WarehouseOK, OrdersOK, OffersOK
<1>. QED BY <1>1, <1>2, <1>3

LEMMA TickInv ==
    ASSUME FollowersInv, Tick
    PROVE  FollowersInv'
<1>1. /\ slot' = slot + 1 /\ slot < LastSlot /\ LastSlot \in Nat
      /\ UNCHANGED <<seen, chain, feed, auctionsPerSlot, orders, offers>>
  BY ExecutorAssumption DEF Tick, executorVars, improverVars
<1>2. ChainTypeOK' /\ Continues
  BY <1>1 DEF FollowersInv, ChainTypeOK, Continues
<1>3. OrdersOK'
  BY <1>1, <1>2, OrdersStay DEF FollowersInv, OrdersOK
<1>4. OffersOK'
  BY <1>1 DEF FollowersInv, OffersOK
<1>. QED BY <1>1, <1>2, <1>3, <1>4, FeedStays, WarehouseStays DEF FollowersInv

-----------------------------------------------------------------------------
(* The executor *)

\* A set of slots that is not empty has a first one.
LEMMA LeastSlot ==
    ASSUME NEW T \in SUBSET Nat, T # {}
    PROVE  \E s \in T : \A t \in T : s <= t
<1>1. PICK s \in T : \A t \in T : <<t, s>> \notin OpToRel(<, Nat)
  BY NatLessThanWellFounded, WFMin, Zenon
<1>2. \A t \in T : ~(t < s)
  BY <1>1, Zenon DEF OpToRel
<1>. QED BY <1>2

\* The slot that is notified is one that the chain has reached.
LEMMA NotifiedIsReached ==
    ASSUME FollowersInv, (seen + 1 .. slot) \ skipped # {}
    PROVE  Notified \in seen + 1 .. slot
<1>1. slot \in Nat /\ seen \in Nat
  BY DEF FollowersInv, ChainTypeOK
<1>2. (seen + 1 .. slot) \ skipped \in SUBSET Nat
  BY <1>1
<1>3. PICK s \in (seen + 1 .. slot) \ skipped :
          \A t \in (seen + 1 .. slot) \ skipped : s <= t
  BY <1>2, LeastSlot
<1>4. s \in seen + 1 .. slot /\ s \notin skipped /\ seen + 1 .. s - 1 \subseteq skipped
  BY <1>1, <1>3
<1>. QED BY <1>4 DEF Notified

\* What is taken out for a slot are auctions that ended before it.
LEMMA ExecutorSlotInv ==
    ASSUME FollowersInv, NEW s \in 0 .. slot, ExecutorOnSlotChange(s),
           UNCHANGED <<slot, chain>>
    PROVE  WarehouseOK' /\ OrdersOK'
<1>1. Continues
  BY SameChain
<1>2. CASE ~(HasHead /\ s = HeadSlot)
  <2>1. UNCHANGED <<auctionsPerSlot, orders>>
    BY <1>2 DEF ExecutorOnSlotChange, executorVars
  <2>2. WarehouseOK'
    BY <1>1, <2>1, WarehouseStays
  <2>3. OrdersOK'
    BY <1>1, <2>1, OrdersStay DEF FollowersInv, OrdersOK
  <2>. QED BY <2>2, <2>3
<1>3. CASE HasHead /\ s = HeadSlot
  <2>1. /\ auctionsPerSlot' = [auctionsPerSlot EXCEPT ![s] = <<>>]
        /\ orders' = [a \in Auctions |-> IF a \in ToExecute THEN "preparing"
                                         ELSE orders[a]]
        /\ ToExecute \subseteq Range(auctionsPerSlot[s])
    BY <1>3 DEF ExecutorOnSlotChange, ToExecute, Dequeued
  <2>2. /\ slot \in Nat /\ s \in Nat /\ s <= slot /\ s \in Slots
        /\ \A a \in Auctions : chain[a].endSlot \in Nat
    BY ExecutorAssumption DEF FollowersInv, ChainTypeOK, Slots
  <2>3. /\ auctionsPerSlot \in [Slots -> Seq(Auctions)]
        /\ \A t \in Slots : \A i \in DOMAIN auctionsPerSlot[t] :
              /\ chain[auctionsPerSlot[t][i]].status # "None"
              /\ t = chain[auctionsPerSlot[t][i]].endSlot + 1
    BY DEF FollowersInv, WarehouseOK
  <2>4. /\ auctionsPerSlot' \in [Slots -> Seq(Auctions)]
        /\ auctionsPerSlot'[s] = <<>>
        /\ \A t \in Slots \ {s} : auctionsPerSlot'[t] = auctionsPerSlot[t]
    <3>1. <<>> \in Seq(Auctions)
      OBVIOUS
    <3>. QED BY <2>1, <2>2, <2>3, <3>1
  <2>5. WarehouseOK'
    BY <2>3, <2>4 DEF WarehouseOK
  <2>6. ASSUME NEW a \in Auctions, orders'[a] # "none"
        PROVE  chain[a].status # "None" /\ slot > chain[a].endSlot
    <3>1. CASE a \in ToExecute
      <4>1. PICK i \in DOMAIN auctionsPerSlot[s] : a = auctionsPerSlot[s][i]
        BY <2>1, <3>1 DEF Range
      <4>2. chain[a].status # "None" /\ s = chain[a].endSlot + 1
        BY <2>2, <2>3, <4>1
      <4>. QED BY <2>2, <4>2
    <3>2. CASE a \notin ToExecute
      <4>1. orders[a] # "none"
        BY <2>1, <2>6, <3>2
      <4>. QED BY <4>1 DEF FollowersInv, OrdersOK
    <3>. QED BY <3>1, <3>2
  <2>7. OrdersOK'
    BY <2>1, <2>6 DEF OrdersOK
  <2>. QED BY <2>5, <2>7
<1>. QED BY <1>2, <1>3

LEMMA SlotChangeInv ==
    ASSUME FollowersInv, SlotChange
    PROVE  FollowersInv'
<1>1. PICK s : s = Notified
  OBVIOUS
<1>2. s \in seen + 1 .. slot
  BY <1>1, NotifiedIsReached DEF SlotChange
<1>3. /\ seen' = s /\ ExecutorOnSlotChange(s)
      /\ UNCHANGED <<slot, chain, feed, offers>>
  BY <1>1 DEF SlotChange, improverVars
<1>4. slot \in Nat /\ seen \in Nat
  BY DEF FollowersInv, ChainTypeOK
<1>5. s \in 0 .. slot
  BY <1>2, <1>4
<1>6. ChainTypeOK'
  BY <1>3, <1>5 DEF FollowersInv, ChainTypeOK
<1>7. WarehouseOK' /\ OrdersOK'
  BY <1>3, <1>5, ExecutorSlotInv
<1>8. FeedOK'
  BY <1>3, SameChain, FeedStays
<1>9. OffersOK'
  BY <1>3 DEF FollowersInv, OffersOK
<1>. QED BY <1>6, <1>7, <1>8, <1>9 DEF FollowersInv

\* An auction that an initial event brings is kept for the slot after its end.
LEMMA ExecutorEventInv ==
    ASSUME FollowersInv, ExecutorEvent
    PROVE  FollowersInv'
<1>1. PICK event : event = Head(feed)
  OBVIOUS
<1>2. /\ feed # <<>> /\ feed' = Tail(feed)
      /\ ExecutorOnAuctionUpdated(event)
      /\ UNCHANGED <<slot, seen, chain, orders, offers>>
  BY <1>1 DEF ExecutorEvent, improverVars, ExecutorOnAuctionUpdated
<1>3. feed \in Seq(Events) /\ 1 \in DOMAIN feed /\ event = feed[1]
  BY <1>1, <1>2, FeedType
<1>4. event.auction \in Auctions
  BY <1>3, FeedType
<1>5. Continues
  BY <1>2, SameChain
<1>6. ChainTypeOK' /\ OffersOK'
  BY <1>2 DEF FollowersInv, ChainTypeOK, OffersOK
<1>7. FeedOK'
  BY <1>2, FeedShrinks
<1>8. OrdersOK'
  BY <1>2, <1>5, OrdersStay DEF FollowersInv, OrdersOK
<1>9. WarehouseOK'
  <2>1. CASE ~event.initial
    <3>1. UNCHANGED auctionsPerSlot
      BY <1>2, <2>1 DEF ExecutorOnAuctionUpdated, UpdateAuction
    <3>. QED BY <1>5, <3>1, WarehouseStays
  <2>2. CASE event.initial
    <3>1. PICK s : s = ExecuteSlot(event.endSlot)
      OBVIOUS
    <3>2. PICK kept : kept = IF Contains(slots, s) THEN auctionsPerSlot[s] ELSE <<>>
      OBVIOUS
    <3>3. PICK new : new = Append(kept, event.auction)
      OBVIOUS
    <3>4. auctionsPerSlot' = [auctionsPerSlot EXCEPT ![s] = new]
      BY <1>2, <2>2, <3>1, <3>2, <3>3 DEF ExecutorOnAuctionUpdated, AddAuction
    <3>5. /\ chain[event.auction].status # "None"
          /\ event.endSlot = chain[event.auction].endSlot
      BY <1>3, <2>2 DEF FollowersInv, FeedOK
    <3>6. s = chain[event.auction].endSlot + 1 /\ s \in Slots
      BY <1>4, <3>1, <3>5, ExecutorAssumption
      DEF FollowersInv, ChainTypeOK, ExecuteSlot, Slots
    <3>7. /\ auctionsPerSlot \in [Slots -> Seq(Auctions)]
          /\ \A t \in Slots : \A i \in DOMAIN auctionsPerSlot[t] :
                /\ chain[auctionsPerSlot[t][i]].status # "None"
                /\ t = chain[auctionsPerSlot[t][i]].endSlot + 1
      BY DEF FollowersInv, WarehouseOK
    <3>8. /\ kept \in Seq(Auctions)
          /\ \A i \in DOMAIN kept : /\ chain[kept[i]].status # "None"
                                    /\ s = chain[kept[i]].endSlot + 1
      BY <3>2, <3>6, <3>7
    <3>9. /\ new \in Seq(Auctions)
          /\ \A i \in DOMAIN new : \/ i \in DOMAIN kept /\ new[i] = kept[i]
                                   \/ new[i] = event.auction
      BY <1>4, <3>3, <3>8
    <3>10. \A i \in DOMAIN new : /\ chain[new[i]].status # "None"
                                 /\ s = chain[new[i]].endSlot + 1
      BY <3>5, <3>6, <3>8, <3>9
    <3>11. /\ auctionsPerSlot' \in [Slots -> Seq(Auctions)]
           /\ auctionsPerSlot'[s] = new
           /\ \A t \in Slots \ {s} : auctionsPerSlot'[t] = auctionsPerSlot[t]
      BY <3>4, <3>6, <3>7, <3>9
    <3>12. ASSUME NEW t \in Slots, NEW i \in DOMAIN auctionsPerSlot'[t]
           PROVE  /\ chain'[auctionsPerSlot'[t][i]].status # "None"
                  /\ t = chain'[auctionsPerSlot'[t][i]].endSlot + 1
      <4>1. CASE t = s
        BY <1>2, <3>10, <3>11, <3>12, <4>1
      <4>2. CASE t # s
        BY <1>2, <3>7, <3>11, <3>12, <4>2
      <4>. QED BY <4>1, <4>2
    <3>. QED BY <3>11, <3>12 DEF WarehouseOK
  <2>. QED BY <2>1, <2>2
<1>. QED BY <1>6, <1>7, <1>8, <1>9 DEF FollowersInv

LEMMA EventLostInv ==
    ASSUME FollowersInv, EventLost
    PROVE  FollowersInv'
<1>1. /\ feed # <<>> /\ feed' = Tail(feed)
      /\ UNCHANGED <<slot, seen, chain, auctionsPerSlot, orders, offers>>
  BY DEF EventLost, executorVars, improverVars
<1>2. FeedOK'
  BY <1>1, FeedShrinks
<1>. QED BY <1>1, <1>2 DEF FollowersInv, ChainTypeOK, WarehouseOK, OrdersOK, OffersOK

\* An order that was handed over is sent or given up.
LEMMA SendInv ==
    ASSUME FollowersInv, NEW a \in Auctions, NEW taken \in BOOLEAN, ExecutorSends(a, taken)
    PROVE  FollowersInv'
<1>1. /\ UNCHANGED <<slot, seen, chain, feed, auctionsPerSlot, offers>>
      /\ orders[a] = "preparing"
      /\ \E result \in {"sent", "failed"} : orders' = [orders EXCEPT ![a] = result]
  BY DEF ExecutorSends, ExecuteOrderWithRetry, chainVars, improverVars
<1>2. DOMAIN orders' = Auctions /\ \A b \in Auctions : orders'[b] # "none" => orders[b] # "none"
  BY <1>1 DEF FollowersInv, OrdersOK
<1>3. OrdersOK'
  BY <1>1, <1>2, SameChain, OrdersStay
<1>. QED BY <1>1, <1>3 DEF FollowersInv, ChainTypeOK, FeedOK, WarehouseOK, OffersOK

LEMMA FollowersInvInit ==
    Init => FollowersInv
<1>. SUFFICES ASSUME Init
              PROVE  FollowersInv
  OBVIOUS
<1>1. ChainTypeOK
  BY ExecutorAssumption DEF Init, NoAuction, ChainTypeOK
<1>2. FeedOK
  BY DEF Init, FeedOK
<1>3. WarehouseOK
  BY DEF Init, ExecutorInit, WarehouseOK
<1>4. OrdersOK
  BY DEF Init, ExecutorInit, OrdersOK
<1>5. OffersOK
  BY DEF Init, ImproverInit, OffersOK
<1>. QED BY <1>1, <1>2, <1>3, <1>4, <1>5 DEF FollowersInv

LEMMA FollowersInvStep ==
    FollowersInv /\ [Next]_vars => FollowersInv'
<1>. SUFFICES ASSUME FollowersInv, [Next]_vars
              PROVE  FollowersInv'
  OBVIOUS
<1>1. CASE Tick
  BY <1>1, TickInv
<1>2. CASE SlotChange
  BY <1>2, SlotChangeInv
<1>3. CASE ExecutorEvent
  BY <1>3, ExecutorEventInv
<1>4. CASE BlockhashAnswer \/ UNCHANGED vars
  <2>1. UNCHANGED <<slot, seen, chain, feed, auctionsPerSlot, orders, offers>>
    BY <1>4 DEF BlockhashAnswer, vars, chainVars, executorVars, improverVars
  <2>. QED BY <2>1
           DEF FollowersInv, ChainTypeOK, FeedOK, WarehouseOK, OrdersOK, OffersOK
<1>5. CASE \E a \in Auctions : \E best \in InitialBidders, duration \in Durations :
              PlaceInitialOffer(a, best, duration)
  BY <1>5, PlaceInv
<1>6. CASE \/ \E a \in Auctions : RivalImproves(a)
           \/ \E tx \in offers : OfferLands(tx) \/ OfferFails(tx)
  BY <1>6, OfferInv
<1>7. CASE \E a \in Auctions : ExecuteFastOrder(a)
  BY <1>7, ExecuteInv
<1>8. CASE \E a \in Auctions, taken \in BOOLEAN : ExecutorSends(a, taken)
  BY <1>8, SendInv
<1>9. CASE EventLost
  BY <1>9, EventLostInv
<1>. QED BY <1>1, <1>2, <1>3, <1>4, <1>5, <1>6, <1>7, <1>8, <1>9 DEF Next

LEMMA FollowersInvHolds ==
    Spec => []FollowersInv
BY FollowersInvInit, FollowersInvStep, PTL DEF Spec

-----------------------------------------------------------------------------
(* What the processes never do *)

\* The executor hands over an order only when its auction is over, whatever the
\* order in which the slot of its end is kept, learnt of and notified.
THEOREM OrdersAwaitTheEnd ==
    Spec => []NeverExecutesEarly
<1>1. FollowersInv => NeverExecutesEarly
  BY DEF FollowersInv, OrdersOK, NeverExecutesEarly
<1>. QED BY <1>1, FollowersInvHolds, PTL

\* The price of an auction falls when a better offer is made, and no step makes
\* one of ours over one of ours.
LEMMA OutbidsOthers ==
    ASSUME FollowersInv, Next, NEW a \in Auctions, IsOurs(chain[a].best),
           chain'[a].price < chain[a].price
    PROVE  chain'[a].best = Rival
<1>1. DOMAIN chain = Auctions /\ \A b \in Auctions : chain[b].price \in Int
  BY DEF FollowersInv, ChainTypeOK
<1>2. ~ UNCHANGED chain
  BY <1>1
<1>3. CASE \E b \in Auctions : RivalImproves(b)
  <2>1. PICK b \in Auctions : RivalImproves(b)
    BY <1>3
  <2>2. chain' = [chain EXCEPT ![b].best = Rival, ![b].price = chain[b].price - 1]
    BY <2>1, Zenon DEF RivalImproves, Improve
  <2>. QED BY <1>1, <2>2
<1>4. CASE \E tx \in offers : OfferLands(tx)
  <2>1. PICK tx \in offers : OfferLands(tx)
    BY <1>4
  <2>2. /\ tx.best = chain[tx.auction].best
        /\ chain' = [chain EXCEPT ![tx.auction].best = OfferToken,
                                  ![tx.auction].price = tx.price]
    BY <2>1, Zenon DEF OfferLands, Improve
  <2>3. tx.auction \in Auctions /\ ~IsOurs(tx.best)
    BY <2>1 DEF FollowersInv, OffersOK
  <2>4. tx.auction # a
    BY <2>2, <2>3
  <2>. QED BY <1>1, <2>2, <2>3, <2>4
<1>5. CASE \E b \in Auctions : ExecuteFastOrder(b)
  <2>1. PICK b \in Auctions : chain' = [chain EXCEPT ![b].status = "Completed"]
    BY <1>5 DEF ExecuteFastOrder
  <2>2. chain'[a].price = chain[a].price
    BY <1>1, <2>1
  <2>. QED BY <1>1, <2>2
<1>6. CASE \E b \in Auctions : \E best \in InitialBidders, duration \in Durations :
              PlaceInitialOffer(b, best, duration)
  <2>1. PICK b \in Auctions, best \in InitialBidders, duration \in Durations :
                PlaceInitialOffer(b, best, duration)
    BY <1>6
  <2>2. chain[b].status = "None" /\ \A c \in Auctions \ {b} : chain'[c] = chain[c]
    BY <1>1, <2>1 DEF PlaceInitialOffer
  <2>3. chain[b].best = Rival
    BY <2>2 DEF FollowersInv, ChainTypeOK
  <2>4. a # b
    BY <2>3, FollowersAssumption DEF IsOurs
  <2>. QED BY <1>1, <2>2, <2>4
<1>. QED
  BY <1>2, <1>3, <1>4, <1>5, <1>6
  DEF Next, Tick, SlotChange, ExecutorEvent, BlockhashAnswer, ExecutorSends, OfferFails,
      EventLost, chainVars

\* No transaction of ours improves an offer of ours: the best offer that it names
\* was a competitor's when it was sent, and the engine asks for that one.
THEOREM OffersOutbidOthers ==
    Spec => NeverOutbidsItself
<1>1. FollowersInv /\ [Next]_vars =>
        [\A a \in Auctions :
            (IsOurs(chain[a].best) /\ chain'[a].price < chain[a].price)
            => chain'[a].best = Rival]_vars
  BY OutbidsOthers
<1>. QED BY <1>1, FollowersInvHolds, PTL DEF Spec, NeverOutbidsItself

-----------------------------------------------------------------------------
(* What the executor misses *)

QueueOK ==
    /\ slots \in Seq(Slots)
    /\ \A i, j \in DOMAIN slots : i < j => slots[i] < slots[j]
    /\ auctions \in [Auctions -> [slot : Int, execute : BOOLEAN]]

\* A slot that was notified, or passed over, does not stay at the head of the queue
\* unless it has no block or its auction was learnt of too late.
HeadOK == HasHead /\ HeadSlot <= seen => HeadIsDead

\* The last event of an auction under way tells its best offer.
LastEventsOK ==
    \A i \in DOMAIN feed :
       (\A j \in DOMAIN feed : i < j => feed[j].auction # feed[i].auction)
       => feed[i].best = chain[feed[i].auction].best

\* Where the executor is with an auction that began: its initial event is awaited, it
\* is kept and what is known of it is up to date, or it was decided upon.
Awaited(a) == \E i \in DOMAIN feed : feed[i].initial /\ feed[i].auction = a

Kept(a) ==
    LET s == chain[a].endSlot + 1
    IN  /\ auctions[a].slot = s
        /\ \E i \in DOMAIN slots : slots[i] = s
        /\ \E i \in DOMAIN auctionsPerSlot[s] : auctionsPerSlot[s][i] = a
        /\ ~Undelivered(a) => auctions[a].execute = IsOurs(chain[a].best)

Decided(a) ==
    /\ slot > chain[a].endSlot
    /\ orders[a] # "none" \/ ~IsOurs(chain[a].best)

Followed(a) ==
    chain[a].status # "None" => a \in excused \/ Awaited(a) \/ Kept(a) \/ Decided(a)

AllFollowed == \A a \in Auctions : Followed(a)

MissedInv == QueueOK /\ HeadOK /\ LastEventsOK /\ AllFollowed

-----------------------------------------------------------------------------
(* The queue of slots stays sorted. *)

LEMMA InsertedSlot ==
    ASSUME QueueOK, NEW s \in Slots, ~Contains(slots, s)
    PROVE  \E r \in [DOMAIN Append(slots, s) -> Range(Append(slots, s))] :
              /\ Range(r) = Range(Append(slots, s))
              /\ \A i, j \in DOMAIN Append(slots, s) : i < j => r[i] < r[j]
<1>. DEFINE n == Len(slots)
            old == Append(slots, s)
<1>1. /\ slots \in Seq(Slots) /\ n \in Nat /\ DOMAIN slots = 1 .. n
      /\ Slots \subseteq Nat
      /\ \A i, j \in 1 .. n : i < j => slots[i] < slots[j]
      /\ \A i \in 1 .. n : slots[i] # s /\ slots[i] \in Slots
  BY ExecutorAssumption DEF QueueOK, Contains, Slots
<1>2. /\ DOMAIN old = 1 .. n + 1 /\ old[n + 1] = s
      /\ \A i \in 1 .. n : old[i] = slots[i]
  BY <1>1
<1>. DEFINE above == {i \in 1 .. n + 1 : i = n + 1 \/ s < slots[i]}
<1>3. PICK k \in above : \A i \in above : k <= i
  <2>1. above \in SUBSET Nat /\ above # {}
    BY <1>1
  <2>. QED BY <2>1, LeastSlot
<1>4. /\ k \in 1 .. n + 1
      /\ \A i \in 1 .. n : i < k => slots[i] < s
      /\ \A i \in 1 .. n : k <= i => s < slots[i]
  <2>1. k \in 1 .. n + 1 /\ (k = n + 1 \/ s < slots[k])
    OBVIOUS
  <2>2. ASSUME NEW i \in 1 .. n, i < k
        PROVE  slots[i] < s
    <3>1. i \notin above
      BY <1>1, <1>3, <2>1, <2>2
    <3>2. i \in 1 .. n + 1
      BY <1>1
    <3>3. ~(s < slots[i])
      BY <3>1, <3>2
    <3>4. slots[i] # s /\ slots[i] \in Nat /\ s \in Nat
      BY <1>1
    <3>. QED BY <3>3, <3>4
  <2>3. ASSUME NEW i \in 1 .. n, k <= i
        PROVE  s < slots[i]
    <3>1. k \in 1 .. n /\ s < slots[k]
      BY <1>1, <2>1, <2>3
    <3>2. k = i \/ slots[k] < slots[i]
      BY <1>1, <2>3, <3>1
    <3>3. slots[i] \in Nat /\ slots[k] \in Nat /\ s \in Nat
      BY <1>1, <3>1
    <3>. QED BY <3>1, <3>2, <3>3
  <2>. QED BY <2>1, <2>2, <2>3
<1>. HIDE DEF above
<1>. DEFINE r == [i \in 1 .. n + 1 |-> IF i < k THEN slots[i] ELSE IF i = k THEN s
                                       ELSE slots[i - 1]]
<1>5. \A i \in 1 .. n + 1 : /\ i < k => i \in 1 .. n /\ r[i] = slots[i]
                            /\ i = k => r[i] = s
                            /\ k < i => i - 1 \in 1 .. n /\ r[i] = slots[i - 1]
  BY <1>1, <1>4
<1>. HIDE DEF old
<1>6. \A i \in 1 .. n + 1 : r[i] \in Range(old)
  <2>1. \A i \in 1 .. n : slots[i] \in Range(old)
    BY <1>1, <1>2 DEF Range
  <2>2. s \in Range(old)
    BY <1>1, <1>2 DEF Range
  <2>. QED BY <1>1, <1>4, <1>5, <2>1, <2>2
<1>7. \A x \in Range(old) : \E i \in 1 .. n + 1 : r[i] = x
  <2>1. SUFFICES ASSUME NEW j \in 1 .. n + 1
                 PROVE  \E i \in 1 .. n + 1 : r[i] = old[j]
    BY <1>2 DEF Range
  <2>2. CASE j = n + 1
    BY <1>2, <1>4, <1>5, <2>2
  <2>3. CASE j # n + 1 /\ j < k
    <3>1. j \in 1 .. n /\ r[j] = old[j]
      BY <1>1, <1>2, <1>5, <2>3
    <3>. QED BY <3>1
  <2>4. CASE j # n + 1 /\ k <= j
    <3>1. j \in 1 .. n /\ j + 1 \in 1 .. n + 1 /\ k < j + 1 /\ (j + 1) - 1 = j
      BY <1>1, <1>4, <2>4
    <3>2. r[j + 1] = slots[j]
      BY <1>5, <3>1
    <3>. QED BY <1>2, <3>1, <3>2
  <2>. QED BY <1>1, <1>4, <2>2, <2>3, <2>4
<1>8. ASSUME NEW i \in 1 .. n + 1, NEW j \in 1 .. n + 1, i < j
      PROVE  r[i] < r[j]
  <2>1. CASE j < k
    BY <1>1, <1>4, <1>5, <1>8, <2>1
  <2>2. CASE j = k
    BY <1>1, <1>4, <1>5, <1>8, <2>2
  <2>3. CASE i = k
    <3>1. j - 1 \in 1 .. n /\ k <= j - 1 /\ r[j] = slots[j - 1] /\ r[i] = s
      BY <1>1, <1>4, <1>5, <1>8, <2>3
    <3>. QED BY <1>4, <3>1
  <2>4. CASE i < k /\ k < j
    <3>1. /\ j - 1 \in 1 .. n /\ k <= j - 1 /\ r[j] = slots[j - 1]
          /\ i \in 1 .. n /\ r[i] = slots[i]
      BY <1>1, <1>4, <1>5, <1>8, <2>4
    <3>2. i < j - 1
      BY <1>1, <1>4, <2>4, <3>1
    <3>. QED BY <1>1, <3>1, <3>2
  <2>5. CASE k < i
    <3>1. /\ j - 1 \in 1 .. n /\ r[j] = slots[j - 1]
          /\ i - 1 \in 1 .. n /\ r[i] = slots[i - 1]
      BY <1>1, <1>4, <1>5, <1>8, <2>5
    <3>2. i - 1 < j - 1
      BY <1>8
    <3>. QED BY <1>1, <3>1, <3>2
  <2>. QED BY <1>1, <1>4, <2>1, <2>2, <2>3, <2>4, <2>5
<1>9. r \in [DOMAIN old -> Range(old)] /\ Range(r) = Range(old)
  <2>1. DOMAIN r = 1 .. n + 1
    OBVIOUS
  <2>. HIDE DEF r
  <2>2. Range(r) \subseteq Range(old)
    BY <1>6, <2>1 DEF Range
  <2>3. Range(old) \subseteq Range(r)
    BY <1>7, <2>1 DEF Range
  <2>. QED BY <2>2, <2>3, <1>2, <1>6
<1>. QED BY <1>2, <1>8, <1>9 DEF old

\* The queue with a slot: sorted, with all that it had and the slot.
LEMMA WithSlotFacts ==
    ASSUME TextIsOrder, QueueOK, NEW s \in Slots
    PROVE  /\ WithSlot(s) \in Seq(Slots)
           /\ \A i, j \in DOMAIN WithSlot(s) : i < j => WithSlot(s)[i] < WithSlot(s)[j]
           /\ Range(WithSlot(s)) = Range(slots) \cup {s}
<1>1. CASE Contains(slots, s)
  <2>1. s \in Range(slots)
    BY <1>1 DEF Contains, Range, QueueOK
  <2>. QED BY <1>1, <2>1 DEF WithSlot, QueueOK
<1>2. CASE ~Contains(slots, s)
  <2>1. PICK old : old = Append(slots, s)
    OBVIOUS
  <2>2. /\ slots \in Seq(Slots) /\ old \in Seq(Slots) /\ DOMAIN old = 1 .. Len(slots) + 1
        /\ Len(slots) \in Nat /\ DOMAIN slots = 1 .. Len(slots)
        /\ old[Len(slots) + 1] = s /\ \A i \in DOMAIN slots : old[i] = slots[i]
    BY <2>1 DEF QueueOK
  <2>3. Range(old) = Range(slots) \cup {s} /\ Range(old) \subseteq Slots
    <3>1. \A i \in DOMAIN slots : i \in DOMAIN old /\ slots[i] \in Slots
      BY <2>2
    <3>2. Len(slots) + 1 \in DOMAIN old
      BY <2>2
    <3>3. \A i \in DOMAIN old : i \in DOMAIN slots \/ i = Len(slots) + 1
      BY <2>2
    <3>. QED BY <2>2, <3>1, <3>2, <3>3 DEF Range
  <2>4. PICK r \in [DOMAIN old -> Range(old)] :
            /\ Range(r) = Range(old)
            /\ \A i, j \in DOMAIN old : i < j => r[i] < r[j]
    BY <1>2, <2>1, InsertedSlot
  <2>5. \A i, j \in DOMAIN old : i < j => TextBefore(r[i], r[j])
    BY <2>3, <2>4 DEF TextIsOrder
  <2>6. PICK q : q = SortedByText(old)
    OBVIOUS
  <2>7. /\ q \in [DOMAIN old -> Range(old)] /\ Range(q) = Range(old)
        /\ \A i, j \in DOMAIN old : i < j => TextBefore(q[i], q[j])
    BY <2>4, <2>5, <2>6 DEF SortedByText
  <2>8. \A i, j \in DOMAIN old : i < j => q[i] < q[j]
    BY <2>3, <2>7 DEF TextIsOrder
  <2>9. q \in Seq(Slots)
    BY <2>2, <2>3, <2>7
  <2>10. WithSlot(s) = q
    BY <1>2, <2>1, <2>6 DEF WithSlot
  <2>. QED BY <2>3, <2>7, <2>8, <2>9, <2>10
<1>. QED BY <1>1, <1>2

-----------------------------------------------------------------------------
(* No step makes the executor miss an auction silently. *)

\* The steps that touch neither the executor's maps, the feed nor a best offer.
LEMMA QuietMissed ==
    ASSUME FollowersInv, MissedInv,
           UNCHANGED <<slots, auctionsPerSlot, auctions, seen, skipped, feed, excused>>,
           slot' \in Nat, slot <= slot',
           \A a \in Auctions : /\ chain'[a].status # "None" => chain[a].status # "None"
                               /\ chain'[a].endSlot = chain[a].endSlot
                               /\ chain'[a].best = chain[a].best
                               /\ orders[a] # "none" => orders'[a] # "none"
    PROVE  MissedInv'
<1>1. QueueOK'
  BY DEF MissedInv, QueueOK
<1>2. HeadOK'
  BY DEF MissedInv, HeadOK, HasHead, HeadSlot, HeadIsDead, Dequeued
<1>3. LastEventsOK'
  <2>1. \A i \in DOMAIN feed : feed[i].auction \in Auctions
    BY FeedType
  <2>. QED BY <2>1 DEF MissedInv, LastEventsOK
<1>4. ASSUME NEW a \in Auctions
      PROVE  Followed(a)'
  <2>1. Followed(a)
    BY DEF MissedInv, AllFollowed
  <2>2. (Awaited(a) => Awaited(a)') /\ (Kept(a) => Kept(a)')
    BY DEF Awaited, Kept, Undelivered
  <2>3. Decided(a) => Decided(a)'
    <3>1. slot \in Nat /\ chain[a].endSlot \in Nat
      BY ExecutorAssumption DEF FollowersInv, ChainTypeOK
    <3>. QED BY <3>1 DEF Decided
  <2>. QED BY <2>1, <2>2, <2>3 DEF Followed
<1>. QED BY <1>1, <1>2, <1>3, <1>4 DEF MissedInv, AllFollowed

\* A new offer: the executor awaits its event.
LEMMA EmitMissed ==
    ASSUME FollowersInv, MissedInv, NEW e \in Events, feed' = Append(feed, e),
           UNCHANGED <<slot, slots, auctionsPerSlot, auctions, orders, seen, skipped, excused>>,
           \A b \in Auctions \ {e.auction} : chain'[b] = chain[b],
           chain'[e.auction].best = e.best,
           e.initial \/ (/\ chain[e.auction].status # "None"
                         /\ slot <= chain[e.auction].endSlot
                         /\ chain'[e.auction].endSlot = chain[e.auction].endSlot)
    PROVE  MissedInv'
<1>1. QueueOK'
  BY DEF MissedInv, QueueOK
<1>2. HeadOK'
  BY DEF MissedInv, HeadOK, HasHead, HeadSlot, HeadIsDead, Dequeued
<1>3. PICK n \in Nat : /\ DOMAIN feed = 1 .. n /\ DOMAIN feed' = 1 .. n + 1
                       /\ feed'[n + 1] = e
                       /\ \A i \in 1 .. n : feed'[i] = feed[i]
  BY FeedType
<1>4. \A i \in 1 .. n : feed[i].auction \in Auctions
  BY <1>3, FeedType
<1>5. e.auction \in Auctions
  BY EventType
<1>6. LastEventsOK'
  <2>1. SUFFICES ASSUME NEW i \in 1 .. n + 1,
                        \A j \in 1 .. n + 1 : i < j => feed'[j].auction # feed'[i].auction
                 PROVE  feed'[i].best = chain'[feed'[i].auction].best
    BY <1>3 DEF LastEventsOK
  <2>2. CASE i = n + 1
    BY <1>3, <2>2
  <2>3. CASE i # n + 1
    <3>1. i \in 1 .. n /\ i < n + 1 /\ n + 1 \in 1 .. n + 1 /\ feed'[i] = feed[i]
      BY <1>3, <2>3
    <3>2. feed[i].auction # e.auction
      BY <1>3, <2>1, <3>1
    <3>3. \A j \in 1 .. n : i < j => feed[j].auction # feed[i].auction
      <4>1. \A j \in 1 .. n : j \in 1 .. n + 1
        OBVIOUS
      <4>. QED BY <1>3, <2>1, <3>1, <4>1
    <3>4. feed[i].best = chain[feed[i].auction].best
      BY <1>3, <3>1, <3>3 DEF MissedInv, LastEventsOK
    <3>. QED BY <1>4, <3>1, <3>2, <3>4
  <2>. QED BY <2>2, <2>3
<1>7. \A b \in Auctions : Awaited(b) => Awaited(b)'
  BY <1>3 DEF Awaited
<1>8. \A b \in Auctions \ {e.auction} : Undelivered(b)' <=> Undelivered(b)
  <2>1. \A i \in 1 .. n + 1 : i \in 1 .. n \/ i = n + 1
    OBVIOUS
  <2>. QED BY <1>3, <2>1 DEF Undelivered
<1>9. n + 1 \in DOMAIN feed'
  BY <1>3
<1>10. ASSUME NEW b \in Auctions
       PROVE  Followed(b)'
  <2>1. Followed(b)
    BY DEF MissedInv, AllFollowed
  <2>2. CASE b # e.auction
    <3>1. chain'[b] = chain[b] /\ (Undelivered(b)' <=> Undelivered(b))
      BY <1>8, <2>2
    <3>2. (Kept(b) => Kept(b)') /\ (Decided(b) => Decided(b)')
      BY <3>1 DEF Kept, Decided
    <3>. QED BY <1>7, <2>1, <3>1, <3>2 DEF Followed
  <2>3. CASE b = e.auction /\ e.initial
    <3>1. Awaited(b)'
      BY <1>3, <1>9, <2>3 DEF Awaited
    <3>. QED BY <3>1 DEF Followed
  <2>4. CASE b = e.auction /\ ~e.initial
    <3>1. Undelivered(b)'
      BY <1>3, <1>9, <2>4 DEF Undelivered
    <3>2. /\ chain[b].status # "None" /\ slot <= chain[b].endSlot
          /\ chain'[b].endSlot = chain[b].endSlot
      BY <2>4
    <3>3. Kept(b) => Kept(b)'
      BY <3>1, <3>2 DEF Kept
    <3>4. ~Decided(b)
      <4>1. slot \in Nat /\ chain[b].endSlot \in Nat
        BY ExecutorAssumption DEF FollowersInv, ChainTypeOK
      <4>. QED BY <3>2, <4>1 DEF Decided
    <3>. QED BY <1>7, <2>1, <3>2, <3>3, <3>4 DEF Followed
  <2>. QED BY <2>2, <2>3, <2>4
<1>. QED BY <1>1, <1>2, <1>6, <1>10 DEF MissedInv, AllFollowed

\* What is left of the feed when its first event is handed over or lost.
LEMMA FeedRest ==
    ASSUME FollowersInv, MissedInv, feed # <<>>, feed' = Tail(feed), UNCHANGED chain
    PROVE  /\ 1 \in DOMAIN feed /\ Head(feed) = feed[1] /\ feed[1] \in Events
           /\ LastEventsOK'
           /\ \A a \in Auctions :
                 /\ Awaited(a) => Awaited(a)' \/ (feed[1].initial /\ feed[1].auction = a)
                 /\ Undelivered(a)' => Undelivered(a)
                 /\ feed[1].auction # a => (Undelivered(a)' <=> Undelivered(a))
                 /\ feed[1].auction = a /\ ~Undelivered(a)' => feed[1].best = chain[a].best
<1>1. feed \in Seq(Events)
  BY FeedType
<1>2. 1 \in DOMAIN feed /\ Head(feed) = feed[1] /\ feed[1] \in Events
  BY <1>1
<1>3. /\ DOMAIN feed \subseteq Nat /\ DOMAIN feed' \subseteq Nat
      /\ \A i \in DOMAIN feed' : 0 < i /\ i + 1 \in DOMAIN feed /\ feed'[i] = feed[i + 1]
      /\ \A j \in DOMAIN feed : j = 1 \/ (j - 1 \in DOMAIN feed' /\ feed'[j - 1] = feed[j])
  BY <1>1
<1>4. LastEventsOK'
  <2>1. SUFFICES ASSUME NEW i \in DOMAIN feed',
                        \A j \in DOMAIN feed' : i < j => feed'[j].auction # feed'[i].auction
                 PROVE  feed'[i].best = chain[feed'[i].auction].best
    BY DEF LastEventsOK
  <2>2. i + 1 \in DOMAIN feed /\ feed'[i] = feed[i + 1] /\ i \in Nat /\ 0 < i
    BY <1>3
  <2>3. ASSUME NEW j \in DOMAIN feed, i + 1 < j
        PROVE  feed[j].auction # feed[i + 1].auction
    <3>1. j \in Nat /\ j # 1 /\ i < j - 1
      BY <1>3, <2>2, <2>3
    <3>2. j - 1 \in DOMAIN feed' /\ feed'[j - 1] = feed[j]
      BY <1>3, <3>1
    <3>. QED BY <2>1, <2>2, <3>1, <3>2
  <2>4. feed[i + 1].best = chain[feed[i + 1].auction].best
    BY <2>2, <2>3 DEF MissedInv, LastEventsOK
  <2>. QED BY <2>2, <2>4
<1>5. ASSUME NEW a \in Auctions
      PROVE  /\ Awaited(a) => Awaited(a)' \/ (feed[1].initial /\ feed[1].auction = a)
             /\ Undelivered(a)' => Undelivered(a)
             /\ feed[1].auction # a => (Undelivered(a)' <=> Undelivered(a))
  <2>1. \A j \in DOMAIN feed : j = 1 \/ \E i \in DOMAIN feed' : feed'[i] = feed[j]
    BY <1>3
  <2>2. \A i \in DOMAIN feed' : \E j \in DOMAIN feed : feed'[i] = feed[j]
    BY <1>3
  <2>. QED BY <1>2, <2>1, <2>2 DEF Awaited, Undelivered
<1>6. ASSUME NEW a \in Auctions, feed[1].auction = a, ~Undelivered(a)'
      PROVE  feed[1].best = chain[a].best
  <2>1. \A i \in DOMAIN feed' : feed'[i].auction # a
    BY <1>6 DEF Undelivered
  <2>2. \A j \in DOMAIN feed : 1 < j => feed[j].auction # feed[1].auction
    <3>1. SUFFICES ASSUME NEW j \in DOMAIN feed, 1 < j
                   PROVE  feed[j].auction # a
      BY <1>6
    <3>2. j \in Nat /\ j # 1
      BY <1>3, <3>1
    <3>3. j - 1 \in DOMAIN feed' /\ feed'[j - 1] = feed[j]
      BY <1>3, <3>2
    <3>4. feed'[j - 1].auction # a
      BY <2>1, <3>3
    <3>. QED BY <3>3, <3>4
  <2>. QED BY <1>2, <1>6, <2>2 DEF MissedInv, LastEventsOK
<1>. QED BY <1>2, <1>4, <1>5, <1>6

LEMMA EventLostMissed ==
    ASSUME FollowersInv, MissedInv, EventLost
    PROVE  MissedInv'
<1>1. /\ feed # <<>> /\ feed' = Tail(feed) /\ excused' = excused \cup {Head(feed).auction}
      /\ UNCHANGED <<slot, chain, slots, auctionsPerSlot, auctions, orders, seen, skipped>>
  BY DEF EventLost, executorVars
<1>2. QueueOK'
  BY <1>1 DEF MissedInv, QueueOK
<1>3. HeadOK'
  BY <1>1 DEF MissedInv, HeadOK, HasHead, HeadSlot, HeadIsDead, Dequeued
<1>4. LastEventsOK'
  BY <1>1, FeedRest
<1>5. ASSUME NEW a \in Auctions
      PROVE  Followed(a)'
  <2>1. Followed(a)
    BY DEF MissedInv, AllFollowed
  <2>2. CASE feed[1].auction = a
    <3>1. a \in excused'
      BY <1>1, <2>2, FeedRest
    <3>. QED BY <3>1 DEF Followed
  <2>3. CASE feed[1].auction # a
    <3>1. (Awaited(a) => Awaited(a)') /\ (Undelivered(a)' <=> Undelivered(a))
      BY <1>1, <2>3, FeedRest
    <3>2. (Kept(a) => Kept(a)') /\ (Decided(a) => Decided(a)')
      BY <1>1, <3>1 DEF Kept, Decided
    <3>. QED BY <1>1, <2>1, <3>1, <3>2 DEF Followed
  <2>. QED BY <2>2, <2>3
<1>. QED BY <1>2, <1>3, <1>4, <1>5 DEF MissedInv, AllFollowed

\* An event that is handed over: the auction is kept from its initial event on, and
\* what is known of it is what the last event says.
LEMMA InitialEventMissed ==
    ASSUME TextIsOrder, FollowersInv, MissedInv, ExecutorEvent, Head(feed).initial
    PROVE  MissedInv'
<1>1. PICK event : event = Head(feed)
  OBVIOUS
<1>2. PICK a : a = event.auction
  OBVIOUS
<1>3. PICK s : s = event.endSlot + 1
  OBVIOUS
<1>4. PICK kept : kept = IF Contains(slots, s) THEN auctionsPerSlot[s] ELSE <<>>
  OBVIOUS
<1>5. PICK new : new = Append(kept, a)
  OBVIOUS
<1>6. /\ feed # <<>> /\ feed' = Tail(feed)
      /\ AddAuction(a, event.endSlot, IsOurs(event.best))
      /\ excused' = IF s <= seen THEN excused \cup {a} ELSE excused
      /\ UNCHANGED <<slot, skipped, seen, chain, orders>>
  BY <1>1, <1>2, <1>3 DEF ExecutorEvent, ExecutorOnAuctionUpdated
<1>7. /\ slots' = WithSlot(s)
      /\ auctionsPerSlot' = [auctionsPerSlot EXCEPT ![s] = new]
      /\ auctions' = [auctions EXCEPT ![a] = [slot |-> s, execute |-> IsOurs(event.best)]]
  BY <1>3, <1>4, <1>5, <1>6 DEF AddAuction, ExecuteSlot
<1>8. /\ 1 \in DOMAIN feed /\ event = feed[1] /\ a \in Auctions /\ event.initial
  BY <1>1, <1>2, <1>6, FeedRest, FeedType
<1>9. /\ chain[a].status # "None" /\ s = chain[a].endSlot + 1 /\ s \in Slots
      /\ seen \in Nat /\ s \in Nat
  <2>1. chain[a].status # "None" /\ event.endSlot = chain[a].endSlot
    BY <1>2, <1>8 DEF FollowersInv, FeedOK
  <2>. QED BY <1>3, <1>8, <2>1, ExecutorAssumption DEF FollowersInv, ChainTypeOK, Slots
<1>10. /\ auctionsPerSlot \in [Slots -> Seq(Auctions)]
       /\ slots \in Seq(Slots) /\ slots' \in Seq(Slots)
       /\ \A i, j \in DOMAIN slots : i < j => slots[i] < slots[j]
       /\ \A i, j \in DOMAIN slots' : i < j => slots'[i] < slots'[j]
       /\ Range(slots') = Range(slots) \cup {s}
       /\ auctions \in [Auctions -> [slot : Int, execute : BOOLEAN]]
  <2>1. QueueOK /\ auctionsPerSlot \in [Slots -> Seq(Auctions)]
    BY DEF MissedInv, FollowersInv, WarehouseOK
  <2>2. /\ WithSlot(s) \in Seq(Slots)
        /\ \A i, j \in DOMAIN WithSlot(s) : i < j => WithSlot(s)[i] < WithSlot(s)[j]
        /\ Range(WithSlot(s)) = Range(slots) \cup {s}
    BY <1>9, <2>1, WithSlotFacts
  <2>. QED BY <1>7, <2>1, <2>2 DEF QueueOK
<1>11. QueueOK'
  <2>1. [slot |-> s, execute |-> IsOurs(event.best)] \in [slot : Int, execute : BOOLEAN]
    BY <1>9 DEF IsOurs
  <2>. QED BY <1>7, <1>10, <2>1 DEF QueueOK
<1>12. /\ kept \in Seq(Auctions) /\ Range(kept) \subseteq Range(new) /\ a \in Range(new)
  <2>1. kept \in Seq(Auctions)
    BY <1>4, <1>9, <1>10
  <2>2. PICK n \in Nat : /\ DOMAIN kept = 1 .. n /\ DOMAIN new = 1 .. n + 1
                         /\ new[n + 1] = a /\ \A i \in 1 .. n : new[i] = kept[i]
    BY <1>5, <1>8, <2>1
  <2>3. n + 1 \in DOMAIN new /\ \A i \in DOMAIN kept : i \in DOMAIN new
    BY <2>2
  <2>. QED BY <2>1, <2>2, <2>3 DEF Range
<1>13. /\ auctionsPerSlot'[s] = new
       /\ \A t \in Slots \ {s} : auctionsPerSlot'[t] = auctionsPerSlot[t]
       /\ \A t \in Range(slots) : Range(auctionsPerSlot[t]) \subseteq Range(auctionsPerSlot'[t])
  <2>1. /\ auctionsPerSlot'[s] = new
        /\ \A t \in Slots \ {s} : auctionsPerSlot'[t] = auctionsPerSlot[t]
    BY <1>7, <1>9, <1>10
  <2>2. Range(slots) \subseteq Slots
    BY <1>10 DEF Range
  <2>3. s \in Range(slots) => kept = auctionsPerSlot[s]
    BY <1>4, <1>10 DEF Contains, Range
  <2>. QED BY <1>12, <2>1, <2>2, <2>3
<1>14. HeadOK'
  <2>1. SUFFICES ASSUME HasHead', HeadSlot' <= seen
                 PROVE  HeadIsDead'
    BY <1>6 DEF HeadOK
  <2>2. PICK h : h = HeadSlot'
    OBVIOUS
  <2>3. /\ 1 \in DOMAIN slots' /\ h = slots'[1] /\ h \in Slots /\ Slots \subseteq Nat
        /\ h \in Range(slots')
    <3>1. 1 \in DOMAIN slots' /\ h = slots'[1] /\ h \in Slots
      BY <1>10, <2>1, <2>2 DEF HasHead, HeadSlot
    <3>. QED BY <3>1, ExecutorAssumption DEF Slots, Range
  <2>4. CASE h = s
    <3>1. a \in excused'
      BY <1>6, <2>1, <2>2, <2>4
    <3>2. a \in Range(auctionsPerSlot'[h])
      BY <1>12, <1>13, <2>4
    <3>. QED BY <2>1, <2>2, <3>1, <3>2 DEF HeadIsDead, Dequeued
  <2>5. CASE h # s
    <3>1. h \in Range(slots)
      BY <1>10, <2>3, <2>5
    <3>2. HasHead /\ h = HeadSlot
      <4>1. PICK i \in DOMAIN slots : slots[i] = h
        BY <3>1 DEF Range
      <4>2. 1 \in DOMAIN slots /\ HeadSlot = slots[1] /\ HasHead /\ i \in Nat /\ 1 <= i
            /\ slots[1] \in Slots
        BY <1>10, <4>1 DEF HeadSlot, HasHead
      <4>3. i = 1 \/ slots[1] < h
        BY <1>10, <4>1, <4>2
      <4>4. slots[1] \in Range(slots')
        BY <1>10, <4>2 DEF Range
      <4>5. PICK j \in DOMAIN slots' : slots'[j] = slots[1]
        BY <4>4 DEF Range
      <4>6. j \in Nat /\ 1 <= j
        BY <1>10
      <4>7. j = 1 \/ h < slots[1]
        BY <1>10, <2>3, <4>5, <4>6
      <4>8. slots[1] \in Nat /\ h \in Nat
        BY <2>3, <4>2
      <4>. QED BY <2>3, <4>1, <4>2, <4>3, <4>5, <4>7, <4>8
    <3>3. HeadIsDead
      BY <1>6, <2>1, <2>2, <3>2 DEF MissedInv, HeadOK
    <3>4. h \in skipped \/ \E b \in Range(auctionsPerSlot[h]) : b \in excused
      BY <3>2, <3>3 DEF HeadIsDead, Dequeued
    <3>5. h \in skipped' \/ \E b \in Range(auctionsPerSlot'[h]) : b \in excused'
      BY <1>6, <1>13, <3>1, <3>4
    <3>. QED BY <2>1, <2>2, <3>5 DEF HeadIsDead, Dequeued
  <2>. QED BY <2>4, <2>5
<1>15. LastEventsOK'
  BY <1>6, FeedRest
<1>16. ASSUME NEW b \in Auctions
       PROVE  Followed(b)'
  <2>1. Followed(b)
    BY DEF MissedInv, AllFollowed
  <2>2. CASE b = a
    <3>1. auctions'[b] = [slot |-> s, execute |-> IsOurs(event.best)]
      BY <1>7, <1>10, <2>2
    <3>2. \E i \in DOMAIN slots' : slots'[i] = s
      BY <1>10 DEF Range
    <3>3. \E i \in DOMAIN auctionsPerSlot'[s] : auctionsPerSlot'[s][i] = b
      BY <1>12, <1>13, <2>2 DEF Range
    <3>4. ~Undelivered(b)' => event.best = chain[b].best
      BY <1>2, <1>6, <1>8, <2>2, FeedRest
    <3>5. Kept(b)'
      BY <1>6, <1>9, <2>2, <3>1, <3>2, <3>3, <3>4 DEF Kept
    <3>. QED BY <3>5 DEF Followed
  <2>3. CASE b # a
    <3>1. (Awaited(b) => Awaited(b)') /\ (Undelivered(b)' <=> Undelivered(b))
      BY <1>2, <1>6, <1>8, <2>3, FeedRest
    <3>2. Decided(b) => Decided(b)'
      BY <1>6 DEF Decided
    <3>3. Kept(b) => Kept(b)'
      <4>1. SUFFICES ASSUME Kept(b)
                     PROVE  Kept(b)'
        OBVIOUS
      <4>2. PICK t : t = chain[b].endSlot + 1
        OBVIOUS
      <4>3. /\ t \in Range(slots) /\ b \in Range(auctionsPerSlot[t]) /\ auctions[b].slot = t
            /\ ~Undelivered(b) => auctions[b].execute = IsOurs(chain[b].best)
        BY <4>1, <4>2 DEF Kept, Range
      <4>4. t \in Range(slots') /\ b \in Range(auctionsPerSlot'[t]) /\ auctions'[b] = auctions[b]
        BY <1>7, <1>10, <1>13, <2>3, <4>3
      <4>. QED BY <1>6, <3>1, <4>2, <4>3, <4>4 DEF Kept, Range
    <3>. QED BY <1>6, <2>1, <3>1, <3>2, <3>3 DEF Followed
  <2>. QED BY <2>2, <2>3
<1>. QED BY <1>11, <1>14, <1>15, <1>16 DEF MissedInv, AllFollowed

LEMMA LaterEventMissed ==
    ASSUME FollowersInv, MissedInv, ExecutorEvent, ~Head(feed).initial
    PROVE  MissedInv'
<1>1. PICK event : event = Head(feed)
  OBVIOUS
<1>2. PICK a : a = event.auction
  OBVIOUS
<1>3. PICK ours : ours = IsOurs(event.best)
  OBVIOUS
<1>4. /\ feed # <<>> /\ feed' = Tail(feed)
      /\ auctions' = IF auctions[a] = Absent THEN auctions
                     ELSE [auctions EXCEPT ![a].execute = ours]
      /\ excused \subseteq excused'
      /\ UNCHANGED <<slot, skipped, seen, chain, orders, slots, auctionsPerSlot>>
  BY <1>1, <1>2, <1>3 DEF ExecutorEvent, ExecutorOnAuctionUpdated, UpdateAuction
<1>5. event = feed[1] /\ a \in Auctions /\ ~event.initial
  BY <1>1, <1>2, <1>4, FeedRest, FeedType
<1>6. auctions \in [Auctions -> [slot : Int, execute : BOOLEAN]] /\ ours \in BOOLEAN
  BY <1>3 DEF MissedInv, QueueOK, IsOurs
<1>7. /\ auctions' \in [Auctions -> [slot : Int, execute : BOOLEAN]]
      /\ \A b \in Auctions \ {a} : auctions'[b] = auctions[b]
      /\ auctions'[a].slot = auctions[a].slot
      /\ auctions[a] # Absent => auctions'[a].execute = ours
  BY <1>4, <1>5, <1>6
<1>8. QueueOK'
  BY <1>4, <1>7 DEF MissedInv, QueueOK
<1>9. HeadOK'
  BY <1>4 DEF MissedInv, HeadOK, HasHead, HeadSlot, HeadIsDead, Dequeued
<1>10. LastEventsOK'
  BY <1>4, FeedRest
<1>11. ASSUME NEW b \in Auctions
       PROVE  Followed(b)'
  <2>1. Followed(b)
    BY DEF MissedInv, AllFollowed
  <2>2. Awaited(b) => Awaited(b)'
    BY <1>4, <1>5, FeedRest
  <2>3. Decided(b) => Decided(b)'
    BY <1>4 DEF Decided
  <2>4. Kept(b) => Kept(b)'
    <3>1. CASE b = a
      <4>1. ~Undelivered(b)' => event.best = chain[b].best
        BY <1>2, <1>4, <1>5, <3>1, FeedRest
      <4>2. auctions[b].slot = chain[b].endSlot + 1 => auctions[b] # Absent
        <5>1. chain[b].endSlot + 1 # -1
          BY ExecutorAssumption DEF FollowersInv, ChainTypeOK
        <5>. QED BY <5>1 DEF Absent
      <4>. QED BY <1>3, <1>4, <1>7, <3>1, <4>1, <4>2 DEF Kept
    <3>2. CASE b # a
      <4>1. Undelivered(b)' <=> Undelivered(b)
        BY <1>2, <1>4, <1>5, <3>2, FeedRest
      <4>. QED BY <1>4, <1>7, <3>2, <4>1 DEF Kept
    <3>. QED BY <3>1, <3>2
  <2>. QED BY <1>4, <2>1, <2>2, <2>3, <2>4 DEF Followed
<1>. QED BY <1>8, <1>9, <1>10, <1>11 DEF MissedInv, AllFollowed

\* A slot is notified: its auctions are decided upon, and a head that was passed over
\* is one of a slot without a block.
LEMMA SlotChangeMissed ==
    ASSUME FollowersInv, MissedInv, SlotChange
    PROVE  MissedInv'
<1>1. PICK s : s = Notified
  OBVIOUS
<1>2. /\ seen' = s /\ ExecutorOnSlotChange(s)
      /\ excused' = excused \cup
            (IF HasHead /\ HeadSlot = s THEN {a \in Dequeued : Undelivered(a)} ELSE {})
      /\ UNCHANGED <<slot, skipped, chain, feed>>
  BY <1>1 DEF SlotChange
<1>3. s \in seen + 1 .. slot /\ s \notin skipped /\ seen + 1 .. s - 1 \subseteq skipped
  <2>1. slot \in Nat /\ seen \in Nat
    BY DEF FollowersInv, ChainTypeOK
  <2>2. (seen + 1 .. slot) \ skipped \in SUBSET Nat /\ (seen + 1 .. slot) \ skipped # {}
    BY <2>1 DEF SlotChange
  <2>3. PICK t \in (seen + 1 .. slot) \ skipped :
            \A u \in (seen + 1 .. slot) \ skipped : t <= u
    BY <2>2, LeastSlot
  <2>4. t \in seen + 1 .. slot /\ t \notin skipped /\ seen + 1 .. t - 1 \subseteq skipped
    BY <2>1, <2>3
  <2>. QED BY <1>1, <2>4 DEF Notified
<1>4. /\ slot \in Nat /\ seen \in Nat /\ s \in Nat /\ seen < s /\ s <= slot /\ s \in Slots
      /\ Slots \subseteq Nat
  <2>1. slot \in Nat /\ seen \in Nat /\ slot <= LastSlot
    BY DEF FollowersInv, ChainTypeOK
  <2>. QED BY <1>3, <2>1, ExecutorAssumption DEF Slots
<1>5. /\ slots \in Seq(Slots)
      /\ \A i, j \in DOMAIN slots : i < j => slots[i] < slots[j]
      /\ auctions \in [Auctions -> [slot : Int, execute : BOOLEAN]]
      /\ auctionsPerSlot \in [Slots -> Seq(Auctions)]
  BY DEF MissedInv, QueueOK, FollowersInv, WarehouseOK
<1>6. LastEventsOK'
  BY <1>2 DEF MissedInv, LastEventsOK
<1>7. CASE HasHead /\ HeadSlot = s
  <2>1. PICK rest : rest = Tail(slots)
    OBVIOUS
  <2>2. /\ slots' = rest
        /\ auctionsPerSlot' = [auctionsPerSlot EXCEPT ![s] = <<>>]
        /\ auctions' = [a \in Auctions |-> IF a \in Dequeued THEN Absent ELSE auctions[a]]
        /\ orders' = [a \in Auctions |-> IF a \in ToExecute THEN "preparing" ELSE orders[a]]
        /\ excused' = excused \cup {a \in Dequeued : Undelivered(a)}
    BY <1>2, <1>7, <2>1 DEF ExecutorOnSlotChange
  <2>3. /\ rest \in Seq(Slots) /\ slots # <<>> /\ slots[1] = s
        /\ \A i \in DOMAIN rest : 0 < i /\ i + 1 \in DOMAIN slots /\ rest[i] = slots[i + 1]
        /\ \A j \in DOMAIN slots : j = 1 \/ (j - 1 \in DOMAIN rest /\ rest[j - 1] = slots[j])
        /\ 1 \in DOMAIN slots /\ DOMAIN slots \subseteq Nat /\ DOMAIN rest \subseteq Nat
    BY <1>5, <1>7, <2>1 DEF HasHead, HeadSlot
  <2>4. \A i, j \in DOMAIN rest : i < j => rest[i] < rest[j]
    <3>1. SUFFICES ASSUME NEW i \in DOMAIN rest, NEW j \in DOMAIN rest, i < j
                   PROVE  rest[i] < rest[j]
      OBVIOUS
    <3>2. i + 1 \in DOMAIN slots /\ j + 1 \in DOMAIN slots /\ i + 1 < j + 1
      BY <2>3, <3>1
    <3>. QED BY <1>5, <2>3, <3>2
  <2>5. QueueOK'
    <3>1. Absent \in [slot : Int, execute : BOOLEAN]
      BY DEF Absent
    <3>. QED BY <1>5, <2>2, <2>3, <2>4, <3>1 DEF QueueOK
  <2>6. HeadOK'
    <3>1. SUFFICES ASSUME rest # <<>>
                   PROVE  ~(Head(rest) <= s)
      BY <1>2, <2>2 DEF HeadOK, HasHead, HeadSlot
    <3>2. 1 \in DOMAIN rest /\ Head(rest) = rest[1]
      BY <2>3, <3>1
    <3>3. 2 \in DOMAIN slots /\ rest[1] = slots[2]
      BY <2>3, <3>2
    <3>4. slots[1] < slots[2] /\ slots[2] \in Slots
      BY <1>5, <2>3, <3>3
    <3>5. s < slots[2] /\ slots[2] \in Nat /\ s \in Nat
      BY <1>4, <2>3, <3>4
    <3>. QED BY <3>2, <3>3, <3>5
  <2>7. ASSUME NEW a \in Auctions
        PROVE  Followed(a)'
    <3>1. Followed(a)
      BY DEF MissedInv, AllFollowed
    <3>2. Awaited(a) => Awaited(a)'
      BY <1>2 DEF Awaited
    <3>3. Decided(a) => Decided(a)'
      BY <1>2, <2>2 DEF Decided
    <3>4. CASE Kept(a) /\ chain[a].endSlot + 1 = s
      <4>1. a \in Dequeued /\ (~Undelivered(a) => auctions[a].execute = IsOurs(chain[a].best))
        BY <1>7, <3>4 DEF Kept, Dequeued, Range
      <4>2. CASE Undelivered(a)
        BY <2>2, <4>1, <4>2 DEF Followed
      <4>3. CASE ~Undelivered(a)
        <5>1. a \in ToExecute \/ ~IsOurs(chain[a].best)
          BY <4>1, <4>3 DEF ToExecute
        <5>2. a \in ToExecute => orders'[a] = "preparing"
          BY <2>2
        <5>3. slot > chain[a].endSlot
          <6>1. chain[a].endSlot \in Int
            BY DEF FollowersInv, ChainTypeOK
          <6>. QED BY <1>4, <3>4, <6>1
        <5>4. Decided(a)'
          BY <1>2, <5>1, <5>2, <5>3 DEF Decided
        <5>. QED BY <5>4 DEF Followed
      <4>. QED BY <4>2, <4>3
    <3>5. CASE Kept(a) /\ chain[a].endSlot + 1 # s /\ chain[a].status # "None"
      <4>1. PICK t : t = chain[a].endSlot + 1
        OBVIOUS
      <4>2. /\ auctions[a].slot = t /\ t # s
            /\ \E i \in DOMAIN slots : slots[i] = t
            /\ \E i \in DOMAIN auctionsPerSlot[t] : auctionsPerSlot[t][i] = a
            /\ ~Undelivered(a) => auctions[a].execute = IsOurs(chain[a].best)
        BY <3>5, <4>1 DEF Kept
      <4>3. \E i \in DOMAIN rest : rest[i] = t
        BY <2>3, <4>2
      <4>4. t \in Slots
        BY <1>5, <4>2
      <4>5. auctionsPerSlot'[t] = auctionsPerSlot[t]
        BY <1>5, <2>2, <4>2, <4>4
      <4>6. a \notin Dequeued
        <5>1. \A i \in DOMAIN auctionsPerSlot[s] : s = chain[auctionsPerSlot[s][i]].endSlot + 1
          BY <1>4 DEF FollowersInv, WarehouseOK
        <5>. QED BY <1>7, <4>1, <4>2, <5>1 DEF Dequeued, Range
      <4>7. auctions'[a] = auctions[a]
        BY <2>2, <4>6
      <4>8. Undelivered(a)' <=> Undelivered(a)
        BY <1>2 DEF Undelivered
      <4>9. Kept(a)'
        BY <1>2, <2>2, <4>1, <4>2, <4>3, <4>5, <4>7, <4>8 DEF Kept
      <4>. QED BY <4>9 DEF Followed
    <3>. QED BY <1>2, <3>1, <3>2, <3>3, <3>4, <3>5 DEF Followed
  <2>. QED BY <1>6, <2>5, <2>6, <2>7 DEF MissedInv, AllFollowed
<1>8. CASE ~(HasHead /\ HeadSlot = s)
  <2>1. excused' = excused /\ UNCHANGED <<slots, auctionsPerSlot, auctions, orders>>
    BY <1>2, <1>8 DEF ExecutorOnSlotChange, executorVars
  <2>2. QueueOK'
    BY <2>1 DEF MissedInv, QueueOK
  <2>3. HeadOK'
    <3>1. SUFFICES ASSUME HasHead, HeadSlot <= s
                   PROVE  HeadIsDead
      BY <1>2, <2>1 DEF HeadOK, HasHead, HeadSlot, HeadIsDead, Dequeued
    <3>2. HeadSlot \in Slots
      BY <1>5, <3>1 DEF HasHead, HeadSlot
    <3>3. CASE HeadSlot <= seen
      BY <3>1, <3>3 DEF MissedInv, HeadOK
    <3>4. CASE ~(HeadSlot <= seen)
      <4>1. HeadSlot \in seen + 1 .. s - 1
        BY <1>4, <1>8, <3>1, <3>2, <3>4
      <4>. QED BY <1>3, <3>1, <4>1 DEF HeadIsDead
    <3>. QED BY <3>3, <3>4
  <2>4. ASSUME NEW a \in Auctions
        PROVE  Followed(a)'
    <3>1. Followed(a)
      BY DEF MissedInv, AllFollowed
    <3>2. Undelivered(a)' <=> Undelivered(a)
      BY <1>2 DEF Undelivered
    <3>. QED BY <1>2, <2>1, <3>1, <3>2 DEF Followed, Awaited, Kept, Decided
  <2>. QED BY <1>6, <2>2, <2>3, <2>4 DEF MissedInv, AllFollowed
<1>. QED BY <1>7, <1>8

LEMMA MissedInvInit ==
    Init => MissedInv
<1>. SUFFICES ASSUME Init
              PROVE  MissedInv
  OBVIOUS
<1>1. QueueOK
  BY DEF Init, ExecutorInit, QueueOK, Absent
<1>2. HeadOK
  BY DEF Init, ExecutorInit, HeadOK, HasHead
<1>3. LastEventsOK
  BY DEF Init, LastEventsOK
<1>4. AllFollowed
  BY DEF Init, NoAuction, AllFollowed, Followed
<1>. QED BY <1>1, <1>2, <1>3, <1>4 DEF MissedInv

LEMMA MissedInvStep ==
    ASSUME TextIsOrder
    PROVE  FollowersInv /\ MissedInv /\ [Next]_vars => MissedInv'
<1>. SUFFICES ASSUME FollowersInv, MissedInv, [Next]_vars
              PROVE  MissedInv'
  OBVIOUS
<1>0. /\ slot \in Nat /\ DOMAIN chain = Auctions /\ DOMAIN orders = Auctions
  BY DEF FollowersInv, ChainTypeOK, OrdersOK
<1>1. CASE \/ Tick \/ BlockhashAnswer \/ UNCHANGED vars
           \/ \E tx \in offers : OfferFails(tx)
  <2>1. /\ UNCHANGED <<slots, auctionsPerSlot, auctions, seen, skipped, feed, excused,
                       chain, orders>>
        /\ slot' = slot \/ slot' = slot + 1
    BY <1>1 DEF Tick, BlockhashAnswer, OfferFails, vars, chainVars, executorVars
  <2>2. slot' \in Nat /\ slot <= slot'
    BY <1>0, <2>1
  <2>. QED BY <2>1, <2>2, QuietMissed
<1>2. CASE SlotChange
  BY <1>2, SlotChangeMissed
<1>3. CASE ExecutorEvent
  BY <1>3, InitialEventMissed, LaterEventMissed
<1>4. CASE EventLost
  BY <1>4, EventLostMissed
<1>5. ASSUME NEW a \in Auctions, NEW best \in InitialBidders, NEW duration \in Durations,
             PlaceInitialOffer(a, best, duration)
      PROVE  MissedInv'
  <2>1. PICK e : e = Event(a, TRUE, best, AuctionOf[a].maxFee, slot + duration)
    OBVIOUS
  <2>2. /\ AuctionOf[a].maxFee \in Int /\ duration \in Nat
    BY FollowersAssumption, ExecutorAssumption
  <2>3. /\ e \in Events /\ e.initial /\ e.auction = a /\ e.best = best
    BY <1>0, <2>1, <2>2, MaxOfferType DEF Event, Events
  <2>4. /\ feed' = Append(feed, e)
        /\ chain' = [chain EXCEPT ![a] = [status |-> "Active", best |-> best,
                                          price |-> AuctionOf[a].maxFee,
                                          endSlot |-> slot + duration]]
        /\ UNCHANGED <<slot, slots, auctionsPerSlot, auctions, orders, seen, skipped, excused>>
    BY <1>5, <2>1 DEF PlaceInitialOffer, Emit, executorVars
  <2>5. chain'[a].best = best /\ \A b \in Auctions \ {a} : chain'[b] = chain[b]
    BY <1>0, <2>4
  <2>. QED BY <2>3, <2>4, <2>5, EmitMissed
<1>6. ASSUME NEW a \in Auctions, NEW best \in {Rival, OfferToken}, NEW price \in Int,
             NEW underWay, Improve(a, best, price, underWay),
             UNCHANGED <<slot, skipped, seen, excused, executorVars, blockhashVars>>
      PROVE  MissedInv'
  <2>1. PICK e : e = Event(a, FALSE, best, price, chain[a].endSlot)
    OBVIOUS
  <2>2. chain[a].endSlot \in Nat
    BY ExecutorAssumption DEF FollowersInv, ChainTypeOK
  <2>3. /\ e \in Events /\ e.auction = a /\ e.best = best
    BY <1>0, <1>6, <2>1, <2>2, MaxOfferType DEF Event, Events
  <2>4. /\ chain' = [chain EXCEPT ![a].best = best, ![a].price = price]
        /\ chain[a].status = "Active" /\ slot <= chain[a].endSlot
        /\ feed' = Append(feed, e)
    BY <1>6, <2>1, Zenon DEF Improve, Emit
  <2>5. UNCHANGED <<slot, slots, auctionsPerSlot, auctions, orders, seen, skipped, excused>>
    BY <1>6 DEF executorVars
  <2>6. /\ \A b \in Auctions \ {a} : chain'[b] = chain[b]
        /\ chain'[a] = [[chain[a] EXCEPT !.best = best] EXCEPT !.price = price]
    BY <1>0, <2>4
  <2>7. chain'[a].endSlot = chain[a].endSlot /\ chain'[a].best = best
    BY <2>6
  <2>. QED BY <2>3, <2>4, <2>5, <2>6, <2>7, EmitMissed
<1>7. ASSUME NEW a \in Auctions, RivalImproves(a)
      PROVE  MissedInv'
  <2>1. chain[a].price - 1 \in Int
    BY DEF FollowersInv, ChainTypeOK
  <2>. QED BY <1>6, <1>7, <2>1 DEF RivalImproves
<1>8. ASSUME NEW tx \in offers, OfferLands(tx)
      PROVE  MissedInv'
  <2>1. tx.auction \in Auctions /\ tx.price \in Int
    BY DEF FollowersInv, OffersOK
  <2>. QED BY <1>6, <1>8, <2>1 DEF OfferLands
<1>9. ASSUME NEW a \in Auctions, ExecuteFastOrder(a)
      PROVE  MissedInv'
  <2>1. /\ chain' = [chain EXCEPT ![a].status = "Completed"] /\ chain[a].status = "Active"
        /\ UNCHANGED <<slots, auctionsPerSlot, auctions, orders, slot, seen, skipped, feed,
                       excused>>
    BY <1>9 DEF ExecuteFastOrder, executorVars
  <2>2. \A b \in Auctions : /\ chain'[b].status # "None" => chain[b].status # "None"
                            /\ chain'[b].endSlot = chain[b].endSlot
                            /\ chain'[b].best = chain[b].best
    BY <1>0, <2>1
  <2>. QED BY <1>0, <2>1, <2>2, QuietMissed
<1>10. ASSUME NEW a \in Auctions, NEW taken \in BOOLEAN, ExecutorSends(a, taken)
       PROVE  MissedInv'
  <2>1. /\ UNCHANGED <<slots, auctionsPerSlot, auctions, slot, seen, skipped, feed, excused,
                       chain>>
        /\ \E result \in {"sent", "failed"} : orders' = [orders EXCEPT ![a] = result]
    BY <1>10 DEF ExecutorSends, ExecuteOrderWithRetry, chainVars
  <2>2. \A b \in Auctions : orders[b] # "none" => orders'[b] # "none"
    BY <1>0, <2>1
  <2>. QED BY <1>0, <2>1, <2>2, QuietMissed
<1>. QED BY <1>1, <1>2, <1>3, <1>4, <1>5, <1>7, <1>8, <1>9, <1>10 DEF Next

\* When the end of an auction that we won was notified, the executor has its order in
\* hand, or learnt of it too late, or waits behind a slot that will not be notified. It
\* never just forgets one. That the slots are sorted as numbers is part of it: as long
\* as they are of one length, "_slots.sort()" does so.
THEOREM OnlyBlockedAreMissed ==
    ASSUME TextIsOrder
    PROVE  Spec => []OnlyBlockedAuctionsAreMissed
<1>1. FollowersInv /\ MissedInv => OnlyBlockedAuctionsAreMissed
  <2>. SUFFICES ASSUME FollowersInv, MissedInv, NEW a \in Auctions,
                       chain[a].status # "None", IsOurs(chain[a].best),
                       seen > chain[a].endSlot, ~Undelivered(a),
                       orders[a] = "none", a \notin excused
                PROVE  auctions[a] # Absent /\ HeadIsDead
    BY DEF OnlyBlockedAuctionsAreMissed
  <2>1. Kept(a)
    BY DEF MissedInv, AllFollowed, Followed, Awaited, Decided, Undelivered
  <2>2. seen \in Nat /\ chain[a].endSlot \in Nat
    BY ExecutorAssumption DEF FollowersInv, ChainTypeOK
  <2>3. auctions[a] # Absent
    BY <2>1, <2>2 DEF Kept, Absent
  <2>4. PICK i \in DOMAIN slots : slots[i] = chain[a].endSlot + 1
    BY <2>1 DEF Kept
  <2>5. /\ slots \in Seq(Slots) /\ Slots \subseteq Nat
        /\ \A j, k \in DOMAIN slots : j < k => slots[j] < slots[k]
    BY ExecutorAssumption DEF MissedInv, QueueOK, Slots
  <2>6. /\ HasHead /\ HeadSlot = slots[1] /\ 1 \in DOMAIN slots /\ i \in Nat /\ 1 <= i
        /\ slots[1] \in Nat
    <3>1. i \in 1 .. Len(slots) /\ Len(slots) \in Nat /\ DOMAIN slots = 1 .. Len(slots)
      BY <2>4, <2>5
    <3>2. slots # <<>> /\ 1 \in 1 .. Len(slots) /\ i \in Nat /\ 1 <= i
      BY <2>5, <3>1
    <3>3. slots[1] \in Slots
      BY <2>5, <3>1, <3>2
    <3>4. slots \in Seq(Slots) /\ slots[1] \in Nat
      BY <2>5, <3>3
    <3>5. Head(slots) = slots[1]
      BY <3>2, <3>4
    <3>. QED BY <3>1, <3>2, <3>4, <3>5 DEF HasHead, HeadSlot
  <2>7. i = 1 \/ slots[1] < slots[i]
    BY <2>4, <2>5, <2>6
  <2>8. HeadSlot <= seen
    BY <2>2, <2>4, <2>6, <2>7
  <2>9. HeadIsDead
    BY <2>6, <2>8 DEF MissedInv, HeadOK
  <2>. QED BY <2>3, <2>9
<1>. QED BY <1>1, FollowersInvInit, FollowersInvStep, MissedInvInit, MissedInvStep, PTL
     DEF Spec
=============================================================================
