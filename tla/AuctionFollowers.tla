-------------------------- MODULE AuctionFollowers --------------------------
(***************************************************************************)
(* The two processes of the example solver that follow auctions by their   *)
(* AuctionUpdated events, improveOffer and executeOrder, with the part of  *)
(* the engine they act on.  Events reach the executor in order, after a    *)
(* delay, or not at all; slots are notified in order, and a slot without a *)
(* block is never notified.  The improver's callback depends on its event  *)
(* alone, so that it runs with the event, and the delay of the two is that *)
(* of the transaction it sends.                                            *)
(***************************************************************************)
EXTENDS OrderExecutor, OfferImprover, CachedBlockhash

CONSTANTS
    Rival,              \* the token account of a competitor
    Durations,          \* of auctions, in slots: the configuration may change
    LastStart,          \* bound on the slots at which auctions start
    InitialBidders,     \* token accounts of initial offers
    AuctionOf,          \* auction |-> [sourceChain, amountIn, maxFee]
    SkipChoices,        \* the sets of slots that may be without a block
    EventsLost          \* whether a subscription may lose an event

ASSUME FollowersAssumption ==
    /\ Durations \subseteq 1 .. MaxDuration
    /\ RecognizedAccounts = OurTokenAccounts /\ OfferToken \in OurTokenAccounts
    /\ Rival \notin OurTokenAccounts
    /\ SkipChoices \subseteq SUBSET (1 .. LastSlot) /\ EventsLost \in BOOLEAN
    /\ \A a \in Auctions : AuctionOf[a].maxFee \in Nat

VARIABLES
    slot,       \* the slot of the chain
    skipped,    \* slots without a block
    seen,       \* the slot that was notified last
    chain,      \* the auctions of the engine
    feed,       \* events that the executor was not given yet
    excused     \* auctions of which the executor learnt too late, or not all

chainVars == <<slot, skipped, seen, chain, feed, excused>>
vars == <<chainVars, executorVars, improverVars, blockhashVars>>

NoAuction == [status |-> "None", endSlot |-> 0, best |-> Rival, price |-> 0]

Init ==
    /\ slot = 0 /\ seen = 0 /\ skipped \in SkipChoices
    /\ chain = [a \in Auctions |-> NoAuction]
    /\ feed = <<>>
    /\ excused = {}
    /\ ExecutorInit /\ ImproverInit /\ BlockhashInit
-----------------------------------------------------------------------------
(* The engine *)

\* compute_min_allowed_offer less one, with a minimum delta of nothing.
MaxOfferPriceAllowed(price) == IF price = 0 THEN NoPrice ELSE price - 1

Event(a, initial, best, price, endSlot) ==
    [auction |-> a, initial |-> initial, best |-> best, slot |-> slot,
     sourceChain |-> AuctionOf[a].sourceChain, amountIn |-> AuctionOf[a].amountIn,
     endSlot |-> endSlot, maxOfferPriceAllowed |-> MaxOfferPriceAllowed(price)]

\* The event is on its way to the executor, and what the improver makes of it.
Emit(event, underWay) ==
    /\ feed' = Append(feed, event)
    /\ ImproverOnAuctionUpdated(event, underWay)

\* place_initial_offer_cctp at the highest price, by a competitor or our relayer.
PlaceInitialOffer(a, best, duration) ==
    /\ chain[a].status = "None"
    /\ slot <= LastStart
    /\ chain' = [chain EXCEPT ![a] = [status |-> "Active", best |-> best,
                                      price |-> AuctionOf[a].maxFee,
                                      endSlot |-> slot + duration]]
    /\ Emit(Event(a, TRUE, best, AuctionOf[a].maxFee, slot + duration), offers)
    /\ UNCHANGED <<slot, skipped, seen, excused, executorVars, blockhashVars>>

\* improve_offer: the auction runs and the price is low enough.
Improve(a, best, price, underWay) ==
    /\ chain[a].status = "Active"
    /\ slot <= chain[a].endSlot
    /\ 0 <= price /\ price < chain[a].price
    /\ chain' = [chain EXCEPT ![a].best = best, ![a].price = price]
    /\ Emit(Event(a, FALSE, best, price, chain[a].endSlot), underWay)

\* A competitor offers the highest price that is allowed.
RivalImproves(a) ==
    /\ Improve(a, Rival, chain[a].price - 1, offers)
    /\ UNCHANGED <<slot, skipped, seen, excused, executorVars, blockhashVars>>

\* Our transaction arrives: its best_offer_token must be the one of the auction.
OfferLands(tx) ==
    /\ tx.best = chain[tx.auction].best
    /\ Improve(tx.auction, OfferToken, tx.price, offers \ {tx})
    /\ UNCHANGED <<slot, skipped, seen, excused, executorVars, blockhashVars>>

\* Our transaction is refused or never arrives.
OfferFails(tx) ==
    /\ offers' = offers \ {tx}
    /\ UNCHANGED <<chainVars, improverUp, executorVars, blockhashVars>>

\* execute_fast_order: after the end of the auction, by anybody.
ExecuteFastOrder(a) ==
    /\ chain[a].status = "Active"
    /\ slot > chain[a].endSlot
    /\ chain' = [chain EXCEPT ![a].status = "Completed"]
    /\ UNCHANGED <<slot, skipped, seen, feed, excused, executorVars, improverVars, blockhashVars>>

Tick ==
    /\ slot < LastSlot
    /\ slot' = slot + 1
    /\ UNCHANGED <<skipped, seen, chain, feed, excused, executorVars, improverVars, blockhashVars>>
-----------------------------------------------------------------------------
(* The processes *)

\* Events of an auction that the executor does not know of yet.
Undelivered(a) == \E i \in DOMAIN feed : feed[i].auction = a

\* Slots are notified one after the other, skipped ones never.
Notified == CHOOSE s \in seen + 1 .. slot :
              s \notin skipped /\ seen + 1 .. s - 1 \subseteq skipped

\* The executor's callback and the one of its blockhash.  It excuses what is
\* dropped while an event of it is on its way.
SlotChange ==
    /\ seen + 1 .. slot \ skipped # {}
    /\ seen' = Notified
    /\ ExecutorOnSlotChange(Notified)
    /\ BlockhashOnSlotChange(Notified)
    /\ excused' = excused \cup
          (IF HasHead /\ HeadSlot = Notified THEN {a \in Dequeued : Undelivered(a)}
           ELSE {})
    /\ UNCHANGED <<slot, skipped, chain, feed, improverVars>>

\* An event is excused by coming after the notification of the slot it is for.
ExecutorEvent ==
    LET event == Head(feed)
    IN  /\ feed # <<>>
        /\ ExecutorOnAuctionUpdated(event)
        /\ excused' = IF event.endSlot + 1 <= seen THEN excused \cup {event.auction}
                      ELSE excused
        /\ feed' = Tail(feed)
        /\ UNCHANGED <<slot, skipped, seen, chain, improverVars, blockhashVars>>

\* The executor's subscription loses an event.
EventLost ==
    /\ EventsLost
    /\ feed # <<>>
    /\ excused' = excused \cup {Head(feed).auction}
    /\ feed' = Tail(feed)
    /\ UNCHANGED <<slot, skipped, seen, chain, executorVars, improverVars, blockhashVars>>

\* With skipPreflight a transaction with an expired blockhash is taken and dropped.
ExecutorSends(a, taken) ==
    /\ ExecuteOrderWithRetry(a, taken /\ Valid(cached, slot))
    /\ UNCHANGED <<chainVars, improverVars, blockhashVars>>

BlockhashAnswer ==
    /\ FetchSucceeds \/ FetchFails
    /\ UNCHANGED <<chainVars, executorVars, improverVars>>
-----------------------------------------------------------------------------
Next ==
    \/ Tick \/ SlotChange \/ ExecutorEvent \/ BlockhashAnswer
    \/ \E a \in Auctions :
          \/ \E best \in InitialBidders, duration \in Durations :
                PlaceInitialOffer(a, best, duration)
          \/ RivalImproves(a)
          \/ ExecuteFastOrder(a)
          \/ \E taken \in BOOLEAN : ExecutorSends(a, taken)
    \/ \E tx \in offers : OfferLands(tx) \/ OfferFails(tx)
    \/ EventLost

Spec == Init /\ [][Next]_vars
-----------------------------------------------------------------------------
(* Safety *)

\* The executor never starts to execute an order before its auction is over:
\* "Make sure we do not accidentally execute at the end slot".
NeverExecutesEarly ==
    \A a \in Auctions : orders[a] # "none" => slot > chain[a].endSlot

\* The slot at the head of the queue is one that will not be notified (again):
\* it has no block, or its auction was learnt of too late.
HeadIsDead ==
    /\ HasHead
    /\ \/ HeadSlot \in skipped
       \/ \E a \in Dequeued : a \in excused

\* "Add then sort slots": the slots with auctions are kept in their order.
SlotsAreSorted ==
    \A i, j \in DOMAIN slots : i < j => slots[i] < slots[j]

\* The text of a slot sorts as its number: so it is while slots are of one length.
TextIsOrder == \A m, n \in Slots : TextBefore(m, n) <=> m < n

\* When the end of an auction that we won was notified, the executor has started
\* to execute its order, unless an event of it came late, or the auction waits
\* behind a slot that never comes.  Nothing else makes the executor miss it.
OnlyBlockedAuctionsAreMissed ==
    \A a \in Auctions :
       (/\ chain[a].status # "None" /\ IsOurs(chain[a].best)
        /\ seen > chain[a].endSlot /\ ~Undelivered(a))
       => \/ orders[a] # "none"
          \/ a \in excused
          \/ auctions[a] # Absent /\ HeadIsDead

\* The improver never outbids an account of ours, whatever the order in which its
\* transactions, those of a competitor and the events arrive: "so we do not offer
\* against ourselves".
NeverOutbidsItself ==
    [][\A a \in Auctions :
          (IsOurs(chain[a].best) /\ chain'[a].price < chain[a].price)
          => chain'[a].best = Rival]_vars
=============================================================================
