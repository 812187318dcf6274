---------------------------- MODULE OrderExecutor ----------------------------
(***************************************************************************)
(* The executeOrder process of the example solver: it warehouses auctions  *)
(* by the slot after their end and, when the notification of that slot     *)
(* comes, executes the orders whose best offer is one of ours.             *)
(*                                                                         *)
(* The steps below are the callbacks of the process; AuctionFollowers says *)
(* when they run.                                                          *)
(***************************************************************************)
EXTENDS Integers, Sequences, SequencesExt

CONSTANTS
    Auctions,           \* addresses of auctions
    OurTokenAccounts,   \* the recognized token accounts
    LastSlot,           \* bound on the slots of the chain
    MaxDuration,        \* bound on the duration of an auction
    Radix, MaxDigits    \* how slots are written: _slots.sort() compares text

Slots == 0 .. LastSlot + MaxDuration + 1

ASSUME ExecutorAssumption ==
    /\ LastSlot \in Nat /\ MaxDuration \in Nat
    /\ Radix \in Nat \ {0, 1} /\ MaxDigits \in Nat \ {0}
    /\ LastSlot + MaxDuration + 1 < Radix ^ MaxDigits

VARIABLES
    slots,              \* _slots: the slots with auctions, in order
    auctionsPerSlot,    \* _auctionsPerSlot: the auctions of a slot
    auctions,           \* _auctions: the details of an auction
    orders              \* where executeOrderWithRetry is with an auction

executorVars == <<slots, auctionsPerSlot, auctions, orders>>

\* An auction that is not in the map.
Absent == [slot |-> -1, execute |-> FALSE]

OrderStates == {"none", "preparing", "sent", "failed"}

ExecutorInit ==
    /\ slots = <<>>
    /\ auctionsPerSlot = [s \in Slots |-> <<>>]
    /\ auctions = [a \in Auctions |-> Absent]
    /\ orders = [a \in Auctions |-> "none"]
-----------------------------------------------------------------------------
\* The text of a number, as a number with MaxDigits digits: 9 is 90, 10 is 10.
LeftAligned(n) ==
    IF n = 0 THEN 0
    ELSE n * Radix ^ (CHOOSE k \in 0 .. MaxDigits :
                        n * Radix ^ k \in Radix ^ (MaxDigits - 1) .. Radix ^ MaxDigits - 1)

\* Array.prototype.sort without a comparison compares the texts of the elements.
TextBefore(m, n) ==
    \/ LeftAligned(m) < LeftAligned(n)
    \/ LeftAligned(m) = LeftAligned(n) /\ m < n

\* The sorted sequence of the elements of one that has each of them once.
SortedByText(s) ==
    CHOOSE r \in [DOMAIN s -> Range(s)] :
        /\ Range(r) = Range(s)
        /\ \A i, j \in DOMAIN s : i < j => TextBefore(r[i], r[j])

\* Mutation: the slot is added without sorting.
WithSlot_Unsorted(s) ==
    IF Contains(slots, s) THEN slots ELSE Append(slots, s)

WithSlot(s) ==
    IF Contains(slots, s) THEN slots ELSE SortedByText(Append(slots, s))

\* Mutation: the order is executed at the end slot.
ExecuteSlot_AtEnd(endSlot) == endSlot

\* Make sure we do not accidentally execute at the end slot.
ExecuteSlot(endSlot) == endSlot + 1

AddAuction(a, endSlot, execute) ==
    LET slot == ExecuteSlot(endSlot)
    IN  /\ slots' = WithSlot(slot)
        /\ auctionsPerSlot' =
              [auctionsPerSlot EXCEPT
                 ![slot] = Append(IF Contains(slots, slot) THEN @ ELSE <<>>, a)]
        /\ auctions' = [auctions EXCEPT ![a] = [slot |-> slot, execute |-> execute]]

UpdateAuction(a, execute) ==
    /\ auctions' = IF auctions[a] = Absent THEN auctions
                   ELSE [auctions EXCEPT ![a].execute = execute]
    /\ UNCHANGED <<slots, auctionsPerSlot>>

IsOurs(token) == token \in OurTokenAccounts

\* The callback of onAuctionUpdated: an initial offer names its VAA, an
\* improvement does not.
ExecutorOnAuctionUpdated(event) ==
    /\ IF event.initial
       THEN AddAuction(event.auction, event.endSlot, IsOurs(event.best))
       ELSE UpdateAuction(event.auction, IsOurs(event.best))
    /\ UNCHANGED orders

HasHead == slots # <<>>
HeadSlot == Head(slots)

\* The auctions that dequeue() takes out, and those of them it returns.
Dequeued == Range(auctionsPerSlot[HeadSlot])
ToExecute == {a \in Dequeued : auctions[a].execute}

\* The callback of onSlotChange: executes only if the slot is the head.
ExecutorOnSlotChange(slot) ==
    IF HasHead /\ slot = HeadSlot
    THEN /\ slots' = Tail(slots)
         /\ auctionsPerSlot' = [auctionsPerSlot EXCEPT ![HeadSlot] = <<>>]
         /\ auctions' = [a \in Auctions |-> IF a \in Dequeued THEN Absent
                                            ELSE auctions[a]]
         /\ orders' = [a \in Auctions |-> IF a \in ToExecute THEN "preparing"
                                          ELSE orders[a]]
    ELSE UNCHANGED executorVars

\* One round of executeOrderWithRetry.  A rejected preparation (an RPC request of
\* executeFastOrderTx) is tried again and changes nothing; sendTx reports a
\* transaction that the RPC does not take as a result and not as an exception, so
\* that the loop ends either way.
ExecuteOrderWithRetry(a, taken) ==
    /\ orders[a] = "preparing"
    /\ orders' = [orders EXCEPT ![a] = IF taken THEN "sent" ELSE "failed"]
    /\ UNCHANGED <<slots, auctionsPerSlot, auctions>>
=============================================================================
