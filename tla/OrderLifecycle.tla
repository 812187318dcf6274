--------------------------- MODULE OrderLifecycle ---------------------------
(***************************************************************************)
(* What the liquidity layer promises for a fast market order, without      *)
(* auctions, accounts or clocks: the user is paid once, at least the       *)
(* amount it agreed to, either ahead of finality with a solver's money or  *)
(* after it with the order's own; and the order's own money, received once *)
(* from the source chain, is spent once, on the user or on repaying the    *)
(* solver.                                                                 *)
(***************************************************************************)
EXTENDS Integers

CONSTANTS
    Orders,         \* the orders placed on source chains
    MinAmount       \* the least each order's user agreed to receive

VARIABLES
    fast,           \* fills paid with a solver's money
    slow,           \* fills paid with the order's own money
    paid,           \* USDC sent to the user of each order
    funds           \* where the order's own money is: at the "source", in the
                    \* "engine", or "spent"

vars == <<fast, slow, paid, funds>>

Init ==
    /\ fast = [o \in Orders |-> 0]
    /\ slow = [o \in Orders |-> 0]
    /\ paid = [o \in Orders |-> 0]
    /\ funds = [o \in Orders |-> "source"]

Unfilled(o) == fast[o] = 0 /\ slow[o] = 0

Pay(o) ==
    /\ paid'[o] >= paid[o] + MinAmount[o]
    /\ paid' = [paid EXCEPT ![o] = paid'[o]]

FillFast(o) ==
    /\ Unfilled(o)
    /\ funds[o] # "spent"
    /\ fast' = [fast EXCEPT ![o] = 1]
    /\ Pay(o)
    /\ UNCHANGED <<slow, funds>>

Receive(o) ==
    /\ funds[o] = "source"
    /\ funds' = [funds EXCEPT ![o] = "engine"]
    /\ UNCHANGED <<fast, slow, paid>>

FillSlow(o) ==
    /\ Unfilled(o)
    /\ funds[o] = "engine"
    /\ slow' = [slow EXCEPT ![o] = 1]
    /\ funds' = [funds EXCEPT ![o] = "spent"]
    /\ Pay(o)
    /\ UNCHANGED fast

Repay(o) ==
    /\ fast[o] = 1
    /\ funds[o] = "engine"
    /\ funds' = [funds EXCEPT ![o] = "spent"]
    /\ UNCHANGED <<fast, slow, paid>>

\* The same, with money that is received in the same step.
ReceiveAndFillSlow(o) ==
    /\ Unfilled(o)
    /\ funds[o] = "source"
    /\ slow' = [slow EXCEPT ![o] = 1]
    /\ funds' = [funds EXCEPT ![o] = "spent"]
    /\ Pay(o)
    /\ UNCHANGED fast

ReceiveAndRepay(o) ==
    /\ fast[o] = 1
    /\ funds[o] = "source"
    /\ funds' = [funds EXCEPT ![o] = "spent"]
    /\ UNCHANGED <<fast, slow, paid>>

Next ==
    \E o \in Orders :
        \/ FillFast(o)
        \/ Receive(o) \/ FillSlow(o) \/ Repay(o)
        \/ ReceiveAndFillSlow(o) \/ ReceiveAndRepay(o)

Spec == Init /\ [][Next]_vars
=============================================================================
