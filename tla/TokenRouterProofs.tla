-------------------------- MODULE TokenRouterProofs --------------------------
(***************************************************************************)
(* Proofs about TokenRouter: for any number of orders, fills, accounts and  *)
(* approvals.                                                              *)
(***************************************************************************)
EXTENDS TokenRouter, TLAPS

\* An allowance that is still there was approved as it is, by an approval that has
\* paid for nothing yet.
AllowanceIsApproved ==
    \A t \in Tokens : delegation[t].amount > 0 =>
        /\ delegatedOrders[t] < approvals[t]
        /\ [token |-> t, order |-> delegation[t].to.order,
            hash |-> delegation[t].to.hash, refund |-> delegation[t].to.refund,
            amount |-> delegation[t].amount] \in approved

\* A fill has one source.
OneSource ==
    \A f \in Fills :
        IF Fill[f].type = "FastFill" THEN ~nonceUsed[f] ELSE fastFill[f] = "Absent"

OrdersInv == OrdersTypeOK /\ OrdersAreBacked /\ ApprovalPaysOnce /\ AllowanceIsApproved
FillsInv == FillsTypeOK /\ FillIsHeldOrPaid /\ OneSource

\* The inductive invariant.  The steps of orders and those of fills share only the
\* token accounts.
RouterInv == AccountsTypeOK /\ OrdersInv /\ FillsInv

-----------------------------------------------------------------------------
LEMMA NoValues ==
    /\ NoOrder \in PreparedOrders /\ NoFill \in PreparedFills
    /\ NoDelegation \in [to : Authorities, amount : Nat]
  BY DEF NoOrder, PreparedOrders, NoFill, PreparedFills, NoDelegation, Authorities

LEMMA InitInv == Init => RouterInv
<1> SUFFICES ASSUME Init PROVE RouterInv
  OBVIOUS
<1>1. AccountsTypeOK
  BY RouterAssumption DEF Init, AccountsTypeOK
<1>2. OrdersTypeOK
  BY NoValues DEF Init, OrdersTypeOK
<1>3. OrdersAreBacked
  BY DEF Init, OrdersAreBacked, NoOrder
<1>4. ApprovalPaysOnce /\ AllowanceIsApproved
  BY DEF Init, ApprovalPaysOnce, AllowanceIsApproved, NoOrder, NoDelegation
<1>5. FillsTypeOK
  BY NoValues DEF Init, FillsTypeOK
<1>6. FillIsHeldOrPaid /\ OneSource
  BY DEF Init, FillIsHeldOrPaid, OneSource, NoFill, Released, Unset
<1> QED BY <1>1, <1>2, <1>3, <1>4, <1>5, <1>6 DEF RouterInv, OrdersInv, FillsInv
-----------------------------------------------------------------------------
(* Frames *)

ordersState == <<approvalVars, outVars>>

LEMMA OrdersFrame == OrdersInv /\ UNCHANGED ordersState => OrdersInv'
  BY DEF OrdersInv, OrdersTypeOK, OrdersAreBacked, ApprovalPaysOnce,
         AllowanceIsApproved, ordersState, approvalVars, outVars

LEMMA FillsFrame == FillsInv /\ UNCHANGED inVars => FillsInv'
  BY DEF FillsInv, FillsTypeOK, FillIsHeldOrPaid, OneSource, Released, Unset, inVars
-----------------------------------------------------------------------------
(* Orders *)

LEMMA PrepareOrderInv ==
    ASSUME RouterInv, NEW o \in OrderKeys, NEW s \in Signers, NEW args \in Args,
           NEW src \in Tokens, NEW refund \in Tokens, NEW d \in BOOLEAN,
           PrepareOrder(o, s, args, src, refund, d)
    PROVE  /\ AccountsTypeOK' /\ FillsInv'
           /\ order' \in [OrderKeys -> PreparedOrders]
           /\ orderCustody' \in [OrderKeys -> Nat]
           /\ OrdersAreBacked'
<1> DEFINE new == [exists |-> TRUE, sender |-> s, args |-> args, src |-> src,
                   refund |-> refund, delegated |-> d]
<1>1. /\ balance' = [balance EXCEPT ![src] = @ - args.amountIn]
      /\ orderCustody' = [orderCustody EXCEPT ![o] = args.amountIn]
      /\ order' = [order EXCEPT ![o] = new]
      /\ balance[src] >= args.amountIn /\ ArgsValid(args)
      /\ UNCHANGED <<paused, endpoint, accountState, inVars, gifts>>
  BY DEF PrepareOrder, CanPay
<1>2. args.amountIn \in Nat
  BY RouterAssumption DEF ArgRecords
<1>3. AccountsTypeOK'
  BY <1>1, <1>2 DEF RouterInv, AccountsTypeOK
<1>4. FillsInv'
  BY <1>1, FillsFrame DEF RouterInv
<1>5. new \in PreparedOrders
  BY DEF PreparedOrders
<1>6. /\ order' \in [OrderKeys -> PreparedOrders]
      /\ orderCustody' \in [OrderKeys -> Nat]
  BY <1>1, <1>2, <1>5 DEF RouterInv, OrdersInv, OrdersTypeOK
<1>7. OrdersAreBacked'
  BY <1>1, <1>2 DEF RouterInv, OrdersInv, OrdersTypeOK, OrdersAreBacked, ArgsValid
<1> QED BY <1>3, <1>4, <1>6, <1>7

LEMMA PrepareInv ==
    ASSUME RouterInv, NEW o \in OrderKeys, NEW s \in Signers, NEW args \in Args,
           NEW src \in Tokens, NEW refund \in Tokens,
           PrepareMarketOrder(o, s, args, src, refund)
    PROVE  RouterInv'
<1>1. /\ PrepareOrder(o, s, args, src, refund, FALSE)
      /\ UNCHANGED <<delegation, delegatedOrders>>
  BY DEF PrepareMarketOrder
<1>2. /\ AccountsTypeOK' /\ FillsInv' /\ OrdersAreBacked'
      /\ order' \in [OrderKeys -> PreparedOrders]
      /\ orderCustody' \in [OrderKeys -> Nat]
  BY <1>1, PrepareOrderInv
<1>3. /\ UNCHANGED <<approved, approvals, messagePosted, burned>>
      /\ order' = [order EXCEPT ![o] =
            [exists |-> TRUE, sender |-> s, args |-> args, src |-> src,
             refund |-> refund, delegated |-> FALSE]]
  BY <1>1 DEF PrepareOrder
<1>4. OrdersTypeOK'
  BY <1>1, <1>2, <1>3 DEF RouterInv, OrdersInv, OrdersTypeOK
<1>5. ApprovalPaysOnce' /\ AllowanceIsApproved'
  BY <1>1, <1>3
     DEF RouterInv, OrdersInv, OrdersTypeOK, ApprovalPaysOnce, AllowanceIsApproved
<1> QED BY <1>2, <1>4, <1>5 DEF RouterInv, OrdersInv

\* The allowance is spent whole: nothing is left of it for another order.
LEMMA PrepareDelegatedInv ==
    ASSUME RouterInv, NEW o \in OrderKeys, NEW args \in Args,
           NEW src \in Tokens, NEW refund \in Tokens,
           PrepareMarketOrderDelegated(o, args, src, refund)
    PROVE  RouterInv'
<1> DEFINE s == TokenOwner[src]
           new == [exists |-> TRUE, sender |-> s, args |-> args, src |-> src,
                   refund |-> refund, delegated |-> TRUE]
           terms == [token |-> src, order |-> o, hash |-> Hash(args),
                     refund |-> refund, amount |-> args.amountIn]
<1>1. /\ PrepareOrder(o, s, args, src, refund, TRUE)
      /\ delegation[src].amount = args.amountIn
      /\ delegation[src].to = [order |-> o, hash |-> Hash(args), refund |-> refund]
      /\ delegatedOrders' = [delegatedOrders EXCEPT ![src] = @ + 1]
  BY DEF PrepareMarketOrderDelegated, DelegatedAmount, TransferAuthority
<1>2. s \in Signers
  BY RouterAssumption
<1>3. /\ AccountsTypeOK' /\ FillsInv' /\ OrdersAreBacked'
      /\ order' \in [OrderKeys -> PreparedOrders]
      /\ orderCustody' \in [OrderKeys -> Nat]
  BY <1>1, <1>2, PrepareOrderInv
<1>4. /\ UNCHANGED <<approved, approvals, messagePosted, burned>>
      /\ order' = [order EXCEPT ![o] = new]
      /\ args.amountIn > 0
  BY <1>1 DEF PrepareOrder, ArgsValid
<1>5. delegation' = [delegation EXCEPT ![src] = NoDelegation]
  BY <1>1 DEF PrepareMarketOrderDelegated, SpendDelegation, RouterInv, OrdersInv,
              OrdersTypeOK
<1>6. /\ OrdersTypeOK /\ ApprovalPaysOnce /\ AllowanceIsApproved
      /\ delegatedOrders[src] < approvals[src]
      /\ terms \in approved
  BY <1>1, <1>4 DEF RouterInv, OrdersInv, AllowanceIsApproved
<1>7. OrdersTypeOK'
  BY <1>1, <1>3, <1>4, <1>5, <1>6, NoValues DEF OrdersTypeOK
<1>8. AllowanceIsApproved'
  BY <1>1, <1>4, <1>5, <1>6 DEF OrdersTypeOK, AllowanceIsApproved, NoDelegation
<1>9. ApprovalPaysOnce'
  BY <1>1, <1>4, <1>6 DEF OrdersTypeOK, ApprovalPaysOnce
<1> QED BY <1>3, <1>7, <1>8, <1>9 DEF RouterInv, OrdersInv

LEMMA ApproveInv ==
    ASSUME RouterInv, NEW t \in Tokens, NEW o \in OrderKeys, NEW args \in Args,
           NEW refund \in Tokens, NEW n \in ApprovalAmounts,
           Approve(t, o, args, refund, n)
    PROVE  RouterInv'
<1> DEFINE to == [order |-> o, hash |-> Hash(args), refund |-> refund]
           terms == [token |-> t, order |-> o, hash |-> Hash(args),
                     refund |-> refund, amount |-> n]
<1>1. /\ delegation' = [delegation EXCEPT ![t] = [to |-> to, amount |-> n]]
      /\ approvals' = [approvals EXCEPT ![t] = @ + 1]
      /\ approved' = approved \cup {terms}
      /\ UNCHANGED <<paused, endpoint, balance, accountState, delegatedOrders,
                     order, orderCustody, messagePosted, burned, inVars, gifts>>
  BY DEF Approve, TransferAuthority, outVars
<1>2. n \in Nat /\ Hash(args) \in Hashes
  BY RouterAssumption DEF Hashes
<1>3. to \in Authorities /\ terms \in ApprovalRecords
  BY <1>2 DEF Authorities, ApprovalRecords
<1>4. OrdersTypeOK /\ OrdersAreBacked /\ ApprovalPaysOnce /\ AllowanceIsApproved
  BY DEF RouterInv, OrdersInv
<1>5. OrdersTypeOK'
  BY <1>1, <1>2, <1>3, <1>4 DEF OrdersTypeOK
<1>6. OrdersAreBacked'
  BY <1>1, <1>4 DEF OrdersAreBacked
<1>7. ApprovalPaysOnce'
  BY <1>1, <1>4 DEF OrdersTypeOK, ApprovalPaysOnce
<1>8. AllowanceIsApproved'
  BY <1>1, <1>4 DEF OrdersTypeOK, AllowanceIsApproved, ApprovalPaysOnce
<1>9. AccountsTypeOK' /\ FillsInv'
  BY <1>1, FillsFrame DEF RouterInv, AccountsTypeOK
<1> QED BY <1>5, <1>6, <1>7, <1>8, <1>9 DEF RouterInv, OrdersInv

\* What placing and closing an order have in common.
LEMMA OrderGoneInv ==
    ASSUME RouterInv, NEW o \in OrderKeys,
           CloseOrder(o), orderCustody' = [orderCustody EXCEPT ![o] = 0],
           messagePosted' \in [OrderKeys -> BOOLEAN], burned' \in Nat,
           UNCHANGED approvalVars
    PROVE  OrdersInv'
<1>1. order' = [order EXCEPT ![o] = NoOrder]
  BY DEF CloseOrder
<1>2. OrdersTypeOK'
  BY <1>1, NoValues DEF RouterInv, OrdersInv, OrdersTypeOK, approvalVars
<1>3. OrdersAreBacked'
  BY <1>1 DEF RouterInv, OrdersInv, OrdersTypeOK, OrdersAreBacked, NoOrder
<1>4. ApprovalPaysOnce' /\ AllowanceIsApproved'
  BY <1>1 DEF RouterInv, OrdersInv, OrdersTypeOK, ApprovalPaysOnce,
              AllowanceIsApproved, NoOrder, approvalVars
<1> QED BY <1>2, <1>3, <1>4 DEF OrdersInv

LEMMA PlaceInv ==
    ASSUME RouterInv, NEW o \in OrderKeys, PlaceMarketOrderCctp(o)
    PROVE  RouterInv'
<1>1. /\ CloseOrder(o) /\ orderCustody' = [orderCustody EXCEPT ![o] = 0]
      /\ messagePosted' = [messagePosted EXCEPT ![o] = TRUE]
      /\ burned' = burned + orderCustody[o]
      /\ UNCHANGED <<paused, endpoint, balance, accountState, gifts>>
      /\ UNCHANGED approvalVars /\ UNCHANGED inVars
  BY DEF PlaceMarketOrderCctp
<1>2. messagePosted' \in [OrderKeys -> BOOLEAN] /\ burned' \in Nat
  BY <1>1 DEF RouterInv, OrdersInv, OrdersTypeOK
<1>3. OrdersInv'
  BY <1>1, <1>2, OrderGoneInv
<1>4. AccountsTypeOK' /\ FillsInv'
  BY <1>1, FillsFrame DEF RouterInv, AccountsTypeOK
<1> QED BY <1>3, <1>4 DEF RouterInv

LEMMA CloseInv ==
    ASSUME RouterInv, NEW o \in OrderKeys, NEW s \in Signers, ClosePreparedOrder(s, o)
    PROVE  RouterInv'
<1> DEFINE t == order[o].refund
<1>1. /\ CloseOrder(o) /\ orderCustody' = [orderCustody EXCEPT ![o] = 0]
      /\ balance' = [balance EXCEPT ![t] = @ + orderCustody[o]]
      /\ UNCHANGED <<messagePosted, burned>>
      /\ UNCHANGED <<paused, endpoint, accountState, gifts>>
      /\ UNCHANGED approvalVars /\ UNCHANGED inVars
  BY DEF ClosePreparedOrder
<1>2. messagePosted' \in [OrderKeys -> BOOLEAN] /\ burned' \in Nat
  BY <1>1 DEF RouterInv, OrdersInv, OrdersTypeOK
<1>3. OrdersInv'
  BY <1>1, <1>2, OrderGoneInv
<1>4. balance' \in [Tokens -> Nat]
  <2>1. balance \in [Tokens -> Nat] /\ orderCustody[o] \in Nat
    BY DEF RouterInv, OrdersInv, OrdersTypeOK, AccountsTypeOK
  <2>2. CASE t \in Tokens
    <3>1. balance[t] + orderCustody[o] \in Nat
      BY <2>1, <2>2
    <3> QED BY <1>1, <2>1, <3>1
  <2>3. CASE t \notin Tokens
    BY <1>1, <2>1, <2>3
  <2> QED BY <2>2, <2>3
<1>5. AccountsTypeOK' /\ FillsInv'
  BY <1>1, <1>4, FillsFrame DEF RouterInv, AccountsTypeOK
<1> QED BY <1>3, <1>5 DEF RouterInv

LEMMA GiveToOrderInv ==
    ASSUME RouterInv, NEW o \in OrderKeys, GiveToOrder(o)
    PROVE  RouterInv'
<1>1. /\ order[o].exists
      /\ orderCustody' = [orderCustody EXCEPT ![o] = @ + 1]
      /\ gifts' = gifts + 1
      /\ UNCHANGED <<paused, endpoint, balance, accountState, order, messagePosted,
                     burned>>
      /\ UNCHANGED approvalVars /\ UNCHANGED inVars
  BY DEF GiveToOrder
<1>2. OrdersTypeOK'
  BY <1>1 DEF RouterInv, OrdersInv, OrdersTypeOK, approvalVars
<1>3. OrdersAreBacked'
  <2> SUFFICES ASSUME NEW p \in OrderKeys
               PROVE  IF order[p].exists
                      THEN orderCustody'[p] >= order[p].args.amountIn
                           /\ ArgsValid(order[p].args)
                      ELSE orderCustody'[p] = 0
    BY <1>1 DEF OrdersAreBacked, ArgsValid
  <2>1. CASE ~order[p].exists
    BY <2>1, <1>1 DEF RouterInv, OrdersInv, OrdersTypeOK, OrdersAreBacked
  <2>2. CASE order[p].exists
    <3>1. order[p].args \in Args \cup {NoArgs} /\ orderCustody[p] \in Nat
      BY DEF RouterInv, OrdersInv, OrdersTypeOK, PreparedOrders
    <3>2. order[p].args.amountIn \in Nat
      BY <3>1, RouterAssumption DEF ArgRecords, NoArgs
    <3>3. orderCustody'[p] >= orderCustody[p] /\ orderCustody'[p] \in Nat
      BY <1>1, <3>1 DEF RouterInv, OrdersInv, OrdersTypeOK
    <3> QED BY <2>2, <3>1, <3>2, <3>3 DEF RouterInv, OrdersInv, OrdersAreBacked
  <2> QED BY <2>1, <2>2
<1>4. ApprovalPaysOnce' /\ AllowanceIsApproved'
  BY <1>1 DEF RouterInv, OrdersInv, ApprovalPaysOnce, AllowanceIsApproved, approvalVars
<1>5. AccountsTypeOK' /\ FillsInv'
  BY <1>1, FillsFrame DEF RouterInv, AccountsTypeOK
<1> QED BY <1>2, <1>3, <1>4, <1>5 DEF RouterInv, OrdersInv
-----------------------------------------------------------------------------
(* Fills *)

LEMMA PrepareFillInv ==
    ASSUME RouterInv, NEW f \in Fills, ~Released(f), PrepareFill(f),
           nonceUsed' \in [Fills -> BOOLEAN],
           fastFill' \in [Fills -> {"Absent", "Open", "Redeemed", "Closed"}],
           Released(f)',
           \A g \in Fills : g # f => nonceUsed'[g] = nonceUsed[g]
                                     /\ fastFill'[g] = fastFill[g],
           IF Fill[f].type = "FastFill" THEN ~nonceUsed'[f] ELSE fastFill'[f] = "Absent"
    PROVE  RouterInv'
<1> DEFINE new == [exists |-> TRUE, fillType |-> Fill[f].type,
                   redeemer |-> Fill[f].redeemer]
<1>1. /\ preparedFill' = [preparedFill EXCEPT ![f] = new]
      /\ fillCustody' = [fillCustody EXCEPT ![f] = @ + Fill[f].amount]
      /\ UNCHANGED <<paused, endpoint, accountState, balance, gifts, consumed>>
      /\ UNCHANGED ordersState
  BY DEF PrepareFill, DepositAmount, fillFrame, ordersState
<1>2. /\ Fill[f].amount \in Nat
      /\ new \in PreparedFills
  BY RouterAssumption DEF FillRecords, PreparedFills
<1>3. FillsTypeOK /\ FillIsHeldOrPaid /\ OneSource
  BY DEF RouterInv, FillsInv
<1>4. FillsTypeOK'
  BY <1>1, <1>2, <1>3 DEF FillsTypeOK
<1>5. OneSource'
  BY <1>3 DEF OneSource
<1>6. consumed[f] = 0 /\ ~preparedFill[f].exists /\ fillCustody[f] = 0
  BY <1>3 DEF FillsTypeOK, FillIsHeldOrPaid
<1>7. FillIsHeldOrPaid'
  <2> SUFFICES ASSUME NEW g \in Fills
               PROVE  (/\ consumed[g] + (IF preparedFill[g].exists THEN 1 ELSE 0)
                             = (IF Released(g) THEN 1 ELSE 0)
                       /\ IF preparedFill[g].exists
                          THEN /\ preparedFill[g].redeemer = Fill[g].redeemer
                               /\ fillCustody[g] >= Fill[g].amount
                          ELSE fillCustody[g] = 0 /\ Unset(g))'
    BY DEF FillIsHeldOrPaid
  <2>1. CASE g = f
    <3>1. /\ preparedFill'[f] = new /\ fillCustody'[f] = Fill[f].amount
          /\ consumed'[f] = 0
      BY <1>1, <1>2, <1>3, <1>6 DEF FillsTypeOK
    <3> QED BY <2>1, <3>1, <1>2
  <2>2. CASE g # f
    <3>1. /\ preparedFill'[g] = preparedFill[g] /\ fillCustody'[g] = fillCustody[g]
          /\ consumed'[g] = consumed[g]
          /\ nonceUsed'[g] = nonceUsed[g] /\ fastFill'[g] = fastFill[g]
      BY <2>2, <1>1, <1>3 DEF FillsTypeOK
    <3> QED BY <3>1, <1>3 DEF FillIsHeldOrPaid, Released, Unset
  <2> QED BY <2>1, <2>2
<1>8. AccountsTypeOK' /\ OrdersInv'
  BY <1>1, OrdersFrame DEF RouterInv, AccountsTypeOK
<1> QED BY <1>4, <1>5, <1>7, <1>8 DEF RouterInv, FillsInv

LEMMA RedeemCctpInv ==
    ASSUME RouterInv, NEW f \in Fills, RedeemCctpFill(f)
    PROVE  RouterInv'
<1>1. /\ Fill[f].type = "WormholeCctpDeposit" /\ ~nonceUsed[f]
      /\ nonceUsed' = [nonceUsed EXCEPT ![f] = TRUE]
      /\ PrepareFill(f) /\ fastFill' = fastFill
  BY DEF RedeemCctpFill
<1>2. FillsTypeOK /\ OneSource
  BY DEF RouterInv, FillsInv
<1>3. ~Released(f) /\ Released(f)' /\ fastFill'[f] = "Absent"
  BY <1>1, <1>2 DEF FillsTypeOK, OneSource, Released
<1>4. /\ nonceUsed' \in [Fills -> BOOLEAN]
      /\ fastFill' \in [Fills -> {"Absent", "Open", "Redeemed", "Closed"}]
      /\ \A g \in Fills : g # f => nonceUsed'[g] = nonceUsed[g]
                                   /\ fastFill'[g] = fastFill[g]
  BY <1>1, <1>2 DEF FillsTypeOK
<1> QED BY <1>1, <1>3, <1>4, PrepareFillInv

LEMMA RedeemFastInv ==
    ASSUME RouterInv, NEW f \in Fills, RedeemFastFill(f)
    PROVE  RouterInv'
<1>1. /\ Fill[f].type = "FastFill" /\ fastFill[f] = "Open"
      /\ fastFill' = [fastFill EXCEPT ![f] = "Redeemed"]
      /\ PrepareFill(f) /\ nonceUsed' = nonceUsed
  BY DEF RedeemFastFill, FastFillRedeemable
<1>2. FillsTypeOK /\ OneSource
  BY DEF RouterInv, FillsInv
<1>3. ~Released(f) /\ Released(f)' /\ ~nonceUsed'[f]
  BY <1>1, <1>2 DEF FillsTypeOK, OneSource, Released
<1>4. /\ nonceUsed' \in [Fills -> BOOLEAN]
      /\ fastFill' \in [Fills -> {"Absent", "Open", "Redeemed", "Closed"}]
      /\ \A g \in Fills : g # f => nonceUsed'[g] = nonceUsed[g]
                                   /\ fastFill'[g] = fastFill[g]
  BY <1>1, <1>2 DEF FillsTypeOK
<1> QED BY <1>1, <1>3, <1>4, PrepareFillInv

LEMMA ConsumeInv ==
    ASSUME RouterInv, NEW f \in Fills, NEW s \in Signers, NEW dst \in Tokens,
           ConsumePreparedFill(s, f, dst)
    PROVE  RouterInv'
<1>1. /\ preparedFill[f].exists
      /\ balance' = [balance EXCEPT ![dst] = @ + fillCustody[f]]
      /\ fillCustody' = [fillCustody EXCEPT ![f] = 0]
      /\ preparedFill' = [preparedFill EXCEPT ![f] = NoFill]
      /\ consumed' = [consumed EXCEPT ![f] = @ + 1]
      /\ UNCHANGED <<paused, endpoint, accountState, gifts, nonceUsed, fastFill>>
      /\ UNCHANGED ordersState
  BY DEF ConsumePreparedFill, fillFrame, ordersState
<1>2. FillsTypeOK /\ FillIsHeldOrPaid /\ OneSource
  BY DEF RouterInv, FillsInv
<1>3. FillsTypeOK' /\ OneSource'
  BY <1>1, <1>2, NoValues DEF FillsTypeOK, OneSource
<1>4. FillIsHeldOrPaid'
  BY <1>1, <1>2 DEF FillsTypeOK, FillIsHeldOrPaid, Released, Unset, NoFill
<1>5. AccountsTypeOK' /\ OrdersInv'
  BY <1>1, <1>2, OrdersFrame DEF RouterInv, AccountsTypeOK, FillsTypeOK
<1> QED BY <1>3, <1>4, <1>5 DEF RouterInv, FillsInv

LEMMA FastFillInv ==
    ASSUME RouterInv, NEW f \in Fills, CreateFastFill(f) \/ CloseRedeemedFastFill(f)
    PROVE  RouterInv'
<1>1. /\ UNCHANGED <<paused, endpoint, accountState, gifts, balance, preparedFill,
                     fillCustody, nonceUsed, consumed>>
      /\ UNCHANGED ordersState
  BY DEF CreateFastFill, CloseRedeemedFastFill, fillFrame, ordersState
<1>2. FillsTypeOK /\ FillIsHeldOrPaid /\ OneSource
  BY DEF RouterInv, FillsInv
<1>3. FillsTypeOK'
  BY <1>1, <1>2 DEF FillsTypeOK, CreateFastFill, CloseRedeemedFastFill
<1>4. OneSource'
  BY <1>1, <1>2 DEF FillsTypeOK, OneSource, CreateFastFill, CloseRedeemedFastFill
<1>5. \A g \in Fills : Released(g)' <=> Released(g)
  BY <1>1, <1>2 DEF FillsTypeOK, Released, CreateFastFill, CloseRedeemedFastFill
<1>6. FillIsHeldOrPaid'
  BY <1>1, <1>2, <1>5 DEF FillIsHeldOrPaid, Unset
<1>7. AccountsTypeOK' /\ OrdersInv'
  BY <1>1, OrdersFrame DEF RouterInv, AccountsTypeOK
<1> QED BY <1>3, <1>4, <1>6, <1>7 DEF RouterInv, FillsInv

LEMMA GiveToFillInv ==
    ASSUME RouterInv, NEW f \in Fills, GiveToFill(f)
    PROVE  RouterInv'
<1>1. /\ preparedFill[f].exists
      /\ fillCustody' = [fillCustody EXCEPT ![f] = @ + 1]
      /\ gifts' = gifts + 1
      /\ UNCHANGED <<paused, endpoint, accountState, balance, preparedFill, nonceUsed,
                     fastFill, consumed>>
      /\ UNCHANGED ordersState
  BY DEF GiveToFill, ordersState
<1>2. FillsTypeOK /\ FillIsHeldOrPaid /\ OneSource
  BY DEF RouterInv, FillsInv
<1>3. FillsTypeOK' /\ OneSource'
  BY <1>1, <1>2 DEF FillsTypeOK, OneSource
<1>4. \A g \in Fills : Fill[g].amount \in Nat
  BY RouterAssumption DEF FillRecords
<1>5. FillIsHeldOrPaid'
  BY <1>1, <1>2, <1>4 DEF FillsTypeOK, FillIsHeldOrPaid, Released, Unset
<1>6. AccountsTypeOK' /\ OrdersInv'
  BY <1>1, OrdersFrame DEF RouterInv, AccountsTypeOK
<1> QED BY <1>3, <1>5, <1>6 DEF RouterInv, FillsInv
-----------------------------------------------------------------------------
(* Others *)

LEMMA OtherInv ==
    ASSUME RouterInv, SetPause \/ \E c \in Chains : ChangeEndpoint(c)
    PROVE  RouterInv'
<1>1. /\ UNCHANGED <<balance, accountState, gifts>>
      /\ UNCHANGED ordersState /\ UNCHANGED inVars
  BY DEF SetPause, ChangeEndpoint, ordersState
<1>2. paused' \in BOOLEAN /\ endpoint' \in [Chains -> Endpoints]
  BY RouterAssumption DEF SetPause, ChangeEndpoint, RouterInv, AccountsTypeOK
<1> QED BY <1>1, <1>2, OrdersFrame, FillsFrame DEF RouterInv, AccountsTypeOK

LEMMA ChangeAccountStateInv ==
    ASSUME RouterInv, NEW t \in Tokens, NEW s \in {"open", "frozen", "closed"},
           ChangeAccountState(t, s)
    PROVE  RouterInv'
<1>1. /\ accountState' = [accountState EXCEPT ![t] = s]
      /\ \/ delegation' = delegation
         \/ delegation' = [delegation EXCEPT ![t] = NoDelegation]
      /\ UNCHANGED <<paused, endpoint, balance, gifts, approved, approvals,
                     delegatedOrders, order, orderCustody, messagePosted, burned>>
      /\ UNCHANGED inVars
  BY DEF ChangeAccountState, outVars
<1>2. AccountsTypeOK' /\ FillsInv'
  BY <1>1, FillsFrame DEF RouterInv, AccountsTypeOK
<1>3. OrdersTypeOK /\ OrdersAreBacked /\ ApprovalPaysOnce /\ AllowanceIsApproved
  BY DEF RouterInv, OrdersInv
<1>4. OrdersTypeOK'
  BY <1>1, <1>3, NoValues DEF OrdersTypeOK
<1>5. OrdersAreBacked' /\ ApprovalPaysOnce'
  BY <1>1, <1>3 DEF OrdersAreBacked, ApprovalPaysOnce
<1>6. AllowanceIsApproved'
  <2>1. CASE delegation' = delegation
    BY <1>1, <1>3, <2>1 DEF AllowanceIsApproved
  <2>2. CASE delegation' = [delegation EXCEPT ![t] = NoDelegation]
    <3> SUFFICES ASSUME NEW u \in Tokens, delegation'[u].amount > 0
                 PROVE  /\ delegatedOrders[u] < approvals[u]
                        /\ [token |-> u, order |-> delegation'[u].to.order,
                            hash |-> delegation'[u].to.hash,
                            refund |-> delegation'[u].to.refund,
                            amount |-> delegation'[u].amount] \in approved
      BY <1>1 DEF AllowanceIsApproved
    <3>1. u # t
      BY <2>2, <1>3 DEF OrdersTypeOK, NoDelegation
    <3>2. delegation'[u] = delegation[u]
      BY <3>1, <2>2, <1>3 DEF OrdersTypeOK
    <3> QED BY <3>2, <1>3 DEF AllowanceIsApproved
  <2> QED BY <1>1, <2>1, <2>2
<1> QED BY <1>2, <1>4, <1>5, <1>6 DEF RouterInv, OrdersInv

LEMMA StepInv == RouterInv /\ [Next]_vars => RouterInv'
<1> SUFFICES ASSUME RouterInv, [Next]_vars PROVE RouterInv'
  OBVIOUS
<1>1. CASE UNCHANGED vars
  BY <1>1, OrdersFrame, FillsFrame DEF vars, ordersState, RouterInv, AccountsTypeOK
<1>2. ASSUME NEW o \in OrderKeys, OrderStep(o) PROVE RouterInv'
  BY <1>2, PrepareInv, PrepareDelegatedInv, ApproveInv, PlaceInv, CloseInv,
     GiveToOrderInv DEF OrderStep
<1>3. ASSUME NEW f \in Fills, FillStep(f) PROVE RouterInv'
  BY <1>3, RedeemCctpInv, RedeemFastInv, ConsumeInv, FastFillInv, GiveToFillInv
     DEF FillStep
<1> QED BY <1>1, <1>2, <1>3, OtherInv, ChangeAccountStateInv DEF Next

THEOREM RouterInvariant == Spec => []RouterInv
  BY InitInv, StepInv, PTL DEF Spec
-----------------------------------------------------------------------------
\* No transfer overdraws a token account, a custody account or an allowance.
THEOREM RouterTypeCorrect == Spec => []TypeOK
<1>1. RouterInv => TypeOK
  BY DEF RouterInv, OrdersInv, FillsInv, TypeOK
<1> QED BY <1>1, RouterInvariant, PTL

\* A prepared order can always be placed or refunded in full.
THEOREM OrdersBacked == Spec => []OrdersAreBacked
<1>1. RouterInv => OrdersAreBacked
  BY DEF RouterInv, OrdersInv
<1> QED BY <1>1, RouterInvariant, PTL

\* An approval pays for one order, on the terms that were approved.
THEOREM ApprovalsPayOnce == Spec => []ApprovalPaysOnce
<1>1. RouterInv => ApprovalPaysOnce
  BY DEF RouterInv, OrdersInv
<1> QED BY <1>1, RouterInvariant, PTL

\* The USDC of a fill is with its source, in custody for its redeemer, or paid once.
THEOREM FillsPaidOnce == Spec => []FillIsHeldOrPaid
<1>1. RouterInv => FillIsHeldOrPaid
  BY DEF RouterInv, FillsInv
<1> QED BY <1>1, RouterInvariant, PTL
=============================================================================
