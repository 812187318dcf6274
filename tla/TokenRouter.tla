----------------------------- MODULE TokenRouter -----------------------------
(***************************************************************************)
(* The token router on Solana.  Outbound, USDC waits with a prepared order *)
(* until somebody places it (the USDC is burned and a message published)   *)
(* or its sender closes it.  Inbound, a fill that came by CCTP or from an   *)
(* auction (a fast fill of the matching engine) waits as a prepared fill   *)
(* until its redeemer consumes it.                                         *)
(*                                                                         *)
(* An action is one instruction.  A redemption that finds the fill already *)
(* prepared does nothing (redeem_fill_noop) and is a stuttering step.      *)
(***************************************************************************)
EXTENDS Integers, FiniteSetsExt

CONSTANTS
    OrderKeys,          \* addresses of prepared orders: any key, used again at will
    Signers,            \* keys that sign transactions
    Tokens,             \* USDC token accounts of users
    TokenOwner,         \* the owner of each
    FirstBalance,       \* and what it holds at first
    Args,               \* arguments of prepare_market_order, valid or not
    ZeroRedeemer,       \* the redeemer [0; 32]
    MAX_REDEEMER_MESSAGE_SIZE,
    Chains, SolanaChain, Addresses, Emitter,
    FirstEndpoint,      \* router endpoint of each chain
    EndpointChoices,    \* what the matching engine's owner may make of it
    Fills,              \* addresses of fills: VAAs and fast fill accounts
    Fill,               \* what they say
    Approvers,          \* token accounts whose owners approve transfers
    ApprovalAmounts,    \* and for how much
    MaxApprovals,       \* bound on the approvals of each token account
    MaxGifts,           \* bound on the gifts to custody accounts
    NoKey, NoMin        \* None of an optional key and of min_amount_out

Protocols == {"None", "Cctp", "Local"}
Endpoints == [protocol : Protocols, address : Addresses]
FillRecords ==
    [type : {"WormholeCctpDeposit", "FastFill"}, chain : Chains,
     emitter : Addresses, redeemer : Signers, amount : Nat]
ArgRecords ==
    [amountIn : Nat, minAmountOut : Nat \cup {NoMin}, targetChain : Chains,
     redeemer : Signers \cup {ZeroRedeemer}, messageSize : Nat]

ASSUME RouterAssumption ==
    /\ TokenOwner \in [Tokens -> Signers]
    /\ FirstBalance \in [Tokens -> Nat]
    /\ Args \subseteq ArgRecords
    /\ MAX_REDEEMER_MESSAGE_SIZE \in Nat
    /\ NoMin \notin Nat
    /\ SolanaChain \in Chains /\ Emitter \in Addresses
    /\ FirstEndpoint \in [Chains -> Endpoints]
    /\ EndpointChoices \in [Chains -> SUBSET Endpoints]
    /\ Fill \in [Fills -> FillRecords]
    /\ Approvers \subseteq Tokens /\ ApprovalAmounts \subseteq Nat \ {0}
    /\ MaxApprovals \in Nat /\ MaxGifts \in Nat
    /\ NoKey \notin OrderKeys \cup Signers \cup Tokens

VARIABLES
    paused,         \* of the custodian
    endpoint,       \* router endpoints, accounts of the matching engine
    balance, accountState, \* token accounts
    delegation,     \* the delegate of each token account
    order,          \* prepared order accounts
    orderCustody,   \* and their custody token accounts
    messagePosted,  \* is there a core_message account of this order key?
    burned,         \* USDC that left with placed orders
    preparedFill,   \* prepared fill accounts, by their fill source
    fillCustody,    \* and their custody token accounts
    nonceUsed,      \* did CCTP receive the transfer of this fill?
    fastFill,       \* fast fill accounts of the matching engine
    \* Nothing reads these.
    approved,       \* approvals made by the owners of token accounts
    approvals,      \* how many, for each token account
    delegatedOrders,\* orders that the program transfer authority paid for
    consumed,       \* how often each fill was paid
    gifts

outVars == <<order, orderCustody, messagePosted, burned>>
inVars == <<preparedFill, fillCustody, nonceUsed, fastFill, consumed>>
approvalVars == <<delegation, approved, approvals, delegatedOrders>>
vars == <<paused, endpoint, balance, accountState, approvalVars, outVars, inVars,
          gifts>>
-----------------------------------------------------------------------------
\* PrepareMarketOrderArgs::hash: what is hashed, in this order, the fields being
\* of fixed width up to the message.
Hash(args) ==
    IF args.minAmountOut = NoMin
    THEN <<args.amountIn, args.targetChain, args.redeemer, args.messageSize>>
    ELSE <<args.amountIn, args.minAmountOut, args.targetChain, args.redeemer,
           args.messageSize>>

Hashes == {Hash(args) : args \in Args}

NoArgs ==
    [amountIn |-> 0, minAmountOut |-> NoMin, targetChain |-> NoKey,
     redeemer |-> NoKey, messageSize |-> 0]

\* The address of program_transfer_authority is derived from these.
TransferAuthority(o, args, refund) ==
    [order |-> o, hash |-> Hash(args), refund |-> refund]

Authorities ==
    [order : OrderKeys \cup {NoKey}, hash : Hashes \cup {<<>>},
     refund : Tokens \cup {NoKey}]

NoDelegation ==
    [to |-> [order |-> NoKey, hash |-> <<>>, refund |-> NoKey], amount |-> 0]

PreparedOrders ==
    [exists : BOOLEAN, sender : Signers \cup {NoKey}, args : Args \cup {NoArgs},
     src : Tokens \cup {NoKey}, refund : Tokens \cup {NoKey}, delegated : BOOLEAN]

NoOrder ==
    [exists |-> FALSE, sender |-> NoKey, args |-> NoArgs, src |-> NoKey,
     refund |-> NoKey, delegated |-> FALSE]

PreparedFills ==
    [exists : BOOLEAN, fillType : {"Unset", "WormholeCctpDeposit", "FastFill"},
     redeemer : Signers \cup {NoKey}]

NoFill == [exists |-> FALSE, fillType |-> "Unset", redeemer |-> NoKey]

Init ==
    /\ paused = FALSE
    /\ endpoint = FirstEndpoint
    /\ balance = FirstBalance
    /\ accountState = [t \in Tokens |-> "open"]
    /\ delegation = [t \in Tokens |-> NoDelegation]
    /\ order = [o \in OrderKeys |-> NoOrder]
    /\ orderCustody = [o \in OrderKeys |-> 0]
    /\ messagePosted = [o \in OrderKeys |-> FALSE]
    /\ burned = 0
    /\ preparedFill = [f \in Fills |-> NoFill]
    /\ fillCustody = [f \in Fills |-> 0]
    /\ nonceUsed = [f \in Fills |-> FALSE]
    /\ fastFill = [f \in Fills |-> "Absent"]
    /\ approved = {}
    /\ approvals = [t \in Tokens |-> 0]
    /\ delegatedOrders = [t \in Tokens |-> 0]
    /\ consumed = [f \in Fills |-> 0]
    /\ gifts = 0
-----------------------------------------------------------------------------
(* Token accounts *)

Exists(t) == accountState[t] # "closed"

\* Mutation: the token program does not look at the balance.
CanPay_Unfunded(t, amount) == accountState[t] = "open"

CanPay(t, amount) == accountState[t] = "open" /\ balance[t] >= amount

CanReceive(t) == accountState[t] = "open"

\* The owner of a token account approves a program transfer authority.
Approve(t, o, args, refund, amount) ==
    LET to == TransferAuthority(o, args, refund)
    IN  /\ t \in Approvers /\ accountState[t] = "open"
        /\ approvals[t] < MaxApprovals
        /\ delegation' = [delegation EXCEPT ![t] = [to |-> to, amount |-> amount]]
        /\ approvals' = [approvals EXCEPT ![t] = @ + 1]
        /\ approved' = approved \cup
              {[token |-> t, order |-> o, hash |-> Hash(args), refund |-> refund,
                amount |-> amount]}
        /\ UNCHANGED <<paused, endpoint, balance, accountState, delegatedOrders,
                       outVars, inVars, gifts>>

\* An account is frozen, thawed, closed when empty, or opened again.
ChangeAccountState(t, s) ==
    /\ s # accountState[t]
    /\ s = "closed" => accountState[t] = "open" /\ balance[t] = 0
    /\ accountState[t] = "closed" => s = "open"
    /\ accountState' = [accountState EXCEPT ![t] = s]
    /\ delegation' = IF s = "closed"
                     THEN [delegation EXCEPT ![t] = NoDelegation] ELSE delegation
    /\ UNCHANGED <<paused, endpoint, balance, approved, approvals, delegatedOrders,
                   outVars, inVars, gifts>>
-----------------------------------------------------------------------------
(* Orders *)

\* RegisteredEndpoint
Registered(c) == endpoint[c].protocol # "None"

ArgsValid(args) ==
    /\ args.amountIn > 0
    /\ args.redeemer # ZeroRedeemer
    /\ args.messageSize <= MAX_REDEEMER_MESSAGE_SIZE
    /\ args.minAmountOut # NoMin => args.minAmountOut <= args.amountIn

\* The accounts of the order are created, and its amount goes to its custody.
PrepareOrder(o, sender, args, src, refund, delegated) ==
    /\ ArgsValid(args)
    /\ Registered(args.targetChain)
    /\ ~order[o].exists
    /\ Exists(refund)
    /\ CanPay(src, args.amountIn)
    /\ balance' = [balance EXCEPT ![src] = @ - args.amountIn]
    /\ orderCustody' = [orderCustody EXCEPT ![o] = args.amountIn]
    /\ order' = [order EXCEPT ![o] =
          [exists |-> TRUE, sender |-> sender, args |-> args, src |-> src,
           refund |-> refund, delegated |-> delegated]]
    /\ UNCHANGED <<paused, endpoint, accountState, approved, approvals,
                   messagePosted, burned, inVars, gifts>>

\* (Some(sender), None)
PrepareMarketOrder(o, sender, args, src, refund) ==
    /\ sender = TokenOwner[src]
    /\ PrepareOrder(o, sender, args, src, refund, FALSE)
    /\ UNCHANGED <<delegation, delegatedOrders>>

\* Mutation: a larger approval will do.
DelegatedAmount_AtLeast(src, args) == delegation[src].amount >= args.amountIn

\* DelegatedAmountMismatch
DelegatedAmount(src, args) == delegation[src].amount = args.amountIn

\* The delegate's allowance shrinks by what it transfers.
SpendDelegation(src, amount) ==
    delegation' = [delegation EXCEPT ![src] =
        IF @.amount = amount THEN NoDelegation
        ELSE [@ EXCEPT !.amount = @ - amount]]

\* (None, Some(program_transfer_authority)): whoever sends it.
PrepareMarketOrderDelegated(o, args, src, refund) ==
    /\ DelegatedAmount(src, args)
    /\ delegation[src].to = TransferAuthority(o, args, refund)
    /\ SpendDelegation(src, args.amountIn)
    /\ delegatedOrders' = [delegatedOrders EXCEPT ![src] = @ + 1]
    /\ PrepareOrder(o, TokenOwner[src], args, src, refund, TRUE)

\* Mutation: the account of the order is not closed.
CloseOrder_Left(o) == order' = order

\* "close = prepared_by"
CloseOrder(o) == order' = [order EXCEPT ![o] = NoOrder]

\* place_market_order_cctp: whoever sends it.  The core_message account of the
\* order key is created by the Wormhole core bridge, once.
PlaceMarketOrderCctp(o) ==
    /\ ~paused
    /\ order[o].exists
    /\ endpoint[order[o].args.targetChain].protocol = "Cctp"
    /\ ~messagePosted[o]
    /\ messagePosted' = [messagePosted EXCEPT ![o] = TRUE]
    /\ burned' = burned + orderCustody[o]
    /\ orderCustody' = [orderCustody EXCEPT ![o] = 0]
    /\ CloseOrder(o)
    /\ UNCHANGED <<paused, endpoint, balance, accountState, approvalVars, inVars,
                   gifts>>

\* close_prepared_order
ClosePreparedOrder(s, o) ==
    /\ order[o].exists
    /\ s = order[o].sender
    /\ CanReceive(order[o].refund)
    /\ balance' = [balance EXCEPT ![order[o].refund] = @ + orderCustody[o]]
    /\ orderCustody' = [orderCustody EXCEPT ![o] = 0]
    /\ CloseOrder(o)
    /\ UNCHANGED <<paused, endpoint, accountState, approvalVars, messagePosted,
                   burned, inVars, gifts>>
-----------------------------------------------------------------------------
(* Fills *)

fillFrame == <<paused, endpoint, accountState, approvalVars, outVars, gifts>>

\* "init_if_needed", then FillType::Unset: only then is there something to do.
Unset(f) == preparedFill[f].fillType = "Unset"

\* Mutation: the minted amount stays in the mint recipient.
DepositAmount_Forgotten(f) == 0

DepositAmount(f) == Fill[f].amount

PrepareFill(f) ==
    /\ preparedFill' = [preparedFill EXCEPT ![f] =
          [exists |-> TRUE, fillType |-> Fill[f].type, redeemer |-> Fill[f].redeemer]]
    /\ fillCustody' = [fillCustody EXCEPT ![f] = @ + DepositAmount(f)]
    /\ UNCHANGED <<fillFrame, balance, consumed>>

\* redeem_cctp_fill; CCTP accepts each message once.
RedeemCctpFill(f) ==
    LET source == endpoint[Fill[f].chain]
    IN  /\ Fill[f].type = "WormholeCctpDeposit"
        /\ source.protocol # "None"
        /\ source.address = Fill[f].emitter
        /\ Unset(f)
        /\ ~nonceUsed[f]
        /\ nonceUsed' = [nonceUsed EXCEPT ![f] = TRUE]
        /\ PrepareFill(f)
        /\ UNCHANGED fastFill

\* Mutation: a redeemed fast fill may be completed again.
FastFillRedeemable_Again(f) == fastFill[f] \in {"Open", "Redeemed"}

\* FastFillAlreadyRedeemed
FastFillRedeemable(f) == fastFill[f] = "Open"

\* redeem_fast_fill, with the matching engine's complete_fast_fill.
RedeemFastFill(f) ==
    /\ Fill[f].type = "FastFill"
    /\ Unset(f)
    /\ FastFillRedeemable(f)
    /\ Registered(Fill[f].chain)
    /\ Registered(SolanaChain)
    /\ endpoint[SolanaChain].address = Emitter
    /\ fastFill' = [fastFill EXCEPT ![f] = "Redeemed"]
    /\ PrepareFill(f)
    /\ UNCHANGED nonceUsed

\* consume_prepared_fill
ConsumePreparedFill(s, f, dst) ==
    /\ preparedFill[f].exists
    /\ s = preparedFill[f].redeemer
    /\ CanReceive(dst)
    /\ balance' = [balance EXCEPT ![dst] = @ + fillCustody[f]]
    /\ fillCustody' = [fillCustody EXCEPT ![f] = 0]
    /\ preparedFill' = [preparedFill EXCEPT ![f] = NoFill]
    /\ consumed' = [consumed EXCEPT ![f] = @ + 1]
    /\ UNCHANGED <<fillFrame, nonceUsed, fastFill>>

\* The matching engine executes a local order, and closes what was redeemed.
CreateFastFill(f) ==
    /\ Fill[f].type = "FastFill"
    /\ fastFill[f] = "Absent"
    /\ fastFill' = [fastFill EXCEPT ![f] = "Open"]
    /\ UNCHANGED <<fillFrame, balance, preparedFill, fillCustody, nonceUsed, consumed>>

CloseRedeemedFastFill(f) ==
    /\ fastFill[f] = "Redeemed"
    /\ fastFill' = [fastFill EXCEPT ![f] = "Closed"]
    /\ UNCHANGED <<fillFrame, balance, preparedFill, fillCustody, nonceUsed, consumed>>
-----------------------------------------------------------------------------
(* Others *)

SetPause ==
    /\ paused' = ~paused
    /\ UNCHANGED <<endpoint, balance, accountState, approvalVars, outVars, inVars,
                   gifts>>

\* The matching engine's owner updates or disables an endpoint.
ChangeEndpoint(c) ==
    /\ \E e \in EndpointChoices[c] : endpoint' = [endpoint EXCEPT ![c] = e]
    /\ UNCHANGED <<paused, balance, accountState, approvalVars, outVars, inVars, gifts>>

\* Somebody sends USDC to a custody account.
GiveToOrder(o) ==
    /\ gifts < MaxGifts /\ order[o].exists
    /\ orderCustody' = [orderCustody EXCEPT ![o] = @ + 1]
    /\ gifts' = gifts + 1
    /\ UNCHANGED <<paused, endpoint, balance, accountState, approvalVars, order,
                   messagePosted, burned, inVars>>

GiveToFill(f) ==
    /\ gifts < MaxGifts /\ preparedFill[f].exists
    /\ fillCustody' = [fillCustody EXCEPT ![f] = @ + 1]
    /\ gifts' = gifts + 1
    /\ UNCHANGED <<paused, endpoint, balance, accountState, approvalVars, outVars,
                   preparedFill, nonceUsed, fastFill, consumed>>

OrderStep(o) ==
    \/ \E args \in Args, src, refund \in Tokens :
          \/ PrepareMarketOrderDelegated(o, args, src, refund)
          \/ \E s \in Signers : PrepareMarketOrder(o, s, args, src, refund)
          \/ \E n \in ApprovalAmounts : Approve(src, o, args, refund, n)
    \/ PlaceMarketOrderCctp(o)
    \/ \E s \in Signers : ClosePreparedOrder(s, o)
    \/ GiveToOrder(o)

FillStep(f) ==
    \/ RedeemCctpFill(f) \/ RedeemFastFill(f)
    \/ \E s \in Signers, dst \in Tokens : ConsumePreparedFill(s, f, dst)
    \/ CreateFastFill(f) \/ CloseRedeemedFastFill(f)
    \/ GiveToFill(f)

Next ==
    \/ \E o \in OrderKeys : OrderStep(o)
    \/ \E f \in Fills : FillStep(f)
    \/ SetPause
    \/ \E c \in Chains : ChangeEndpoint(c)
    \/ \E t \in Tokens, s \in {"open", "frozen", "closed"} : ChangeAccountState(t, s)

Spec == Init /\ [][Next]_vars
-----------------------------------------------------------------------------
(* Safety *)

ApprovalRecords ==
    [token : Tokens, order : OrderKeys, hash : Hashes, refund : Tokens, amount : Nat]

AccountsTypeOK ==
    /\ paused \in BOOLEAN
    /\ endpoint \in [Chains -> Endpoints]
    /\ balance \in [Tokens -> Nat]
    /\ accountState \in [Tokens -> {"open", "frozen", "closed"}]
    /\ gifts \in Nat

OrdersTypeOK ==
    /\ delegation \in [Tokens -> [to : Authorities, amount : Nat]]
    /\ approved \subseteq ApprovalRecords
    /\ approvals \in [Tokens -> Nat] /\ delegatedOrders \in [Tokens -> Nat]
    /\ order \in [OrderKeys -> PreparedOrders]
    /\ orderCustody \in [OrderKeys -> Nat]
    /\ messagePosted \in [OrderKeys -> BOOLEAN]
    /\ burned \in Nat

FillsTypeOK ==
    /\ preparedFill \in [Fills -> PreparedFills]
    /\ fillCustody \in [Fills -> Nat]
    /\ nonceUsed \in [Fills -> BOOLEAN]
    /\ fastFill \in [Fills -> {"Absent", "Open", "Redeemed", "Closed"}]
    /\ consumed \in [Fills -> Nat]

\* Type invariant: no transfer overdraws a token account or an allowance.
TypeOK == AccountsTypeOK /\ OrdersTypeOK /\ FillsTypeOK

\* A prepared order always has its whole amount in custody, for its placement or
\* its refund, whichever comes first; what was placed or refunded left nothing.
OrdersAreBacked ==
    \A o \in OrderKeys :
        IF order[o].exists
        THEN orderCustody[o] >= order[o].args.amountIn /\ ArgsValid(order[o].args)
        ELSE orderCustody[o] = 0

\* Whoever sends the instruction, USDC leaves a token account only for an order
\* whose terms and refund account its owner approved, and each approval pays for
\* one order, although the key of a closed order can be used again.
ApprovalPaysOnce ==
    /\ \A t \in Tokens : delegatedOrders[t] <= approvals[t]
    /\ \A o \in OrderKeys : order[o].exists /\ order[o].delegated =>
          [token |-> order[o].src, order |-> o, hash |-> Hash(order[o].args),
           refund |-> order[o].refund, amount |-> order[o].args.amountIn] \in approved

\* CCTP or the matching engine has given out the fill's USDC.
Released(f) == nonceUsed[f] \/ fastFill[f] \in {"Redeemed", "Closed"}

\* The USDC of a fill is in one place: with its source, whole in the custody of
\* the prepared fill for its redeemer, or paid, once; although the accounts of a
\* fill are closed and may be created again by another redemption.
FillIsHeldOrPaid ==
    \A f \in Fills :
        /\ consumed[f] + (IF preparedFill[f].exists THEN 1 ELSE 0)
              = (IF Released(f) THEN 1 ELSE 0)
        /\ IF preparedFill[f].exists
           THEN /\ preparedFill[f].redeemer = Fill[f].redeemer
                /\ fillCustody[f] >= Fill[f].amount
           ELSE fillCustody[f] = 0 /\ Unset(f)

=============================================================================
