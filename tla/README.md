# Verification of the example liquidity layer

TLA+ models, TLC runs and TLAPS proofs for the liquidity layer: fast
cross-chain USDC transfers in which solvers compete, in auctions on Solana, to
pay a user before the user's own transfer is final. An earlier version of the
auctions, with the same purpose, runs on an EVM chain.

## 1. The system

A user gives USDC to a **token router** on a source chain. The router burns it
with CCTP and publishes two Wormhole messages: a *fast market order*, signed
within seconds, and, with the CCTP transfer itself, a *slow order response*,
signed after finality. On Solana, the **matching engine** auctions the fast
order: solvers deposit the amount of the order plus a security deposit and
underbid each other on the fee. When the auction ends anyone executes it: the
user's USDC goes to the target chain out of the deposit. When the finalized
transfer arrives, it repays the best offer. An order that no solver wanted is
settled with the finalized transfer itself.

### Components

| component | state | operations | interacts with |
|---|---|---|---|
| matching engine, auctions (`programs/matching-engine/src/processor/auction`) | auction account and auction custody token per VAA | place initial offer, improve offer, execute (CCTP, local), close | SPL tokens, CCTP, Wormhole VAAs |
| matching engine, settlement (`.../auction/prepare_order_response`, `.../auction/settle`) | prepared order response and its custody token per VAA | prepare response, settle complete, settle none (CCTP, local) | auctions, CCTP receive, local custody |
| matching engine, fast fills (`.../processor/fast_fill`) | sequencer per (chain, sender), reserved sequence per VAA, fast fill accounts, local custody token per chain | reserve sequence (active auction, no auction), complete fast fill, close redeemed | auctions, token router (CPI) |
| matching engine, arithmetic (`utils/auction.rs`) | none | penalties, rewards, minimum offer, deposits | called by offers and execution |
| matching engine, administration (`.../processor/admin`) | custodian, proposals, auction configs, router endpoints | ownership transfer, owner assistant, fee recipient, pause, propose and enact parameters, endpoints | read by every other instruction |
| matching engine, auction history | history accounts | deprecated, always fail | none |
| token router (Solana) | prepared orders and fills, custodian | prepare and place an order, close it, redeem a fill, consume it | matching engine (CPI), CCTP, integrators |
| upgrade manager (Solana) | upgrade receipts | execute and commit an upgrade of each program | BPF loader, migrate |
| matching engine (EVM) | live auctions, redeemed fast fills, endpoints, fee recipient | place and improve bids, execute fast and slow orders, redeem fast fills | token routers, CCTP |
| token router (EVM) | endpoints, fast transfer parameters | place market orders, redeem fills | matching engine, CCTP |
| EVM proxies and administration | owner, pending owner, assistant, pause | transfer, confirm, upgrade, pause | the contracts behind them |
| solver (`src/solver`): `vaaAuctionRelayer`, `improveOffer`, `executeOrder` | queues of transactions, hashes of VAAs seen, auctions by slot, a blockhash | relay VAAs, offer, improve, execute, settle | matching engine, Solana slots, the guardians' spy, two web services |
| TypeScript clients (`src/solana/ts`) | none; the event listener keeps a queue | derive addresses, fetch accounts, build transactions, listen to events | the programs and the callers of the clients |
| message formats, EVM wrappers, SDK | none | encode, decode, call | all |

### What is hard

* Every Solana instruction is permissionless and they interleave freely: an
  offer races a settlement without auction, a reservation races both.
* Token accounts of participants may be closed or frozen, and come back, at any
  moment between an offer and the instruction that pays them, and anyone may
  send USDC to a custody account. The custody account must be *exactly* empty
  when it is closed, or the execution fails.
* Account addresses are reused: the auction account of an order is closed in the
  end and could be created again; so could its response, its reserved sequence
  and its fast fills.
* Time decides who pays: duration, grace period and penalty period in slots,
  deadlines and the expiration of the VAA in seconds, all with exact boundaries.
* Owner instructions change configuration, pause and endpoints under running
  auctions.
* Messages arrive in any order, more than once: the finalized transfer may come
  before, during or after the auction.
* Off the chain everything is asynchronous. A client fetches accounts one after the
  other and its transaction lands later, when they may have changed; a transaction
  that seemed to fail may land after all; callbacks of the solver and of the event
  listener run side by side over shared queues; slots without a block are never
  notified; and a rejected promise that nobody handles ends a solver's process.

What makes it correct: each order is filled once, for at least what the user
agreed to; the finalized money is spent once; the accounts that hold money
always hold enough, and can always be emptied; a solver that does its duty in
time loses nothing; the price of an auction only falls; sequences and addresses
do not collide; a transaction that was overtaken is refused or does what it would do
now; a solver executes and settles what it won; and with relayers that do their work every order is filled and
all its accounts are closed.

## 2. Modules

| module | models |
|---|---|
| `AuctionMath` | `utils/auction.rs` and the slot helpers of `state/auction.rs`, with u64 saturation and casts |
| `PenaltySchedule` | how the forfeited deposit grows with the slot of execution |
| `MatchingEngine` | auctions, settlement, fast fills, and what the owner does to them |
| `OrderLifecycle` | the abstract specification: what is promised for an order, without auctions |
| `Governance` | the custodian: owner, assistant, proposals, endpoints; and the upgrade manager, which owns the program during an upgrade |
| `TokenRouter` | the Solana token router: prepared orders, prepared fills, approvals |
| `EvmLiquidityLayer` | the EVM contracts: token routers, matching engine and what CCTP and Wormhole carry between them |
| `OrderExecutor`, `OfferImprover`, `CachedBlockhash` | the solver's `executeOrder` and `improveOffer` processes and the blockhash they share |
| `AuctionFollowers` | the two processes with a chain, a competitor, slots and events that may be late or lost |
| `SolverConfig`, `VaaSpy` | the configuration file of the solver; the subscription to signed VAAs |
| `VaaRelayer` | the solver's `vaaAuctionRelayer` with what it meets on the chain |
| `SolanaAddresses`, `CctpClient` | how addresses are derived; the clients of Circle's and Wormhole's programs |
| `EngineClient`, `EngineBuilders`, `RouterClient`, `UpgradeClient` | the TypeScript clients: addresses, reads, instructions |
| `EngineIdl`, `RouterIdl`, `UpgradeIdl` | the generated interface descriptions: the account records of every instruction |
| `ProgramAccounts`, `EngineProgram`, `EngineAdminProgram`, `RouterProgram`, `UpgradeProgram` | what the programs check of the accounts they are called with, and what they write |
| `ClientSession` | a user of the clients, others, and the programs, composed |
| `EventListener` | `onEventCpi`, with the client's queue |
| `MCMatchingEngine`, `MCGovernance`, `MCTokenRouter`, `MCEvmLiquidityLayer`, `MCAuctionFollowers`, `MCVaaRelayer`, `MCClientSession` | constants of the instances that TLC checks (those of `PenaltySchedule` are at its end) |
| `PenaltyScheduleProofs`, `MatchingEngineProofs`, `GovernanceProofs`, `TokenRouterProofs`, `EvmLiquidityProofs`, `AuctionFollowersProofs`, `VaaRelayerProofs`, `ClientSessionProofs` | theorems and proofs |

`PROJECT.json` maps each definition to the source lines it stands for.

### How `MatchingEngine` corresponds to the code

An action is one instruction, atomic like a Solana transaction. What the program
refuses, in an account constraint, an error or a token transfer that fails, is a
guard. An order is known by its fast VAA; `Order` gives the fields of the VAA
and of the slow order response that goes with it. Per VAA the model has the
accounts the code derives from its digest: `auction`, `response`, `reserved`,
`custody`. `sequencer` and `fastFills` are the accounts of the fast fill
sequences, `localCustody` the custody token of each source chain, `balance` and
`accountState` the participants' token accounts. `released`, `fastFilled`,
`slowFilled` and `delivered` record what the target chain sees: they are history
variables, and no guard reads them.

| action | instruction |
|---|---|
| `PlaceInitialOfferCctp`, `ImproveOffer` | `place_initial_offer_cctp`, `improve_offer` |
| `ExecuteFastOrderCctp`, `ExecuteFastOrderLocal` | `execute_fast_order_cctp`, `execute_fast_order_local`; the shared handler is `Execution` |
| `PrepareOrderResponseCctp` | `prepare_order_response_cctp` |
| `SettleAuctionComplete`, `SettleAuctionNoneCctp`, `SettleAuctionNoneLocal` | the three settlements |
| `ReserveFastFillSequenceActiveAuction`, `ReserveFastFillSequenceNoAuction` | the two reservations |
| `CompleteFastFill`, `CloseRedeemedFastFill`, `CloseAuction` | the same instructions |
| `SetPause`, `UpdateAuctionParameters`, `DisableRouterEndpoint`, `UpdateCctpRouterEndpoint`, `UpdateLocalRouterEndpoint` | owner instructions, by their effect on auctions |
| `AdvanceSlot`, `AdvanceTime`, `ChangeAccountState`, `Donate` | the clock, Circle and the participants |

Abstractions: rent and events are left out, and so are the bytes of VAAs and CCTP
messages; the token program is its effect on balances and account states
(open, frozen, closed). The account of the CCTP message that an execution
creates is not a variable of its own: its address is derived from the auction,
and an auction that was executed is never active again (`FilledAtMostOnce`).

`OrderLifecycle` says of an order only that its user is paid once, from a
solver's money or from its own, and that its own money arrives once and is spent
once. `MatchingEngine!ImplementsLifecycle` is the refinement: fast fills are
`fastFilled`, slow ones `slowFilled`, and the order's money is at the source
before `prepare_order_response`, in the engine while the response exists, and
spent after it.

### How `Governance` corresponds to the code

Every administrative instruction of the matching engine is an action with the
signer it checks: `OnlyOwner` and `OnlyAuthorized` are the two roles of
`modules/common/src/admin`. `proposal` and `config` are the accounts at the
addresses derived from the counters of the custodian; `enactedAt` of a proposal
is `slot_enacted_at`. `ExecuteNewUpgrade`, `ExecuteUpgradeAgain` and
`CommitUpgrade` are the upgrade manager's instructions, each with the calls it
makes into the matching engine (submit and confirm a transfer); `migrate` changes
nothing in this version. The BPF loader is external: it deploys a buffer whose
authority signs, once, and at most one deployment per slot. A deployed buffer
does not change the behaviour of the model. The token router has the same
ownership and the same upgrade protocol.

### How `TokenRouter` corresponds to the code

`order` and `preparedFill` are the program's accounts, `orderCustody` and
`fillCustody` their custody token accounts, created and closed with them. An
order account is at any key the payer chooses, so the key of a closed order can
be used again; the Wormhole message account derived from it (`messagePosted`)
cannot, so that an order at the key of a placed one can only be closed.
`PrepareMarketOrder` and `PrepareMarketOrderDelegated` are the two arms of
`prepare_market_order`; `delegation` is the SPL delegate of a token account, and
`TransferAuthority` is what its address is derived from. `Hash` is the list of
fields that is hashed. That different lists give different bytes is an assumption
of the model, not something it shows: the code concatenates the fields without a
marker for the optional one. `ApprovalPaysOnce` therefore speaks of the hash that
was approved. A redemption of a fill that is
already prepared changes nothing and is a stuttering step. The matching engine is
its interface: `endpoint`, and `fastFill` with `CreateFastFill` and
`CloseRedeemedFastFill`; that a closed fast fill never comes back is
`ReservedSequencesAreFree` of `MatchingEngine`.

### How `EvmLiquidityLayer` corresponds to the code

This module composes the EVM components: a token router on every chain and the
matching engine on one of them. An action is one transaction and a revert is a
guard, that of checked arithmetic too (`ExecutionFits`, `SlowFits`,
`PenaltyFits`). `order[o]` is what the source router published for an order: the
slow message with its CCTP transfer, the fast one, or the single message of a
market order; nothing removes it, so any message can be delivered at any time
and again. `ExecuteSlowUnauctioned`, `ExecuteSlowActive` and `ExecuteSlowCompleted`
are the three branches of `executeSlowOrderAndRedeem`; the slow message `s` and the
fast message `o` they are called with may belong to different orders, and only
`Paired` (the comparison of chains, sequences and timestamps) keeps them together.
`received` is the CCTP nonce, `fill` the message that `_handleCctpTransfer` or
`placeMarketOrder` publishes and its redemption. The engine has one USDC balance;
`held` divides it by the order each payment belongs to, so that
`EngineHoldsWhatItOwes` says that no order is paid with the money of another.
`net`, `fast`, `slow` and `paid` are history variables. Block numbers and
timestamps are one clock. Endpoints have three addresses: zero, the router of the
chain, and another one. The signers of owner calls are left out.

It is the second implementation of `OrderLifecycle`: here the order's money is
received and spent in one transaction (`ReceiveAndFillSlow`, `ReceiveAndRepay`).

### How the solver's modules correspond to the code

A step is the part of a callback between two awaits. `OrderExecutor` and
`OfferImprover` have the state of a process and operators for its callbacks, and
`AuctionFollowers` says when they run: `feed` holds the `AuctionUpdated` events that
the executor has not been given yet, `seen` the slot that was notified last. Prices,
deadlines and the best offer of the engine are as much of `MatchingEngine` as the two
processes can see. `excused` is a history variable: auctions of which an event came too
late, or never. `slots` is sorted as `Array.prototype.sort` does it, as text
(`SortedByText`, `TextBefore`).

In `VaaRelayer` a callback of `onObservation` is a record with the stage it waits in
(`at`): the stages are the awaits of `handlePlaceInitialOffer` and
`handleSettleAuction`, then `queued`, `sending` and `confirming`, the last two for each
transaction of its batch. `inflight` are transactions that may land, in any order, also
after their sender gave them up (`ConfirmFails`). A transaction may be refused by the
preflight (`PreflightFails`) or not be taken by the node (`SendFails`). `Crash` is the end of the process by a
rejection nobody handles, from any stage that awaits a request; `Restart` starts it with
an empty queue and an empty memory, while transactions on their way still land.
`SolverConfig` is `validateEnvironmentConfig` and the getters of `AppConfig`.

### How the client modules correspond to the code

An address is a sequence: a program followed by its seeds, or a name. Numbers in seeds
keep their width and byte order (`U16BE`, `U64BE`), so that a wrong encoding is another
address. A builder of a client, say `settleAuctionCompleteTx`, has two operators: the
addresses it awaits, in order (`settleAuctionCompleteTxReads`), and the instructions it
makes of what it read. The programs derive every address again, from the Rust source,
independently of the clients; an instruction of a program has three results
(`ProgramAccounts`): refused, because what it asks for cannot be done now whatever
accounts are named; a mismatch, because it could be done and the accounts are not the
ones the program looks for; or done. A result is also a mismatch if the record of
accounts is not in the interface description (`EngineIdl` and the others), which is
where a missing or misnamed account shows.

`ClientSession` lets the user read one account per step, lets others land
transactions and time pass between any two, and delivers the user's transaction within
`BlockhashAge` slots or not at all. The engine's money and arithmetic are those of
`MatchingEngine` and not repeated here, except for the deposit that a delegation must
cover.

`EventListener` has one callback per slot notification in `awaiting`, with the head it
fetches; a callback that goes on dequeues whatever is the head by then.

## 3. Runs

| run | instance | shows |
|---|---|---|
| `engine_cctp` | one order to a CCTP chain, two bidders whose accounts may freeze, close and reopen, with fairness | one fill, deposits held, execution always balances, the user's minimum, conservation of USDC, reimbursement of the best offer, refinement of `OrderLifecycle`; an active auction is executed whatever happens to the accounts of its bidders |
| `engine_local` | two orders of one sender to Solana, two preparers, two configurations, an owner who pauses, enacts and moves or disables endpoints at any moment | fills agree with auctions, the local custody covers the fast fills, reserved sequences are free, placeholders can be settled |
| `engine_liveness` | one order to each kind of chain, one gift of USDC, with fairness | every order is filled, every account is closed in the end, also after a gift to one of them |
| `penalty_schedule` | every configuration from small sets, 24 deposits | the forfeit follows the documented line, and neither part of it ever falls |
| `governance` | two keys that may each be owner and assistant, two enactments, three buffers | configurations had their notice, proposals are never stuck, upgrades can be committed and keep the owner |
| `router` | one order key used again and again, with an approval of each token account, two accounts that may freeze or close, a CCTP fill, a fast fill, a gift | orders are backed, an approval pays once and on its terms, a fill is held for its redeemer until it is paid once |
| `evm_orders` | two orders through three EVM routers, two accounts that bid, execute and relay, changes by owners in between | the engine holds what it owes order by order, no settlement reverts for arithmetic, bidders are made whole, refinement of `OrderLifecycle`, every order settles |
| `auction_followers` | two auctions, a competitor, two accounts of ours, a slot that may have no block, events that may be late or lost | nothing is executed early, no own offer is outbid, an auction is missed only for one of the two reasons named in `OnlyBlockedAuctionsAreMissed` |
| `executor_text` | two auctions that end at the slots 8 and 9, kept for 9 and 10; no slot without a block, no event lost | the executor's queue is not in the order of its slots (section 6) |
| `relayer` | one order of a priced chain, four configuration files that are accepted and three that are not, two callbacks, three transactions in a batch with two attempts each, a crash | nothing is sent before its VAA is posted, one offer per VAA and run of the process, won auctions are not dropped, neither on the way nor by a preflight that refuses them wrongly, except for two kinds that it always refuses (section 6) |
| `client` | eight situations (below), all calls of three clients, two transactions of others | clients name the accounts the programs derive; stale transactions are refused or still right; what is enacted is what was proposed when the transaction was built; leftover delegations are useless |
| `event_listener` | three transactions, a queue of three, three slots | `onEventCpi` loses events (section 6) |

**Bounds.** `FEE_PRECISION_MAX` is 4 (10 in `penalty_schedule`) in place of
1 000 000, with amounts around 10, so that rounding happens at most steps and
every fee, reward and penalty is distinguishable. `MaxSlot` reaches beyond the
end of the penalty period (`engine_cctp`: duration 1, grace 1, penalty 2, so
slots 2, 3, 4 and 5 fall in each phase). `MaxTime` reaches the expiration of the
VAA, at which the offer window closes and `close_auction` opens. Two bidders are
enough for all the cases of the handler (is the best offer the initial one, is
the executor the best offer, can each account receive), which only compare
accounts; a third account receives the base fee. Alice's balance is exactly one
deposit, so her account is empty, and may be closed, while her offer stands. Two
orders of one sender are what sequences and the shared local custody need to
collide. In `governance` the largest configuration id is 2, so that the
overflow check is reached after two enactments; a delay of one slot out of three
leaves time for both; two keys are each owner, assistant, pending owner or none of
these, and a third buffer lets the same owner upgrade twice before committing. In
`router` the payer's account holds one order's amount and the approval is for that
amount or twice as much, so that one can be left over or used up. `SYMMETRY`
(`engine_local`) permutes the orders, which are equal there, and the payers; that run
has no liveness property. The proofs of section 5 do not depend on any of these
bounds. In `evm_orders` the clock reaches two blocks beyond the grace period, where a
deposit is lost in part and then whole; the fee of an order is one unit below its
amount; and `MaxCalls` is 3: two orders and an auction, an order with an auction and
one change by an owner in between, or one order and two changes. Bids, executions,
deliveries and redemptions are not counted, so that all of them happen in every order
after these.

In `auction_followers` two auctions of one or two slots start at slot 0, so that both
can end at one slot, at slots after each other, and at the slot without a block; the
prices are such that one of the two is worth improving; its slots have one digit each.
`executor_text` is the same module where slots get a second digit, with everything else
as regular as it can be. In `relayer` the VAA's
signatures take one transaction to verify, the offer or settlement is the third of its
batch, and a hash is forgotten after one tick, when the fast VAA is stale
(`RelayerAssumption` states that margin, which the constants of `app.ts` keep). One
process end is enough for everything in progress to be lost once and delivered again.
`client` has eight situations (`MCSetups`): an auction for a CCTP chain, one for Solana
with reservations and an expiring VAA, the custodians of both programs, endpoints,
proposals, a deployment with upgrades of both programs on a network the clients
support, the same on one they do not, and orders and fills of the router. The user makes
one call after the other; between any two of its reads, and before its transaction
lands, others land up to two transactions, built by the same clients from what is then
on the chain: one makes the user's reads stale, the second makes them look right again.
Of slots only the differences matter: a blockhash lives one slot and an enactment
waits two (`DelayOutlivesBlockhash`).

The largest runs take 2.6 million states (`relayer`), 2.7 million (`router`) and 1.5
million (`auction_followers`).

**Deadlock.** It is disabled where the run really ends: all orders are closed
and the clock is at its bound, or the solver has handled what it was given.

**Fairness.** `FairSpec` asks weak fairness of the clock and of the instructions
that finish what was begun: execution, reservation, preparation, settlement and
closing. Each is permissionless and pays its sender (the penalty, the repayment,
the base fee or the rent), and the relayers of `solver/` listen for the events
that enable them. Offers and owner instructions are not fair: no order depends
on a solver or on the owner. The owner does nothing in the runs with fairness.
`engine_liveness` keeps the accounts usable, because a settlement without
penalty does revert while the best offer's account cannot receive USDC;
`engine_cctp` shows that execution does not depend on them. `evm_orders` asks
weak fairness only of `executeSlowOrderAndRedeem`, which pays the relayer its base
fee or the winner its money, and of the redemption of fills: no order depends on
anybody who bids or executes. `EveryOrderSettles` is conditional on routers that the
owner leaves registered in the end (`PathOpen`), because a burn for a disabled
endpoint reverts. The solver's modules state safety only: a request or a notification
may fail for good, and its processes are no part of the fairness of the engine, in
which anybody may be the relayer.

## 4. Hazards

`PROJECT.json` lists what a test would hardly reach, at the line where it
bites, with the properties that cover it. Each property of each run has a
mutant: a change of one mapped definition in the way of a plausible slip
(definitions with an underscore in their name, next to the original), under
which TLC finds that property violated.

## 5. Proofs

All the theorems hold for every value of the constants that satisfies the named
assumptions, so for any number of orders, accounts, payers, chains and
configurations, and for the real u64 and 1 000 000.

*Assumptions.* `LimitsAssumption`: the limits are positive. `ConstantsAssumption`:
constants are of their types, configurations satisfy
`require_valid_parameters`. `OrderAssumption`: what the source chain's router
enforces before it emits an order (EVM `PlaceMarketOrder.sol`,
`_handleFastOrder`): the fees fit in the amount and the base fee is below the
maximum fee. `FinitenessAssumption`: there are finitely many orders, accounts and
chains, without which a total means nothing. `ScheduleAssumption`: slots stay below
`U64_MAX` (at it the saturated end of the penalty period is reached early, and the
schedule does leave its line). `FollowersAssumption`: durations are at least one slot,
all our accounts are recognized and the competitor's is none of them.
`RelayerAssumption`: VAAs are forgotten (`SeenThreshold`) only when they are too old to
be handled, clock drift included, and the orders come from EVM chains.
`DelayOutlivesBlockhash`: a proposal waits longer than a blockhash lives (section 7).
`OrdersHaveSenders`: the sender in a fast order is an address. `SetupsAreDeployments`:
what `ClientSession` starts from is what the programs write, a custodian and proposals
numbered up to its next, or nothing of the engine. `SetupsPrecedeOffers`: it starts
before its auctions and before anything is approved for them; other approvals may be
there, and the price of an offer is a natural number. TLC evaluates them on every
instance.

* `MatchingEngineProofs`. `PenaltyWithinDeposit`: penalty and reward are natural
  numbers whose sum is at most the deposit. The lemmas show that saturation and
  casts stay in `U64`, that a share of at most 100% is at most the amount (so no
  cast truncates), and that the scaled forfeit is at most the deposit because
  the late slots are fewer than the penalty period. `TypeCorrect` ([]`TypeOK`), one lemma per instruction,
  shows in particular that no balance or custody goes below zero. `FillsAgree`
  ([]`FillsMatchAuction`) is the inductive form of `FilledOnce`
  ([]`FilledAtMostOnce`). One fill per order is not inductive: a filled order
  with an absent account could be offered again. The strengthening says that
  an order with a placeholder or an active auction is unfilled; that an executed
  or settled one is filled once; that a settled order has had its transfer
  received and has no response; and that the account of a filled order is gone
  only after the expiration of its VAA. Then no offer is accepted (expired), and no
  response can be made (its transfer was received), so no placeholder or
  settlement either.
  `SequencesAreFree` rests on `SequencesInOrder`: every sequence in use, by a
  reservation or a fast fill, is below the counter of its sender, so the next one is
  new to both.
  `DepositIsHeld`, `ExecutionBalances` and `UserIsPaid` rest on
  the invariant `MoneyInPlace`: the custody of an active auction holds at least
  amount in plus security deposit, which do not saturate; the offer price is at
  most the maximum fee; the security deposit covers it; and what was delivered
  to a filled order is at least its minimum. It is needed because the handler
  pays by *difference*: the executor gets what the other transfers leave, with
  saturating subtractions, and only the bound on the deposit shows that none of
  them saturates (`ExecutionExact`), so the transfers add up to the custody.
  `PlaceholdersSettle` adds `PlaceholdersReserved`: the reservation made with a
  placeholder stays, for whoever prepared the response. `BestOfferReimbursed` is an
  action property, one case per instruction, from the same exact arithmetic.
  `EngineKeepsPromise` is the refinement of `OrderLifecycle`, from `LifecycleInv`: the
  type invariant, the fills, `MoneyInPlace`, and `FundsAccounted` (the money of an order
  is gone only when it is filled, and then it is settled or forgotten).
  `LocalCustodyCovers` and `UsdcIsConserved` are about totals. What they need of
  `SumFunctionOnSet` is proved first, in lemmas that say how a sum changes when one
  value does. The library defines it by recursion over a set, and a
  minimal counterexample (`MinimalSubset`, by the well-foundedness of strict inclusion)
  takes the place of the induction that the provers cannot instantiate.
  `LocalCustodyInv` adds that there are finitely many fast fills. `UsdcConserved` becomes
  inductive with `ClosedAreEmpty`: the custody account of an order without an active
  auction, and that of a response that is not there, hold nothing that an instruction
  would overwrite. Then each step adds to what is held what arrives (`Conserves`).
* `PenaltyScheduleProofs`. `ForfeitOnLine` and `PenaltyGrows` have no state to speak of:
  they are about `ComputeDepositPenalty` at every slot. `OnTheLine` relates the penalty
  to the line by the remainders of its two divisions (`LineError`); `ForfeitGrows`
  needs that the share grows by at least as much as its rounded initial part
  loses, and `PenaltyIsSplit` that a larger forfeit splits into two larger parts.
* `GovernanceProofs`. The inductive invariant `GovernanceInv` is the type
  invariant, `ConfigsWereProposed`, `ProposalsNeverStuck`, `UpgradeCanCommit` and
  `ProposalTerms` (a proposal that exists has valid parameters and the delay of its
  slot), which is what the enactment needs to know of a proposal made earlier.
  The two counters are equal in every state, so the address of a new proposal is
  never that of an enacted one. The three action properties follow from it, one
  case per instruction: the owner's checks fail while the upgrade authority, which
  signs nothing by itself, is owner.
* `TokenRouterProofs`. `RouterInv` adds two facts to what it proves:
  `AllowanceIsApproved` (an allowance that is left was approved as it is and has
  paid for nothing yet), which is kept because the allowance must equal the amount of
  the order and so is spent whole; and `OneSource` (a fill comes by CCTP or from the
  matching engine, not both), without which an Unset account would not show that
  nothing was released. Orders and fills share only the token accounts, so each
  half of the invariant is framed by a lemma in the steps of the other.
* `EvmLiquidityProofs`. `EvmInv` has, for each order, `Agreed` (the fees its router
  checked), `Stage` (how auction, messages and fills agree), `Owed` and `Whole` (the
  two properties, in inductive form), and for all orders `Sequenced`: two orders of
  one router never have the same sequence number. From the last, `PairedIsSame`: the
  two messages given to `executeSlowOrderAndRedeem` belong to one order, so that a
  step changes one order only (`ChangeOne`) and every case is about that order.
  `Agreed` is what bounds the arithmetic: base fee and penalty are below the
  deposit, the deposit below the amount; the products of the penalty stay in uint64
  by `EvmAssumption`. `EvmKeepsPromise` proves the refinement of `OrderLifecycle`
  from the same invariant, one lemma per action that fills or repays.

* `AuctionFollowersProofs`. `FollowersInv` says of each auction that began that its
  end never changes, and follows it through the executor: the initial event in the feed
  tells that end (`FeedOK`), the auction is kept for the slot right after it
  (`WarehouseOK`), and what is handed over is over (`OrdersOK`), since the slot that is
  notified is one that the chain has reached. How the queue of slots is sorted does not
  matter to it. `OffersOutbidOthers` rests on `OffersOK`: a transaction under way names
  a competitor as best offer, and the engine takes it only while that is so.
  `OnlyBlockedAreMissed` adds `MissedInv`: the queue of slots is sorted (`QueueOK`); a
  head that was notified or passed over stays only because it has no block or its auction
  was learnt of too late (`HeadOK`); the last event under way of an auction tells its
  best offer (`LastEventsOK`); and each auction that began is excused, awaited, kept for
  its slot with what is known of it up to date, or decided upon (`AllFollowed`). Its
  lemmas insert a slot into a sorted queue, for which the sorted arrangement has to be
  shown to exist (`InsertedSlot`) and to keep every slot. It has one hypothesis,
  `TextIsOrder`: the text of a slot sorts as its number. It is so while the slots have
  one length, as in `auction_followers` and, on the chain, between two powers of ten;
  without it the first part of `MissedInv` is false, which `executor_text` shows.
* `VaaRelayerProofs`. `RelayerInv` follows a batch of transactions through the queue:
  `QueueOK` (waiting batches are queued once), `CallbackOK` (a callback is where its
  stage says, and owes what was not sent yet), `InflightOK` and `LandedOK` (what of a
  batch was sent and arrived, in which order) and `VerifiedOK`, which counts the
  transactions that verify signatures: a VAA is posted only when there are as many as it
  has chunks, so all of them. `SentAfterItsVaaHolds` follows from it. For
  `WonAuctionsSettle` one also has to know that a preflight refuses a settlement only
  rightly: `RefusedInv` says of a callback that its batch has behind it what is verified
  and posted already, and that a transaction which was refused in a settlement that is
  owed was refused for one of the reasons that the property names.
  `OffersAreNotRepeated` adds `OnceInv`: the relayer remembers every VAA that it handled
  for as long as one of that age would be handled.
* `ClientSessionProofs`. `ShownProposalIsEnacted` holds whatever instructions, with
  whatever accounts, others send: the handlers' constraints are all it uses. The
  property is not inductive, since it speaks of the moment of landing only. `SessionInv`
  says of the time before that the pending proposal is the one its owner was shown or
  has its whole delay ahead, counted from when the transaction was built
  (`ShownOrLate`); that delay outlives the transaction. To keep it, every
  instruction of the three programs is shown to leave proposals and the custodian's
  `next_proposal_id` alone (`Keeps`, one lemma per handler), except for the four of
  `Moves`: `initialize`, `propose_auction_parameters`, `close_proposal` and
  `update_auction_parameters`. An account is neither a proposal nor the custodian
  because its address has other seeds (`OtherKind`), because it is a signer's
  (`KeyIsPlain`), or because its data is of another type (`OtherData`), and proposals
  of two numbers are at two addresses (`ProposalsDiffer`).
  `LeftoversStayUnspent` strengthens `SessionInv` to `LeftoversInv`: of every approval
  that is left for an auction, the auction's account is there or its fast VAA has
  expired, and the best offer is no higher than the approved price, while the auction is
  active (`Leftovers`). A transfer authority determines its auction and its price,
  cell by cell (`AuthorityCells`, `AuthoritiesDiffer`): the one place where the proof
  looks inside a derived address. No handler but `approve` names a delegate, none but
  the two offers changes a price or opens an auction, `close_auction` waits for the
  expiry, and `prepare_market_order` takes what was approved for it to the last unit
  (`prepareOrderSpends`). An `approve` alone would break the invariant, so it is kept by
  transactions and not by instructions: what a client builds is either free of approvals
  and offers or one of each that fit (`BuildShape`, one lemma per group of builders), and
  a transaction whose second instruction fails approves nothing.

*Type invariants.* Each core module states one (`TypeOK`) and it is proved
(`TypeCorrect`, `GovernanceTypeCorrect`, `RouterTypeCorrect`, `EvmTypeCorrect`) rather
than run: that no amount is ever negative is what it says beyond the types.

*Only model-checked.* Liveness, which the prover does not reach: `ActiveIsExecuted`,
`OrderIsFilled`, `AccountsAreClosed` and `EveryOrderSettles`. Of `ClientSession`,
`FreshIsAccepted` and `AcceptedIsCurrent`: they compare each instruction a client builds
with the one its program accepts, account by account, for every call; the records are
built by merges (`@@`) whose shapes the provers do not follow.
`NoEventIsLost` of `EventListener` and `SlotsAreSorted` of `AuctionFollowers` are
refuted (section 6).

## 6. Where comments and code disagree

Two runs show it by a counterexample:

* `event_listener`: `matchingEngine/index.ts:262-263` recommends `onEventCpi` as the
  reliable way to listen. Its callback for a slot waits for `getParsedTransaction`
  between looking at the head of the queue and dequeuing it; the callback of the next
  slot looks at the same head, both deliver its event, and both dequeue, so that the
  second removes a transaction nobody fetched. The queue itself loses an element when it
  is full: `enqueue` writes to the array that `resize()` has just replaced
  (`utils.ts:32-40`).
* `executor_text`: `executeOrder/app.ts:76` says "Add then sort slots", and `_slots.sort()`
  on line 78 compares them as text. With auctions kept for 9 and 10 the queue is 10, 9,
  and only the head is compared with a slot that is notified (line 137): 9 is not
  executed when it comes, and stays at the head for good once 10 was dequeued. On the
  chain this needs two slots on the two sides of a power of ten.

Read in the source while it was modelled:

* `settle/complete.rs:21-22` says that the settlement of a penalised order reverts if
  the base fee token account does not exist; the code (`Repayment`) gives the whole
  repayment to the best offer instead.
* `state/auction_config.rs:14-18` says that the grace period includes the auction's
  duration; `grace_period_end_slot` adds it to the duration.
* `settleAuction.ts:92-93` says "We subtract one from the slow vaa sequence"; the next
  line adds one, which is right, since the router publishes the slow message first.
* The README of the solver says (lines 30-34) that its relayer settles the auctions won
  by "any known token accounts", those of `knownAtaOwners`. Two kinds are never settled:
  * An auction that a known owner other than the payer won without a penalty.
    `settleAuctionCompleteTx` names the owner of the best offer as the beneficiary
    (`index.ts:1599-1606`), and the program wants the one who prepared the response,
    which is the payer (`settle/complete.rs:13-18`). The preflight refuses it at all five
    attempts, and the batch stops (`sendTx.ts:64-66`). Without the conjunct
    `BeneficiaryIsPayer` of `WonAuctionsAreNotDropped`, `relayer` finds this.
  * An auction whose VAA has more than seven signatures, thirteen on the main network,
    unless somebody else posts it. `preparePostVaaTxs` puts a post after every
    transaction that verifies signatures (`preparePostVaaTx.ts:54-75`), the first one
    comes too early, is refused at all five attempts (posts are sent with a preflight,
    `settleAuction.ts:182` and `placeInitialOffer.ts:130`), and the batch stops before
    the rest is verified; with it also an offer is given up. Without the conjunct
    `~PostsTooEarly` and with `Chunks = 2`, `relayer` finds this.

  Else a settlement is tried once, ten seconds after its VAA (`settleAuction.ts:82`,
  `:143`): `WonAuctionsAreNotDropped` says what is left of the promise.
* The same README says that the executor executes within the grace period. An execution
  waits for good behind a slot without a block (`executeOrder/app.ts:137`):
  `OnlyBlockedAuctionsAreMissed` says what is left of that promise.
* The solver's README (lines 11-13) says that the relayer demonstrates a durable nonce;
  the configuration accepts `nonceAccount` and no transaction of a process uses it.
* `isBalanceSufficient` is not awaited in `placeInitialOffer.ts:110`, so that an offer is
  built whatever the balance; line 107 computes the deposit of configuration 2 whatever
  the configuration is; `sendTx` reports a transaction that failed as one that was sent,
  so that `executeOrderWithRetry` does not retry it.
* A price that cannot be improved is null in the event and makes the improver's callback
  throw (`improveOffer/app.ts:125`); a response of Wormscan without data makes the
  relayer's (`wormscan.ts:43`).
* A `VaaSpy` made without `enableCleanup` filters by hashes in a map it never made
  (`spy.ts:38-41`); the relayer passes the option.

Others, read in the source and not worth a run: `lib.rs` on `improve_offer` says the
new price must be greater, the code requires it to be smaller; a comment of
`execute_fast_order/local.rs` names the best offer as beneficiary of the
reserved sequence, the reservation records its payer; `place_cctp.rs` of the token
router says that the payer must be the one who prepared the order, and does not
check it (only `prepared_by`, which gets the rent, is checked); the EVM engine's
`_improveBid` emits its event after overwriting the price it reports as old, and
`executeFastOrder` says that the penalty is nonzero after the grace period, which
fails for a deposit so small that its first share rounds to zero.

## 7. Not modelled, and why

* Rent and lamports, events, log messages: no property is about them.
* VAA verification, byte layouts of messages, CCTP and Wormhole themselves:
  external; the models use what the code relies on (a VAA is what its emitter
  said, a CCTP message is received once).
* The allowance of the EVM contracts for the CCTP token messenger
  (`setCctpAllowance`), assumed unlimited; deposits of 18.4 million USDC or more,
  for which `calculateDynamicPenalty` overflows (`EvmAssumption`).
* Auction history: deprecated instructions that always fail.
* Of the TypeScript clients: the copies of the engine's arithmetic
  (`computeDepositPenalty`, `computeMinOfferDelta`, `computeNotionalSecurityDeposit`),
  readers that no builder calls, the history accounts, the generated types of Circle's
  programs (`cctp/types`, 6 000 lines), and the EVM wrappers, which pass their arguments
  to one contract call each.
* Of the solver: fees, nonce accounts, logs and metrics, and the balance that
  `OfferToken` caches, which decides only what is logged.
* The administration of the EVM proxies beyond pausing.

Limits of `client`. `FreshIsAccepted` excludes two calls that depend on accounts the
client does not read (`ResponseIsAsAssumed`): `settleAuctionCompleteTx` names the owner
of the best offer, or the payer, as the beneficiary of a response that somebody else may
have prepared (`index.ts:1600`), and `settleAuctionNoneTx` assumes that its payer
prepares the response and the endpoint does not change (`index.ts:2478`). On the main
network the upgrade manager's client and the router's `upgradeManagerProgram` throw,
which is the situation `unsupported`. `UnseenProposalsAreNotEnacted` needs an enactment
delay longer than a blockhash lives: that is so on the main network, not with the delays
of the features `testnet` (25 slots) and `integration-test` (8), nor for a transaction with a
durable nonce. The model of the router that the clients call accepts more than the program:
it leaves out that the core and CCTP message accounts derived from an order's key may
exist already (`place_cctp.rs:79-98`; `TokenRouter` has it, as `messagePosted`), and of
a prepared order that the redeemer is not zero, the length of its message and the
message's part in the hash (`prepare.rs:60-68`, `:166`, `:172`). What holds of the
accepted calls holds of those the program accepts.

Limits of `relayer`. `WonAuctionsAreNotDropped` says nothing of batches that ended
because the node did not take a transaction or a confirmation failed at the last
attempt, and excludes the two kinds of section 6. With `Chunks = 1` no post is between
two verifications; that offers and settlements still wait for their VAA in that case is
the theorem `SentAfterItsVaaHolds`.

Limits of `evm_orders`. The transfers of USDC to bidders, executors and senders are
assumed to succeed: that Circle may refuse one to an address it blocks is not modelled,
and only arithmetic is claimed of settlements that do not revert.

## 8. Plan

In this order, the most important first.

1. The token router redeems what the matching engine fills: one module that composes
   `TokenRouter` with `MatchingEngine`, in place of the interface actions
   `CreateFastFill` and `CloseRedeemedFastFill`.
2. Proofs: that clients and programs agree on accounts (`FreshIsAccepted`,
   `AcceptedIsCurrent`), for which the account records need a form other than merges.
3. The administration behind the EVM proxies (`Admin.sol`, `Implementation.sol`):
   owner, pending owner, assistant, upgrades.
