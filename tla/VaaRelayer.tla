----------------------------- MODULE VaaRelayer -----------------------------
(***************************************************************************)
(* The vaaAuctionRelayer process of the example solver.  Every VAA that    *)
(* the spy hands over starts a callback of its own, which asks the chain   *)
(* and two web services one thing after the other and ends by queueing a   *)
(* batch of transactions; every batch is then sent, transaction by         *)
(* transaction, next to the others.  A promise that is rejected anywhere   *)
(* is handled nowhere and ends the process with everything in progress.    *)
(*                                                                         *)
(* A fast order is published as two VAAs of consecutive sequences, the     *)
(* finalized one first.                                                    *)
(***************************************************************************)
EXTENDS SolverConfig, VaaSpy, Sequences

CONSTANTS
    Orders,                 \* fast orders, numbered from 1
    ChainOf, EmitterOf,     \* order |-> the chain and the contract it comes from
    AmountOf, MaxFeeOf,     \* order |-> its amount and fee
    Files,                  \* the configuration files to consider
    Payer, Rival,           \* owners of token accounts
    KnownOwners,            \* other owners whose offers we settle
    DelayedVaaThreshold,    \* age from which a fast VAA is stale
    ClockDrift,             \* how far a VAA's timestamp may be ahead of our clock
    Chunks,                 \* verify instructions that a VAA's signatures take
    RetryCount,             \* attempts at a transaction
    Deposits,               \* the initial offers that our account can pay for
    LastTime, MaxCallbacks, MaxCrashes      \* bounds

\* Fast orders come from Evm chains only: of the token routers, the one of Solana
\* publishes no FastMarketOrder.
ASSUME RelayerAssumption ==
    /\ Orders \subseteq Nat \ {0}
    /\ Chunks \in Nat \ {0} /\ RetryCount \in Nat \ {0}
    /\ DelayedVaaThreshold \in Nat /\ ClockDrift \in Nat /\ SeenThreshold \in Nat
    /\ DelayedVaaThreshold + ClockDrift < SeenThreshold
    /\ \A o \in Orders : ChainOf[o] \in EvmChains

VARIABLES
    file,       \* the configuration
    up,         \* whether the process runs
    crashes,    \* how often it ended
    now,        \* the clock
    emitted,    \* VAA |-> its timestamp, for those that the guardians signed
    callbacks,  \* the callbacks of onObservation so far, each with its batch, the run
                \* of the process and whether there was an auction to settle
    queue,      \* transactionBatchQueue: callbacks whose batch was not started
    inflight,   \* transactions that may land or not: <<callback, position in its batch>>
    landed,     \* transactions that did, and whose confirmation is waited for
    posted,     \* VAAs that are posted
    verified,   \* verify transactions that succeeded
    auction,    \* order |-> its auction
    prepared,   \* orders whose response was prepared by somebody else
    deposits    \* initial offers that our account can still pay for

processVars == <<file, up, crashes, now, seenHashes, callbacks, queue>>
chainVars == <<emitted, inflight, landed, posted, verified, auction, prepared, deposits>>
vars == <<processVars, chainVars>>

Vaas == [order : Orders, kind : {"fast", "finalized"}]

\* What isFastFinality and the filter look at.
Envelope(v) ==
    [chain |-> ChainOf[v.order], emitter |-> EmitterOf[v.order],
     consistency |-> IF v.kind = "fast" THEN "fast" ELSE "finalized"]

\* The token router publishes the finalized message and then the fast one.
Sequence(v) == 2 * v.order + (IF v.kind = "fast" THEN 1 ELSE 0)

NoAuction == [status |-> "none", winner |-> Rival, penalized |-> FALSE]

Init ==
    /\ file \in {f \in Files : ValidateEnvironmentConfig(f)}
    /\ up = TRUE /\ crashes = 0 /\ now = 0
    /\ SpyInit
    /\ \E timestamp \in {0, ClockDrift} :
          emitted = [v \in {v \in Vaas : v.kind = "fast"} |-> timestamp]
    /\ callbacks = <<>> /\ queue = <<>>
    /\ inflight = {} /\ landed = {}
    /\ posted = {} /\ verified = {}
    /\ auction = [o \in Orders |-> NoAuction]
    /\ prepared = {}
    /\ deposits = Deposits
-----------------------------------------------------------------------------
(* The callbacks *)

\* A batch stops when the preflight has refused a transaction, or the node or the
\* confirmation has failed.
Ended == {"ignored", "unread", "refused", "stopped", "done", "lost"}

Running(c) == c \in DOMAIN callbacks /\ callbacks[c].at \notin Ended

OrderOf(c) == callbacks[c].vaa.order

At(c, stage) == callbacks[c].at = stage

Goto(c, stage) == callbacks' = [callbacks EXCEPT ![c].at = stage]

Idle == UNCHANGED <<file, up, crashes, now, seenHashes>>

\* What handleSettleAuction settles: a completed auction of a known owner.
Settles(o) ==
    /\ auction[o].status = "completed"
    /\ RecognizedTokenAccount(file, auction[o].winner)

\* A VAA arrives, for the first time or again.  A fast one that is too old is
\* ignored: what comes next depends on isFastFinality alone.
OnObservation(v) ==
    LET stale == now - emitted[v] > DelayedVaaThreshold
        start == IF ~IsFastFinality(file, Envelope(v)) THEN "waiting"
                 ELSE IF stale THEN "ignored" ELSE "starting"
    IN  /\ up /\ v \in DOMAIN emitted
        /\ EmitterFilterForSpy(file, Envelope(v))
        /\ IsUnique(v) /\ Len(callbacks) < MaxCallbacks
        /\ Remember(v, now)
        /\ callbacks' = Append(callbacks, [vaa |-> v, at |-> start, isPosted |-> FALSE,
                                           next |-> 1, tries |-> 0, run |-> crashes,
                                           owed |-> /\ v.kind = "finalized"
                                                    /\ MaxRetries(file) > 0
                                                    /\ Settles(v.order)])
        /\ UNCHANGED <<file, up, crashes, now, queue, chainVars>>

\* handlePlaceInitialOffer asks whether the auction was started.
AskAuction(c) ==
    /\ At(c, "starting")
    /\ Goto(c, IF auction[OrderOf(c)].status # "none" THEN "ignored" ELSE "pricing")
    /\ Idle /\ UNCHANGED <<queue, chainVars>>

\* The fair value of a transfer with our edge, in whole units.
FairValueWithEdge(amountIn, pricing) ==
    LET fairValue == (amountIn * pricing.probability) \div PRECISION
    IN  fairValue + (fairValue * pricing.edgePctOfFv) \div PRECISION

IsFeeHighEnough(o) ==
    FairValueWithEdge(AmountOf[o], PricingParameters(file, ChainOf[o])) <= MaxFeeOf[o]

\* Whether the chain has a price: pricingParameters(..)! is dereferenced all the same.
IsPriced(o) == PricingParameters(file, ChainOf[o]) # Missing

\* The batch is queued; whether the VAA must be posted was asked just before.  The
\* balance is asked for and the promise compared, which is always truthy: an account
\* that cannot pay is found out by the transaction.
QueueBatch(c) ==
    /\ callbacks' = [callbacks EXCEPT ![c].at = "queued",
                                      ![c].isPosted = callbacks[c].vaa \in posted]
    /\ queue' = Append(queue, c)

PriceAndBuild(c) ==
    /\ At(c, "pricing") /\ IsPriced(OrderOf(c))
    /\ IF IsFeeHighEnough(OrderOf(c)) THEN QueueBatch(c)
       ELSE Goto(c, "ignored") /\ UNCHANGED queue
    /\ Idle /\ UNCHANGED chainVars

\* The fast VAA of a finalized one.
FastVaaSequence(sequence) == sequence + 1

\* fetchVaaFromWormscan, once the ten seconds are over: no request without retries,
\* and a sequence that is not a fast order of the router ends the callback.
FetchFastVaa(c) ==
    LET found == \E o \in Orders :
                    /\ Sequence([order |-> o, kind |-> "fast"]) =
                          FastVaaSequence(Sequence(callbacks[c].vaa))
                    /\ ChainOf[o] = ChainOf[OrderOf(c)]
    IN  /\ At(c, "waiting")
        /\ Goto(c, IF MaxRetries(file) > 0 /\ found THEN "auction" ELSE "ignored")
        /\ Idle /\ UNCHANGED <<queue, chainVars>>

\* An auction that is not completed by now is given up for good; a request that fails
\* is caught and taken for an auction that does not exist.
FetchAuction(c) ==
    /\ At(c, "auction")
    /\ Goto(c, IF Settles(OrderOf(c)) THEN "attesting" ELSE "ignored") \/ Goto(c, "unread")
    /\ Idle /\ UNCHANGED <<queue, chainVars>>

\* The attestation is polled until it is complete; then the batch is built.
AttestAndBuild(c) ==
    /\ At(c, "attesting")
    /\ QueueBatch(c)
    /\ Idle /\ UNCHANGED chainVars
-----------------------------------------------------------------------------
(* The batches *)

\* preparePostVaaTxs: each chunk of the signatures is followed by an attempt to post.
PostVaa == [i \in 1 .. 2 * Chunks |-> IF i % 2 = 1 THEN "verify" ELSE "post"]

Batch(c) ==
    (IF callbacks[c].isPosted THEN <<>> ELSE PostVaa)
       \o <<IF callbacks[c].vaa.kind = "fast" THEN "place" ELSE "settle">>

Tx(c) == <<c, callbacks[c].next>>
Kind(tx) == Batch(tx[1])[tx[2]]

\* The offer goes without preflight if its VAA is posted by the same batch.
SkipPreflight(c) == Kind(Tx(c)) = "place" /\ ~callbacks[c].isPosted

\* settleAuctionCompleteTx names as the beneficiary the owner of the best offer if there
\* is no penalty, and the payer otherwise.
BeneficiaryIsPayer(o) == auction[o].penalized \/ auction[o].winner = Payer

\* Mutation: the owner of the best offer is named even if there is a penalty.
BeneficiaryAccepted_Owner(o) == o \notin prepared /\ auction[o].winner = Payer

\* The engine wants as beneficiary who prepared the response: the payer, by the same
\* transaction, unless somebody did before.
BeneficiaryAccepted(o) == o \notin prepared /\ BeneficiaryIsPayer(o)

\* Whether a transaction would succeed now.
Succeeds(tx) ==
    LET v == callbacks[tx[1]].vaa
    IN  CASE Kind(tx) = "verify" -> TRUE
          [] Kind(tx) = "post"   -> v \in posted \/ Cardinality({u \in verified : u[1] = tx[1]}) = Chunks
          [] Kind(tx) = "place"  -> v \in posted /\ auction[v.order].status = "none" /\ deposits > 0
          [] Kind(tx) = "settle" -> v \in posted /\ auction[v.order].status = "completed"
                                    /\ BeneficiaryAccepted(v.order)

\* spawnTransactionProcessor: the batch is sent without waiting for it.
StartBatch ==
    /\ up /\ queue # <<>>
    /\ queue' = Tail(queue)
    /\ callbacks' = [callbacks EXCEPT ![Head(queue)].at = "sending"]
    /\ Idle /\ UNCHANGED chainVars

\* sendTx: with preflight, a transaction that would fail is not sent.
Send(c) ==
    /\ At(c, "sending")
    /\ SkipPreflight(c) \/ Succeeds(Tx(c))
    /\ inflight' = inflight \cup {Tx(c)}
    /\ Goto(c, "confirming")
    /\ Idle
    /\ UNCHANGED <<queue, emitted, landed, posted, verified, auction, prepared, deposits>>

\* Mutation: a transaction that failed for good does not stop the batch.
AfterFailure_GoOn(c, end) ==
    IF callbacks[c].tries + 1 < RetryCount /\ ~SkipPreflight(c)
    THEN [callbacks[c] EXCEPT !.at = "sending", !.tries = @ + 1]
    ELSE IF callbacks[c].next = Len(Batch(c)) THEN [callbacks[c] EXCEPT !.at = end]
    ELSE [callbacks[c] EXCEPT !.at = "sending", !.tries = 0, !.next = @ + 1]

\* A failed attempt is repeated, unless preflight was skipped; then the batch stops.
AfterFailure(c, end) ==
    IF callbacks[c].tries + 1 < RetryCount /\ ~SkipPreflight(c)
    THEN [callbacks[c] EXCEPT !.at = "sending", !.tries = @ + 1]
    ELSE [callbacks[c] EXCEPT !.at = end]

\* The preflight finds that the transaction would fail.
PreflightFails(c) ==
    /\ At(c, "sending")
    /\ ~SkipPreflight(c) /\ ~Succeeds(Tx(c))
    /\ callbacks' = [callbacks EXCEPT ![c] = AfterFailure(c, "refused")]
    /\ Idle /\ UNCHANGED <<queue, chainVars>>

\* The node does not take the transaction.
SendFails(c) ==
    /\ At(c, "sending")
    /\ callbacks' = [callbacks EXCEPT ![c] = AfterFailure(c, "stopped")]
    /\ Idle /\ UNCHANGED <<queue, chainVars>>

Unwatch(c) ==
    /\ landed' = landed \ {Tx(c)}
    /\ UNCHANGED <<queue, emitted, inflight, posted, verified, auction, prepared, deposits>>

\* The batch goes on after a transaction whose confirmation was awaited.
AfterConfirmation(c) ==
    IF callbacks[c].next = Len(Batch(c)) THEN [callbacks[c] EXCEPT !.at = "done"]
    ELSE [callbacks[c] EXCEPT !.at = "sending", !.next = @ + 1, !.tries = 0]

\* confirmTransaction resolves for a transaction that landed, whether or not it
\* succeeded.
Confirmed(c) ==
    /\ At(c, "confirming") /\ Tx(c) \in landed
    /\ callbacks' = [callbacks EXCEPT ![c] = AfterConfirmation(c)]
    /\ Idle /\ Unwatch(c)

\* confirmTransaction rejects: the transaction expired, or the node fails to tell
\* and the transaction may land yet.
ConfirmFails(c) ==
    /\ At(c, "confirming")
    /\ callbacks' = [callbacks EXCEPT ![c] = AfterFailure(c, "stopped")]
    /\ Idle /\ Unwatch(c)
-----------------------------------------------------------------------------
(* The chain and the others *)

\* A transaction lands and has its effect if it succeeds.
Land(tx) ==
    LET v == callbacks[tx[1]].vaa
    IN  /\ inflight' = inflight \ {tx}
        /\ landed' = IF At(tx[1], "confirming") /\ tx = Tx(tx[1]) THEN landed \cup {tx}
                     ELSE landed
        /\ verified' = IF Kind(tx) = "verify" THEN verified \cup {tx} ELSE verified
        /\ posted' = IF Kind(tx) = "post" /\ Succeeds(tx) THEN posted \cup {v} ELSE posted
        /\ auction' = IF ~Succeeds(tx) THEN auction
                      ELSE [auction EXCEPT ![v.order] =
                              CASE Kind(tx) = "place"  -> [@ EXCEPT !.status = "active", !.winner = Payer]
                                [] Kind(tx) = "settle" -> [@ EXCEPT !.status = "settled"]
                                [] OTHER -> @]
        /\ deposits' = IF Kind(tx) = "place" /\ Succeeds(tx) THEN deposits - 1 ELSE deposits
        /\ UNCHANGED <<processVars, emitted, prepared>>

\* The guardians sign a finalized VAA once the finality of its chain is reached.
Emit(v) ==
    /\ v \notin DOMAIN emitted
    /\ emitted' = [w \in DOMAIN emitted \cup {v} |-> IF w = v THEN now ELSE emitted[w]]
    /\ UNCHANGED <<processVars, inflight, landed, posted, verified, auction, prepared, deposits>>

OthersPost(v) ==
    /\ v \in DOMAIN emitted \ posted
    /\ posted' = posted \cup {v}
    /\ UNCHANGED <<processVars, emitted, inflight, landed, verified, auction, prepared, deposits>>

\* Others start, win, execute and settle auctions, and prepare order responses.
OthersAct(o) ==
    LET a == auction[o]
    IN  /\ \/ /\ a.status = "none" /\ [order |-> o, kind |-> "fast"] \in posted
              /\ \E w \in KnownOwners \cup {Rival} :
                    auction' = [auction EXCEPT ![o].status = "active", ![o].winner = w]
              /\ UNCHANGED prepared
           \/ /\ a.status = "active"
              /\ \E penalized \in BOOLEAN :
                    auction' = [auction EXCEPT ![o].status = "completed",
                                               ![o].penalized = penalized]
              /\ UNCHANGED prepared
           \/ /\ [order |-> o, kind |-> "finalized"] \in posted
              /\ a.status = "completed"
              /\ auction' = [auction EXCEPT ![o].status = "settled"]
              /\ UNCHANGED prepared
           \/ /\ [order |-> o, kind |-> "finalized"] \in posted
              /\ a.status = "completed" /\ o \notin prepared
              /\ prepared' = prepared \cup {o}
              /\ UNCHANGED auction
        /\ UNCHANGED <<processVars, emitted, inflight, landed, posted, verified, deposits>>

Tick ==
    /\ now < LastTime
    /\ now' = now + 1
    /\ UNCHANGED <<file, up, crashes, seenHashes, callbacks, queue, chainVars>>

Forget ==
    /\ up /\ CleanUp(now)
    /\ UNCHANGED <<file, up, crashes, now, callbacks, queue, chainVars>>

\* A request that no handler catches is rejected, or the fee of an order without
\* pricing is looked up: the process ends, and what it had not sent is lost.
Crash ==
    /\ up
    /\ \E c \in DOMAIN callbacks :
          \/ /\ crashes < MaxCrashes
             /\ callbacks[c].at \in {"starting", "pricing", "waiting", "attesting", "sending"}
          \/ At(c, "pricing") /\ ~IsPriced(OrderOf(c))
    /\ up' = FALSE /\ crashes' = crashes + 1
    /\ callbacks' = [c \in DOMAIN callbacks |->
                       IF Running(c) THEN [callbacks[c] EXCEPT !.at = "lost"]
                       ELSE callbacks[c]]
    /\ queue' = <<>> /\ seenHashes' = <<>> /\ landed' = {}
    /\ UNCHANGED <<file, now, emitted, inflight, posted, verified, auction, prepared, deposits>>

Restart ==
    /\ ~up /\ up' = TRUE
    /\ UNCHANGED <<file, crashes, now, seenHashes, callbacks, queue, chainVars>>
-----------------------------------------------------------------------------
Step(c) ==
    \/ AskAuction(c) \/ PriceAndBuild(c)
    \/ FetchFastVaa(c) \/ FetchAuction(c) \/ AttestAndBuild(c)
    \/ Send(c) \/ PreflightFails(c) \/ SendFails(c) \/ Confirmed(c) \/ ConfirmFails(c)

Next ==
    \/ \E v \in Vaas : Emit(v) \/ OnObservation(v) \/ OthersPost(v)
    \/ \E c \in DOMAIN callbacks : Step(c)
    \/ \E tx \in inflight : Land(tx)
    \/ \E o \in Orders : OthersAct(o)
    \/ StartBatch \/ Tick \/ Forget \/ Crash \/ Restart

Spec == Init /\ [][Next]_vars
-----------------------------------------------------------------------------
\* An offer or a settlement is sent only once the VAA that it redeems is posted: by
\* others before it was built, or by the transactions before it in its batch, however
\* often they were repeated.
SentAfterItsVaa ==
    \A tx \in inflight :
       Kind(tx) \in {"place", "settle"} => callbacks[tx[1]].vaa \in posted

\* One process offers for a fast VAA at most once, however often it is delivered:
\* once its hash is forgotten the VAA is stale.
OneOfferPerRun ==
    \A b, c \in DOMAIN callbacks :
       (/\ callbacks[b].vaa = callbacks[c].vaa /\ callbacks[b].vaa.kind = "fast"
        /\ callbacks[b].run = callbacks[c].run
        /\ callbacks[b].at # "ignored" /\ callbacks[c].at # "ignored")
       => b = c

\* With more than seven signatures, a post comes before all of them are verified.
PostsTooEarly(c) == Kind(Tx(c)) = "post" /\ callbacks[c].next < 2 * Chunks

\* A callback that begins to handle a finalized VAA when its auction is completed and
\* won by a known owner does not end without the auction settled or its response
\* prepared by somebody else, unless the process ends or a request, an answer of the
\* node or a confirmation fails: it is not given up along the way, and a preflight
\* that refuses it for good was right to.  Two kinds are refused all the same: the
\* settlement of an auction that another known owner won without a penalty, who is
\* named as the beneficiary, and a post between two verifications.
WonAuctionsAreNotDropped ==
    \A c \in DOMAIN callbacks :
       LET o == OrderOf(c)
       IN  /\ callbacks[c].owed
           /\ \/ callbacks[c].at \in {"ignored", "done"}
              \/ At(c, "refused") /\ BeneficiaryIsPayer(o) /\ ~PostsTooEarly(c)
           => auction[o].status = "settled" \/ o \in prepared
=============================================================================
