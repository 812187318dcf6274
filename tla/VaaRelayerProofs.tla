-------------------------- MODULE VaaRelayerProofs --------------------------
(***************************************************************************)
(* Proofs about the relayer of the example solver, for any number of       *)
(* orders, deliveries, crashes and signature chunks: no offer or           *)
(* settlement is sent before its VAA is posted, a VAA that is delivered    *)
(* again does not lead to a second offer, and an auction that was won is   *)
(* not dropped.                                                            *)
(***************************************************************************)
EXTENDS VaaRelayer, FiniteSetTheorems, SequenceTheorems, TLAPS

Unbuilt == {"starting", "pricing", "waiting", "auction", "attesting"}
Active == {"sending", "confirming"}
Stages == Unbuilt \cup {"queued"} \cup Active \cup Ended

-----------------------------------------------------------------------------
(* What a batch is made of *)

Contents(kind, isPosted) ==
    (IF isPosted THEN <<>> ELSE PostVaa)
       \o <<IF kind = "fast" THEN "place" ELSE "settle">>

\* The last transaction is the offer or the settlement; what comes before it posts
\* the VAA, and ends with the attempt that has all the signatures.
LEMMA ContentsFacts ==
    ASSUME NEW kind, NEW isPosted \in BOOLEAN
    PROVE  LET b == Contents(kind, isPosted)
               n == Len(b)
           IN  /\ n = IF isPosted THEN 1 ELSE 2 * Chunks + 1
               /\ n \in Nat \ {0}
               /\ b[n] = IF kind = "fast" THEN "place" ELSE "settle"
               /\ \A i \in 1 .. n - 1 : b[i] \in {"verify", "post"}
               /\ ~isPosted => b[n - 1] = "post"
               /\ \A i \in 1 .. n : b[i] = "verify" =>
                     \E k \in 1 .. Chunks : i = 2 * k - 1
<1> DEFINE last == IF kind = "fast" THEN "place" ELSE "settle"
           b == Contents(kind, isPosted)
<1>1. Chunks \in Nat /\ Chunks # 0
  BY RelayerAssumption
<1>2. CASE isPosted
  <2>1. b = <<last>> /\ Len(b) = 1 /\ b[1] = last
    BY <1>2 DEF Contents
  <2>2. b[1] # "verify"
    BY <2>1
  <2>. HIDE DEF b
  <2>3. /\ Len(b) \in Nat \ {0} /\ b[Len(b)] = last
        /\ \A i \in 1 .. Len(b) - 1 : b[i] \in {"verify", "post"}
        /\ \A i \in 1 .. Len(b) : b[i] # "verify"
    BY <2>1, <2>2
  <2>. QED BY <1>2, <2>1, <2>3 DEF b
<1>3. CASE ~isPosted
  <2> DEFINE m == 2 * Chunks
  <2>0. m \in Nat /\ m # 0 /\ m % 2 = 0
    BY <1>1
  <2>. HIDE DEF m
  <2>1. PostVaa = [i \in 1 .. m |-> IF i % 2 = 1 THEN "verify" ELSE "post"]
    BY DEF PostVaa, m
  <2>2. PostVaa \in Seq({"verify", "post"}) /\ Len(PostVaa) = m
    BY <2>0, <2>1
  <2>3. /\ b = PostVaa \o <<last>>
        /\ Len(b) = m + 1
        /\ b[m + 1] = last
        /\ \A i \in 1 .. m : b[i] = PostVaa[i]
    BY <1>3, <2>0, <2>2 DEF Contents
  <2>4. \A i \in 1 .. m : b[i] = IF i % 2 = 1 THEN "verify" ELSE "post"
    BY <2>1, <2>3
  <2>5. \A i \in 1 .. m : i % 2 = 1 => \E k \in 1 .. Chunks : i = 2 * k - 1
    <3>1. SUFFICES ASSUME NEW i \in 1 .. m, i % 2 = 1
                   PROVE  \E k \in 1 .. Chunks : i = 2 * k - 1
      OBVIOUS
    <3>2. (i + 1) \div 2 \in 1 .. Chunks /\ i = 2 * ((i + 1) \div 2) - 1
      BY <1>1, <3>1 DEF m
    <3>. QED BY <3>2
  <2>. HIDE DEF b
  <2>6. /\ Len(b) \in Nat \ {0} /\ Len(b) = 2 * Chunks + 1
        /\ b[Len(b)] = last
    BY <2>0, <2>3 DEF m
  <2>7. \A i \in 1 .. Len(b) - 1 : b[i] \in {"verify", "post"}
    BY <2>0, <2>3, <2>4
  <2>8. b[Len(b) - 1] = "post"
    BY <2>0, <2>3, <2>4
  <2>9. \A i \in 1 .. Len(b) : b[i] = "verify" => \E k \in 1 .. Chunks : i = 2 * k - 1
    <3>1. last # "verify"
      OBVIOUS
    <3>. QED BY <2>0, <2>3, <2>4, <2>5, <3>1
  <2>. QED BY <1>3, <2>6, <2>7, <2>8, <2>9 DEF b
<1>. QED BY <1>2, <1>3

LEMMA VerifyAt ==
    ASSUME NEW kind, NEW isPosted, ~isPosted, NEW k \in 1 .. Chunks
    PROVE  Contents(kind, isPosted)[2 * k - 1] = "verify"
<1> DEFINE last == IF kind = "fast" THEN "place" ELSE "settle"
           i == 2 * k - 1
<1>1. Chunks \in Nat
  BY RelayerAssumption
<1>2. i \in 1 .. 2 * Chunks /\ i % 2 = 1
  BY <1>1
<1>. HIDE DEF i
<1>3. PostVaa \in Seq({"verify", "post"}) /\ Len(PostVaa) = 2 * Chunks
      /\ PostVaa[i] = "verify"
  BY <1>1, <1>2 DEF PostVaa
<1>4. Contents(kind, isPosted) = PostVaa \o <<last>>
  BY DEF Contents
<1>. QED BY <1>1, <1>2, <1>3, <1>4 DEF i

-----------------------------------------------------------------------------
(* The inductive invariant *)

Callbacks ==
    [vaa : Vaas, at : Stages, isPosted : BOOLEAN, next : Nat, tries : Nat, run : Nat,
     owed : BOOLEAN]

Auctions ==
    [status : {"none", "active", "completed", "settled"},
     winner : KnownOwners \cup {Payer, Rival}, penalized : BOOLEAN]

RelayerTypeOK ==
    /\ crashes \in Nat /\ now \in Nat
    /\ callbacks \in Seq(Callbacks)
    /\ queue \in Seq(DOMAIN callbacks)
    /\ inflight \subseteq Nat \X Nat
    /\ landed \subseteq Nat \X Nat
    /\ verified \subseteq Nat \X Nat
    /\ auction \in [Orders -> Auctions]

\* The queue holds callbacks whose batch waits, each of them once.
QueueOK ==
    /\ \A i \in DOMAIN queue : callbacks[queue[i]].at = "queued"
    /\ \A i, j \in DOMAIN queue : queue[i] = queue[j] => i = j

\* Whoever settles it, there is nothing left to do for the auction of an order.
Accounted(o) == auction[o].status = "settled" \/ o \in prepared

\* The batch that a callback sends.
BatchOf(cb) == Contents(cb.vaa.kind, cb.isPosted)

\* A callback that owes a settlement has what it needs to get to it, and does not
\* end without it.
OwedOK(cb) ==
    /\ cb.vaa.kind = "finalized" /\ MaxRetries(file) > 0
    /\ auction[cb.vaa.order].status \in {"completed", "settled"}
    /\ RecognizedTokenAccount(file, auction[cb.vaa.order].winner)
    /\ cb.at \in {"ignored", "done"} => Accounted(cb.vaa.order)

\* Where a callback is agrees with its VAA, and when a post of its batch is behind
\* it the VAA is posted.
CallbackOK(cb) ==
    /\ cb.at \in {"starting", "pricing"} => cb.vaa.kind = "fast"
    /\ cb.at \in {"waiting", "auction", "attesting"} => cb.vaa.kind = "finalized"
    /\ cb.at \in Unbuilt \cup {"queued"} => cb.next = 1
    /\ cb.at \in Active =>
          /\ cb.next \in 1 .. Len(BatchOf(cb))
          /\ \A i \in 1 .. cb.next - 1 : BatchOf(cb)[i] = "post" => cb.vaa \in posted
    /\ cb.owed => OwedOK(cb)

\* A transaction belongs to a batch that was started.
TxOK(tx) ==
    /\ tx[1] \in DOMAIN callbacks
    /\ callbacks[tx[1]].at \notin Unbuilt \cup {"queued"}
    /\ tx[2] \in 1 .. Len(BatchOf(callbacks[tx[1]]))

KindOf(tx) == BatchOf(callbacks[tx[1]])[tx[2]]
VaaOf(tx) == callbacks[tx[1]].vaa

Verified(c) == {u \in verified : u[1] = c}

\* What was sent after its preflight succeeds, or somebody else was faster; an offer
\* that was sent without it comes after its post.
InflightOK(tx) ==
    /\ TxOK(tx)
    /\ KindOf(tx) = "post" =>
          VaaOf(tx) \in posted \/ Cardinality(Verified(tx[1])) = Chunks
    /\ KindOf(tx) \in {"place", "settle"} => VaaOf(tx) \in posted
    /\ KindOf(tx) = "settle" =>
          LET a == auction[VaaOf(tx).order]
          IN  /\ a.status \in {"completed", "settled"}
              /\ a.penalized \/ a.winner = Payer

\* What landed had its effect.
LandedOK(tx) ==
    /\ TxOK(tx)
    /\ At(tx[1], "confirming") /\ tx[2] = callbacks[tx[1]].next
    /\ KindOf(tx) = "post" => VaaOf(tx) \in posted
    /\ KindOf(tx) = "settle" => Accounted(VaaOf(tx).order)

VerifiedOK(tx) == TxOK(tx) /\ KindOf(tx) = "verify"

RelayerInv ==
    /\ RelayerTypeOK
    /\ QueueOK
    /\ \A c \in DOMAIN callbacks : CallbackOK(callbacks[c])
    /\ \A tx \in inflight : InflightOK(tx)
    /\ \A tx \in landed : LandedOK(tx)
    /\ \A tx \in verified : VerifiedOK(tx)

\* The fast VAAs are all emitted, and their timestamps are at most ClockDrift ahead.
TimesOK ==
    /\ DOMAIN emitted \subseteq Vaas
    /\ \A v \in DOMAIN emitted : emitted[v] \in Nat
    /\ \A v \in Vaas : v.kind = "fast" => v \in DOMAIN emitted /\ emitted[v] <= ClockDrift
    /\ DOMAIN seenHashes \subseteq Vaas
    /\ \A v \in DOMAIN seenHashes : seenHashes[v] \in Nat

\* A fast VAA that this run of the process handled is remembered, or stale.
HandledOnce(cb) ==
    /\ cb.run <= crashes
    /\ cb.vaa.kind = "fast" /\ cb.run = crashes =>
          \/ cb.vaa \in DOMAIN seenHashes
          \/ now - emitted[cb.vaa] > DelayedVaaThreshold

OnceInv ==
    /\ TimesOK
    /\ \A c \in DOMAIN callbacks : HandledOnce(callbacks[c])
    /\ OneOfferPerRun

-----------------------------------------------------------------------------
(* One callback moves on *)

LEMMA BatchIs ==
    /\ \A c : Batch(c) = BatchOf(callbacks[c])
    /\ \A tx : Kind(tx) = KindOf(tx)
BY DEF Batch, BatchOf, Contents, Kind, KindOf

LEMMA BatchFacts ==
    ASSUME NEW cb \in Callbacks
    PROVE  LET b == BatchOf(cb)
               n == Len(b)
           IN  /\ n = IF cb.isPosted THEN 1 ELSE 2 * Chunks + 1
               /\ n \in Nat \ {0}
               /\ b[n] = IF cb.vaa.kind = "fast" THEN "place" ELSE "settle"
               /\ \A i \in 1 .. n - 1 : b[i] \in {"verify", "post"}
               /\ ~cb.isPosted => b[n - 1] = "post"
               /\ \A i \in 1 .. n : b[i] = "verify" =>
                     \E k \in 1 .. Chunks : i = 2 * k - 1
BY ContentsFacts DEF BatchOf, Callbacks

\* A callback becomes cb, keeping what it is about; once its batch is built it stays
\* as it is, and nothing that landed is waited for any more.
Becomes(c, cb) ==
    /\ callbacks' = [callbacks EXCEPT ![c] = cb]
    /\ cb.vaa = callbacks[c].vaa /\ cb.owed = callbacks[c].owed
    /\ cb.run = callbacks[c].run
    /\ \/ callbacks[c].at \in Unbuilt \cup {"queued"}
       \/ cb.isPosted = callbacks[c].isPosted /\ cb.at \notin Unbuilt \cup {"queued"}
    /\ \A tx \in landed' : tx \in landed /\ tx[1] # c

LEMMA CallbackMoves ==
    ASSUME RelayerInv, NEW c \in DOMAIN callbacks, NEW cb \in Callbacks,
           Becomes(c, cb), CallbackOK(cb),
           UNCHANGED <<file, crashes, now, posted, verified, auction, prepared>>,
           inflight' \subseteq inflight \cup {<<c, cb.next>>},
           <<c, cb.next>> \in inflight' \ inflight => InflightOK(<<c, cb.next>>)',
           queue' \in Seq(DOMAIN callbacks), QueueOK'
    PROVE  RelayerInv'
<1> USE DEF Becomes
<1>1. /\ callbacks \in Seq(Callbacks) /\ callbacks' \in Seq(Callbacks)
      /\ DOMAIN callbacks' = DOMAIN callbacks
      /\ callbacks'[c] = cb
      /\ \A d \in DOMAIN callbacks \ {c} : callbacks'[d] = callbacks[d]
      /\ c \in Nat
  BY DEF RelayerInv, RelayerTypeOK
<1>2. RelayerTypeOK'
  <2>1. <<c, cb.next>> \in Nat \X Nat
    BY <1>1 DEF Callbacks
  <2>. QED BY <1>1, <2>1 DEF RelayerInv, RelayerTypeOK
<1>3. ASSUME NEW d \in DOMAIN callbacks'
      PROVE  CallbackOK(callbacks[d])'
  <2>1. CallbackOK(callbacks'[d])
    BY <1>1 DEF RelayerInv
  <2>. QED BY <2>1 DEF CallbackOK, OwedOK, Accounted
<1>4. ASSUME NEW tx, TxOK(tx)
      PROVE  /\ TxOK(tx)' /\ KindOf(tx)' = KindOf(tx)
             /\ VaaOf(tx)' = VaaOf(tx)
  <2>1. BatchOf(callbacks'[tx[1]]) = BatchOf(callbacks[tx[1]])
    BY <1>1, <1>4 DEF TxOK, BatchOf
  <2>2. callbacks'[tx[1]].vaa = callbacks[tx[1]].vaa
    BY <1>1, <1>4 DEF TxOK
  <2>3. callbacks'[tx[1]].at \notin Unbuilt \cup {"queued"}
    BY <1>1, <1>4 DEF TxOK
  <2>. QED BY <1>1, <1>4, <2>1, <2>2, <2>3 DEF TxOK, KindOf, VaaOf
<1>5. ASSUME NEW tx \in inflight'
      PROVE  InflightOK(tx)'
  <2>1. CASE tx \in inflight
    <3>1. InflightOK(tx)
      BY <2>1 DEF RelayerInv
    <3>. QED BY <1>4, <3>1 DEF InflightOK, Verified
  <2>. QED BY <2>1
<1>6. ASSUME NEW tx \in landed'
      PROVE  LandedOK(tx)'
  <2>1. LandedOK(tx) /\ tx[1] # c
    BY DEF RelayerInv
  <2>2. TxOK(tx)' /\ KindOf(tx)' = KindOf(tx) /\ VaaOf(tx)' = VaaOf(tx)
    BY <1>4, <2>1 DEF LandedOK
  <2>3. callbacks'[tx[1]] = callbacks[tx[1]]
    BY <1>1, <2>1 DEF LandedOK, TxOK
  <2>. QED BY <2>1, <2>2, <2>3 DEF LandedOK, At, Accounted
<1>7. ASSUME NEW tx \in verified'
      PROVE  VerifiedOK(tx)'
  BY <1>4 DEF RelayerInv, VerifiedOK
<1>. QED BY <1>2, <1>3, <1>5, <1>6, <1>7 DEF RelayerInv

LEMMA CallbackType ==
    ASSUME RelayerInv, NEW c \in DOMAIN callbacks
    PROVE  /\ callbacks[c] \in Callbacks /\ c \in Nat
           /\ CallbackOK(callbacks[c])
BY DEF RelayerInv, RelayerTypeOK

\* The queue holds the same when the callback that moves is not in it.
LEMMA SameQueue ==
    ASSUME RelayerInv, NEW c \in DOMAIN callbacks, NEW cb,
           callbacks' = [callbacks EXCEPT ![c] = cb],
           callbacks[c].at # "queued", UNCHANGED queue
    PROVE  queue' \in Seq(DOMAIN callbacks) /\ QueueOK'
<1>1. queue \in Seq(DOMAIN callbacks) /\ callbacks \in Seq(Callbacks)
  BY DEF RelayerInv, RelayerTypeOK
<1>2. \A i \in DOMAIN queue : queue[i] \in DOMAIN callbacks /\ queue[i] # c
  BY <1>1 DEF RelayerInv, QueueOK
<1>. QED BY <1>1, <1>2 DEF RelayerInv, QueueOK

\* Nothing of a callback landed unless it waits for the confirmation.
LEMMA NothingLanded ==
    ASSUME RelayerInv, NEW c, callbacks[c].at # "confirming" 
    PROVE  \A tx \in landed : tx[1] # c
BY DEF RelayerInv, LandedOK, At

\* Before a batch is built its callback goes from one stage to the next.
LEMMA StageFollows ==
    ASSUME RelayerInv, NEW c \in DOMAIN callbacks, callbacks[c].at \in Unbuilt,
           NEW stage \in Stages, Goto(c, stage), Idle, UNCHANGED <<queue, chainVars>>,
           CallbackOK([callbacks[c] EXCEPT !.at = stage])
    PROVE  RelayerInv'
<1> DEFINE cb == [callbacks[c] EXCEPT !.at = stage]
<1>1. callbacks[c] \in Callbacks
  BY CallbackType
<1>2. cb \in Callbacks
  BY <1>1 DEF Callbacks
<1>3. /\ callbacks' = [callbacks EXCEPT ![c] = cb]
      /\ cb.vaa = callbacks[c].vaa /\ cb.owed = callbacks[c].owed
      /\ cb.run = callbacks[c].run
  BY <1>1 DEF Goto, Callbacks
<1>4. CallbackOK(cb)
  OBVIOUS
<1>. HIDE DEF cb
<1>5. UNCHANGED <<inflight, landed, queue>>
  BY DEF Idle, chainVars
<1>6. Becomes(c, cb)
  BY <1>3, <1>5, NothingLanded DEF Becomes, Unbuilt
<1>7. queue' \in Seq(DOMAIN callbacks) /\ QueueOK'
  BY <1>3, <1>5, SameQueue DEF Unbuilt
<1>. QED BY <1>2, <1>4, <1>5, <1>6, <1>7, CallbackMoves DEF Idle, chainVars

LEMMA AskAuctionInv ==
    ASSUME RelayerInv, NEW c \in DOMAIN callbacks, AskAuction(c)
    PROVE  RelayerInv'
<1>1. callbacks[c] \in Callbacks /\ CallbackOK(callbacks[c])
      /\ callbacks[c].at = "starting"
  BY CallbackType DEF AskAuction, At
<1>2. \A stage \in {"ignored", "pricing"} :
         CallbackOK([callbacks[c] EXCEPT !.at = stage])
  BY <1>1 DEF CallbackOK, OwedOK, Callbacks, Unbuilt, Active
<1>. QED BY <1>1, <1>2, StageFollows
         DEF AskAuction, Unbuilt, Stages, Ended

LEMMA FetchFastVaaInv ==
    ASSUME RelayerInv, NEW c \in DOMAIN callbacks, FetchFastVaa(c)
    PROVE  RelayerInv'
<1>1. callbacks[c] \in Callbacks /\ CallbackOK(callbacks[c])
      /\ callbacks[c].at = "waiting"
  BY CallbackType DEF FetchFastVaa, At
<1>2. callbacks[c].vaa.kind = "finalized" /\ OrderOf(c) \in Orders
  BY <1>1 DEF CallbackOK, OrderOf, Callbacks, Vaas
<1>3. \E o \in Orders :
         /\ Sequence([order |-> o, kind |-> "fast"])
               = FastVaaSequence(Sequence(callbacks[c].vaa))
         /\ ChainOf[o] = ChainOf[OrderOf(c)]
  <2> DEFINE fast == [order |-> OrderOf(c), kind |-> "fast"]
  <2>1. fast.order = OrderOf(c) /\ fast.kind = "fast"
    OBVIOUS
  <2>2. Sequence(fast) = 2 * OrderOf(c) + 1
    BY <2>1 DEF Sequence
  <2>3. Sequence(callbacks[c].vaa) = 2 * OrderOf(c)
    <3>1. OrderOf(c) \in Nat /\ callbacks[c].vaa.kind # "fast"
      <4>1. Orders \subseteq Nat
        BY RelayerAssumption
      <4>. QED BY <1>2, <4>1
    <3>2. Sequence(callbacks[c].vaa) = 2 * OrderOf(c) + 0
      BY <3>1 DEF Sequence, OrderOf
    <3>. QED BY <3>1, <3>2
  <2>4. Sequence(fast) = FastVaaSequence(Sequence(callbacks[c].vaa))
    BY <2>2, <2>3 DEF FastVaaSequence
  <2>. QED BY <1>2, <2>4
<1>4. PICK stage \in {"ignored", "auction"} :
         /\ Goto(c, stage) /\ Idle /\ UNCHANGED <<queue, chainVars>>
         /\ stage = "ignored" => ~(MaxRetries(file) > 0)
  BY <1>3 DEF FetchFastVaa
<1>5. CallbackOK([callbacks[c] EXCEPT !.at = stage])
  BY <1>1, <1>2, <1>4 DEF CallbackOK, OwedOK, Callbacks, Unbuilt, Active
<1>. QED BY <1>1, <1>4, <1>5, StageFollows DEF Unbuilt, Stages, Ended

LEMMA FetchAuctionInv ==
    ASSUME RelayerInv, NEW c \in DOMAIN callbacks, FetchAuction(c)
    PROVE  RelayerInv'
<1>1. callbacks[c] \in Callbacks /\ CallbackOK(callbacks[c])
      /\ callbacks[c].at = "auction"
  BY CallbackType DEF FetchAuction, At
<1>2. PICK stage \in {"ignored", "attesting", "unread"} :
         /\ Goto(c, stage) /\ Idle /\ UNCHANGED <<queue, chainVars>>
         /\ stage = "ignored" => ~Settles(OrderOf(c))
  BY DEF FetchAuction
<1>3. CallbackOK([callbacks[c] EXCEPT !.at = stage])
  BY <1>1, <1>2
  DEF CallbackOK, OwedOK, Accounted, Settles, OrderOf, Callbacks, Unbuilt, Active
<1>. QED BY <1>1, <1>2, <1>3, StageFollows DEF Unbuilt, Stages, Ended

\* The batch is built, and waits.
LEMMA QueueBatchInv ==
    ASSUME RelayerInv, NEW c \in DOMAIN callbacks, callbacks[c].at \in Unbuilt,
           QueueBatch(c), Idle, UNCHANGED chainVars
    PROVE  RelayerInv'
<1> DEFINE isPosted == callbacks[c].vaa \in posted
           cb == [callbacks[c] EXCEPT !.at = "queued", !.isPosted = isPosted]
<1>1. callbacks[c] \in Callbacks /\ CallbackOK(callbacks[c])
  BY CallbackType
<1>2. /\ cb \in Callbacks /\ cb.at = "queued"
      /\ cb.vaa = callbacks[c].vaa /\ cb.owed = callbacks[c].owed
      /\ cb.run = callbacks[c].run /\ cb.next = callbacks[c].next
  <2>1. isPosted \in BOOLEAN
    OBVIOUS
  <2>. HIDE DEF isPosted
  <2>. QED BY <1>1, <2>1 DEF Callbacks, Stages
<1>3. callbacks' = [callbacks EXCEPT ![c] = cb] /\ queue' = Append(queue, c)
  BY <1>1 DEF QueueBatch, Callbacks
<1>. HIDE DEF cb
<1>4. CallbackOK(cb)
  BY <1>1, <1>2 DEF CallbackOK, OwedOK, Unbuilt, Active
<1>5. UNCHANGED <<inflight, landed>>
  BY DEF chainVars
<1>6. Becomes(c, cb)
  BY <1>2, <1>3, <1>5, NothingLanded DEF Becomes, Unbuilt
<1>7. queue' \in Seq(DOMAIN callbacks) /\ QueueOK'
  <2>1. queue \in Seq(DOMAIN callbacks) /\ callbacks \in Seq(Callbacks)
    BY DEF RelayerInv, RelayerTypeOK
  <2>2. \A i \in DOMAIN queue : queue[i] \in DOMAIN callbacks /\ queue[i] # c
    BY <2>1 DEF RelayerInv, QueueOK, Unbuilt
  <2>3. /\ queue' \in Seq(DOMAIN callbacks)
        /\ DOMAIN queue' = 1 .. Len(queue) + 1
        /\ queue'[Len(queue) + 1] = c
        /\ \A i \in 1 .. Len(queue) : queue'[i] = queue[i]
    BY <1>3, <2>1
  <2>4. \A i \in DOMAIN queue' : i \in DOMAIN queue \/ i = Len(queue) + 1
    BY <2>1, <2>3
  <2>5. callbacks'[c] = cb /\ \A d \in DOMAIN callbacks \ {c} : callbacks'[d] = callbacks[d]
    BY <1>3
  <2>6. DOMAIN queue = 1 .. Len(queue)
    BY <2>1
  <2>. QED BY <1>2, <2>2, <2>3, <2>4, <2>5, <2>6 DEF RelayerInv, QueueOK
<1>. QED BY <1>2, <1>4, <1>5, <1>6, <1>7, CallbackMoves DEF Idle, chainVars

LEMMA PriceAndBuildInv ==
    ASSUME RelayerInv, NEW c \in DOMAIN callbacks, PriceAndBuild(c)
    PROVE  RelayerInv'
<1>1. callbacks[c] \in Callbacks /\ CallbackOK(callbacks[c])
      /\ callbacks[c].at = "pricing" /\ Idle /\ UNCHANGED chainVars
  BY CallbackType DEF PriceAndBuild, At
<1>2. CASE QueueBatch(c)
  BY <1>1, <1>2, QueueBatchInv DEF Unbuilt
<1>3. CASE Goto(c, "ignored") /\ UNCHANGED queue
  <2>1. CallbackOK([callbacks[c] EXCEPT !.at = "ignored"])
    BY <1>1 DEF CallbackOK, OwedOK, Callbacks, Unbuilt, Active
  <2>. QED BY <1>1, <1>3, <2>1, StageFollows DEF Unbuilt, Stages, Ended
<1>. QED BY <1>2, <1>3 DEF PriceAndBuild

LEMMA AttestAndBuildInv ==
    ASSUME RelayerInv, NEW c \in DOMAIN callbacks, AttestAndBuild(c)
    PROVE  RelayerInv'
BY QueueBatchInv DEF AttestAndBuild, At, Unbuilt

LEMMA StartBatchInv ==
    ASSUME RelayerInv, StartBatch
    PROVE  RelayerInv'
<1> DEFINE c == Head(queue)
           cb == [callbacks[c] EXCEPT !.at = "sending"]
<1>1. queue \in Seq(DOMAIN callbacks) /\ queue # <<>> /\ queue' = Tail(queue)
  BY DEF RelayerInv, RelayerTypeOK, StartBatch
<1>2. c \in DOMAIN callbacks /\ c = queue[1] /\ 1 \in DOMAIN queue
  BY <1>1
<1>3. callbacks[c].at = "queued"
  BY <1>2 DEF RelayerInv, QueueOK
<1>4. callbacks[c] \in Callbacks /\ CallbackOK(callbacks[c])
  BY <1>2, CallbackType
<1>5. callbacks' = [callbacks EXCEPT ![c] = cb]
  BY <1>4 DEF StartBatch, Callbacks
<1>6. queue' \in Seq(DOMAIN callbacks) /\ QueueOK'
  <2>1. /\ queue' \in Seq(DOMAIN callbacks)
        /\ \A i \in DOMAIN queue' : i + 1 \in DOMAIN queue /\ queue'[i] = queue[i + 1]
                                    /\ i \in Nat
    BY <1>1
  <2>2. \A i \in DOMAIN queue' : queue[i + 1] # c
    BY <1>2, <2>1 DEF RelayerInv, QueueOK
  <2>3. \A i \in DOMAIN queue' : callbacks'[queue'[i]] = callbacks[queue'[i]]
    BY <1>5, <2>1, <2>2
  <2>. QED BY <2>1, <2>3 DEF RelayerInv, QueueOK
<1>. HIDE DEF c
<1>7. /\ cb \in Callbacks /\ cb.at = "sending" /\ cb.isPosted = callbacks[c].isPosted
      /\ cb.vaa = callbacks[c].vaa /\ cb.owed = callbacks[c].owed
      /\ cb.run = callbacks[c].run /\ cb.next = 1
  BY <1>3, <1>4 DEF Callbacks, CallbackOK, Stages, Active
<1>. HIDE DEF cb
<1>8. CallbackOK(cb)
  <2>1. 1 \in 1 .. Len(BatchOf(cb))
    BY <1>7, BatchFacts
  <2>. QED BY <1>3, <1>4, <1>7, <2>1 DEF CallbackOK, OwedOK, Unbuilt, Active
<1>9. UNCHANGED <<inflight, landed>>
  BY DEF StartBatch, chainVars
<1>10. Becomes(c, cb)
  BY <1>3, <1>5, <1>7, <1>9, NothingLanded DEF Becomes
<1>. QED BY <1>2, <1>6, <1>7, <1>8, <1>9, <1>10, CallbackMoves
         DEF StartBatch, Idle, chainVars

\* The position of a batch that is being sent.
LEMMA Position ==
    ASSUME RelayerInv, NEW c \in DOMAIN callbacks, callbacks[c].at \in Active
    PROVE  /\ callbacks[c] \in Callbacks /\ CallbackOK(callbacks[c])
           /\ callbacks[c].next \in 1 .. Len(BatchOf(callbacks[c]))
           /\ Len(BatchOf(callbacks[c])) \in Nat \ {0}
           /\ Tx(c) = <<c, callbacks[c].next>>
           /\ Kind(Tx(c)) = BatchOf(callbacks[c])[callbacks[c].next]
           /\ KindOf(Tx(c)) = BatchOf(callbacks[c])[callbacks[c].next]
<1>1. callbacks[c] \in Callbacks /\ CallbackOK(callbacks[c])
  BY CallbackType
<1>2. callbacks[c].next \in 1 .. Len(BatchOf(callbacks[c]))
  BY <1>1 DEF CallbackOK
<1>3. Len(BatchOf(callbacks[c])) \in Nat \ {0}
  BY <1>1, BatchFacts
<1>4. Tx(c) = <<c, callbacks[c].next>>
  BY DEF Tx
<1>. QED BY <1>1, <1>2, <1>3, <1>4, BatchIs DEF KindOf

\* Whatever is sent is as InflightOK says: with its preflight by what the preflight
\* found, and without it because its post is behind.
LEMMA SentIsOK ==
    ASSUME RelayerInv, NEW c \in DOMAIN callbacks, Send(c), NEW tx, tx = Tx(c)
    PROVE  InflightOK(tx)'
<1> DEFINE cb == callbacks[c]
           a == auction[cb.vaa.order]
<1>1. /\ cb \in Callbacks /\ CallbackOK(cb)
      /\ cb.next \in 1 .. Len(BatchOf(cb)) /\ Len(BatchOf(cb)) \in Nat \ {0}
      /\ tx = <<c, cb.next>> /\ Kind(tx) = BatchOf(cb)[cb.next] /\ cb.at = "sending"
  BY Position DEF Send, At, Active
<1>2. \/ SkipPreflight(c)
      \/ Succeeds(tx)
  BY DEF Send
<1>3. Kind(tx) = "post" =>
         cb.vaa \in posted \/ Cardinality(Verified(c)) = Chunks
  BY <1>1, <1>2 DEF SkipPreflight, Succeeds, Verified
<1>4. Kind(tx) = "settle" =>
         /\ cb.vaa \in posted
         /\ a.status \in {"completed", "settled"}
         /\ a.penalized \/ a.winner = Payer
  BY <1>1, <1>2 DEF SkipPreflight, Succeeds, BeneficiaryAccepted, BeneficiaryIsPayer
<1>5. Kind(tx) = "place" => cb.vaa \in posted
  <2>1. CASE Succeeds(tx)
    BY <1>1, <2>1 DEF Succeeds
  <2>2. CASE SkipPreflight(c)
    <3>1. Kind(tx) = "place" /\ ~cb.isPosted
      BY <2>2 DEF SkipPreflight
    <3>2. cb.next = Len(BatchOf(cb))
      <4>1. \A i \in 1 .. Len(BatchOf(cb)) - 1 : BatchOf(cb)[i] \in {"verify", "post"}
        BY <1>1, BatchFacts
      <4>2. BatchOf(cb)[cb.next] = "place"
        BY <1>1, <3>1
      <4>. HIDE DEF cb
      <4>3. cb.next \notin 1 .. Len(BatchOf(cb)) - 1
        BY <4>1, <4>2
      <4>. QED BY <1>1, <4>3
    <3>3. /\ Len(BatchOf(cb)) - 1 \in 1 .. cb.next - 1
          /\ BatchOf(cb)[Len(BatchOf(cb)) - 1] = "post"
      BY <1>1, <3>1, <3>2, BatchFacts, RelayerAssumption
    <3>. QED BY <1>1, <3>3 DEF CallbackOK, Active
  <2>. QED BY <1>2, <2>1, <2>2
<1>6. /\ callbacks'[c].at = "confirming" /\ callbacks'[c].vaa = cb.vaa
      /\ callbacks'[c].next = cb.next /\ BatchOf(callbacks'[c]) = BatchOf(cb)
      /\ DOMAIN callbacks' = DOMAIN callbacks
  BY <1>1 DEF Send, Goto, Callbacks, BatchOf
<1>7. UNCHANGED <<posted, verified, auction>>
  BY DEF Send
<1>8. tx[1] = c /\ tx[2] = cb.next
  BY <1>1
<1>9. KindOf(tx)' = Kind(tx) /\ VaaOf(tx)' = cb.vaa
  BY <1>1, <1>6, <1>8 DEF KindOf, VaaOf
<1>10. TxOK(tx)'
  BY <1>1, <1>6, <1>8 DEF TxOK, Unbuilt
<1>. HIDE DEF cb
<1>. QED BY <1>3, <1>4, <1>5, <1>7, <1>8, <1>9, <1>10 DEF InflightOK, Verified

LEMMA SendInv ==
    ASSUME RelayerInv, NEW c \in DOMAIN callbacks, Send(c)
    PROVE  RelayerInv'
<1>1. /\ callbacks[c] \in Callbacks /\ CallbackOK(callbacks[c])
      /\ Tx(c) = <<c, callbacks[c].next>> /\ callbacks[c].at = "sending"
  BY Position DEF Send, At, Active
<1>2. PICK cb \in Callbacks :
         /\ cb = [callbacks[c] EXCEPT !.at = "confirming"]
         /\ cb.at = "confirming" /\ cb.isPosted = callbacks[c].isPosted
         /\ cb.vaa = callbacks[c].vaa /\ cb.owed = callbacks[c].owed
         /\ cb.run = callbacks[c].run /\ cb.next = callbacks[c].next
  <2> DEFINE m == [callbacks[c] EXCEPT !.at = "confirming"]
  <2>1. /\ m \in Callbacks /\ m.at = "confirming" /\ m.isPosted = callbacks[c].isPosted
        /\ m.vaa = callbacks[c].vaa /\ m.owed = callbacks[c].owed
        /\ m.run = callbacks[c].run /\ m.next = callbacks[c].next
    BY <1>1 DEF Callbacks, Stages, Active
  <2>. QED BY <2>1
<1>3. /\ callbacks' = [callbacks EXCEPT ![c] = cb]
      /\ inflight' = inflight \cup {Tx(c)}
      /\ UNCHANGED <<landed, queue>>
  BY <1>1, <1>2 DEF Send, Goto, Callbacks
<1>4. CallbackOK(cb)
  BY <1>1, <1>2 DEF CallbackOK, OwedOK, Unbuilt, Active, BatchOf
<1>5. Becomes(c, cb)
  BY <1>1, <1>2, <1>3, NothingLanded DEF Becomes, Unbuilt
<1>6. queue' \in Seq(DOMAIN callbacks) /\ QueueOK'
  BY <1>1, <1>3, SameQueue
<1>7. InflightOK(<<c, cb.next>>)'
  BY <1>1, <1>2, SentIsOK
<1>. QED BY <1>1, <1>2, <1>3, <1>4, <1>5, <1>6, <1>7, CallbackMoves DEF Send, Idle

\* The callback stays where it is in its batch, or stops.
LEMMA FailureInv ==
    ASSUME RelayerInv, NEW c \in DOMAIN callbacks, callbacks[c].at \in Active,
           NEW end \in {"refused", "stopped"},
           callbacks' = [callbacks EXCEPT ![c] = AfterFailure(c, end)], Idle,
           UNCHANGED <<queue, inflight, posted, verified, auction, prepared>>,
           landed' = landed \ {Tx(c)}
    PROVE  RelayerInv'
<1> DEFINE cb == AfterFailure(c, end)
<1>1. /\ callbacks[c] \in Callbacks /\ CallbackOK(callbacks[c])
      /\ Tx(c) = <<c, callbacks[c].next>>
  BY Position
<1>2. /\ cb \in Callbacks /\ cb.at \in {"sending", "refused", "stopped"}
      /\ cb.isPosted = callbacks[c].isPosted
      /\ cb.vaa = callbacks[c].vaa /\ cb.owed = callbacks[c].owed
      /\ cb.run = callbacks[c].run /\ cb.next = callbacks[c].next
  <2>1. \/ cb = [callbacks[c] EXCEPT !.at = "sending", !.tries = @ + 1]
        \/ cb = [callbacks[c] EXCEPT !.at = end]
    BY Zenon DEF AfterFailure
  <2>2. callbacks[c].tries + 1 \in Nat
    BY <1>1 DEF Callbacks
  <2>. HIDE DEF cb
  <2>3. CASE cb = [callbacks[c] EXCEPT !.at = "sending", !.tries = @ + 1]
    BY <1>1, <2>2, <2>3 DEF Callbacks, Stages, Active
  <2>4. CASE cb = [callbacks[c] EXCEPT !.at = end]
    BY <1>1, <2>4 DEF Callbacks, Stages, Ended
  <2>. QED BY <2>1, <2>3, <2>4
<1>. HIDE DEF cb
<1>3. CallbackOK(cb)
  BY <1>1, <1>2 DEF CallbackOK, OwedOK, Unbuilt, Active, BatchOf
<1>4. \A tx \in landed' : tx \in landed /\ tx[1] # c
  <2>1. ASSUME NEW tx \in landed, tx[1] = c
        PROVE  tx = Tx(c)
    BY <1>1, <2>1 DEF RelayerInv, RelayerTypeOK, LandedOK
  <2>. QED BY <2>1
<1>5. Becomes(c, cb)
  BY <1>2, <1>4 DEF Becomes, Unbuilt, cb
<1>6. queue' \in Seq(DOMAIN callbacks) /\ QueueOK'
  BY SameQueue DEF Active
<1>. QED BY <1>2, <1>3, <1>5, <1>6, CallbackMoves DEF Idle

\* An attempt that was not sent, for either reason.
LEMMA NotSentInv ==
    ASSUME RelayerInv, NEW c \in DOMAIN callbacks, PreflightFails(c) \/ SendFails(c)
    PROVE  RelayerInv'
<1>1. callbacks[c].at = "sending" /\ UNCHANGED <<queue, chainVars>> /\ Idle
  BY DEF PreflightFails, SendFails, At
<1>2. \/ callbacks' = [callbacks EXCEPT ![c] = AfterFailure(c, "refused")]
      \/ callbacks' = [callbacks EXCEPT ![c] = AfterFailure(c, "stopped")]
  BY DEF PreflightFails, SendFails
<1>3. Tx(c) \notin landed
  BY <1>1, NothingLanded DEF Tx
<1>4. landed' = landed \ {Tx(c)}
  BY <1>1, <1>3 DEF chainVars
<1>. QED BY <1>1, <1>2, <1>4, FailureInv DEF chainVars, Active

LEMMA ConfirmFailsInv ==
    ASSUME RelayerInv, NEW c \in DOMAIN callbacks, ConfirmFails(c)
    PROVE  RelayerInv'
BY FailureInv DEF ConfirmFails, Unwatch, At, Active

\* The batch goes on after a transaction that landed, and so did its effect.
LEMMA ConfirmedInv ==
    ASSUME RelayerInv, NEW c \in DOMAIN callbacks, Confirmed(c)
    PROVE  RelayerInv'
<1> DEFINE old == callbacks[c]
           cb == AfterConfirmation(c)
<1>1. /\ old \in Callbacks /\ CallbackOK(old) /\ old.at = "confirming"
      /\ old.next \in 1 .. Len(BatchOf(old)) /\ Len(BatchOf(old)) \in Nat \ {0}
      /\ Tx(c) = <<c, old.next>> /\ KindOf(Tx(c)) = BatchOf(old)[old.next]
  BY Position DEF Confirmed, At, Active
<1>2. LandedOK(Tx(c)) /\ VaaOf(Tx(c)) = old.vaa
  BY <1>1 DEF Confirmed, RelayerInv, VaaOf
<1>3. /\ cb \in Callbacks
      /\ \/ cb.at = "done" /\ old.next = Len(BatchOf(old))
         \/ /\ cb.at = "sending" /\ cb.next = old.next + 1
            /\ old.next # Len(BatchOf(old))
      /\ cb.isPosted = old.isPosted
      /\ cb.vaa = old.vaa /\ cb.owed = old.owed /\ cb.run = old.run
  <2>1. Batch(c) = BatchOf(old)
    BY BatchIs
  <2>2. CASE old.next = Len(Batch(c))
    <3>1. cb = [old EXCEPT !.at = "done"]
      BY <2>2 DEF AfterConfirmation
    <3>. HIDE DEF cb, old
    <3>. QED BY <1>1, <2>1, <2>2, <3>1 DEF Callbacks, Stages, Ended
  <2>3. CASE old.next # Len(Batch(c))
    <3>1. cb = [old EXCEPT !.at = "sending", !.next = @ + 1, !.tries = 0]
      BY <2>3 DEF AfterConfirmation
    <3>2. old.next + 1 \in Nat
      BY <1>1
    <3>. HIDE DEF cb, old
    <3>. QED BY <1>1, <2>1, <2>3, <3>1, <3>2 DEF Callbacks, Stages, Active
  <2>. QED BY <2>2, <2>3
<1>4. callbacks' = [callbacks EXCEPT ![c] = cb]
  BY DEF Confirmed
<1>5. \A tx \in landed' : tx \in landed /\ tx[1] # c
  <2>1. ASSUME NEW tx \in landed, tx[1] = c
        PROVE  tx = Tx(c)
    BY <1>1, <2>1 DEF RelayerInv, RelayerTypeOK, LandedOK
  <2>. QED BY <2>1 DEF Confirmed, Unwatch
<1>6. old.at \in Active
  BY <1>1 DEF Active
<1>. HIDE DEF cb
<1>7. queue' \in Seq(DOMAIN callbacks) /\ QueueOK'
  BY <1>1, <1>4, SameQueue DEF Confirmed, Unwatch
<1>. HIDE DEF old
<1>8. BatchOf(cb) = BatchOf(old)
  BY <1>3 DEF BatchOf
<1>9. cb.owed /\ cb.at = "done" => Accounted(cb.vaa.order)
  <2>1. SUFFICES ASSUME cb.owed, cb.at = "done" PROVE Accounted(cb.vaa.order)
    OBVIOUS
  <2>2. old.vaa.kind = "finalized" /\ old.next = Len(BatchOf(old))
    BY <1>1, <1>3, <2>1 DEF CallbackOK, OwedOK
  <2>3. KindOf(Tx(c)) = "settle"
    BY <1>1, <2>2, BatchFacts
  <2>. QED BY <1>2, <1>3, <2>3 DEF LandedOK
<1>10. CallbackOK(cb)
  <2>1. cb.at \in Active =>
          /\ cb.next \in 1 .. Len(BatchOf(cb))
          /\ \A i \in 1 .. cb.next - 1 : BatchOf(cb)[i] = "post" => cb.vaa \in posted
    <3>1. SUFFICES ASSUME cb.at = "sending", cb.next = old.next + 1,
                          old.next # Len(BatchOf(old))
                   PROVE  /\ cb.next \in 1 .. Len(BatchOf(cb))
                          /\ \A i \in 1 .. cb.next - 1 :
                                BatchOf(cb)[i] = "post" => cb.vaa \in posted
      BY <1>3 DEF Active
    <3>2. cb.next \in 1 .. Len(BatchOf(cb))
      BY <1>1, <1>8, <3>1
    <3>3. ASSUME NEW i \in 1 .. cb.next - 1, BatchOf(cb)[i] = "post"
          PROVE  cb.vaa \in posted
      <4>1. CASE i = old.next
        BY <1>1, <1>2, <1>3, <1>8, <3>3, <4>1 DEF LandedOK
      <4>2. CASE i # old.next
        <5>1. i \in 1 .. old.next - 1
          BY <1>1, <3>1, <4>2
        <5>. QED BY <1>1, <1>3, <1>6, <1>8, <3>3, <5>1 DEF CallbackOK
      <4>. QED BY <4>1, <4>2
    <3>. QED BY <3>2, <3>3
  <2>2. cb.owed => OwedOK(cb)
    BY <1>1, <1>3, <1>9 DEF CallbackOK, OwedOK
  <2>. QED BY <1>3, <2>1, <2>2 DEF CallbackOK, Unbuilt
<1>11. Becomes(c, cb)
  BY <1>3, <1>4, <1>5 DEF Becomes, Unbuilt, old
<1>12. UNCHANGED <<file, crashes, now, inflight, posted, verified, auction, prepared>>
  BY DEF Confirmed, Unwatch, Idle
<1>. QED BY <1>3, <1>7, <1>10, <1>11, <1>12, CallbackMoves

LEMMA StepInv ==
    ASSUME RelayerInv, NEW c \in DOMAIN callbacks, Step(c)
    PROVE  RelayerInv'
BY AskAuctionInv, PriceAndBuildInv, FetchFastVaaInv, FetchAuctionInv,
   AttestAndBuildInv, SendInv, NotSentInv, ConfirmedInv, ConfirmFailsInv, Zenon
DEF Step

-----------------------------------------------------------------------------
(* The chain and the others move on *)

\* The verify transactions of a batch are those before its posts.
LEMMA VerifyPlace ==
    ASSUME RelayerInv, NEW u \in Nat \X Nat, VerifiedOK(u)
    PROVE  \E k \in 1 .. Chunks : u = <<u[1], 2 * k - 1>>
<1>1. callbacks[u[1]] \in Callbacks
  BY CallbackType DEF VerifiedOK, TxOK
<1>2. \E k \in 1 .. Chunks : u[2] = 2 * k - 1
  BY <1>1, BatchFacts DEF VerifiedOK, TxOK, KindOf
<1>. QED BY <1>2

\* There is a verify transaction for each chunk of the signatures: when as many have
\* succeeded, no other can.
LEMMA VerifiedFull ==
    ASSUME RelayerInv, NEW tx, VerifiedOK(tx), Cardinality(Verified(tx[1])) = Chunks,
           tx \in Nat \X Nat
    PROVE  tx \in verified
<1> DEFINE c == tx[1]
           f == [k \in 1 .. Chunks |-> <<c, 2 * k - 1>>]
           S == {f[k] : k \in 1 .. Chunks}
<1>1. Chunks \in Nat
  BY RelayerAssumption
<1>2. IsFiniteSet(1 .. Chunks) /\ Cardinality(1 .. Chunks) = Chunks
  BY <1>1, FS_Interval
<1>3. f \in Surjection(1 .. Chunks, S)
  BY DEF Surjection
<1>4. IsFiniteSet(S) /\ Cardinality(S) <= Chunks
  <2>. HIDE DEF f, S
  <2>. QED BY <1>2, <1>3, FS_Surjection
<1>5. ASSUME NEW u \in Nat \X Nat, VerifiedOK(u), u[1] = c
      PROVE  u \in S
  BY <1>5, VerifyPlace
<1>6. Verified(c) \cup {tx} \subseteq S
  BY <1>5 DEF RelayerInv, RelayerTypeOK, Verified
<1>. HIDE DEF S, f
<1>7. IsFiniteSet(Verified(c)) /\ IsFiniteSet(Verified(c) \cup {tx})
      /\ Cardinality(Verified(c) \cup {tx}) <= Cardinality(S)
      /\ Cardinality(Verified(c) \cup {tx}) \in Nat /\ Cardinality(S) \in Nat
  <2>1. Verified(c) \subseteq S
    BY <1>6
  <2>2. IsFiniteSet(Verified(c))
    BY <1>4, <2>1, FS_Subset
  <2>3. IsFiniteSet(Verified(c) \cup {tx})
        /\ Cardinality(Verified(c) \cup {tx}) <= Cardinality(S)
    BY <1>4, <1>6, FS_Subset
  <2>. QED BY <1>4, <2>2, <2>3, FS_CardinalityType
<1>8. tx \in Verified(c)
  <2>1. Cardinality(Verified(c) \cup {tx})
           = IF tx \in Verified(c) THEN Cardinality(Verified(c))
             ELSE Cardinality(Verified(c)) + 1
    BY <1>7, FS_AddElement
  <2>2. Cardinality(Verified(c)) = Chunks
    OBVIOUS
  <2>. HIDE DEF c
  <2>. QED BY <1>1, <1>4, <1>7, <2>1, <2>2
<1>. QED BY <1>8 DEF Verified

\* An auction that is completed keeps its winner and can only be settled.
Advances(a, b) ==
    a.status \in {"completed", "settled"} =>
       /\ b.status \in {"completed", "settled"}
       /\ b.winner = a.winner /\ b.penalized = a.penalized
       /\ a.status = "settled" => b.status = "settled"

LEMMA ChainMoves ==
    ASSUME RelayerInv, UNCHANGED <<file, crashes, callbacks, queue>>, now' \in Nat,
           posted \subseteq posted', prepared \subseteq prepared',
           auction' \in [Orders -> Auctions],
           \A o \in Orders : Advances(auction[o], auction'[o]),
           inflight' \subseteq inflight,
           verified' \subseteq Nat \X Nat,
           \A tx \in verified' : tx \in verified \/ VerifiedOK(tx),
           \A c : Cardinality(Verified(c)) = Chunks => Verified(c)' = Verified(c),
           landed' \subseteq Nat \X Nat,
           \A tx \in landed' : tx \in landed \/ LandedOK(tx)'
    PROVE  RelayerInv'
<1>1. RelayerTypeOK'
  BY DEF RelayerInv, RelayerTypeOK
<1>2. QueueOK'
  BY DEF RelayerInv, QueueOK
<1>3. ASSUME NEW o \in Orders, Accounted(o)
      PROVE  Accounted(o)'
  BY <1>3 DEF Advances, Accounted
<1>4. ASSUME NEW c \in DOMAIN callbacks
      PROVE  callbacks[c].vaa.order \in Orders /\ CallbackOK(callbacks[c])
  BY <1>4, CallbackType DEF Callbacks, Vaas
<1>5. ASSUME NEW c \in DOMAIN callbacks'
      PROVE  CallbackOK(callbacks[c])'
  <2> DEFINE cb == callbacks[c]
  <2>1. cb.vaa.order \in Orders /\ CallbackOK(cb) /\ callbacks'[c] = cb
    BY <1>4
  <2>2. cb.owed => OwedOK(cb)'
    <3>1. SUFFICES ASSUME cb.owed PROVE OwedOK(cb)'
      OBVIOUS
    <3>2. OwedOK(cb)
      BY <2>1, <3>1 DEF CallbackOK
    <3>3. Advances(auction[cb.vaa.order], auction'[cb.vaa.order])
      BY <2>1
    <3>. QED BY <1>3, <2>1, <3>2, <3>3 DEF OwedOK, Advances
  <2>. QED BY <2>1, <2>2 DEF CallbackOK
<1>6. ASSUME NEW tx
      PROVE  /\ TxOK(tx)' = TxOK(tx) /\ KindOf(tx)' = KindOf(tx)
             /\ VaaOf(tx)' = VaaOf(tx)
             /\ TxOK(tx) => VaaOf(tx).order \in Orders
  BY <1>4 DEF TxOK, KindOf, VaaOf
<1>7. ASSUME NEW tx \in inflight'
      PROVE  InflightOK(tx)'
  <2>1. InflightOK(tx) /\ TxOK(tx) /\ VaaOf(tx).order \in Orders
    BY <1>6 DEF RelayerInv, InflightOK
  <2>2. Advances(auction[VaaOf(tx).order], auction'[VaaOf(tx).order])
    BY <2>1
  <2>3. Cardinality(Verified(tx[1])) = Chunks => Cardinality(Verified(tx[1]))' = Chunks
    OBVIOUS
  <2>. QED BY <1>6, <2>1, <2>2, <2>3 DEF InflightOK, Advances
<1>8. ASSUME NEW tx \in landed'
      PROVE  LandedOK(tx)'
  <2>1. CASE tx \in landed
    <3>1. LandedOK(tx) /\ TxOK(tx) /\ VaaOf(tx).order \in Orders
      BY <1>6, <2>1 DEF RelayerInv, LandedOK
    <3>. QED BY <1>3, <1>6, <3>1 DEF LandedOK, At
  <2>. QED BY <2>1
<1>9. ASSUME NEW tx \in verified'
      PROVE  VerifiedOK(tx)'
  BY <1>6 DEF RelayerInv, VerifiedOK
<1>. QED BY <1>1, <1>2, <1>5, <1>7, <1>8, <1>9 DEF RelayerInv

\* What a transaction can be.
LEMMA Kinds ==
    ASSUME RelayerInv, NEW tx, TxOK(tx)
    PROVE  KindOf(tx) \in {"verify", "post", "place", "settle"}
<1>1. callbacks[tx[1]] \in Callbacks
  BY CallbackType DEF TxOK
<1> DEFINE b == BatchOf(callbacks[tx[1]])
<1>2. /\ Len(b) \in Nat \ {0} /\ b[Len(b)] \in {"place", "settle"}
      /\ \A i \in 1 .. Len(b) - 1 : b[i] \in {"verify", "post"}
  BY <1>1, BatchFacts
<1>3. tx[2] \in 1 .. Len(b) /\ KindOf(tx) = b[tx[2]]
  BY DEF TxOK, KindOf
<1>. HIDE DEF b
<1>4. tx[2] = Len(b) \/ tx[2] \in 1 .. Len(b) - 1
  BY <1>2, <1>3
<1>. QED BY <1>2, <1>3, <1>4

LEMMA LandAdvances ==
    ASSUME RelayerInv, NEW tx \in inflight, Land(tx)
    PROVE  /\ auction' \in [Orders -> Auctions]
           /\ \A o \in Orders : Advances(auction[o], auction'[o])
           /\ Succeeds(tx) /\ Kind(tx) = "settle" =>
                 auction'[VaaOf(tx).order].status = "settled"
<1>0. PICK v : v = VaaOf(tx)
  OBVIOUS
<1> DEFINE a == auction[v.order]
<1>1. /\ InflightOK(tx) /\ TxOK(tx) /\ tx \in Nat \X Nat
      /\ v.order \in Orders /\ a \in Auctions
      /\ auction \in [Orders -> Auctions]
  <2>1. InflightOK(tx) /\ TxOK(tx) /\ tx \in Nat \X Nat
        /\ auction \in [Orders -> Auctions]
    BY DEF RelayerInv, RelayerTypeOK, InflightOK
  <2>2. callbacks[tx[1]] \in Callbacks
    BY <2>1, CallbackType DEF TxOK
  <2>. QED BY <1>0, <2>1, <2>2 DEF Callbacks, Vaas, VaaOf
<1>2. Kind(tx) = KindOf(tx) /\ KindOf(tx) \in {"verify", "post", "place", "settle"}
      /\ callbacks[tx[1]].vaa = v
  BY <1>0, <1>1, BatchIs, Kinds DEF VaaOf
<1>3. /\ Succeeds(tx) /\ Kind(tx) = "place" => a.status = "none"
      /\ Succeeds(tx) /\ Kind(tx) = "settle" => a.status = "completed"
  BY <1>2 DEF Succeeds
<1>4. /\ auction' \in [Orders -> Auctions]
      /\ \A o \in Orders : Advances(auction[o], auction'[o])
      /\ Succeeds(tx) /\ Kind(tx) = "settle" => auction'[v.order].status = "settled"
  <2>1. CASE ~Succeeds(tx)
    BY <1>1, <2>1 DEF Land, Advances
  <2>2. CASE Succeeds(tx)
    <3> DEFINE b == CASE Kind(tx) = "place"  -> [a EXCEPT !.status = "active", !.winner = Payer]
                      [] Kind(tx) = "settle" -> [a EXCEPT !.status = "settled"]
                      [] OTHER -> a
    <3>1. auction' = [auction EXCEPT ![v.order] = b]
      BY <1>2, <2>2 DEF Land
    <3>2. /\ b \in Auctions /\ Advances(a, b)
          /\ Kind(tx) = "settle" => b.status = "settled"
      <4>1. CASE Kind(tx) = "place"
        <5>1. b = [a EXCEPT !.status = "active", !.winner = Payer]
          BY <4>1
        <5>. HIDE DEF a, b
        <5>. QED BY <1>1, <1>3, <2>2, <4>1, <5>1 DEF Auctions, Advances
      <4>2. CASE Kind(tx) = "settle"
        <5>1. b = [a EXCEPT !.status = "settled"]
          BY <4>2
        <5>. HIDE DEF a, b
        <5>. QED BY <1>1, <1>3, <2>2, <4>2, <5>1 DEF Auctions, Advances
      <4>3. CASE Kind(tx) \notin {"place", "settle"}
        <5>1. b = a
          BY <4>3
        <5>. HIDE DEF a, b
        <5>. QED BY <1>1, <4>3, <5>1 DEF Advances
      <4>. QED BY <4>1, <4>2, <4>3
    <3>. HIDE DEF b
    <3>. QED BY <1>1, <2>2, <3>1, <3>2 DEF Advances
  <2>. QED BY <2>1, <2>2
<1>. QED BY <1>0, <1>4

LEMMA LandInv ==
    ASSUME RelayerInv, NEW tx \in inflight, Land(tx)
    PROVE  RelayerInv'
<1>0. PICK v : v = VaaOf(tx)
  OBVIOUS
<1> DEFINE a == auction[v.order]
<1>1. /\ InflightOK(tx) /\ TxOK(tx) /\ tx \in Nat \X Nat
      /\ v.order \in Orders /\ a \in Auctions
      /\ auction \in [Orders -> Auctions]
  <2>1. InflightOK(tx) /\ TxOK(tx) /\ tx \in Nat \X Nat
        /\ auction \in [Orders -> Auctions]
    BY DEF RelayerInv, RelayerTypeOK, InflightOK
  <2>2. callbacks[tx[1]] \in Callbacks
    BY <2>1, CallbackType DEF TxOK
  <2>. QED BY <1>0, <2>1, <2>2 DEF Callbacks, Vaas, VaaOf
<1>2. Kind(tx) = KindOf(tx) /\ KindOf(tx) \in {"verify", "post", "place", "settle"}
      /\ callbacks[tx[1]].vaa = v
  BY <1>0, <1>1, BatchIs, Kinds DEF VaaOf
<1>4. /\ auction' \in [Orders -> Auctions]
      /\ \A o \in Orders : Advances(auction[o], auction'[o])
      /\ Succeeds(tx) /\ Kind(tx) = "settle" => auction'[v.order].status = "settled"
  BY <1>0, LandAdvances
<1>5. posted \subseteq posted' /\ UNCHANGED <<file, crashes, callbacks, queue, now, prepared>>
      /\ inflight' \subseteq inflight
  BY DEF Land, processVars
<1>6. /\ verified' \subseteq Nat \X Nat
      /\ \A u \in verified' : u \in verified \/ VerifiedOK(u)
      /\ \A c : Cardinality(Verified(c)) = Chunks => Verified(c)' = Verified(c)
  <2>1. CASE Kind(tx) = "verify"
    <3>1. verified' = verified \cup {tx} /\ VerifiedOK(tx)
      BY <1>1, <1>2, <2>1 DEF Land, VerifiedOK
    <3>2. \A c : Cardinality(Verified(c)) = Chunks => Verified(c)' = Verified(c)
      <4>1. SUFFICES ASSUME NEW c, Cardinality(Verified(c)) = Chunks, tx[1] = c
                     PROVE  tx \in verified
        BY <3>1 DEF Verified
      <4>. QED BY <1>1, <3>1, <4>1, VerifiedFull
    <3>. QED BY <1>1, <3>1, <3>2 DEF RelayerInv, RelayerTypeOK
  <2>2. CASE Kind(tx) # "verify"
    BY <2>2 DEF Land, RelayerInv, RelayerTypeOK, Verified
  <2>. QED BY <2>1, <2>2
<1>7. landed' \subseteq Nat \X Nat /\ \A u \in landed' : u \in landed \/ u = tx
  BY <1>1 DEF Land, RelayerInv, RelayerTypeOK
<1>8. ASSUME tx \in landed' \ landed
      PROVE  LandedOK(tx)'
  <2>1. At(tx[1], "confirming") /\ tx[2] = callbacks[tx[1]].next
    <3>1. At(tx[1], "confirming") /\ tx = Tx(tx[1])
      BY <1>8 DEF Land
    <3>2. Tx(tx[1])[2] = callbacks[tx[1]].next
      BY DEF Tx
    <3>. QED BY <3>1, <3>2
  <2>2. Kind(tx) = "post" => v \in posted'
    <3>1. Kind(tx) = "post" => Succeeds(tx)
      BY <1>0, <1>1, <1>2 DEF InflightOK, Succeeds, Verified
    <3>. QED BY <1>2, <3>1 DEF Land
  <2>3. Kind(tx) = "settle" => Accounted(v.order)'
    <3>1. SUFFICES ASSUME Kind(tx) = "settle" PROVE Accounted(v.order)'
      OBVIOUS
    <3>2. /\ v \in posted /\ a.status \in {"completed", "settled"}
          /\ a.penalized \/ a.winner = Payer
      BY <1>0, <1>1, <1>2, <3>1 DEF InflightOK
    <3>3. CASE a.status = "settled"
      BY <1>1, <1>4, <3>3 DEF Advances, Accounted
    <3>4. CASE v.order \in prepared
      BY <1>5, <3>4 DEF Accounted
    <3>5. CASE a.status = "completed" /\ v.order \notin prepared
      <4>1. Succeeds(tx)
        BY <1>2, <3>1, <3>2, <3>5 DEF Succeeds, BeneficiaryAccepted, BeneficiaryIsPayer
      <4>. QED BY <1>4, <3>1, <4>1 DEF Accounted
    <3>. QED BY <3>2, <3>3, <3>4, <3>5
  <2>4. TxOK(tx)' = TxOK(tx) /\ KindOf(tx)' = KindOf(tx) /\ VaaOf(tx)' = v
        /\ At(tx[1], "confirming")' = At(tx[1], "confirming")
    BY <1>0, <1>5 DEF TxOK, KindOf, VaaOf, At
  <2>. QED BY <1>1, <1>2, <1>5, <2>1, <2>2, <2>3, <2>4 DEF LandedOK
<1>9. \A u \in landed' : u \in landed \/ LandedOK(u)'
  BY <1>7, <1>8
<1>10. now' \in Nat
  BY <1>5 DEF RelayerInv, RelayerTypeOK
<1>. QED BY <1>4, <1>5, <1>6, <1>7, <1>9, <1>10, ChainMoves

LEMMA SameRelay ==
    ASSUME RelayerInv, now' \in Nat,
           UNCHANGED <<file, crashes, callbacks, queue, inflight, landed, posted, verified,
                       auction, prepared>>
    PROVE  RelayerInv'
<1>1. /\ auction' \in [Orders -> Auctions] /\ verified' \subseteq Nat \X Nat
      /\ landed' \subseteq Nat \X Nat
  BY DEF RelayerInv, RelayerTypeOK
<1>2. \A o \in Orders : Advances(auction[o], auction'[o])
  BY DEF Advances
<1>3. \A c : Verified(c)' = Verified(c)
  BY DEF Verified
<1>. QED BY <1>1, <1>2, <1>3, ChainMoves

LEMMA OthersPostInv ==
    ASSUME RelayerInv, NEW v \in Vaas, OthersPost(v)
    PROVE  RelayerInv'
<1>1. /\ auction' \in [Orders -> Auctions] /\ verified' \subseteq Nat \X Nat
      /\ landed' \subseteq Nat \X Nat /\ now' \in Nat
  BY DEF RelayerInv, RelayerTypeOK, OthersPost, processVars
<1>2. \A o \in Orders : Advances(auction[o], auction'[o])
  BY DEF Advances, OthersPost
<1>3. \A c : Verified(c)' = Verified(c)
  BY DEF Verified, OthersPost
<1>. QED BY <1>1, <1>2, <1>3, ChainMoves DEF OthersPost, processVars

LEMMA OthersAdvance ==
    ASSUME RelayerInv, NEW o \in Orders, OthersAct(o)
    PROVE  /\ auction' \in [Orders -> Auctions]
           /\ \A p \in Orders : Advances(auction[p], auction'[p])
<1>0. auction \in [Orders -> Auctions] /\ auction[o] \in Auctions
  BY DEF RelayerInv, RelayerTypeOK
<1>1. CASE auction' = auction
  BY <1>0, <1>1 DEF Advances
<1>2. CASE \E w \in KnownOwners \cup {Rival} :
              /\ auction[o].status = "none"
              /\ auction' = [auction EXCEPT ![o].status = "active", ![o].winner = w]
  <2>1. PICK w \in KnownOwners \cup {Rival} :
           auction' = [auction EXCEPT ![o].status = "active", ![o].winner = w]
    BY <1>2
  <2>. QED BY <1>0, <1>2, <2>1 DEF Auctions, Advances
<1>3. CASE \E penalized \in BOOLEAN :
              /\ auction[o].status = "active"
              /\ auction' = [auction EXCEPT ![o].status = "completed",
                                            ![o].penalized = penalized]
  <2>1. PICK penalized \in BOOLEAN :
           auction' = [auction EXCEPT ![o].status = "completed",
                                      ![o].penalized = penalized]
    BY <1>3
  <2>. QED BY <1>0, <1>3, <2>1 DEF Auctions, Advances
<1>4. CASE auction[o].status = "completed"
           /\ auction' = [auction EXCEPT ![o].status = "settled"]
  BY <1>0, <1>4 DEF Auctions, Advances
<1>. QED BY <1>1, <1>2, <1>3, <1>4 DEF OthersAct

LEMMA OthersActInv ==
    ASSUME RelayerInv, NEW o \in Orders, OthersAct(o)
    PROVE  RelayerInv'
<1>1. /\ verified' \subseteq Nat \X Nat /\ landed' \subseteq Nat \X Nat /\ now' \in Nat
      /\ prepared \subseteq prepared'
  BY DEF RelayerInv, RelayerTypeOK, OthersAct, processVars
<1>2. \A c : Verified(c)' = Verified(c)
  BY DEF Verified, OthersAct
<1>. QED BY <1>1, <1>2, OthersAdvance, ChainMoves DEF OthersAct, processVars

\* The process ends: what runs is lost, and what was sent may land yet.
LEMMA CrashInv ==
    ASSUME RelayerInv, Crash
    PROVE  RelayerInv'
<1>1. /\ callbacks \in Seq(Callbacks) /\ crashes' \in Nat /\ now' \in Nat
      /\ callbacks' = [c \in DOMAIN callbacks |->
                         IF Running(c) THEN [callbacks[c] EXCEPT !.at = "lost"]
                         ELSE callbacks[c]]
      /\ queue' = <<>> /\ landed' = {}
      /\ UNCHANGED <<file, inflight, posted, verified, auction, prepared>>
  BY DEF RelayerInv, RelayerTypeOK, Crash
<1>2. ASSUME NEW c \in DOMAIN callbacks
      PROVE  /\ callbacks'[c] \in Callbacks
             /\ callbacks'[c].at \in Ended
             /\ callbacks'[c].at = "lost" \/ callbacks'[c].at = callbacks[c].at
             /\ callbacks'[c].vaa = callbacks[c].vaa
             /\ callbacks'[c].isPosted = callbacks[c].isPosted
             /\ callbacks'[c].owed = callbacks[c].owed
             /\ CallbackOK(callbacks[c])
  <2>1. callbacks[c] \in Callbacks /\ CallbackOK(callbacks[c])
    BY CallbackType
  <2>2. callbacks'[c] = IF callbacks[c].at \notin Ended
                        THEN [callbacks[c] EXCEPT !.at = "lost"] ELSE callbacks[c]
    BY <1>1 DEF Running
  <2>3. CASE callbacks[c].at \notin Ended
    BY <2>1, <2>2, <2>3 DEF Callbacks, Stages, Ended
  <2>4. CASE callbacks[c].at \in Ended
    BY <2>1, <2>2, <2>4
  <2>. QED BY <2>3, <2>4
<1>3. callbacks' \in Seq(Callbacks) /\ DOMAIN callbacks' = DOMAIN callbacks
  BY <1>1, <1>2
<1>4. RelayerTypeOK'
  BY <1>1, <1>3 DEF RelayerInv, RelayerTypeOK
<1>5. QueueOK'
  BY <1>1 DEF QueueOK
<1>6. ASSUME NEW c \in DOMAIN callbacks'
      PROVE  CallbackOK(callbacks[c])'
  <2>1. CallbackOK(callbacks'[c])
    BY <1>2, <1>3 DEF CallbackOK, OwedOK, Ended, Unbuilt, Active
  <2>. QED BY <1>1, <2>1 DEF CallbackOK, OwedOK, Accounted
<1>7. ASSUME NEW tx, TxOK(tx)
      PROVE  TxOK(tx)' /\ KindOf(tx)' = KindOf(tx) /\ VaaOf(tx)' = VaaOf(tx)
  <2>1. BatchOf(callbacks'[tx[1]]) = BatchOf(callbacks[tx[1]])
    BY <1>2, <1>7 DEF TxOK, BatchOf
  <2>. QED BY <1>2, <1>3, <1>7, <2>1 DEF TxOK, KindOf, VaaOf, Unbuilt, Ended
<1>8. ASSUME NEW tx \in inflight'
      PROVE  InflightOK(tx)'
  <2>1. InflightOK(tx)
    BY <1>1 DEF RelayerInv
  <2>. QED BY <1>1, <1>7, <2>1 DEF InflightOK, Verified
<1>9. ASSUME NEW tx \in verified'
      PROVE  VerifiedOK(tx)'
  BY <1>1, <1>7 DEF RelayerInv, VerifiedOK
<1>. QED BY <1>1, <1>4, <1>5, <1>6, <1>8, <1>9 DEF RelayerInv

\* A fast VAA is one of fast finality: its chain has an endpoint if the spy lets it
\* through, and is an Evm chain.
LEMMA FastIsFast ==
    ASSUME NEW v \in Vaas, EmitterFilterForSpy(file, Envelope(v))
    PROVE  IsFastFinality(file, Envelope(v)) <=> v.kind = "fast"
BY RelayerAssumption DEF EmitterFilterForSpy, IsFastFinality, Envelope, Vaas

\* A callback begins.
Begins(v, cb) ==
    /\ cb.vaa = v /\ cb.run = crashes /\ cb \in Callbacks /\ CallbackOK(cb)
    /\ cb.at \in {"starting", "waiting", "ignored"} /\ ~cb.isPosted
    /\ v.kind = "fast" /\ now - emitted[v] > DelayedVaaThreshold => cb.at = "ignored"

LEMMA NewCallback ==
    ASSUME RelayerInv, NEW v \in Vaas, OnObservation(v)
    PROVE  \E cb : callbacks' = Append(callbacks, cb) /\ Begins(v, cb)
<1> DEFINE stale == now - emitted[v] > DelayedVaaThreshold
           start == IF ~IsFastFinality(file, Envelope(v)) THEN "waiting"
                    ELSE IF stale THEN "ignored" ELSE "starting"
           owed == /\ v.kind = "finalized"
                   /\ MaxRetries(file) > 0
                   /\ Settles(v.order)
           cb == [vaa |-> v, at |-> start, isPosted |-> FALSE,
                  next |-> 1, tries |-> 0, run |-> crashes, owed |-> owed]
<1>1. callbacks' = Append(callbacks, cb)
  BY DEF OnObservation
<1>2. /\ v.kind = "finalized" => start = "waiting"
      /\ v.kind = "fast" => start = IF stale THEN "ignored" ELSE "starting"
      /\ v.kind \in {"fast", "finalized"}
  BY FastIsFast DEF OnObservation, Vaas
<1>3. owed \in BOOLEAN /\ crashes \in Nat
  BY DEF RelayerInv, RelayerTypeOK
<1>4. owed => /\ v.kind = "finalized" /\ MaxRetries(file) > 0
              /\ auction[v.order].status = "completed"
              /\ RecognizedTokenAccount(file, auction[v.order].winner)
  BY DEF Settles
<1>. HIDE DEF owed, start, stale
<1>5. /\ cb.vaa = v /\ cb.at = start /\ cb.next = 1 /\ cb.run = crashes
      /\ cb.owed = owed /\ cb.isPosted = FALSE
      /\ start \in {"starting", "waiting", "ignored"}
  BY <1>2
<1>6. cb \in Callbacks
  BY <1>2, <1>3 DEF Callbacks, Stages, Unbuilt, Ended
<1>. HIDE DEF cb
<1>7. CallbackOK(cb)
  BY <1>2, <1>4, <1>5 DEF CallbackOK, OwedOK, Active
<1>8. Begins(v, cb)
  BY <1>2, <1>5, <1>6, <1>7 DEF Begins, stale
<1>. QED BY <1>1, <1>8

LEMMA OnObservationInv ==
    ASSUME RelayerInv, NEW v \in Vaas, OnObservation(v)
    PROVE  RelayerInv'
<1>1. PICK cb : callbacks' = Append(callbacks, cb) /\ Begins(v, cb)
  BY NewCallback
<1>2. /\ callbacks \in Seq(Callbacks) /\ callbacks' \in Seq(Callbacks)
      /\ queue \in Seq(DOMAIN callbacks)
  BY <1>1 DEF RelayerInv, RelayerTypeOK, Begins
<1>3. /\ DOMAIN callbacks \subseteq DOMAIN callbacks'
      /\ \A c \in DOMAIN callbacks : callbacks'[c] = callbacks[c]
      /\ \A c \in DOMAIN callbacks' : c \in DOMAIN callbacks \/ callbacks'[c] = cb
  BY <1>1, <1>2
<1>4. UNCHANGED <<file, crashes, now, queue, inflight, landed, posted, verified, auction,
                  prepared>>
  BY DEF OnObservation, chainVars
<1>5. \A i \in DOMAIN queue : queue[i] \in DOMAIN callbacks
  BY <1>2
<1>6. RelayerTypeOK'
  <2>1. queue \in Seq(DOMAIN callbacks')
    BY <1>2, <1>3, <1>5
  <2>. QED BY <1>2, <1>4, <2>1 DEF RelayerInv, RelayerTypeOK
<1>7. QueueOK'
  BY <1>3, <1>4, <1>5 DEF RelayerInv, QueueOK
<1>8. ASSUME NEW c \in DOMAIN callbacks'
      PROVE  CallbackOK(callbacks[c])'
  <2>1. CallbackOK(callbacks'[c])
    BY <1>1, <1>3 DEF RelayerInv, Begins
  <2>. QED BY <1>4, <2>1 DEF CallbackOK, OwedOK, Accounted
<1>9. ASSUME NEW tx, TxOK(tx)
      PROVE  /\ TxOK(tx)' /\ KindOf(tx)' = KindOf(tx) /\ VaaOf(tx)' = VaaOf(tx)
             /\ callbacks'[tx[1]] = callbacks[tx[1]]
  BY <1>3, <1>9 DEF TxOK, KindOf, VaaOf
<1>10. ASSUME NEW tx \in inflight'
       PROVE  InflightOK(tx)'
  <2>1. InflightOK(tx)
    BY <1>4 DEF RelayerInv
  <2>. QED BY <1>4, <1>9, <2>1 DEF InflightOK, Verified
<1>11. ASSUME NEW tx \in landed'
       PROVE  LandedOK(tx)'
  <2>1. LandedOK(tx)
    BY <1>4 DEF RelayerInv
  <2>. QED BY <1>4, <1>9, <2>1 DEF LandedOK, At, Accounted
<1>12. ASSUME NEW tx \in verified'
       PROVE  VerifiedOK(tx)'
  BY <1>4, <1>9 DEF RelayerInv, VerifiedOK
<1>. QED BY <1>6, <1>7, <1>8, <1>10, <1>11, <1>12 DEF RelayerInv

LEMMA RelayerInit == Init => RelayerInv
<1> SUFFICES ASSUME Init PROVE RelayerInv
  OBVIOUS
<1>1. NoAuction \in Auctions
  BY DEF NoAuction, Auctions
<1>2. RelayerTypeOK
  BY <1>1 DEF Init, RelayerTypeOK
<1>. QED BY <1>2 DEF Init, RelayerInv, QueueOK

LEMMA RelayerNext == RelayerInv /\ [Next]_vars => RelayerInv'
<1> SUFFICES ASSUME RelayerInv, [Next]_vars PROVE RelayerInv'
  OBVIOUS
<1>0. now \in Nat
  BY DEF RelayerInv, RelayerTypeOK
<1>1. ASSUME NEW v \in Vaas, Emit(v)
      PROVE  RelayerInv'
  BY <1>0, <1>1, SameRelay DEF Emit, processVars
<1>2. ASSUME NEW v \in Vaas, OnObservation(v)
      PROVE  RelayerInv'
  BY <1>2, OnObservationInv
<1>3. ASSUME NEW v \in Vaas, OthersPost(v)
      PROVE  RelayerInv'
  BY <1>3, OthersPostInv
<1>4. ASSUME NEW c \in DOMAIN callbacks, Step(c)
      PROVE  RelayerInv'
  BY <1>4, StepInv
<1>5. ASSUME NEW tx \in inflight, Land(tx)
      PROVE  RelayerInv'
  BY <1>5, LandInv
<1>6. ASSUME NEW o \in Orders, OthersAct(o)
      PROVE  RelayerInv'
  BY <1>6, OthersActInv
<1>7. CASE StartBatch
  BY <1>7, StartBatchInv
<1>8. CASE Tick
  BY <1>0, <1>8, SameRelay DEF Tick, chainVars
<1>9. CASE Forget
  BY <1>0, <1>9, SameRelay DEF Forget, chainVars
<1>10. CASE Crash
  BY <1>10, CrashInv
<1>11. CASE Restart
  BY <1>0, <1>11, SameRelay DEF Restart, chainVars
<1>12. CASE UNCHANGED vars
  BY <1>0, <1>12, SameRelay DEF vars, processVars, chainVars
<1>. QED BY <1>1, <1>2, <1>3, <1>4, <1>5, <1>6, <1>7, <1>8, <1>9, <1>10, <1>11, <1>12
         DEF Next

LEMMA RelayerInvariant == Spec => []RelayerInv
BY RelayerInit, RelayerNext, PTL DEF Spec

\* An offer or a settlement is sent only once the VAA it redeems is posted, whatever
\* was repeated, expired, or landed late (sendTx.ts, the batches of vaaAuctionRelayer).
THEOREM SentAfterItsVaaHolds == Spec => []SentAfterItsVaa
<1>1. RelayerInv => SentAfterItsVaa
  <2>1. SUFFICES ASSUME RelayerInv, NEW tx \in inflight, Kind(tx) \in {"place", "settle"}
                 PROVE  callbacks[tx[1]].vaa \in posted
    BY DEF SentAfterItsVaa
  <2>2. InflightOK(tx)
    BY <2>1 DEF RelayerInv
  <2>3. Kind(tx) = KindOf(tx)
    BY BatchIs, Zenon
  <2>. QED BY <2>1, <2>2, <2>3 DEF InflightOK, VaaOf
<1>. QED BY <1>1, RelayerInvariant, PTL

-----------------------------------------------------------------------------
(* What the preflight refuses *)

\* Somebody settled, or prepared the response, or the relayer names another beneficiary,
\* or the post came between two verifications.
RightlyRefused(cb) ==
    \/ Accounted(cb.vaa.order)
    \/ ~BeneficiaryIsPayer(cb.vaa.order)
    \/ BatchOf(cb)[cb.next] = "post" /\ cb.next < 2 * Chunks

\* The verify transactions of the batch cb of callback c that are behind it succeeded.
VerifiedBehind(c, cb) ==
    \A i \in 1 .. cb.next - 1 : BatchOf(cb)[i] = "verify" => <<c, i>> \in verified

RefusedOK(c, cb) ==
    /\ cb.isPosted => cb.vaa \in posted
    /\ cb.at \in Active => VerifiedBehind(c, cb)
    /\ cb.owed /\ cb.at = "refused" => RightlyRefused(cb)

RefusedInv ==
    /\ \A c \in DOMAIN callbacks : RefusedOK(c, callbacks[c])
    /\ \A tx \in landed : KindOf(tx) = "verify" => tx \in verified

\* The last post of a batch has all the signatures.
LEMMA AllVerified ==
    ASSUME RelayerInv, NEW c \in DOMAIN callbacks, ~callbacks[c].isPosted,
           callbacks[c].next = 2 * Chunks, VerifiedBehind(c, callbacks[c])
    PROVE  Cardinality(Verified(c)) = Chunks
<1> DEFINE f == [k \in 1 .. Chunks |-> <<c, 2 * k - 1>>]
           S == {f[k] : k \in 1 .. Chunks}
<1>1. Chunks \in Nat
  BY RelayerAssumption
<1>2. IsFiniteSet(1 .. Chunks) /\ Cardinality(1 .. Chunks) = Chunks
  BY <1>1, FS_Interval
<1>3. f \in Surjection(1 .. Chunks, S) /\ f \in Injection(1 .. Chunks, S)
  <2>1. \A j, k \in 1 .. Chunks : f[j] = f[k] => j = k
    BY <1>1
  <2>. QED BY <2>1 DEF Surjection, Injection, IsInjective
<1>4. Cardinality(S) = Chunks
  <2>. HIDE DEF f, S
  <2>. QED BY <1>2, <1>3, FS_Surjection
<1>5. Verified(c) \subseteq S
  <2>1. ASSUME NEW u \in verified, u[1] = c
        PROVE  u \in S
    <3>1. u \in Nat \X Nat /\ VerifiedOK(u)
      BY DEF RelayerInv, RelayerTypeOK
    <3>. QED BY <2>1, <3>1, VerifyPlace
  <2>. HIDE DEF S
  <2>. QED BY <2>1 DEF Verified
<1>6. S \subseteq Verified(c)
  <2>1. ASSUME NEW k \in 1 .. Chunks
        PROVE  <<c, 2 * k - 1>> \in Verified(c)
    <3> DEFINE i == 2 * k - 1
    <3>1. i \in 1 .. 2 * Chunks /\ i \in 1 .. callbacks[c].next - 1
      BY <1>1
    <3>2. BatchOf(callbacks[c])[i] = "verify"
      BY VerifyAt, CallbackType DEF BatchOf, Callbacks
    <3>. HIDE DEF i
    <3>3. <<c, i>> \in verified
      BY <3>1, <3>2 DEF VerifiedBehind
    <3>. QED BY <3>3 DEF Verified, i
  <2>. QED BY <2>1
<1>7. Verified(c) = S
  <2>. HIDE DEF S
  <2>. QED BY <1>5, <1>6
<1>. QED BY <1>4, <1>7

\* What the preflight refuses to a callback that owes a settlement.
LEMMA RefusalIsRight ==
    ASSUME RelayerInv, RefusedInv, NEW c \in DOMAIN callbacks, PreflightFails(c),
           callbacks[c].owed
    PROVE  RightlyRefused(callbacks[c])
<1> DEFINE b == BatchOf(callbacks[c])
           n == Len(b)
           next == callbacks[c].next
           v == callbacks[c].vaa
<1>1. /\ callbacks[c] \in Callbacks /\ CallbackOK(callbacks[c])
      /\ callbacks[c].at = "sending" /\ ~Succeeds(Tx(c))
      /\ next \in 1 .. n /\ n \in Nat \ {0}
      /\ Tx(c) = <<c, next>> /\ Kind(Tx(c)) = b[next]
  BY Position, BatchIs DEF PreflightFails, At, Active
<1>2. /\ OwedOK(callbacks[c]) /\ v.kind = "finalized"
      /\ RefusedOK(c, callbacks[c]) /\ VerifiedBehind(c, callbacks[c])
      /\ \A i \in 1 .. next - 1 : b[i] = "post" => v \in posted
  BY <1>1 DEF CallbackOK, OwedOK, RefusedInv, RefusedOK, Active
<1>3. /\ n = IF callbacks[c].isPosted THEN 1 ELSE 2 * Chunks + 1
      /\ b[n] = "settle"
      /\ \A i \in 1 .. n - 1 : b[i] \in {"verify", "post"}
      /\ ~callbacks[c].isPosted => b[n - 1] = "post"
  BY <1>1, <1>2, BatchFacts
<1>4. Tx(c)[1] = c
  BY <1>1
<1>5. Chunks \in Nat \ {0}
  BY RelayerAssumption
<1>. HIDE DEF b, n, next, v
<1>6. CASE next = n
  <2>1. v \in posted
    <3>1. CASE callbacks[c].isPosted
      BY <1>2, <3>1 DEF RefusedOK, v
    <3>2. CASE ~callbacks[c].isPosted
      <4>1. n - 1 \in 1 .. next - 1
        BY <1>1, <1>3, <1>5, <1>6, <3>2
      <4>. QED BY <1>2, <1>3, <3>2, <4>1
    <3>. QED BY <3>1, <3>2
  <2>2. Kind(Tx(c)) = "settle"
    BY <1>1, <1>3, <1>6
  <2>3. auction[v.order].status # "completed" \/ ~BeneficiaryAccepted(v.order)
    BY <1>1, <1>4, <2>1, <2>2 DEF Succeeds, v
  <2>. QED BY <1>2, <2>3 DEF RightlyRefused, BeneficiaryAccepted, Accounted, OwedOK, v
<1>7. CASE next # n
  <2>1. next \in 1 .. n - 1 /\ b[next] \in {"verify", "post"} /\ b[next] # "verify"
    <3>1. next \in 1 .. n - 1
      BY <1>1, <1>7
    <3>2. Kind(Tx(c)) # "verify"
      BY <1>1 DEF Succeeds
    <3>. QED BY <1>1, <1>3, <3>1, <3>2
  <2>2. ~callbacks[c].isPosted /\ next \in 1 .. 2 * Chunks
    BY <1>3, <1>5, <2>1
  <2>3. next # 2 * Chunks
    <3>1. SUFFICES ASSUME next = 2 * Chunks PROVE FALSE
      OBVIOUS
    <3>2. Cardinality(Verified(c)) = Chunks
      BY <1>2, <2>2, <3>1, AllVerified DEF next
    <3>3. Kind(Tx(c)) = "post"
      BY <1>1, <2>1
    <3>. QED BY <1>1, <1>4, <3>2, <3>3 DEF Succeeds, Verified
  <2>4. next < 2 * Chunks
    BY <1>5, <2>2, <2>3
  <2>. QED BY <2>1, <2>4 DEF RightlyRefused, b, next
<1>. QED BY <1>6, <1>7

\* One callback becomes cb, and nothing else changes but what is waited for.
LEMMA MoveRefused ==
    ASSUME RelayerInv, RefusedInv, NEW c \in DOMAIN callbacks, NEW cb,
           callbacks' = [callbacks EXCEPT ![c] = cb],
           \/ BatchOf(cb) = BatchOf(callbacks[c]) /\ cb.vaa = callbacks[c].vaa
           \/ \A tx \in landed' : tx[1] # c,
           RefusedOK(c, cb), landed' \subseteq landed,
           UNCHANGED <<posted, verified, auction, prepared>>
    PROVE  RefusedInv'
<1>1. /\ DOMAIN callbacks' = DOMAIN callbacks /\ callbacks'[c] = cb
      /\ \A d \in DOMAIN callbacks \ {c} : callbacks'[d] = callbacks[d]
  OBVIOUS
<1>2. ASSUME NEW d \in DOMAIN callbacks'
      PROVE  RefusedOK(d, callbacks[d])'
  <2>1. RefusedOK(d, callbacks'[d])
    BY <1>1 DEF RefusedInv
  <2>. QED BY <2>1 DEF RefusedOK, VerifiedBehind, RightlyRefused, Accounted, BeneficiaryIsPayer
<1>3. ASSUME NEW tx \in landed', KindOf(tx)' = "verify"
      PROVE  tx \in verified'
  <2>1. tx \in landed /\ tx[1] \in DOMAIN callbacks
    BY DEF RelayerInv, LandedOK, TxOK
  <2>2. BatchOf(callbacks'[tx[1]]) = BatchOf(callbacks[tx[1]])
    BY <1>1, <2>1
  <2>3. KindOf(tx)' = KindOf(tx)
    BY <2>2 DEF KindOf, BatchOf
  <2>. QED BY <1>3, <2>1, <2>3 DEF RefusedInv
<1>. QED BY <1>2, <1>3 DEF RefusedInv

\* Before its batch is sent, a callback has sent and been refused nothing.
LEMMA EarlyRefused ==
    ASSUME RelayerInv, RefusedInv, NEW c \in DOMAIN callbacks, NEW cb,
           callbacks[c].at \in Unbuilt \cup {"queued"},
           callbacks' = [callbacks EXCEPT ![c] = cb],
           cb.isPosted => cb.vaa \in posted, cb.at # "refused",
           cb.at \in Active => cb.next = 1,
           UNCHANGED <<landed, posted, verified, auction, prepared>>
    PROVE  RefusedInv'
<1>1. \A tx \in landed' : tx[1] # c
  BY NothingLanded DEF Unbuilt
<1>2. RefusedOK(c, cb)
  BY DEF RefusedOK, VerifiedBehind
<1>. QED BY <1>1, <1>2, MoveRefused

LEMMA GotoRefused ==
    ASSUME RelayerInv, RefusedInv, NEW c \in DOMAIN callbacks,
           callbacks[c].at \in Unbuilt \cup {"queued"},
           NEW stage \in Stages \ {"refused"}, Goto(c, stage),
           UNCHANGED <<landed, posted, verified, auction, prepared>>
    PROVE  RefusedInv'
<1> DEFINE cb == [callbacks[c] EXCEPT !.at = stage]
<1>1. /\ callbacks[c] \in Callbacks /\ CallbackOK(callbacks[c])
      /\ RefusedOK(c, callbacks[c])
  BY CallbackType DEF RefusedInv
<1>2. /\ callbacks' = [callbacks EXCEPT ![c] = cb]
      /\ cb.isPosted => cb.vaa \in posted
      /\ cb.at # "refused" /\ cb.next = 1
  BY <1>1 DEF Goto, Callbacks, CallbackOK, RefusedOK
<1>. HIDE DEF cb
<1>. QED BY <1>2, EarlyRefused

LEMMA QueueBatchRefused ==
    ASSUME RelayerInv, RefusedInv, NEW c \in DOMAIN callbacks, callbacks[c].at \in Unbuilt,
           QueueBatch(c), UNCHANGED chainVars
    PROVE  RefusedInv'
<1> DEFINE cb == [callbacks[c] EXCEPT !.at = "queued",
                                      !.isPosted = callbacks[c].vaa \in posted]
<1>1. callbacks[c] \in Callbacks
  BY CallbackType
<1>2. /\ callbacks' = [callbacks EXCEPT ![c] = cb]
      /\ cb.isPosted => cb.vaa \in posted
      /\ cb.at = "queued"
  BY <1>1 DEF QueueBatch, Callbacks
<1>. HIDE DEF cb
<1>. QED BY <1>2, EarlyRefused DEF Active, chainVars

\* A transaction failed: the callback stays where it is in its batch, or ends.
LEMMA FailureRefused ==
    ASSUME RelayerInv, RefusedInv, NEW c \in DOMAIN callbacks, callbacks[c].at \in Active,
           NEW end \in {"refused", "stopped"},
           callbacks' = [callbacks EXCEPT ![c] = AfterFailure(c, end)],
           end = "refused" /\ callbacks[c].owed => RightlyRefused(callbacks[c]),
           landed' \subseteq landed,
           UNCHANGED <<posted, verified, auction, prepared>>
    PROVE  RefusedInv'
<1> DEFINE cb == AfterFailure(c, end)
<1>1. callbacks[c] \in Callbacks /\ RefusedOK(c, callbacks[c])
  BY CallbackType DEF RefusedInv
<1>2. /\ cb.isPosted = callbacks[c].isPosted /\ cb.vaa = callbacks[c].vaa
      /\ cb.owed = callbacks[c].owed /\ cb.next = callbacks[c].next
      /\ cb.at \in {"sending", end}
  <2>1. \/ cb = [callbacks[c] EXCEPT !.at = "sending", !.tries = @ + 1]
        \/ cb = [callbacks[c] EXCEPT !.at = end]
    BY Zenon DEF AfterFailure
  <2>. HIDE DEF cb
  <2>. QED BY <1>1, <2>1 DEF Callbacks
<1>. HIDE DEF cb
<1>3. BatchOf(cb) = BatchOf(callbacks[c])
  BY <1>2 DEF BatchOf
<1>4. RefusedOK(c, cb)
  BY <1>1, <1>2, <1>3 DEF RefusedOK, VerifiedBehind, RightlyRefused, Active
<1>5. callbacks' = [callbacks EXCEPT ![c] = cb]
  BY DEF cb
<1>. QED BY <1>2, <1>3, <1>4, <1>5, MoveRefused

\* A transaction was sent, or its confirmation came: the next one follows.
LEMMA SendRefused ==
    ASSUME RelayerInv, RefusedInv, NEW c \in DOMAIN callbacks, Send(c)
    PROVE  RefusedInv'
<1> DEFINE cb == [callbacks[c] EXCEPT !.at = "confirming"]
<1>1. /\ callbacks[c] \in Callbacks /\ RefusedOK(c, callbacks[c])
      /\ callbacks[c].at = "sending"
  BY CallbackType DEF RefusedInv, Send, At
<1>2. /\ callbacks' = [callbacks EXCEPT ![c] = cb]
      /\ cb.isPosted = callbacks[c].isPosted /\ cb.vaa = callbacks[c].vaa
      /\ cb.next = callbacks[c].next /\ cb.at = "confirming"
  BY <1>1 DEF Send, Goto, Callbacks
<1>. HIDE DEF cb
<1>3. BatchOf(cb) = BatchOf(callbacks[c])
  BY <1>2 DEF BatchOf
<1>4. RefusedOK(c, cb)
  BY <1>1, <1>2, <1>3 DEF RefusedOK, VerifiedBehind, Active
<1>5. UNCHANGED <<landed, posted, verified, auction, prepared>>
  BY DEF Send, Idle
<1>. QED BY <1>2, <1>3, <1>4, <1>5, MoveRefused

LEMMA ConfirmedRefused ==
    ASSUME RelayerInv, RefusedInv, NEW c \in DOMAIN callbacks, Confirmed(c)
    PROVE  RefusedInv'
<1> DEFINE old == callbacks[c]
           cb == AfterConfirmation(c)
<1>1. /\ old \in Callbacks /\ RefusedOK(c, old) /\ old.at = "confirming"
      /\ old.next \in 1 .. Len(BatchOf(old)) /\ old.next \in Nat
      /\ Tx(c) = <<c, old.next>> /\ KindOf(Tx(c)) = BatchOf(old)[old.next]
      /\ Tx(c) \in landed
  BY Position DEF RefusedInv, Confirmed, At, Active
<1>2. /\ cb.isPosted = old.isPosted /\ cb.vaa = old.vaa
      /\ cb.at = "done" \/ (cb.at = "sending" /\ cb.next = old.next + 1)
  <2>1. \/ cb = [old EXCEPT !.at = "done"]
        \/ cb = [old EXCEPT !.at = "sending", !.next = @ + 1, !.tries = 0]
    BY Zenon DEF AfterConfirmation
  <2>. HIDE DEF cb, old
  <2>2. CASE cb = [old EXCEPT !.at = "done"]
    BY <1>1, <2>2 DEF Callbacks
  <2>3. CASE cb = [old EXCEPT !.at = "sending", !.next = @ + 1, !.tries = 0]
    BY <1>1, <2>3 DEF Callbacks
  <2>. QED BY <2>1, <2>2, <2>3
<1>3. callbacks' = [callbacks EXCEPT ![c] = cb]
  BY DEF Confirmed
<1>4. UNCHANGED <<posted, verified, auction, prepared>> /\ landed' \subseteq landed
  BY DEF Confirmed, Idle, Unwatch
<1>5. KindOf(Tx(c)) = "verify" => Tx(c) \in verified
  BY <1>1 DEF RefusedInv
<1>. HIDE DEF cb, old
<1>6. BatchOf(cb) = BatchOf(old)
  BY <1>2 DEF BatchOf
<1>7. RefusedOK(c, cb)
  <2>1. cb.at \in Active => VerifiedBehind(c, cb)
    <3>1. SUFFICES ASSUME cb.next = old.next + 1, NEW i \in 1 .. cb.next - 1,
                          BatchOf(cb)[i] = "verify"
                   PROVE  <<c, i>> \in verified
      BY <1>2 DEF Active, VerifiedBehind
    <3>2. CASE i = old.next
      BY <1>1, <1>5, <1>6, <3>1, <3>2
    <3>3. CASE i # old.next
      <4>1. i \in 1 .. old.next - 1
        BY <1>1, <3>1, <3>3
      <4>. QED BY <1>1, <1>6, <3>1, <4>1 DEF RefusedOK, VerifiedBehind, Active
    <3>. QED BY <3>2, <3>3
  <2>. QED BY <1>1, <1>2, <2>1 DEF RefusedOK
<1>. QED BY <1>2, <1>3, <1>4, <1>6, <1>7, MoveRefused DEF old

LEMMA StepRefused ==
    ASSUME RelayerInv, RefusedInv, NEW c \in DOMAIN callbacks, Step(c)
    PROVE  RefusedInv'
<1>1. CASE AskAuction(c)
  BY <1>1, GotoRefused DEF AskAuction, At, chainVars, Unbuilt, Stages, Ended
<1>2. CASE FetchFastVaa(c)
  BY <1>2, GotoRefused DEF FetchFastVaa, At, chainVars, Unbuilt, Stages, Ended
<1>3. CASE FetchAuction(c)
  BY <1>3, GotoRefused DEF FetchAuction, At, chainVars, Unbuilt, Stages, Ended
<1>4. CASE PriceAndBuild(c)
  BY <1>4, GotoRefused, QueueBatchRefused
     DEF PriceAndBuild, At, chainVars, Unbuilt, Stages, Ended
<1>5. CASE AttestAndBuild(c)
  BY <1>5, QueueBatchRefused DEF AttestAndBuild, At, Unbuilt
<1>6. CASE PreflightFails(c)
  BY <1>6, FailureRefused, RefusalIsRight DEF PreflightFails, At, Active, chainVars
<1>7. CASE SendFails(c)
  BY <1>7, FailureRefused DEF SendFails, At, Active, chainVars
<1>8. CASE ConfirmFails(c)
  BY <1>8, FailureRefused DEF ConfirmFails, At, Active, Unwatch
<1>. QED BY <1>1, <1>2, <1>3, <1>4, <1>5, <1>6, <1>7, <1>8, SendRefused, ConfirmedRefused
         DEF Step

LEMMA StartBatchRefused ==
    ASSUME RelayerInv, RefusedInv, StartBatch
    PROVE  RefusedInv'
<1>1. queue \in Seq(DOMAIN callbacks) /\ queue # <<>>
  BY DEF RelayerInv, RelayerTypeOK, StartBatch
<1>2. Head(queue) \in DOMAIN callbacks /\ Head(queue) = queue[1] /\ 1 \in DOMAIN queue
  BY <1>1
<1>3. callbacks[Head(queue)].at = "queued"
  BY <1>2 DEF RelayerInv, QueueOK
<1>. QED BY <1>2, <1>3, GotoRefused DEF StartBatch, Goto, chainVars, Stages, Active

\* The chain moves on: what was done stays done.
LEMMA ChainRefused ==
    ASSUME RelayerInv, RefusedInv, UNCHANGED callbacks,
           posted \subseteq posted', verified \subseteq verified',
           prepared \subseteq prepared',
           \A o \in Orders : Advances(auction[o], auction'[o]),
           \A tx \in landed' : tx \in landed \/ (KindOf(tx) = "verify" => tx \in verified')
    PROVE  RefusedInv'
<1>1. ASSUME NEW c \in DOMAIN callbacks, callbacks[c].owed, RightlyRefused(callbacks[c])
      PROVE  RightlyRefused(callbacks[c])'
  <2> DEFINE o == callbacks[c].vaa.order
  <2>1. /\ o \in Orders /\ CallbackOK(callbacks[c])
    BY CallbackType DEF Callbacks, Vaas
  <2>2. auction[o].status \in {"completed", "settled"} /\ Advances(auction[o], auction'[o])
    BY <1>1, <2>1 DEF CallbackOK, OwedOK
  <2>3. BatchOf(callbacks[c])' = BatchOf(callbacks[c])
    BY DEF BatchOf
  <2>. QED BY <1>1, <2>2, <2>3 DEF RightlyRefused, Accounted, BeneficiaryIsPayer, Advances
<1>2. ASSUME NEW c \in DOMAIN callbacks'
      PROVE  RefusedOK(c, callbacks[c])'
  <2>1. RefusedOK(c, callbacks[c])
    BY DEF RefusedInv
  <2>2. BatchOf(callbacks[c])' = BatchOf(callbacks[c])
    BY DEF BatchOf
  <2>. QED BY <1>1, <2>1, <2>2 DEF RefusedOK, VerifiedBehind
<1>3. \A tx : KindOf(tx)' = KindOf(tx)
  BY DEF KindOf, BatchOf
<1>. QED BY <1>2, <1>3 DEF RefusedInv

LEMMA LandRefused ==
    ASSUME RelayerInv, RefusedInv, NEW tx \in inflight, Land(tx)
    PROVE  RefusedInv'
<1>1. /\ UNCHANGED <<callbacks, prepared>>
      /\ posted \subseteq posted' /\ verified \subseteq verified'
  BY DEF Land, processVars
<1>2. \A o \in Orders : Advances(auction[o], auction'[o])
  BY LandAdvances
<1>3. \A u \in landed' : u \in landed \/ (KindOf(u) = "verify" => u \in verified')
  <2>1. Kind(tx) = KindOf(tx)
    BY BatchIs, Zenon
  <2>. QED BY <2>1 DEF Land
<1>. QED BY <1>1, <1>2, <1>3, ChainRefused

LEMMA CrashRefused ==
    ASSUME RelayerInv, RefusedInv, Crash
    PROVE  RefusedInv'
<1>1. /\ DOMAIN callbacks' = DOMAIN callbacks /\ landed' = {}
      /\ UNCHANGED <<posted, verified, auction, prepared>>
  BY DEF Crash
<1>2. ASSUME NEW c \in DOMAIN callbacks
      PROVE  RefusedOK(c, callbacks'[c])
  <2>1. callbacks[c] \in Callbacks /\ RefusedOK(c, callbacks[c])
    BY CallbackType DEF RefusedInv
  <2>2. \/ callbacks'[c] = callbacks[c]
        \/ callbacks'[c] = [callbacks[c] EXCEPT !.at = "lost"]
    BY Zenon DEF Crash
  <2>. QED BY <2>1, <2>2 DEF RefusedOK, Callbacks, Active
<1>3. ASSUME NEW c \in DOMAIN callbacks'
      PROVE  RefusedOK(c, callbacks[c])'
  BY <1>1, <1>2
  DEF RefusedOK, VerifiedBehind, RightlyRefused, Accounted, BeneficiaryIsPayer
<1>. QED BY <1>1, <1>3 DEF RefusedInv

LEMMA ObservedRefused ==
    ASSUME RelayerInv, RefusedInv, NEW v \in Vaas, OnObservation(v)
    PROVE  RefusedInv'
<1>1. PICK cb : callbacks' = Append(callbacks, cb) /\ Begins(v, cb)
  BY NewCallback
<1>2. callbacks \in Seq(Callbacks)
  BY DEF RelayerInv, RelayerTypeOK
<1>3. /\ \A c \in DOMAIN callbacks : c \in DOMAIN callbacks' /\ callbacks'[c] = callbacks[c]
      /\ \A c \in DOMAIN callbacks' : c \in DOMAIN callbacks \/ callbacks'[c] = cb
  BY <1>1, <1>2
<1>4. UNCHANGED <<landed, posted, verified, auction, prepared>>
  BY DEF OnObservation, chainVars
<1>5. ASSUME NEW c \in DOMAIN callbacks'
      PROVE  RefusedOK(c, callbacks[c])'
  <2>1. RefusedOK(c, callbacks'[c])
    <3>1. \A d : RefusedOK(d, cb)
      BY <1>1 DEF Begins, RefusedOK, Active
    <3>. QED BY <1>3, <3>1 DEF RefusedInv
  <2>. QED BY <1>4, <2>1
       DEF RefusedOK, VerifiedBehind, RightlyRefused, Accounted, BeneficiaryIsPayer
<1>6. ASSUME NEW tx \in landed', KindOf(tx)' = "verify"
      PROVE  tx \in verified'
  <2>1. tx \in landed /\ tx[1] \in DOMAIN callbacks
    BY <1>4 DEF RelayerInv, LandedOK, TxOK
  <2>2. KindOf(tx)' = KindOf(tx)
    BY <1>3, <2>1 DEF KindOf
  <2>. QED BY <1>4, <1>6, <2>1, <2>2 DEF RefusedInv
<1>. QED BY <1>5, <1>6 DEF RefusedInv

LEMMA RefusedInit == Init => RefusedInv
BY DEF Init, RefusedInv

LEMMA RefusedNext == RelayerInv /\ RefusedInv /\ [Next]_vars => RefusedInv'
<1> SUFFICES ASSUME RelayerInv, RefusedInv, [Next]_vars PROVE RefusedInv'
  OBVIOUS
<1>0. UNCHANGED <<callbacks, landed, verified, auction, prepared>>
         /\ posted \subseteq posted' => RefusedInv'
  BY ChainRefused DEF Advances
<1>1. ASSUME NEW v \in Vaas, Emit(v) \/ OnObservation(v) \/ OthersPost(v)
      PROVE  RefusedInv'
  BY <1>0, <1>1, ObservedRefused DEF Emit, OthersPost, processVars
<1>2. ASSUME NEW c \in DOMAIN callbacks, Step(c)
      PROVE  RefusedInv'
  BY <1>2, StepRefused
<1>3. ASSUME NEW tx \in inflight, Land(tx)
      PROVE  RefusedInv'
  BY <1>3, LandRefused
<1>4. ASSUME NEW o \in Orders, OthersAct(o)
      PROVE  RefusedInv'
  <2>1. \A p \in Orders : Advances(auction[p], auction'[p])
    BY <1>4, OthersAdvance
  <2>2. /\ prepared \subseteq prepared'
        /\ UNCHANGED <<callbacks, posted, verified, landed>>
    BY <1>4 DEF OthersAct, processVars
  <2>. QED BY <2>1, <2>2, ChainRefused
<1>5. CASE Tick \/ Forget \/ Restart \/ UNCHANGED vars
  BY <1>0, <1>5 DEF Tick, Forget, Restart, vars, processVars, chainVars
<1>. QED BY <1>1, <1>2, <1>3, <1>4, <1>5, StartBatchRefused, CrashRefused DEF Next

LEMMA RefusedInvariant == Spec => []RefusedInv
<1>1. Spec => []RelayerInv
  BY RelayerInvariant
<1>2. Spec => Init /\ [][Next]_vars
  BY DEF Spec
<1>. QED BY <1>1, <1>2, RefusedInit, RefusedNext, PTL

\* A callback that found an auction to settle for a known owner ends only once nothing
\* is left to settle (handleSettleAuction), whatever happens to its transactions short
\* of a request, an answer or a confirmation that fails; a preflight refuses its batch
\* for good (sendTxBatch) only then too, or for another beneficiary or an early post.
THEOREM WonAuctionsSettle == Spec => []WonAuctionsAreNotDropped
<1>1. RelayerInv /\ RefusedInv => WonAuctionsAreNotDropped
  <2>1. SUFFICES ASSUME RelayerInv, RefusedInv, NEW c \in DOMAIN callbacks,
                        callbacks[c].owed,
                        \/ callbacks[c].at \in {"ignored", "done"}
                        \/ /\ At(c, "refused") /\ BeneficiaryIsPayer(OrderOf(c))
                           /\ ~PostsTooEarly(c)
                 PROVE  auction[OrderOf(c)].status = "settled" \/ OrderOf(c) \in prepared
    BY DEF WonAuctionsAreNotDropped
  <2>2. OwedOK(callbacks[c])
    BY <2>1, CallbackType DEF CallbackOK
  <2>3. CASE callbacks[c].at \in {"ignored", "done"}
    BY <2>2, <2>3 DEF OwedOK, Accounted, OrderOf
  <2>4. CASE callbacks[c].at \notin {"ignored", "done"}
    <3>1. /\ At(c, "refused") /\ BeneficiaryIsPayer(OrderOf(c)) /\ ~PostsTooEarly(c)
          /\ RightlyRefused(callbacks[c])
      BY <2>1, <2>4 DEF RefusedInv, RefusedOK, At
    <3>2. Kind(Tx(c)) = BatchOf(callbacks[c])[callbacks[c].next]
      <4>1. Kind(Tx(c)) = KindOf(Tx(c))
        BY BatchIs, Zenon
      <4>. QED BY <4>1 DEF KindOf, Tx
    <3>. QED BY <3>1, <3>2 DEF RightlyRefused, PostsTooEarly, Accounted, OrderOf
  <2>. QED BY <2>3, <2>4
<1>. QED BY <1>1, RelayerInvariant, RefusedInvariant, PTL

-----------------------------------------------------------------------------
(* One offer for a fast VAA *)

\* Callbacks go on with their VAA, and one that is ignored stays so.
Keeps ==
    /\ DOMAIN callbacks' = DOMAIN callbacks
    /\ \A c \in DOMAIN callbacks :
          /\ callbacks'[c].vaa = callbacks[c].vaa
          /\ callbacks'[c].run = callbacks[c].run
          /\ callbacks[c].at = "ignored" => callbacks'[c].at = "ignored"

LEMMA OneKeeps ==
    ASSUME NEW c \in DOMAIN callbacks, callbacks[c].at # "ignored", NEW cb,
           callbacks' = [callbacks EXCEPT ![c] = cb],
           cb.vaa = callbacks[c].vaa, cb.run = callbacks[c].run
    PROVE  Keeps
BY DEF Keeps

LEMMA GotoKeeps ==
    ASSUME RelayerInv, NEW c \in DOMAIN callbacks, callbacks[c].at # "ignored",
           NEW stage, Goto(c, stage)
    PROVE  Keeps
<1>1. callbacks[c] \in Callbacks
  BY CallbackType
<1>2. PICK cb : /\ callbacks' = [callbacks EXCEPT ![c] = cb]
                /\ cb.vaa = callbacks[c].vaa /\ cb.run = callbacks[c].run
  <2> DEFINE m == [callbacks[c] EXCEPT !.at = stage]
  <2>1. callbacks' = [callbacks EXCEPT ![c] = m]
    BY DEF Goto
  <2>2. m.vaa = callbacks[c].vaa /\ m.run = callbacks[c].run
    BY <1>1 DEF Callbacks
  <2>. QED BY <2>1, <2>2
<1>. QED BY <1>2, OneKeeps

LEMMA QueueBatchKeeps ==
    ASSUME RelayerInv, NEW c \in DOMAIN callbacks, callbacks[c].at # "ignored",
           QueueBatch(c)
    PROVE  Keeps
<1>1. callbacks[c] \in Callbacks
  BY CallbackType
<1>2. PICK cb : /\ callbacks' = [callbacks EXCEPT ![c] = cb]
                /\ cb.vaa = callbacks[c].vaa /\ cb.run = callbacks[c].run
  <2> DEFINE m == [callbacks[c] EXCEPT !.at = "queued",
                                       !.isPosted = callbacks[c].vaa \in posted]
  <2>1. callbacks' = [callbacks EXCEPT ![c] = m]
    BY <1>1 DEF QueueBatch, Callbacks
  <2>2. m.vaa = callbacks[c].vaa /\ m.run = callbacks[c].run
    BY <1>1 DEF Callbacks
  <2>. QED BY <2>1, <2>2
<1>. QED BY <1>2, OneKeeps

LEMMA AfterKeeps ==
    ASSUME RelayerInv, NEW c \in DOMAIN callbacks, callbacks[c].at # "ignored",
           \/ \E end : callbacks' = [callbacks EXCEPT ![c] = AfterFailure(c, end)]
           \/ callbacks' = [callbacks EXCEPT ![c] = AfterConfirmation(c)]
    PROVE  Keeps
<1>1. callbacks[c] \in Callbacks
  BY CallbackType
<1>2. ASSUME NEW end
      PROVE  /\ AfterFailure(c, end).vaa = callbacks[c].vaa
             /\ AfterFailure(c, end).run = callbacks[c].run
  <2>1. \/ AfterFailure(c, end) = [callbacks[c] EXCEPT !.at = "sending", !.tries = @ + 1]
        \/ AfterFailure(c, end) = [callbacks[c] EXCEPT !.at = end]
    BY Zenon DEF AfterFailure
  <2>. QED BY <1>1, <2>1 DEF Callbacks
<1>3. /\ AfterConfirmation(c).vaa = callbacks[c].vaa
      /\ AfterConfirmation(c).run = callbacks[c].run
  <2>1. \/ AfterConfirmation(c) = [callbacks[c] EXCEPT !.at = "done"]
        \/ AfterConfirmation(c) =
              [callbacks[c] EXCEPT !.at = "sending", !.next = @ + 1, !.tries = 0]
    BY Zenon DEF AfterConfirmation
  <2>. QED BY <1>1, <2>1 DEF Callbacks
<1>. QED BY <1>2, <1>3, OneKeeps

LEMMA StepKeeps ==
    ASSUME RelayerInv, NEW c \in DOMAIN callbacks, Step(c)
    PROVE  /\ Keeps
           /\ UNCHANGED <<crashes, now, seenHashes, emitted>>
<1>1. CASE AskAuction(c)
  BY <1>1, GotoKeeps DEF AskAuction, At, Idle, chainVars
<1>2. CASE FetchFastVaa(c)
  BY <1>2, GotoKeeps DEF FetchFastVaa, At, Idle, chainVars
<1>3. CASE FetchAuction(c)
  BY <1>3, GotoKeeps DEF FetchAuction, At, Idle, chainVars
<1>4. CASE PriceAndBuild(c)
  BY <1>4, GotoKeeps, QueueBatchKeeps DEF PriceAndBuild, At, Idle, chainVars
<1>5. CASE AttestAndBuild(c)
  BY <1>5, QueueBatchKeeps DEF AttestAndBuild, At, Idle, chainVars
<1>6. CASE Send(c)
  BY <1>6, GotoKeeps DEF Send, At, Idle
<1>7. CASE PreflightFails(c) \/ SendFails(c)
  BY <1>7, AfterKeeps DEF PreflightFails, SendFails, At, Idle, chainVars
<1>8. CASE ConfirmFails(c)
  BY <1>8, AfterKeeps DEF ConfirmFails, At, Idle, Unwatch
<1>9. CASE Confirmed(c)
  BY <1>9, AfterKeeps DEF Confirmed, At, Idle, Unwatch
<1>. QED BY <1>1, <1>2, <1>3, <1>4, <1>5, <1>6, <1>7, <1>8, <1>9 DEF Step

LEMMA StartBatchKeeps ==
    ASSUME RelayerInv, StartBatch
    PROVE  /\ Keeps
           /\ UNCHANGED <<crashes, now, seenHashes, emitted>>
<1>1. PICK c \in DOMAIN callbacks :
         /\ callbacks[c].at = "queued"
         /\ callbacks' = [callbacks EXCEPT ![c].at = "sending"]
  <2>1. queue \in Seq(DOMAIN callbacks) /\ queue # <<>>
    BY DEF RelayerInv, RelayerTypeOK, StartBatch
  <2>2. Head(queue) \in DOMAIN callbacks /\ Head(queue) = queue[1] /\ 1 \in DOMAIN queue
    BY <2>1
  <2>3. callbacks[Head(queue)].at = "queued"
    BY <2>2 DEF RelayerInv, QueueOK
  <2>. QED BY <2>2, <2>3 DEF StartBatch
<1>2. Keeps
  BY <1>1, GotoKeeps DEF Goto
<1>. QED BY <1>2 DEF StartBatch, Idle, chainVars

LEMMA CrashKeeps ==
    ASSUME RelayerInv, Crash
    PROVE  Keeps
<1>1. callbacks' = [c \in DOMAIN callbacks |->
                      IF Running(c) THEN [callbacks[c] EXCEPT !.at = "lost"]
                      ELSE callbacks[c]]
  BY DEF Crash
<1>2. ASSUME NEW c \in DOMAIN callbacks
      PROVE  /\ callbacks'[c].vaa = callbacks[c].vaa
             /\ callbacks'[c].run = callbacks[c].run
             /\ callbacks[c].at = "ignored" => callbacks'[c].at = "ignored"
  <2>1. callbacks[c] \in Callbacks
    BY CallbackType
  <2>2. CASE Running(c)
    BY <1>1, <2>1, <2>2 DEF Callbacks, Running, Ended
  <2>3. CASE ~Running(c)
    BY <1>1, <2>3
  <2>. QED BY <2>2, <2>3
<1>3. DOMAIN callbacks' = DOMAIN callbacks
  BY <1>1
<1>. QED BY <1>2, <1>3 DEF Keeps

\* Time passes, hashes are forgotten, the process ends: as long as what it forgets is
\* stale, callbacks that go on keep OnceInv.
LEMMA OnceMoves ==
    ASSUME RelayerInv, OnceInv, Keeps, TimesOK',
           now' \in Nat, now' >= now, crashes' \in {crashes, crashes + 1},
           \A v \in Vaas : v.kind = "fast" => emitted'[v] = emitted[v],
           crashes' = crashes =>
              \A v \in DOMAIN seenHashes \ DOMAIN seenHashes' :
                 v.kind = "fast" => now - emitted[v] > DelayedVaaThreshold
    PROVE  OnceInv'
<1>1. OneOfferPerRun'
  BY DEF OnceInv, OneOfferPerRun, Keeps
<1>2. ASSUME NEW c \in DOMAIN callbacks'
      PROVE  HandledOnce(callbacks[c])'
  <2> DEFINE v == callbacks[c].vaa
             run == callbacks[c].run
  <2>1. c \in DOMAIN callbacks /\ callbacks'[c].vaa = v /\ callbacks'[c].run = run
    BY DEF Keeps
  <2>2. v \in Vaas /\ run \in Nat /\ crashes \in Nat /\ now \in Nat
    BY <2>1, CallbackType DEF Callbacks, RelayerInv, RelayerTypeOK
  <2>3. HandledOnce(callbacks[c])
    BY <2>1 DEF OnceInv
  <2>4. run <= crashes'
    BY <2>2, <2>3 DEF HandledOnce
  <2>5. ASSUME v.kind = "fast", run = crashes', v \notin DOMAIN seenHashes'
        PROVE  now' - emitted'[v] > DelayedVaaThreshold
    <3>1. crashes' = crashes
      BY <2>2, <2>3, <2>5 DEF HandledOnce
    <3>2. now - emitted[v] > DelayedVaaThreshold
      BY <2>2, <2>3, <2>5, <3>1 DEF HandledOnce
    <3>3. emitted'[v] = emitted[v] /\ emitted[v] \in Nat /\ DelayedVaaThreshold \in Nat
      BY <2>2, <2>5, RelayerAssumption DEF OnceInv, TimesOK
    <3>. HIDE DEF v
    <3>. QED BY <2>2, <3>2, <3>3
  <2>6. PICK w, r : w = v /\ r = run
    OBVIOUS
  <2>. QED BY <2>1, <2>4, <2>5, <2>6 DEF HandledOnce
<1>. QED BY <1>1, <1>2 DEF OnceInv

LEMMA OnceStays ==
    ASSUME RelayerInv, OnceInv, Keeps, UNCHANGED <<crashes, now, seenHashes, emitted>>
    PROVE  OnceInv'
<1>1. TimesOK'
  BY DEF OnceInv, TimesOK
<1>2. now \in Nat /\ now' >= now
  BY DEF RelayerInv, RelayerTypeOK
<1>. QED BY <1>1, <1>2, OnceMoves

LEMMA SameKeeps == UNCHANGED callbacks => Keeps
BY DEF Keeps

LEMMA OnObservationOnce ==
    ASSUME RelayerInv, OnceInv, NEW v \in Vaas, OnObservation(v)
    PROVE  OnceInv'
<1>1. PICK cb : callbacks' = Append(callbacks, cb) /\ Begins(v, cb)
  BY NewCallback
<1>2. callbacks \in Seq(Callbacks) /\ now \in Nat /\ crashes \in Nat
  BY DEF RelayerInv, RelayerTypeOK
<1>3. /\ \A c \in DOMAIN callbacks : c \in DOMAIN callbacks' /\ callbacks'[c] = callbacks[c]
      /\ \A c \in DOMAIN callbacks' :
            \/ c \in DOMAIN callbacks
            \/ c = Len(callbacks) + 1 /\ callbacks'[c] = cb
  <2>1. /\ DOMAIN callbacks = 1 .. Len(callbacks) /\ Len(callbacks) \in Nat
        /\ DOMAIN callbacks' = 1 .. Len(callbacks) + 1
        /\ callbacks'[Len(callbacks) + 1] = cb
        /\ \A c \in 1 .. Len(callbacks) : callbacks'[c] = callbacks[c]
    BY <1>1, <1>2
  <2>2. \A i \in 1 .. Len(callbacks) + 1 :
           i \in 1 .. Len(callbacks) \/ i = Len(callbacks) + 1
    BY <2>1
  <2>3. 1 .. Len(callbacks) \subseteq 1 .. Len(callbacks) + 1
    BY <2>1
  <2>4. \A c \in DOMAIN callbacks : c \in DOMAIN callbacks' /\ callbacks'[c] = callbacks[c]
    BY <2>1, <2>3
  <2>. QED BY <2>1, <2>2, <2>4
<1>4. /\ UNCHANGED <<crashes, now, emitted>>
      /\ v \notin DOMAIN seenHashes
      /\ DOMAIN seenHashes' = DOMAIN seenHashes \cup {v}
      /\ \A w \in DOMAIN seenHashes' :
            seenHashes'[w] = IF w = v THEN now ELSE seenHashes[w]
  BY DEF OnObservation, chainVars, IsUnique, Remember
<1>5. TimesOK'
  BY <1>2, <1>4 DEF OnceInv, TimesOK
<1>6. ASSUME NEW c \in DOMAIN callbacks'
      PROVE  HandledOnce(callbacks[c])'
  <2>1. CASE c \in DOMAIN callbacks
    <3>1. HandledOnce(callbacks[c]) /\ callbacks'[c] = callbacks[c]
      BY <1>3, <2>1 DEF OnceInv
    <3>. QED BY <1>4, <3>1 DEF HandledOnce
  <2>2. CASE callbacks'[c] = cb
    <3>1. cb.vaa = v /\ cb.run = crashes
      BY <1>1 DEF Begins
    <3>. QED BY <1>2, <1>4, <2>2, <3>1 DEF HandledOnce
  <2>. QED BY <1>3, <2>1, <2>2
<1>7. ASSUME NEW b \in DOMAIN callbacks, callbacks[b].vaa = v, v.kind = "fast",
             callbacks[b].run = crashes
      PROVE  cb.at = "ignored"
  <2>1. HandledOnce(callbacks[b])
    BY DEF OnceInv
  <2>2. now - emitted[v] > DelayedVaaThreshold
    BY <1>4, <1>7, <2>1 DEF HandledOnce
  <2>. QED BY <1>1, <1>7, <2>2 DEF Begins
<1>8. OneOfferPerRun'
  <2>1. SUFFICES ASSUME NEW b \in DOMAIN callbacks', NEW c \in DOMAIN callbacks',
                        callbacks'[b].vaa = callbacks'[c].vaa,
                        callbacks'[b].vaa.kind = "fast",
                        callbacks'[b].run = callbacks'[c].run,
                        callbacks'[b].at # "ignored", callbacks'[c].at # "ignored"
                 PROVE  b = c
    BY DEF OneOfferPerRun
  <2>2. cb.vaa = v /\ cb.run = crashes
    BY <1>1 DEF Begins
  <2>3. CASE b \in DOMAIN callbacks /\ c \in DOMAIN callbacks
    BY <1>3, <2>1, <2>3 DEF OnceInv, OneOfferPerRun
  <2>4. CASE b \in DOMAIN callbacks /\ c \notin DOMAIN callbacks
    BY <1>3, <1>7, <2>1, <2>2, <2>4
  <2>5. CASE b \notin DOMAIN callbacks /\ c \in DOMAIN callbacks
    BY <1>3, <1>7, <2>1, <2>2, <2>5
  <2>6. CASE b \notin DOMAIN callbacks /\ c \notin DOMAIN callbacks
    BY <1>3, <2>6
  <2>. QED BY <2>3, <2>4, <2>5, <2>6
<1>. QED BY <1>5, <1>6, <1>8 DEF OnceInv

\* A hash is forgotten only when a fast VAA that has it is stale.
LEMMA ForgetOnce ==
    ASSUME RelayerInv, OnceInv, Forget
    PROVE  OnceInv'
<1>1. now \in Nat /\ UNCHANGED <<callbacks, crashes, now, emitted>>
  BY DEF RelayerInv, RelayerTypeOK, Forget, chainVars
<1>2. PICK removed \in SUBSET Expired(now) :
         seenHashes' = [w \in DOMAIN seenHashes \ removed |-> seenHashes[w]]
  BY DEF Forget, CleanUp
<1>3. ASSUME NEW v \in DOMAIN seenHashes \ DOMAIN seenHashes', v.kind = "fast"
      PROVE  now - emitted[v] > DelayedVaaThreshold
  <2>1. now - seenHashes[v] > SeenThreshold
    BY <1>2 DEF Expired
  <2>2. v \in DOMAIN seenHashes /\ seenHashes[v] \in Nat
    BY DEF OnceInv, TimesOK
  <2>3. v \in Vaas /\ emitted[v] \in Nat /\ emitted[v] <= ClockDrift
    BY <1>3 DEF OnceInv, TimesOK
  <2>. QED BY <1>1, <2>1, <2>2, <2>3, RelayerAssumption
<1>4. TimesOK'
  BY <1>1, <1>2 DEF OnceInv, TimesOK
<1>5. Keeps
  BY <1>1, SameKeeps
<1>. QED BY <1>1, <1>3, <1>4, <1>5, OnceMoves

LEMMA EmitOnce ==
    ASSUME RelayerInv, OnceInv, NEW v \in Vaas, Emit(v)
    PROVE  OnceInv'
<1>1. now \in Nat /\ UNCHANGED <<callbacks, crashes, now, seenHashes>>
  BY DEF RelayerInv, RelayerTypeOK, Emit, processVars
<1>2. /\ v \notin DOMAIN emitted
      /\ DOMAIN emitted' = DOMAIN emitted \cup {v}
      /\ \A w \in DOMAIN emitted' : emitted'[w] = IF w = v THEN now ELSE emitted[w]
  BY DEF Emit
<1>3. TimesOK'
  BY <1>1, <1>2 DEF OnceInv, TimesOK
<1>4. \A w \in Vaas : w.kind = "fast" => emitted'[w] = emitted[w]
  BY <1>2 DEF OnceInv, TimesOK
<1>5. Keeps
  BY <1>1, SameKeeps
<1>. QED BY <1>1, <1>3, <1>4, <1>5, OnceMoves

LEMMA TickOnce ==
    ASSUME RelayerInv, OnceInv, Tick
    PROVE  OnceInv'
<1>1. /\ now \in Nat /\ now' = now + 1
      /\ UNCHANGED <<callbacks, crashes, seenHashes, emitted>>
  BY DEF RelayerInv, RelayerTypeOK, Tick, chainVars
<1>2. TimesOK'
  BY <1>1 DEF OnceInv, TimesOK
<1>3. Keeps
  BY <1>1, SameKeeps
<1>. QED BY <1>1, <1>2, <1>3, OnceMoves

\* What a process remembered does not bind the next one.
LEMMA CrashOnce ==
    ASSUME RelayerInv, OnceInv, Crash
    PROVE  OnceInv'
<1>1. /\ now \in Nat /\ crashes \in Nat /\ crashes' = crashes + 1 /\ seenHashes' = <<>>
      /\ UNCHANGED <<now, emitted>>
  BY DEF RelayerInv, RelayerTypeOK, Crash
<1>2. TimesOK'
  BY <1>1 DEF OnceInv, TimesOK
<1>3. Keeps
  BY CrashKeeps
<1>. QED BY <1>1, <1>2, <1>3, OnceMoves

LEMMA OnceInit == Init => OnceInv
<1> SUFFICES ASSUME Init PROVE OnceInv
  OBVIOUS
<1>1. PICK timestamp \in {0, ClockDrift} :
         emitted = [v \in {v \in Vaas : v.kind = "fast"} |-> timestamp]
  BY DEF Init
<1>2. timestamp \in Nat /\ timestamp <= ClockDrift
  BY RelayerAssumption
<1>3. TimesOK
  BY <1>1, <1>2 DEF TimesOK, Init, SpyInit
<1>. QED BY <1>3 DEF OnceInv, Init, OneOfferPerRun

LEMMA OnceNext == RelayerInv /\ OnceInv /\ [Next]_vars => OnceInv'
<1> SUFFICES ASSUME RelayerInv, OnceInv, [Next]_vars PROVE OnceInv'
  OBVIOUS
<1>1. ASSUME NEW v \in Vaas, Emit(v)
      PROVE  OnceInv'
  BY <1>1, EmitOnce
<1>2. ASSUME NEW v \in Vaas, OnObservation(v)
      PROVE  OnceInv'
  BY <1>2, OnObservationOnce
<1>3. ASSUME NEW v \in Vaas, OthersPost(v)
      PROVE  OnceInv'
  BY <1>3, SameKeeps, OnceStays DEF OthersPost, processVars
<1>4. ASSUME NEW c \in DOMAIN callbacks, Step(c)
      PROVE  OnceInv'
  BY <1>4, StepKeeps, OnceStays
<1>5. ASSUME NEW tx \in inflight, Land(tx)
      PROVE  OnceInv'
  BY <1>5, SameKeeps, OnceStays DEF Land, processVars
<1>6. ASSUME NEW o \in Orders, OthersAct(o)
      PROVE  OnceInv'
  BY <1>6, SameKeeps, OnceStays DEF OthersAct, processVars
<1>7. CASE StartBatch
  BY <1>7, StartBatchKeeps, OnceStays
<1>8. CASE Tick
  BY <1>8, TickOnce
<1>9. CASE Forget
  BY <1>9, ForgetOnce
<1>10. CASE Crash
  BY <1>10, CrashOnce
<1>11. CASE Restart
  BY <1>11, SameKeeps, OnceStays DEF Restart, chainVars
<1>12. CASE UNCHANGED vars
  BY <1>12, SameKeeps, OnceStays DEF vars, processVars, chainVars
<1>. QED BY <1>1, <1>2, <1>3, <1>4, <1>5, <1>6, <1>7, <1>8, <1>9, <1>10, <1>11, <1>12
         DEF Next

\* A fast VAA that is delivered again does not lead to a second offer of the same
\* process (spy.ts): its hash is remembered, or it is stale by the time it is forgotten.
THEOREM OffersAreNotRepeated == Spec => []OneOfferPerRun
<1>1. Init => RelayerInv /\ OnceInv
  BY RelayerInit, OnceInit
<1>2. RelayerInv /\ OnceInv /\ [Next]_vars => (RelayerInv /\ OnceInv)'
  BY RelayerNext, OnceNext
<1>3. RelayerInv /\ OnceInv => OneOfferPerRun
  BY DEF OnceInv
<1>. QED BY <1>1, <1>2, <1>3, PTL DEF Spec
=============================================================================
