------------------------ MODULE ClientSessionProofs ------------------------
(***************************************************************************)
(* An owner's transaction enacts the proposal its client was shown.        *)
(*                                                                         *)
(* The client builds update_auction_parameters with the address of the     *)
(* pending proposal and never its contents, so what it enacts is whatever  *)
(* is at that address when it lands.  Three things keep the contents from  *)
(* changing under it: no instruction of any program but four of the        *)
(* matching engine's touches the custodian's next_proposal_id or a         *)
(* proposal (Keeps); those four put a pending proposal there only with a   *)
(* slot_enact_delay an EnactDelay away (Moves); and a transaction's        *)
(* blockhash expires sooner than that (DelayOutlivesBlockhash).            *)
(*                                                                         *)
(* And nobody spends what is left of an approval.  An offer improved by    *)
(* its own owner leaves the approval of its transaction behind, and any    *)
(* caller of improve_offer may present a transfer authority.  It is good   *)
(* for one auction at one price (AuthoritiesDiffer: the seeds can be told  *)
(* apart in what is derived from them), and no approval is left at a price *)
(* below the best offer (Leftovers): a transaction that approves makes the *)
(* offer it approves for, or is undone, and an auction whose account is    *)
(* closed cannot be opened again, its fast VAA having expired.             *)
(*                                                                         *)
(* The first takes nothing for granted of the instructions others send,    *)
(* nor of the accounts they name: the handlers' own constraints are what   *)
(* the lemmas use.  The second takes their transactions to be built by     *)
(* these clients (BuildShape).                                             *)
(***************************************************************************)
EXTENDS ClientSession, SequenceTheorems, TLAPS
-----------------------------------------------------------------------------
(* Addresses: a program followed by seeds, numbers among them in unary.    *)
IsSeq(x) == \E S : x \in Seq(S)

LEMMA TupleIsSeq ==
    /\ \A a : IsSeq(<<a>>) /\ Len(<<a>>) = 1
    /\ \A a, b : IsSeq(<<a, b>>) /\ Len(<<a, b>>) = 2
<1>1. ASSUME NEW a PROVE IsSeq(<<a>>) /\ Len(<<a>>) = 1
  <2>1. <<a>> \in Seq({a})
    OBVIOUS
  <2>. QED BY <2>1 DEF IsSeq
<1>2. ASSUME NEW a, NEW b PROVE IsSeq(<<a, b>>) /\ Len(<<a, b>>) = 2
  <2>1. <<a, b>> \in Seq({a, b})
    OBVIOUS
  <2>. QED BY <2>1 DEF IsSeq
<1>. QED BY <1>1, <1>2

LEMMA ConcatIsSeq ==
    ASSUME NEW x, NEW y, IsSeq(x), IsSeq(y)
    PROVE  /\ IsSeq(x \o y)
           /\ Len(x \o y) = Len(x) + Len(y) /\ Len(x) \in Nat /\ Len(y) \in Nat
           /\ \A i \in 1 .. Len(x) : (x \o y)[i] = x[i]
           /\ \A i \in 1 .. Len(y) : (x \o y)[i + Len(x)] = y[i]
<1>1. PICK S, T : x \in Seq(S) /\ y \in Seq(T)
  BY DEF IsSeq
<1>2. x \in Seq(S \cup T) /\ y \in Seq(S \cup T)
  BY <1>1
<1>3. x \o y \in Seq(S \cup T)
  BY <1>2
<1>. QED BY <1>2, <1>3 DEF IsSeq

LEMMA ConcatIsAssociative ==
    ASSUME NEW x, NEW y, NEW z, IsSeq(x), IsSeq(y), IsSeq(z)
    PROVE  (x \o y) \o z = x \o (y \o z)
<1>1. PICK S, T, U : x \in Seq(S) /\ y \in Seq(T) /\ z \in Seq(U)
  BY DEF IsSeq
<1>. DEFINE A == S \cup T \cup U
<1>2. x \in Seq(A) /\ y \in Seq(A) /\ z \in Seq(A)
  BY <1>1
<1>. QED BY <1>2

LEMMA SeedFirst ==
    \A k, x, y : IsSeq(x) /\ IsSeq(y) => (<<k>> \o x) \o y = <<k>> \o (x \o y)
<1>1. ASSUME NEW k, NEW x, NEW y, IsSeq(x), IsSeq(y)
      PROVE  (<<k>> \o x) \o y = <<k>> \o (x \o y)
  <2>1. IsSeq(<<k>>)
    BY TupleIsSeq
  <2>. QED BY <1>1, <2>1, ConcatIsAssociative
<1>. QED BY <1>1

\* A seed, and what follows it.
LEMMA Seeded ==
    ASSUME NEW k, NEW rest, IsSeq(rest)
    PROVE  IsSeq(<<k>> \o rest) /\ Len(<<k>> \o rest) >= 1 /\ (<<k>> \o rest)[1] = k
<1>1. IsSeq(<<k>>) /\ Len(<<k>>) = 1
  BY TupleIsSeq
<1>. QED BY <1>1, ConcatIsSeq

LEMMA Derived ==
    ASSUME NEW p, NEW seeds, IsSeq(seeds), Len(seeds) >= 1
    PROVE  /\ IsSeq(<<p>> \o seeds) /\ Len(<<p>> \o seeds) >= 2
           /\ (<<p>> \o seeds)[1] = p /\ (<<p>> \o seeds)[2] = seeds[1]
<1>1. IsSeq(<<p>>) /\ Len(<<p>>) = 1
  BY TupleIsSeq
<1>. QED BY <1>1, ConcatIsSeq

-----------------------------------------------------------------------------
(* The two kinds of account that decide what an enactment enacts, the one  *)
(* that decides what an offer costs, and the addresses of any other.       *)
Custodian == EngineProgram!Custodian
ProposalAt(n) == EngineProgram!ProposalAt(n)
Auction(v) == EngineProgram!AuctionAt(EngineProgram!Digest(v))
Unproposed(x) == x # Custodian /\ \A n \in Nat : x # ProposalAt(n)
Plain(x) == Unproposed(x) /\ \A v : x # Auction(v)

LEMMA StrokesAreSeq ==
    \A n : /\ IsSeq(EngineProgram!Strokes(n))
           /\ n \in Nat => Len(EngineProgram!Strokes(n)) = n
           /\ IsSeq(EngineProgram!Circle!Strokes(n)) /\ IsSeq(RouterProgram!Engine!Circle!Strokes(n))
<1>1. ASSUME NEW n, n \in Nat
      PROVE  [i \in 1 .. n |-> "I"] \in Seq({"I"}) /\ Len([i \in 1 .. n |-> "I"]) = n
  <2>. DEFINE s == [i \in 1 .. n |-> "I"]
  <2>1. s \in [1 .. n -> {"I"}] /\ DOMAIN s = 1 .. n
    OBVIOUS
  <2>. HIDE DEF s
  <2>2. s \in Seq({"I"})
    BY <1>1, <2>1
  <2>. QED BY <1>1, <2>1, <2>2 DEF s
<1>2. <<>> \in Seq({"I"})
  OBVIOUS
<1>3. ASSUME NEW n
      PROVE  /\ IsSeq(EngineProgram!Strokes(n))
             /\ n \in Nat => Len(EngineProgram!Strokes(n)) = n
  <2>1. CASE n \in Nat
    BY <1>1, <2>1 DEF IsSeq, EngineProgram!Strokes
  <2>2. CASE n \notin Nat
    BY <1>2, <2>2 DEF IsSeq, EngineProgram!Strokes
  <2>. QED BY <2>1, <2>2
<1>4. \A n : /\ EngineProgram!Circle!Strokes(n) = EngineProgram!Strokes(n)
             /\ RouterProgram!Engine!Circle!Strokes(n) = EngineProgram!Strokes(n)
  BY DEF EngineProgram!Strokes, EngineProgram!Circle!Strokes, RouterProgram!Engine!Circle!Strokes
<1>. QED BY <1>3, <1>4

LEMMA NumbersAreSeq ==
    \A n : /\ IsSeq(EngineProgram!U16BE(n)) /\ IsSeq(EngineProgram!U32BE(n))
           /\ IsSeq(EngineProgram!U64BE(n))
           /\ IsSeq(EngineProgram!Circle!Decimal(n)) /\ IsSeq(RouterProgram!Engine!Circle!Decimal(n))
BY StrokesAreSeq, Seeded DEF EngineProgram!U16BE, EngineProgram!U32BE, EngineProgram!U64BE,
   EngineProgram!Circle!Decimal, RouterProgram!Engine!Circle!Decimal

LEMMA HashIsSeq == \A v : IsSeq(EngineProgram!Digest(v))
<1>1. ASSUME NEW v PROVE IsSeq(EngineProgram!Digest(v))
  <2>. DEFINE b == EngineProgram!Circle!Body(Vaas[v])
              z == EngineProgram!U16BE(b.emitterChain) \o EngineProgram!U64BE(b.sequence)
                     \o <<b.payload.kind>>
  <2>1. IsSeq(z)
    <3>1. IsSeq(EngineProgram!U16BE(b.emitterChain)) /\ IsSeq(EngineProgram!U64BE(b.sequence))
      BY NumbersAreSeq
    <3>2. IsSeq(<<b.payload.kind>>)
      BY TupleIsSeq
    <3>. QED BY <3>1, <3>2, ConcatIsSeq
  <2>2. IsSeq(EngineProgram!Keccak256(EngineProgram!Keccak256(z)))
    BY <2>1, Seeded DEF EngineProgram!Keccak256
  <2>. QED BY <2>2 DEF EngineProgram!Digest
<1>. QED BY <1>1

LEMMA Kinds ==
    /\ Custodian[1] = "matching-engine" /\ Custodian[2] = "emitter"
    /\ \A n : ProposalAt(n)[1] = "matching-engine" /\ ProposalAt(n)[2] = "proposal"
    /\ \A v : Auction(v)[1] = "matching-engine" /\ Auction(v)[2] = "auction"
    /\ Len(Custodian) >= 2 /\ \A n : Len(ProposalAt(n)) >= 2 /\ \A v : Len(Auction(v)) >= 2
<1>1. IsSeq(<<"emitter">>) /\ Len(<<"emitter">>) >= 1 /\ <<"emitter">>[1] = "emitter"
  BY TupleIsSeq
<1>2. Custodian[1] = "matching-engine" /\ Custodian[2] = "emitter" /\ Len(Custodian) >= 2
  BY <1>1, Derived DEF Custodian, EngineProgram!Custodian, EngineProgram!ID, EngineProgram!Pda
<1>3. ASSUME NEW n
      PROVE  /\ ProposalAt(n)[1] = "matching-engine" /\ ProposalAt(n)[2] = "proposal"
             /\ Len(ProposalAt(n)) >= 2
  <2>1. IsSeq(<<"proposal">> \o EngineProgram!U64BE(n))
        /\ Len(<<"proposal">> \o EngineProgram!U64BE(n)) >= 1
        /\ (<<"proposal">> \o EngineProgram!U64BE(n))[1] = "proposal"
    BY Seeded, NumbersAreSeq
  <2>. QED BY <2>1, Derived DEF ProposalAt, EngineProgram!ProposalAt, EngineProgram!ID, EngineProgram!Pda
<1>4. ASSUME NEW v
      PROVE  /\ Auction(v)[1] = "matching-engine" /\ Auction(v)[2] = "auction"
             /\ Len(Auction(v)) >= 2
  <2>. DEFINE hash == EngineProgram!Digest(v)
  <2>1. IsSeq(<<"auction">> \o hash) /\ Len(<<"auction">> \o hash) >= 1
        /\ (<<"auction">> \o hash)[1] = "auction"
    BY Seeded, HashIsSeq
  <2>. QED BY <2>1, Derived DEF Auction, EngineProgram!AuctionAt, EngineProgram!ID, EngineProgram!Pda
<1>. QED BY <1>2, <1>3, <1>4

\* An address of another program, or of another kind of account of this one.
LEMMA OtherKind ==
    ASSUME NEW p, NEW k, NEW rest, IsSeq(rest),
           p # "matching-engine" \/ k \notin {"emitter", "proposal", "auction"}
    PROVE  IsSeq(<<p>> \o (<<k>> \o rest)) /\ Plain(<<p>> \o (<<k>> \o rest))
<1>. DEFINE x == <<p>> \o (<<k>> \o rest)
<1>1. IsSeq(x) /\ x[1] = p /\ x[2] = k
  BY Seeded, Derived
<1>. QED BY <1>1, Kinds DEF Plain, Unproposed

LEMMA KeyIsPlain == ASSUME NEW x, EngineProgram!IsKey(x) \/ RouterProgram!IsKey(x) PROVE Plain(x)
BY Kinds DEF RouterProgram!IsKey, EngineProgram!IsKey, Plain, Unproposed
-----------------------------------------------------------------------------
(* What instructions leave alone.                                          *)
Pending(s) == EngineProgram!Pending(s)

\* An auction has a status, and while it is active a price.
HasBid(d) ==
    /\ "status" \in DOMAIN d
    /\ d.status.kind = "active" => "info" \in DOMAIN d /\ "offerPrice" \in DOMAIN d.info

\* Proposals are numbered from the custodian's next_proposal_id down, so that the one
\* it calls pending is the only one an instruction can still replace.
Wellformed(s) ==
    /\ Exists(s, Custodian) =>
         "nextProposalId" \in DOMAIN s[Custodian] /\ s[Custodian].nextProposalId \in Nat
    /\ \A n \in Nat : Exists(s, ProposalAt(n)) =>
         /\ Exists(s, Custodian) /\ n <= s[Custodian].nextProposalId
         /\ "slotEnactDelay" \in DOMAIN s[ProposalAt(n)]
    /\ \A v : Exists(s, Auction(v)) => HasBid(s[Auction(v)])

\* Between s and t no proposal came, went or changed, and the same one is pending.
SameProposals(s, t) ==
    /\ Exists(t, Custodian) <=> Exists(s, Custodian)
    /\ Exists(s, Custodian) /\ "nextProposalId" \in DOMAIN s[Custodian] =>
         /\ "nextProposalId" \in DOMAIN t[Custodian]
         /\ t[Custodian].nextProposalId = s[Custodian].nextProposalId
    /\ \A n \in Nat : /\ Exists(t, ProposalAt(n)) <=> Exists(s, ProposalAt(n))
                      /\ Exists(s, ProposalAt(n)) => t[ProposalAt(n)] = s[ProposalAt(n)]

\* Nor was anything approved, or an offer made or improved, or an auction closed.
DelegateOf(s, x) ==
    IF Exists(s, x) /\ "delegate" \in DOMAIN s[x] THEN s[x].delegate ELSE Null
Grants(s, t) == \A x : DelegateOf(t, x) \in {Null, DelegateOf(s, x)}
Dull(d) == "status" \in DOMAIN d /\ d.status.kind # "active"
SameBid(s, t, v) ==
    /\ Exists(s, Auction(v)) => Exists(t, Auction(v))
    /\ Exists(t, Auction(v)) => \/ Exists(s, Auction(v)) /\ t[Auction(v)] = s[Auction(v)]
                               \/ Dull(t[Auction(v)])
SameBids(s, t) == \A v : SameBid(s, t, v)
Quiet(s, t) == Grants(s, t) /\ SameBids(s, t)
Keeps(s, t) == SameProposals(s, t) /\ Quiet(s, t)

\* Data that approve nothing that was not approved.
Mute(d) == "delegate" \notin DOMAIN d \/ d.delegate = Null
Fresh(s, x, d) == Mute(d) \/ d.delegate = DelegateOf(s, x)

LEMMA KeepsRefl == \A s : Keeps(s, s)
BY DEF Keeps, SameProposals, Quiet, Grants, SameBids, SameBid

LEMMA SameProposalsTrans ==
    \A s, t, u : SameProposals(s, t) /\ SameProposals(t, u) => SameProposals(s, u)
BY DEF SameProposals

LEMMA QuietTrans == \A s, t, u : Quiet(s, t) /\ Quiet(t, u) => Quiet(s, u)
<1>1. \A s, t, u : Grants(s, t) /\ Grants(t, u) => Grants(s, u)
  BY DEF Grants
<1>2. \A s, t, u : SameBids(s, t) /\ SameBids(t, u) => SameBids(s, u)
  BY DEF SameBids, SameBid
<1>. QED BY <1>1, <1>2 DEF Quiet

LEMMA KeepsTrans == \A s, t, u : Keeps(s, t) /\ Keeps(t, u) => Keeps(s, u)
BY SameProposalsTrans, QuietTrans DEF Keeps

LEMMA KeepsWellformed == \A s, t : Wellformed(s) /\ Keeps(s, t) => Wellformed(t)
BY DEF Wellformed, Keeps, SameProposals, Quiet, SameBids, SameBid, Dull, HasBid

LEMMA UnproposedPut ==
    \A s, t, x, d : SameProposals(s, t) /\ Unproposed(x) => SameProposals(s, EngineProgram!Put(t, x, d))
BY DEF SameProposals, Unproposed, EngineProgram!Put, Exists

LEMMA FreshPut ==
    \A s, t, x, d : Grants(s, t) /\ Fresh(s, x, d) => Grants(s, EngineProgram!Put(t, x, d))
BY DEF Grants, Fresh, Mute, DelegateOf, EngineProgram!Put, Exists

LEMMA QuietPut ==
    \A s, t, x, d : Quiet(s, t) /\ Fresh(s, x, d) /\ (\A v : x # Auction(v))
                      => Quiet(s, EngineProgram!Put(t, x, d))
<1>1. ASSUME NEW s, NEW t, NEW x, NEW d, Quiet(s, t), Fresh(s, x, d), \A v : x # Auction(v)
      PROVE  Quiet(s, EngineProgram!Put(t, x, d))
  <2>1. SameBids(s, EngineProgram!Put(t, x, d))
    BY <1>1 DEF Quiet, SameBids, SameBid, EngineProgram!Put, Exists
  <2>. QED BY <1>1, <2>1, FreshPut DEF Quiet
<1>. QED BY <1>1

LEMMA QuietClose ==
    \A s, t, X : Quiet(s, t) /\ (\A v : Auction(v) \notin X) => Quiet(s, EngineProgram!Close(t, X))
<1>1. ASSUME NEW s, NEW t, NEW X, Quiet(s, t), \A v : Auction(v) \notin X
      PROVE  Quiet(s, EngineProgram!Close(t, X))
  <2>1. Grants(s, EngineProgram!Close(t, X))
    BY <1>1 DEF Quiet, Grants, DelegateOf, EngineProgram!Close, Exists
  <2>2. SameBids(s, EngineProgram!Close(t, X))
    BY <1>1 DEF Quiet, SameBids, SameBid, EngineProgram!Close, Exists
  <2>. QED BY <2>1, <2>2 DEF Quiet
<1>. QED BY <1>1

LEMMA PutKeeps ==
    \A s, t, x, d : Keeps(s, t) /\ Plain(x) /\ Fresh(s, x, d) => Keeps(s, EngineProgram!Put(t, x, d))
BY UnproposedPut, QuietPut DEF Keeps, Plain

LEMMA MuteKeeps ==
    \A s, t, x, d : Keeps(s, t) /\ Plain(x) /\ Mute(d) => Keeps(s, EngineProgram!Put(t, x, d))
BY PutKeeps DEF Fresh

\* An auction that ends, or never was.
LEMMA AuctionsAreUnproposed == \A v : Unproposed(Auction(v))
BY Kinds DEF Unproposed

LEMMA DullKeeps ==
    \A s, t, v, d : Keeps(s, t) /\ Fresh(s, Auction(v), d) /\ Dull(d)
                      => Keeps(s, EngineProgram!Put(t, Auction(v), d))
<1>1. ASSUME NEW s, NEW t, NEW v, NEW d, Keeps(s, t), Fresh(s, Auction(v), d), Dull(d)
      PROVE  Keeps(s, EngineProgram!Put(t, Auction(v), d))
  <2>1. SameBids(s, EngineProgram!Put(t, Auction(v), d))
    BY <1>1 DEF Keeps, Quiet, SameBids, SameBid, EngineProgram!Put, Exists
  <2>. QED BY <1>1, <2>1, UnproposedPut, FreshPut, AuctionsAreUnproposed DEF Keeps, Quiet
<1>. QED BY <1>1

LEMMA CloseKeeps ==
    \A s, t, X : Keeps(s, t) /\ (\A x \in X : Plain(x)) => Keeps(s, EngineProgram!Close(t, X))
<1>1. ASSUME NEW s, NEW t, NEW X, Keeps(s, t), \A x \in X : Plain(x)
      PROVE  Keeps(s, EngineProgram!Close(t, X))
  <2>1. SameProposals(s, EngineProgram!Close(t, X))
    BY <1>1 DEF Keeps, SameProposals, Plain, Unproposed, EngineProgram!Close, Exists
  <2>. QED BY <1>1, <2>1, QuietClose DEF Keeps, Plain
<1>. QED BY <1>1

\* Data of none of the three kinds is not where a custodian, a proposal or an auction is.
LEMMA OtherData ==
    ASSUME NEW s, NEW x, Wellformed(s), Exists(s, x),
           {"nextProposalId", "slotEnactDelay", "status"} \cap DOMAIN s[x] = {}
    PROVE  Plain(x)
BY DEF Wellformed, HasBid, Plain, Unproposed

LEMMA TokenIsPlain ==
    ASSUME NEW s, NEW x, Wellformed(s), EngineProgram!IsToken(s, x)
    PROVE  Plain(x) /\ Exists(s, x) /\ DelegateOf(s, x) = s[x].delegate
BY OtherData DEF EngineProgram!IsToken, EngineProgram!Is, EngineProgram!Exists, EngineProgram!TokenAccount,
   Exists, DelegateOf

LEMMA NullIsNull ==
    EngineProgram!Null = Null /\ RouterProgram!Null = Null /\ UpgradeProgram!Null = Null
BY DEF EngineProgram!Null, RouterProgram!Null, UpgradeProgram!Null, Null

LEMMA SpendKeeps ==
    ASSUME NEW s, NEW x, NEW n, Wellformed(s), EngineProgram!IsToken(s, x)
    PROVE  Keeps(s, EngineProgram!Spend(s, x, n))
<1>. DEFINE left == s[x].delegated - n
            d == [s[x] EXCEPT !.delegated = left,
                              !.delegate = IF left = 0 THEN EngineProgram!Null ELSE s[x].delegate]
<1>1. EngineProgram!Spend(s, x, n) = EngineProgram!Put(s, x, d)
  BY DEF EngineProgram!Spend
<1>2. "delegate" \in DOMAIN s[x]
  BY DEF EngineProgram!IsToken, EngineProgram!Is, EngineProgram!TokenAccount
<1>3. d.delegate \in {Null, s[x].delegate}
  BY <1>2, NullIsNull
<1>4. Fresh(s, x, d)
  BY <1>3, TokenIsPlain DEF Fresh, Mute
<1>. QED BY <1>1, <1>4, TokenIsPlain, PutKeeps, KeepsRefl

\* A new custodian that proposals do not notice.
LEMMA CustodianKeeps ==
    ASSUME NEW s, NEW d, Exists(s, Custodian), 
           "nextProposalId" \in DOMAIN s[Custodian] =>
              "nextProposalId" \in DOMAIN d /\ d.nextProposalId = s[Custodian].nextProposalId,
           DOMAIN d = DOMAIN s[Custodian],
           "delegate" \in DOMAIN d => d.delegate = s[Custodian].delegate
    PROVE  Keeps(s, EngineProgram!Put(s, Custodian, d))
<1>. DEFINE t == EngineProgram!Put(s, Custodian, d)
<1>1. (\A n : ProposalAt(n) # Custodian) /\ \A v : Auction(v) # Custodian
  BY Kinds
<1>2. SameProposals(s, t)
  BY <1>1 DEF SameProposals, EngineProgram!Put, Exists
<1>3. Fresh(s, Custodian, d)
  BY DEF Fresh, Mute, DelegateOf
<1>. QED BY <1>1, <1>2, <1>3, QuietPut, KeepsRefl DEF Keeps
-----------------------------------------------------------------------------
\* Where the matching engine keeps its accounts.
LEMMA AuctionsAreSeq == \A v : IsSeq(Auction(v))
BY HashIsSeq, Seeded DEF Auction, EngineProgram!AuctionAt, EngineProgram!Pda, EngineProgram!ID

LEMMA OrderAccounts ==
    \A v : LET hash == EngineProgram!Digest(v)
               response == EngineProgram!ResponseAt(hash)
           IN  /\ Plain(EngineProgram!AuctionCustody(Auction(v)))
               /\ Plain(response) /\ Plain(EngineProgram!PreparedCustody(response))
               /\ Plain(EngineProgram!ReservedAt(hash))
BY HashIsSeq, AuctionsAreSeq, OtherKind DEF EngineProgram!AuctionCustody,
   EngineProgram!ResponseAt, EngineProgram!PreparedCustody, EngineProgram!ReservedAt,
   EngineProgram!Pda, EngineProgram!ID
-----------------------------------------------------------------------------
\* Between s and t an offer was made for v.
Bids(s, t, v, price) ==
    /\ SameProposals(s, t) /\ Grants(s, t)
    /\ Exists(t, Auction(v)) /\ HasBid(t[Auction(v)]) /\ t[Auction(v)].info.offerPrice = price
    /\ \A w : Auction(w) # Auction(v) => SameBid(s, t, w)

LEMMA BidsWellformed == \A s, t, v, price : Wellformed(s) /\ Bids(s, t, v, price) => Wellformed(t)
<1>1. ASSUME NEW s, NEW t, NEW v, NEW price, Wellformed(s), Bids(s, t, v, price)
      PROVE  Wellformed(t)
  <2>1. ASSUME NEW w, Exists(t, Auction(w)) PROVE HasBid(t[Auction(w)])
    BY <1>1, <2>1 DEF Bids, SameBid, Wellformed, Dull, HasBid
  <2>. QED BY <1>1, <2>1 DEF Bids, SameProposals, Wellformed
<1>. QED BY <1>1

LEMMA PutBids ==
    ASSUME NEW s, NEW t, NEW v, NEW d, Keeps(s, t), Fresh(s, Auction(v), d), HasBid(d)
    PROVE  Bids(s, EngineProgram!Put(t, Auction(v), d), v, d.info.offerPrice)
<1>. DEFINE u == EngineProgram!Put(t, Auction(v), d)
<1>1. SameProposals(s, u) /\ Grants(s, u)
  BY UnproposedPut, FreshPut, AuctionsAreUnproposed DEF Keeps, Quiet
<1>2. Exists(u, Auction(v)) /\ u[Auction(v)] = d
  BY DEF EngineProgram!Put, Exists
<1>3. ASSUME NEW w, Auction(w) # Auction(v) PROVE SameBid(s, u, w)
  BY <1>3 DEF Keeps, Quiet, SameBids, SameBid, EngineProgram!Put, Exists
<1>. QED BY <1>1, <1>2, <1>3 DEF Bids

LEMMA BidsThenPut ==
    ASSUME NEW s, NEW t, NEW v, NEW price, NEW x, NEW d,
           Bids(s, t, v, price), Plain(x), Mute(d)
    PROVE  Bids(s, EngineProgram!Put(t, x, d), v, price)
<1>. DEFINE u == EngineProgram!Put(t, x, d)
<1>1. SameProposals(s, u) /\ Grants(s, u)
  BY UnproposedPut, FreshPut DEF Bids, Plain, Fresh
<1>2. \A w : Exists(t, Auction(w)) => u[Auction(w)] = t[Auction(w)]
  BY DEF EngineProgram!Put, Exists, Plain
<1>3. \A w : Exists(u, Auction(w)) <=> Exists(t, Auction(w))
  BY DEF EngineProgram!Put, Exists, Plain
<1>4. Exists(u, Auction(v)) /\ HasBid(u[Auction(v)]) /\ u[Auction(v)].info.offerPrice = price
  BY <1>2, <1>3 DEF Bids
<1>5. ASSUME NEW w, Auction(w) # Auction(v) PROVE SameBid(s, u, w)
  BY <1>2, <1>3, <1>5 DEF Bids, SameBid
<1>. QED BY <1>1, <1>4, <1>5 DEF Bids

IsActive(s, v) == Exists(s, Auction(v)) /\ s[Auction(v)].status.kind = "active"
Authority(v, price) == EngineProgram!TransferAuthority(Auction(v), price)

LEMMA improveOfferBids ==
    ASSUME NEW s, NEW a, NEW call, NEW env, Wellformed(s),
           EngineProgram!improveOffer(s, a, call, env).kind = "done"
    PROVE  LET v == call.fastVaa
               t == EngineProgram!improveOffer(s, a, call, env).s
           IN  /\ Bids(s, t, v, call.offerPrice)
               /\ a.transferAuthority = Authority(v, call.offerPrice)
               /\ IsActive(s, v) /\ call.offerPrice < s[Auction(v)].info.offerPrice
<1>. DEFINE v == call.fastVaa
            auction == Auction(v)
            total == s[auction].info.amountIn + s[auction].info.securityDeposit
            paid == IF a.offerToken # s[auction].info.bestOfferToken
                    THEN EngineProgram!Spend(s, a.offerToken, total) ELSE s
            d == [s[auction] EXCEPT !.info.bestOfferToken = a.offerToken,
                                    !.info.offerPrice = call.offerPrice]
            t == EngineProgram!improveOffer(s, a, call, env).s
<1>1. /\ IsActive(s, v) /\ call.offerPrice < s[auction].info.offerPrice
      /\ a.transferAuthority = Authority(v, call.offerPrice)
      /\ EngineProgram!IsToken(s, a.offerToken)
      /\ t = EngineProgram!Put(paid, auction, d)
  BY DEF EngineProgram!improveOffer, EngineProgram!Result, EngineProgram!Done,
     EngineProgram!Refused, EngineProgram!Mismatch, EngineProgram!IsActive, EngineProgram!Improves,
     EngineProgram!Exists, IsActive, Exists, Authority, Auction
<1>2. Keeps(s, paid)
  BY <1>1, SpendKeeps, KeepsRefl
<1>3. /\ Exists(s, auction) /\ "status" \in DOMAIN s[auction]
      /\ "info" \in DOMAIN s[auction] /\ "offerPrice" \in DOMAIN s[auction].info
  BY <1>1 DEF IsActive, Wellformed, HasBid
<1>4. /\ DOMAIN d = DOMAIN s[auction] /\ d.info.offerPrice = call.offerPrice
      /\ DOMAIN d.info = DOMAIN s[auction].info
      /\ \A f \in DOMAIN d : f # "info" => d[f] = s[auction][f]
  BY <1>3
<1>5. d.delegate = s[auction].delegate \/ "delegate" \notin DOMAIN d
  BY <1>4
<1>. HIDE DEF d
<1>6. HasBid(d)
  BY <1>3, <1>4 DEF HasBid
<1>7. Fresh(s, auction, d)
  BY <1>3, <1>4, <1>5 DEF Fresh, Mute, DelegateOf
<1>. QED BY <1>1, <1>2, <1>4, <1>6, <1>7, PutBids

LEMMA placeInitialOfferBids ==
    ASSUME NEW s, NEW a, NEW call, NEW env, Wellformed(s),
           EngineProgram!placeInitialOfferCctp(s, a, call, env).kind = "done"
    PROVE  LET v == call.fastVaa
               t == EngineProgram!placeInitialOfferCctp(s, a, call, env).s
           IN  /\ Bids(s, t, v, call.offerPrice)
               /\ a.transferAuthority = Authority(v, call.offerPrice)
               /\ ~Exists(s, Auction(v)) /\ ~env.expired
<1>. DEFINE v == call.fastVaa
            auction == Auction(v)
            custody == EngineProgram!AuctionCustody(auction)
            deposit == EngineProgram!Deposit(s[a.auctionConfig], EngineProgram!Order(call.fastVaa))
            paid == EngineProgram!Spend(s, a.offerToken, deposit)
            t == EngineProgram!placeInitialOfferCctp(s, a, call, env).s
<1>1. /\ EngineProgram!IsToken(s, a.offerToken) /\ a.auction = auction
      /\ a.auctionCustodyToken = custody /\ ~Exists(s, auction) /\ ~env.expired
      /\ a.transferAuthority = Authority(v, call.offerPrice)
  BY DEF EngineProgram!placeInitialOfferCctp, EngineProgram!Result, EngineProgram!Refused,
     EngineProgram!Mismatch, EngineProgram!Exists, Exists, Authority, Auction
<1>2. \E d : /\ t = EngineProgram!Put(EngineProgram!Put(paid, auction, d), custody,
                                       EngineProgram!NewToken(auction))
             /\ Mute(d) /\ HasBid(d) /\ d.info.offerPrice = call.offerPrice
  BY <1>1 DEF EngineProgram!placeInitialOfferCctp, EngineProgram!Result, EngineProgram!Done,
     EngineProgram!Refused, EngineProgram!Mismatch, Mute, HasBid
<1>3. PICK d : /\ t = EngineProgram!Put(EngineProgram!Put(paid, auction, d), custody,
                                         EngineProgram!NewToken(auction))
               /\ Mute(d) /\ HasBid(d) /\ d.info.offerPrice = call.offerPrice
  BY <1>2
<1>4. Bids(s, EngineProgram!Put(paid, auction, d), v, call.offerPrice)
  BY <1>1, <1>3, SpendKeeps, PutBids DEF Fresh
<1>5. Mute(EngineProgram!NewToken(auction))
  BY NullIsNull DEF Mute, EngineProgram!NewToken
<1>6. Bids(s, t, v, call.offerPrice)
  BY <1>3, <1>4, <1>5, OrderAccounts, BidsThenPut
<1>. QED BY <1>1, <1>6
-----------------------------------------------------------------------------
LEMMA NoncesArePlain == \A m : Plain(EngineProgram!UsedNonces(m))
<1>1. ASSUME NEW m PROVE Plain(EngineProgram!UsedNonces(m))
  <2>. DEFINE d == EngineProgram!Circle!Decimal(m.sourceDomain)
              f == EngineProgram!Circle!Decimal(EngineProgram!Circle!FirstNonce(m.nonce))
  <2>1. IsSeq(d) /\ IsSeq(f)
    BY NumbersAreSeq
  <2>2. EngineProgram!UsedNonces(m) = <<"CCTPmbSD">> \o (<<"used_nonces">> \o (d \o f))
    BY <2>1, SeedFirst DEF EngineProgram!UsedNonces, EngineProgram!Circle!usedNoncesAddress,
       EngineProgram!Circle!Pda, EngineProgram!Circle!MessageTransmitter
  <2>. QED BY <2>1, <2>2, ConcatIsSeq, OtherKind
<1>. QED BY <1>1

LEMMA settleCompleteKeeps ==
    ASSUME NEW s, NEW a, NEW call, NEW env, Wellformed(s),
           EngineProgram!settleAuctionComplete(s, a, call, env).kind = "done"
    PROVE  Keeps(s, EngineProgram!settleAuctionComplete(s, a, call, env).s)
<1>. DEFINE v == call.fastVaa
            response == EngineProgram!ResponseAt(EngineProgram!Digest(v))
            custody == EngineProgram!PreparedCustody(response)
<1>1. \E d : /\ Fresh(s, Auction(v), d) /\ Dull(d)
             /\ EngineProgram!settleAuctionComplete(s, a, call, env).s
                  = EngineProgram!Close(EngineProgram!Put(s, Auction(v), d), {response, custody})
  BY DEF EngineProgram!settleAuctionComplete, EngineProgram!Result,
     EngineProgram!Done, EngineProgram!Refused, EngineProgram!Mismatch, EngineProgram!Exists,
     Fresh, Mute, DelegateOf, Dull, Exists, Auction,
     Wellformed, HasBid
<1>. QED BY <1>1, OrderAccounts, DullKeeps, CloseKeeps, KeepsRefl

LEMMA settleNoneCctpKeeps ==
    ASSUME NEW s, NEW a, NEW call, NEW env, Wellformed(s),
           EngineProgram!settleAuctionNoneCctp(s, a, call, env).kind = "done"
    PROVE  Keeps(s, EngineProgram!settleAuctionNoneCctp(s, a, call, env).s)
<1>. DEFINE v == call.fastVaa
            response == EngineProgram!ResponseAt(EngineProgram!Digest(v))
            custody == EngineProgram!PreparedCustody(response)
<1>1. \E d : /\ Fresh(s, Auction(v), d) /\ Dull(d)
             /\ EngineProgram!settleAuctionNoneCctp(s, a, call, env).s
                  = EngineProgram!Close(EngineProgram!Put(s, Auction(v), d), {response, custody})
  BY DEF EngineProgram!settleAuctionNoneCctp, EngineProgram!Result,
     EngineProgram!Done, EngineProgram!Refused, EngineProgram!Mismatch, EngineProgram!Exists,
     Fresh, Mute, DelegateOf, Dull, Exists, Auction, EngineProgram!Placeholder
<1>. QED BY <1>1, OrderAccounts, DullKeeps, CloseKeeps, KeepsRefl

LEMMA executeCctpKeeps ==
    ASSUME NEW s, NEW a, NEW call, NEW env, Wellformed(s),
           EngineProgram!executeFastOrderCctp(s, a, call, env).kind = "done"
    PROVE  Keeps(s, EngineProgram!executeFastOrderCctp(s, a, call, env).s)
<1>. DEFINE v == call.fastVaa
<1>1. \E d : /\ Fresh(s, Auction(v), d) /\ Dull(d)
             /\ EngineProgram!executeFastOrderCctp(s, a, call, env).s
                  = EngineProgram!Close(EngineProgram!Put(s, Auction(v), d), {EngineProgram!AuctionCustody(Auction(v))})
  BY DEF EngineProgram!executeFastOrderCctp, EngineProgram!Result,
     EngineProgram!Done, EngineProgram!Refused, EngineProgram!Mismatch, EngineProgram!Exists,
     Fresh, Mute, DelegateOf, Dull, Exists, Auction,
     Wellformed, HasBid, EngineProgram!CanExecute, EngineProgram!IsActive, EngineProgram!Completed
<1>. QED BY <1>1, OrderAccounts, DullKeeps, CloseKeeps, KeepsRefl

LEMMA closeAuctionEnds ==
    ASSUME NEW s, NEW a, NEW call, NEW env, Wellformed(s),
           EngineProgram!closeAuction(s, a, call, env).kind = "done"
    PROVE  LET t == EngineProgram!closeAuction(s, a, call, env).s
           IN  /\ SameProposals(s, t) /\ Grants(s, t) /\ env.expired
               /\ \A v : Exists(t, Auction(v)) =>
                            Exists(s, Auction(v)) /\ t[Auction(v)] = s[Auction(v)]
<1>. DEFINE auction == Auction(call.fastVaa)
            t == EngineProgram!closeAuction(s, a, call, env).s
<1>1. t = EngineProgram!Close(s, {auction}) /\ env.expired
  BY DEF EngineProgram!closeAuction, EngineProgram!Result, Auction,
     EngineProgram!Done, EngineProgram!Refused, EngineProgram!Mismatch
<1>2. SameProposals(s, t)
  BY <1>1, AuctionsAreUnproposed DEF SameProposals, Unproposed, EngineProgram!Close, Exists
<1>3. Grants(s, t)
  BY <1>1 DEF Grants, DelegateOf, EngineProgram!Close, Exists
<1>4. \A v : Exists(t, Auction(v)) => Exists(s, Auction(v)) /\ t[Auction(v)] = s[Auction(v)]
  BY <1>1 DEF EngineProgram!Close, Exists
<1>. QED BY <1>1, <1>2, <1>3, <1>4

LEMMA prepareResponseKeeps ==
    ASSUME NEW s, NEW a, NEW call, NEW env, Wellformed(s),
           EngineProgram!prepareOrderResponseCctp(s, a, call, env).kind = "done"
    PROVE  Keeps(s, EngineProgram!prepareOrderResponseCctp(s, a, call, env).s)
<1>. DEFINE hash == EngineProgram!Digest(call.fastVaa)
            response == EngineProgram!ResponseAt(hash)
            custody == EngineProgram!PreparedCustody(response)
            nonces == EngineProgram!UsedNonces(call.cctpMessage)
            result == EngineProgram!prepareOrderResponseCctp(s, a, call, env).s
<1>1. \/ result = s
      \/ \E d, e, f : /\ Mute(d) /\ Mute(e) /\ Mute(f)
                      /\ result = EngineProgram!Put(EngineProgram!Put(EngineProgram!Put(s, nonces, d),
                                                     response, e), custody, f)
  BY NullIsNull DEF EngineProgram!prepareOrderResponseCctp, EngineProgram!Receive, EngineProgram!Result,
     EngineProgram!Done, EngineProgram!Refused, EngineProgram!Mismatch, Mute, EngineProgram!NewToken
<1>. QED BY <1>1, OrderAccounts, NoncesArePlain, MuteKeeps, KeepsRefl

\* The fast fill that a sequence was reserved for.
LEMMA FastFillIsPlain ==
    ASSUME NEW seeds, seeds \in EngineProgram!Idl!fastFillSeeds
    PROVE  Plain(EngineProgram!FastFillAt(seeds))
<1>. DEFINE c == EngineProgram!U16BE(seeds.sourceChain)
            o == seeds.orderSender
            n == EngineProgram!U64BE(seeds.sequence)
<1>1. IsSeq(c) /\ IsSeq(o) /\ IsSeq(n)
  BY NumbersAreSeq DEF EngineProgram!Idl!fastFillSeeds, EngineProgram!Idl!Pubkey, IsSeq
<1>2. EngineProgram!FastFillAt(seeds) = <<"matching-engine">> \o (<<"fast-fill">> \o ((c \o o) \o n))
  <2>1. ((<<"fast-fill">> \o c) \o o) \o n = <<"fast-fill">> \o ((c \o o) \o n)
    <3>. HIDE DEF c, o, n
    <3>1. IsSeq(c \o o)
      BY <1>1, ConcatIsSeq
    <3>2. ((<<"fast-fill">> \o c) \o o) = <<"fast-fill">> \o (c \o o)
      BY <1>1, SeedFirst
    <3>. QED BY <1>1, <3>1, <3>2, SeedFirst
  <2>. QED BY <2>1 DEF EngineProgram!FastFillAt, EngineProgram!Pda, EngineProgram!ID
<1>. QED BY <1>1, <1>2, ConcatIsSeq, OtherKind

LEMMA settleNoneLocalKeeps ==
    ASSUME NEW s, NEW a, NEW call, NEW env, Wellformed(s),
           EngineProgram!settleAuctionNoneLocal(s, a, call, env).kind = "done"
    PROVE  Keeps(s, EngineProgram!settleAuctionNoneLocal(s, a, call, env).s)
<1>. DEFINE hash == EngineProgram!Digest(call.fastVaa)
            auction == Auction(call.fastVaa)
            response == EngineProgram!ResponseAt(hash)
            custody == EngineProgram!PreparedCustody(response)
            reserved == EngineProgram!ReservedAt(hash)
            fastFill == EngineProgram!FastFillAt(s[reserved].fastFillSeeds)
            result == EngineProgram!settleAuctionNoneLocal(s, a, call, env).s
<1>1. /\ s[reserved] \in EngineProgram!Idl!reservedFastFillSequence
      /\ a.fastFill = fastFill
  BY DEF EngineProgram!settleAuctionNoneLocal, EngineProgram!Result, EngineProgram!Is,
     EngineProgram!Done, EngineProgram!Refused, EngineProgram!Mismatch
<1>2. \E d, e : /\ Fresh(s, auction, d) /\ Dull(d) /\ Mute(e)
                /\ result = EngineProgram!Close(EngineProgram!Put(EngineProgram!Put(s, auction, d),
                                a.fastFill, e), {response, custody, reserved})
  BY DEF EngineProgram!settleAuctionNoneLocal, EngineProgram!Result, EngineProgram!Done,
     EngineProgram!Refused, EngineProgram!Mismatch, EngineProgram!Exists, EngineProgram!NewFastFill,
     Fresh, Mute, DelegateOf, Dull, Exists, Auction, Wellformed, HasBid
<1>3. Plain(fastFill)
  BY <1>1, FastFillIsPlain DEF EngineProgram!Idl!reservedFastFillSequence
<1>. QED BY <1>1, <1>2, <1>3, OrderAccounts, DullKeeps, MuteKeeps, CloseKeeps, KeepsRefl

LEMMA executeLocalKeeps ==
    ASSUME NEW s, NEW a, NEW call, NEW env, Wellformed(s),
           EngineProgram!executeFastOrderLocal(s, a, call, env).kind = "done"
    PROVE  Keeps(s, EngineProgram!executeFastOrderLocal(s, a, call, env).s)
<1>. DEFINE hash == EngineProgram!Digest(call.fastVaa)
            auction == Auction(call.fastVaa)
            custody == EngineProgram!AuctionCustody(auction)
            reserved == EngineProgram!ReservedAt(hash)
            fastFill == EngineProgram!FastFillAt(s[reserved].fastFillSeeds)
            result == EngineProgram!executeFastOrderLocal(s, a, call, env).s
<1>1. /\ s[reserved] \in EngineProgram!Idl!reservedFastFillSequence
      /\ a.fastFill = fastFill
  BY DEF EngineProgram!executeFastOrderLocal, EngineProgram!Result, EngineProgram!Is,
     EngineProgram!Done, EngineProgram!Refused, EngineProgram!Mismatch
<1>2. \E d, e : /\ Fresh(s, auction, d) /\ Dull(d) /\ Mute(e)
                /\ result = EngineProgram!Close(EngineProgram!Put(EngineProgram!Put(s, auction, d),
                                a.fastFill, e), {reserved, custody})
  BY DEF EngineProgram!executeFastOrderLocal, EngineProgram!Result, EngineProgram!Done,
     EngineProgram!Refused, EngineProgram!Mismatch, EngineProgram!Exists, EngineProgram!NewFastFill,
     Fresh, Mute, DelegateOf, Dull, Exists, Auction, Wellformed, HasBid, EngineProgram!CanExecute, EngineProgram!IsActive, EngineProgram!Completed
<1>3. Plain(fastFill)
  BY <1>1, FastFillIsPlain DEF EngineProgram!Idl!reservedFastFillSequence
<1>. QED BY <1>1, <1>2, <1>3, OrderAccounts, DullKeeps, MuteKeeps, CloseKeeps, KeepsRefl

LEMMA SequencerIsPlain ==
    ASSUME NEW v, EngineProgram!IsFastOrder(v)
    PROVE  Plain(EngineProgram!SequencerAt(v))
<1>. DEFINE c == EngineProgram!U16BE(EngineProgram!Source(v))
            o == EngineProgram!Order(v).sender
<1>1. IsSeq(o)
  BY OrdersHaveSenders DEF EngineProgram!IsFastOrder, Pubkey, IsSeq
<1>2. IsSeq(c) /\ IsSeq(<<"fast-fill-sequencer">>)
  BY NumbersAreSeq, TupleIsSeq
<1>3. EngineProgram!SequencerAt(v) = <<"matching-engine">> \o (<<"fast-fill-sequencer">> \o (c \o o))
  <2>1. (<<"fast-fill-sequencer">> \o c) \o o = <<"fast-fill-sequencer">> \o (c \o o)
    <3>. HIDE DEF c, o
    <3>. QED BY <1>1, <1>2, SeedFirst
  <2>. QED BY <2>1 DEF EngineProgram!SequencerAt, EngineProgram!Pda, EngineProgram!ID
<1>. HIDE DEF c, o
<1>4. IsSeq(c \o o)
  BY <1>1, <1>2, ConcatIsSeq
<1>5. Plain(<<"matching-engine">> \o (<<"fast-fill-sequencer">> \o (c \o o)))
  BY <1>4, OtherKind
<1>. QED BY <1>3, <1>5

LEMMA reserveActiveKeeps ==
    ASSUME NEW s, NEW a, NEW call, NEW env, Wellformed(s),
           EngineProgram!reserveFastFillSequenceActiveAuction(s, a, call, env).kind = "done"
    PROVE  Keeps(s, EngineProgram!reserveFastFillSequenceActiveAuction(s, a, call, env).s)
<1>. DEFINE v == call.fastVaa
            result == EngineProgram!reserveFastFillSequenceActiveAuction(s, a, call, env).s
<1>1. EngineProgram!IsFastOrder(v)
  BY DEF EngineProgram!reserveFastFillSequenceActiveAuction, EngineProgram!Result,
     EngineProgram!Refused, EngineProgram!Mismatch, EngineProgram!CanReserve, EngineProgram!LivePath
<1>2. \E d, e : /\ Mute(d) /\ Mute(e)
                /\ result = EngineProgram!Put(EngineProgram!Put(s,
                       EngineProgram!ReservedAt(EngineProgram!Digest(v)), d), EngineProgram!SequencerAt(v), e)
  BY DEF EngineProgram!reserveFastFillSequenceActiveAuction, EngineProgram!Result, EngineProgram!Done,
     EngineProgram!Refused, EngineProgram!Mismatch, EngineProgram!SetReservedSequence, Mute
<1>. QED BY <1>1, <1>2, SequencerIsPlain, OrderAccounts, MuteKeeps, KeepsRefl

LEMMA reserveNoneKeeps ==
    ASSUME NEW s, NEW a, NEW call, NEW env, Wellformed(s),
           EngineProgram!reserveFastFillSequenceNoAuction(s, a, call, env).kind = "done"
    PROVE  Keeps(s, EngineProgram!reserveFastFillSequenceNoAuction(s, a, call, env).s)
<1>. DEFINE v == call.fastVaa
            hash == EngineProgram!Digest(v)
            result == EngineProgram!reserveFastFillSequenceNoAuction(s, a, call, env).s
<1>1. EngineProgram!IsFastOrder(v)
  BY DEF EngineProgram!reserveFastFillSequenceNoAuction, EngineProgram!Result,
     EngineProgram!Refused, EngineProgram!Mismatch, EngineProgram!CanReserve, EngineProgram!LivePath
<1>2. \E d, e, f : /\ Mute(d) /\ Mute(e) /\ Mute(f) /\ Dull(f)
                   /\ result = EngineProgram!Put(EngineProgram!Put(EngineProgram!Put(s,
                          EngineProgram!ReservedAt(hash), d), EngineProgram!SequencerAt(v), e), Auction(v), f)
  BY DEF EngineProgram!reserveFastFillSequenceNoAuction, EngineProgram!Result, EngineProgram!Done,
     EngineProgram!Refused, EngineProgram!Mismatch, EngineProgram!SetReservedSequence,
     EngineProgram!Placeholder, Mute, Dull, Auction
<1>. QED BY <1>1, <1>2, SequencerIsPlain, OrderAccounts, MuteKeeps, DullKeeps, KeepsRefl DEF Fresh
-----------------------------------------------------------------------------
(* The administration of the matching engine.                              *)
LEMMA ProposalsDiffer ==
    ASSUME NEW m \in Nat, NEW n \in Nat, ProposalAt(m) = ProposalAt(n)
    PROVE  m = n
<1>1. ASSUME NEW i \in Nat PROVE Len(ProposalAt(i)) = 3 + i
  <2>1. /\ IsSeq(EngineProgram!Strokes(i)) /\ Len(EngineProgram!Strokes(i)) = i
        /\ \A k : IsSeq(<<k>>) /\ Len(<<k>>) = 1
    BY StrokesAreSeq, TupleIsSeq
  <2>2. IsSeq(EngineProgram!U64BE(i)) /\ Len(EngineProgram!U64BE(i)) = 1 + i
    BY <2>1, ConcatIsSeq DEF EngineProgram!U64BE
  <2>3. /\ IsSeq(<<"proposal">> \o EngineProgram!U64BE(i))
        /\ Len(<<"proposal">> \o EngineProgram!U64BE(i)) = 2 + i
    BY <2>1, <2>2, ConcatIsSeq
  <2>. QED BY <2>1, <2>3, ConcatIsSeq DEF ProposalAt, EngineProgram!ProposalAt,
            EngineProgram!Pda, EngineProgram!ID
<1>. QED BY <1>1

\* A step either leaves what is pending, or proposes with the full delay.
Moves(s, t, env) ==
    /\ Wellformed(t)
    /\ Exists(t, Custodian) /\ Exists(t, Pending(t)) =>
         \/ /\ Exists(s, Custodian) /\ Exists(s, Pending(s))
            /\ Pending(t) = Pending(s) /\ t[Pending(t)] = s[Pending(s)]
         \/ /\ t[Pending(t)].slotEnactDelay \in Nat
            /\ t[Pending(t)].slotEnactDelay >= env.slot + env.enactDelay

LEMMA PendingIs ==
    \A s : /\ Pending(s) = ProposalAt(s[Custodian].nextProposalId)
           /\ Wellformed(s) /\ Exists(s, Custodian) => s[Custodian].nextProposalId \in Nat
BY DEF Pending, EngineProgram!Pending, EngineProgram!Custody, Custodian, ProposalAt, Wellformed

LEMMA SameMoves ==
    ASSUME NEW s, NEW t, NEW env, Wellformed(s), Wellformed(t), SameProposals(s, t)
    PROVE  Moves(s, t, env)
BY PendingIs DEF Moves, SameProposals, Wellformed

\* The end of an auction, and an offer.
Ends(s, t, env) ==
    /\ Grants(s, t) /\ env.expired
    /\ \A v : Exists(t, Auction(v)) => Exists(s, Auction(v)) /\ t[Auction(v)] = s[Auction(v)]
Offers(s, t, ix, call, env) ==
    LET v == call.fastVaa
    IN  /\ ix.name \in {"placeInitialOfferCctp", "improveOffer"}
        /\ ix.accounts.transferAuthority = Authority(v, call.offerPrice)
        /\ Bids(s, t, v, call.offerPrice)
        /\ \/ ~Exists(s, Auction(v)) /\ ~env.expired
           \/ IsActive(s, v) /\ call.offerPrice < s[Auction(v)].info.offerPrice

\* What an instruction does to proposals, and what it does to offers.
Affects(s, t, ix, call, env) ==
    Moves(s, t, env) /\ (Quiet(s, t) \/ Ends(s, t, env) \/ Offers(s, t, ix, call, env))

LEMMA KeepsAffects ==
    \A s, t, ix, call, env : Wellformed(s) /\ Keeps(s, t) => Affects(s, t, ix, call, env)
BY SameMoves, KeepsWellformed DEF Keeps, Affects

LEMMA ownersKeep ==
    ASSUME NEW s, NEW a, NEW call, NEW env, Wellformed(s), NEW r,
           r \in {EngineProgram!setPause(s, a, call, env),
                  EngineProgram!submitOwnershipTransferRequest(s, a, call, env),
                  EngineProgram!confirmOwnershipTransferRequest(s, a, call, env),
                  EngineProgram!cancelOwnershipTransferRequest(s, a, call, env),
                  EngineProgram!updateOwnerAssistant(s, a, call, env),
                  EngineProgram!updateFeeRecipient(s, a, call, env)},
           r.kind = "done"
    PROVE  Keeps(s, r.s)
<1>. DEFINE c == s[Custodian]
<1>1. CASE r = EngineProgram!setPause(s, a, call, env)
  <2>1. /\ Exists(s, Custodian)
        /\ r.s = EngineProgram!Put(s, Custodian, [c EXCEPT !.paused = call.paused])
    BY <1>1 DEF EngineProgram!setPause, EngineProgram!Result, EngineProgram!Done,
       EngineProgram!Refused, EngineProgram!Mismatch, EngineProgram!Authorized, EngineProgram!Exists,
       Exists, EngineProgram!SetCustodian, EngineProgram!Custody, Custodian
  <2>. QED BY <2>1, CustodianKeeps
<1>2. CASE r = EngineProgram!submitOwnershipTransferRequest(s, a, call, env)
  <2>1. /\ Exists(s, Custodian)
        /\ r.s = EngineProgram!Put(s, Custodian, [c EXCEPT !.pendingOwner = a.newOwner])
    BY <1>2 DEF EngineProgram!submitOwnershipTransferRequest, EngineProgram!Result, EngineProgram!Done,
       EngineProgram!Refused, EngineProgram!Mismatch, EngineProgram!Owner, EngineProgram!Exists,
       Exists, EngineProgram!SetCustodian, EngineProgram!Custody, Custodian
  <2>. QED BY <2>1, CustodianKeeps
<1>3. CASE r = EngineProgram!confirmOwnershipTransferRequest(s, a, call, env)
  <2>1. /\ Exists(s, Custodian)
        /\ r.s = EngineProgram!Put(s, Custodian, [c EXCEPT !.owner = a.pendingOwner, !.pendingOwner = EngineProgram!Null])
    BY <1>3 DEF EngineProgram!confirmOwnershipTransferRequest, EngineProgram!Result, EngineProgram!Done,
       EngineProgram!Refused, EngineProgram!Mismatch, EngineProgram!Exists,
       Exists, EngineProgram!SetCustodian, EngineProgram!Custody, Custodian
  <2>. QED BY <2>1, CustodianKeeps
<1>4. CASE r = EngineProgram!cancelOwnershipTransferRequest(s, a, call, env)
  <2>1. /\ Exists(s, Custodian)
        /\ r.s = EngineProgram!Put(s, Custodian, [c EXCEPT !.pendingOwner = EngineProgram!Null])
    BY <1>4 DEF EngineProgram!cancelOwnershipTransferRequest, EngineProgram!Result, EngineProgram!Done,
       EngineProgram!Refused, EngineProgram!Mismatch, EngineProgram!Owner, EngineProgram!Exists,
       Exists, EngineProgram!SetCustodian, EngineProgram!Custody, Custodian
  <2>. QED BY <2>1, CustodianKeeps
<1>5. CASE r = EngineProgram!updateOwnerAssistant(s, a, call, env)
  <2>1. /\ Exists(s, Custodian)
        /\ r.s = EngineProgram!Put(s, Custodian, [c EXCEPT !.ownerAssistant = a.newOwnerAssistant])
    BY <1>5 DEF EngineProgram!updateOwnerAssistant, EngineProgram!Result, EngineProgram!Done,
       EngineProgram!Refused, EngineProgram!Mismatch, EngineProgram!Owner, EngineProgram!Exists,
       Exists, EngineProgram!SetCustodian, EngineProgram!Custody, Custodian
  <2>. QED BY <2>1, CustodianKeeps
<1>6. CASE r = EngineProgram!updateFeeRecipient(s, a, call, env)
  <2>1. /\ Exists(s, Custodian)
        /\ r.s = EngineProgram!Put(s, Custodian, [c EXCEPT !.feeRecipientToken = a.newFeeRecipientToken])
    BY <1>6 DEF EngineProgram!updateFeeRecipient, EngineProgram!Result, EngineProgram!Done,
       EngineProgram!Refused, EngineProgram!Mismatch, EngineProgram!Authorized, EngineProgram!Exists,
       Exists, EngineProgram!SetCustodian, EngineProgram!Custody, Custodian
  <2>. QED BY <2>1, CustodianKeeps
<1>. QED BY <1>1, <1>2, <1>3, <1>4, <1>5, <1>6

LEMMA EndpointsArePlain ==
    \A chain : Plain(EngineProgram!EndpointAt(chain)) /\ Plain(EngineProgram!LocalCustody(chain))
BY NumbersAreSeq, OtherKind DEF EngineProgram!EndpointAt, EngineProgram!LocalCustody,
   EngineProgram!Pda, EngineProgram!ID

LEMMA endpointsKeep ==
    ASSUME NEW s, NEW a, NEW call, NEW env, Wellformed(s),
           NEW r,
           r \in {EngineProgram!addCctpRouterEndpoint(s, a, call, env),
                  EngineProgram!updateCctpRouterEndpoint(s, a, call, env),
                  EngineProgram!addLocalRouterEndpoint(s, a, call, env),
                  EngineProgram!updateLocalRouterEndpoint(s, a, call, env),
                  EngineProgram!disableRouterEndpoint(s, a, call, env)},
           r.kind = "done"
    PROVE  Keeps(s, r.s)
<1>. DEFINE x == EngineProgram!EndpointAt(call.chain)
            custody == EngineProgram!LocalCustody(call.chain)
            home == EngineProgram!EndpointAt(EngineProgram!Solana)
            disabled == [s[x] EXCEPT !.info.protocol = [kind |-> "none"]]
<1>1. /\ Mute(EngineProgram!CctpEndpoint(call)) /\ Mute(EngineProgram!LocalEndpoint)
      /\ Mute(EngineProgram!NewToken(x))
  BY NullIsNull DEF Mute, EngineProgram!CctpEndpoint, EngineProgram!LocalEndpoint, EngineProgram!NewToken
<1>2. CASE r = EngineProgram!addCctpRouterEndpoint(s, a, call, env)
  <2>1. r.s = EngineProgram!Put(EngineProgram!Put(s, x, EngineProgram!CctpEndpoint(call)),
                                custody, EngineProgram!NewToken(x))
    BY <1>2 DEF EngineProgram!addCctpRouterEndpoint, EngineProgram!Result, EngineProgram!Done,
       EngineProgram!Refused, EngineProgram!Mismatch
  <2>. QED BY <1>1, <2>1, EndpointsArePlain, MuteKeeps, KeepsRefl
<1>3. CASE r = EngineProgram!updateCctpRouterEndpoint(s, a, call, env)
  <2>1. r.s = EngineProgram!Put(s, x, EngineProgram!CctpEndpoint(call))
    BY <1>3 DEF EngineProgram!updateCctpRouterEndpoint, EngineProgram!Result, EngineProgram!Done,
       EngineProgram!Refused, EngineProgram!Mismatch
  <2>. QED BY <1>1, <2>1, EndpointsArePlain, MuteKeeps, KeepsRefl
<1>4. CASE r \in {EngineProgram!addLocalRouterEndpoint(s, a, call, env),
                  EngineProgram!updateLocalRouterEndpoint(s, a, call, env)}
  <2>1. r.s = EngineProgram!Put(s, home, EngineProgram!LocalEndpoint)
    BY <1>4 DEF EngineProgram!addLocalRouterEndpoint, EngineProgram!updateLocalRouterEndpoint,
       EngineProgram!Result, EngineProgram!Done, EngineProgram!Refused, EngineProgram!Mismatch
  <2>. QED BY <1>1, <2>1, EndpointsArePlain, MuteKeeps, KeepsRefl
<1>5. CASE r = EngineProgram!disableRouterEndpoint(s, a, call, env)
  <2>1. Exists(s, x) /\ r.s = EngineProgram!Put(s, x, disabled)
    BY <1>5 DEF EngineProgram!disableRouterEndpoint, EngineProgram!Exists, Exists,
       EngineProgram!Result, EngineProgram!Done, EngineProgram!Refused, EngineProgram!Mismatch
  <2>2. Fresh(s, x, disabled)
    BY <2>1 DEF Fresh, Mute, DelegateOf
  <2>. QED BY <2>1, <2>2, EndpointsArePlain, PutKeeps, KeepsRefl
<1>. QED BY <1>2, <1>3, <1>4, <1>5

LEMMA OtherProgram ==
    ASSUME NEW p, NEW seeds, IsSeq(seeds), p # "matching-engine"
    PROVE  Plain(<<p>> \o seeds)
BY Seeded, Kinds DEF Plain, Unproposed

LEMMA TokensArePlain == Plain(EngineProgram!Ata(Custodian))
<1>1. IsSeq(Custodian) /\ IsSeq(EngineProgram!TokenProgram) /\ IsSeq(EngineProgram!Usdc)
  <2>1. IsSeq(<<"emitter">>) /\ Len(<<"emitter">>) >= 1
    BY TupleIsSeq
  <2>. QED BY <2>1, TupleIsSeq, Derived DEF Custodian, EngineProgram!Custodian, EngineProgram!Pda,
            EngineProgram!ID, EngineProgram!TokenProgram, EngineProgram!Usdc
<1>2. IsSeq((Custodian \o EngineProgram!TokenProgram) \o EngineProgram!Usdc)
  BY <1>1, ConcatIsSeq
<1>. QED BY <1>2, OtherProgram DEF EngineProgram!Ata, EngineProgram!Pda,
     EngineProgram!AssociatedTokenProgram

LEMMA ConfigsArePlain == \A i : Plain(EngineProgram!ConfigAt(i))
BY NumbersAreSeq, OtherKind DEF EngineProgram!ConfigAt, EngineProgram!Pda, EngineProgram!ID

LEMMA initializeMoves ==
    ASSUME NEW s, NEW a, NEW call, NEW env, Wellformed(s),
           EngineProgram!initialize(s, a, call, env).kind = "done"
    PROVE  /\ Moves(s, EngineProgram!initialize(s, a, call, env).s, env)
           /\ Quiet(s, EngineProgram!initialize(s, a, call, env).s)
<1>. DEFINE t == EngineProgram!initialize(s, a, call, env).s
            data == EngineProgram!Pda(EngineProgram!BpfLoader, EngineProgram!ID)
            config == EngineProgram!ConfigAt(0)
            mint == EngineProgram!Ata(Custodian)
<1>1. Plain(data) /\ Plain(config) /\ Plain(mint)
  <2>1. Plain(data)
    BY TupleIsSeq, OtherProgram DEF EngineProgram!Pda, EngineProgram!BpfLoader, EngineProgram!ID
  <2>. QED BY <2>1, ConfigsArePlain, TokensArePlain
<1>2. /\ ~Exists(s, Custodian) /\ Exists(s, data)
      /\ a.auctionConfig = config /\ a.cctpMintRecipient = mint /\ a.programData = data
  BY DEF EngineProgram!initialize, EngineProgram!Result, EngineProgram!Refused,
     EngineProgram!Mismatch, EngineProgram!Exists, Exists, Custodian
<1>3. \E c, d, e, f :
        /\ t = EngineProgram!Put(EngineProgram!Put(EngineProgram!Put(
                   EngineProgram!Put(s, Custodian, c), config, d), mint, e), data, f)
        /\ "nextProposalId" \in DOMAIN c /\ c.nextProposalId = 0
        /\ Mute(c) /\ Mute(d) /\ Mute(e) /\ Fresh(s, data, f)
  BY <1>2, NullIsNull DEF EngineProgram!initialize, EngineProgram!Result, EngineProgram!Done,
     EngineProgram!Refused, EngineProgram!Mismatch, EngineProgram!SetCustodian, Custodian,
     EngineProgram!NewToken, Mute, Fresh, DelegateOf
<1>4. PICK c, d, e, f :
        /\ t = EngineProgram!Put(EngineProgram!Put(EngineProgram!Put(
                   EngineProgram!Put(s, Custodian, c), config, d), mint, e), data, f)
        /\ "nextProposalId" \in DOMAIN c /\ c.nextProposalId = 0
        /\ Mute(c) /\ Mute(d) /\ Mute(e) /\ Fresh(s, data, f)
  BY <1>3
<1>. DEFINE u == EngineProgram!Put(s, Custodian, c)
<1>5. Keeps(u, t) /\ Quiet(s, t)
  <2>1. Custodian # data /\ (\A v : Custodian # Auction(v)) /\ u[Custodian] = c
        /\ DelegateOf(u, data) = DelegateOf(s, data)
    BY <1>1, Kinds DEF Plain, Unproposed, EngineProgram!Put, Exists, DelegateOf
  <2>2. Fresh(u, data, f)
    BY <1>4, <2>1 DEF Fresh
  <2>3. Keeps(u, t)
    BY <1>1, <1>4, <2>2, PutKeeps, MuteKeeps, KeepsRefl
  <2>4. Quiet(s, u)
    BY <1>4, <2>1, QuietPut, KeepsRefl DEF Fresh, Keeps
  <2>. QED BY <2>3, <2>4, QuietTrans DEF Keeps
<1>6. /\ Exists(u, Custodian) /\ u[Custodian] = c
      /\ \A n \in Nat : ~Exists(u, ProposalAt(n))
  BY <1>2, Kinds DEF Wellformed, EngineProgram!Put, Exists
<1>7. Wellformed(t) /\ Wellformed(u)
  <2>1. ASSUME NEW v, Exists(u, Auction(v)) PROVE HasBid(u[Auction(v)])
    BY <2>1, Kinds DEF Wellformed, EngineProgram!Put, Exists
  <2>. QED BY <1>4, <1>5, <1>6, <2>1, KeepsWellformed DEF Wellformed
<1>8. ~Exists(t, Pending(t))
  BY <1>5, <1>6, <1>7, PendingIs DEF Keeps, SameProposals
<1>. QED BY <1>5, <1>7, <1>8 DEF Moves

LEMMA proposeMoves ==
    ASSUME NEW s, NEW a, NEW call, NEW env, Wellformed(s),
           env.slot \in Nat, env.enactDelay \in Nat,
           EngineProgram!proposeAuctionParameters(s, a, call, env).kind = "done"
    PROVE  /\ Moves(s, EngineProgram!proposeAuctionParameters(s, a, call, env).s, env)
           /\ Quiet(s, EngineProgram!proposeAuctionParameters(s, a, call, env).s)
<1>. DEFINE t == EngineProgram!proposeAuctionParameters(s, a, call, env).s
            n == s[Custodian].nextProposalId
<1>1. Exists(s, Custodian) /\ ~Exists(s, Pending(s)) /\ a.proposal = Pending(s)
  BY DEF EngineProgram!proposeAuctionParameters, EngineProgram!Result, EngineProgram!Refused,
     EngineProgram!Mismatch, EngineProgram!Authorized, EngineProgram!Exists, Exists, Custodian,
     Pending
<1>2. \E d : /\ t = EngineProgram!Put(s, Pending(s), d) /\ Mute(d)
             /\ "slotEnactDelay" \in DOMAIN d /\ d.slotEnactDelay = env.slot + env.enactDelay
  BY <1>1 DEF EngineProgram!proposeAuctionParameters, EngineProgram!Result, EngineProgram!Done,
     EngineProgram!Refused, EngineProgram!Mismatch, Mute
<1>3. PICK d : /\ t = EngineProgram!Put(s, Pending(s), d) /\ Mute(d)
               /\ "slotEnactDelay" \in DOMAIN d /\ d.slotEnactDelay = env.slot + env.enactDelay
  BY <1>2
<1>4. Pending(s) = ProposalAt(n) /\ n \in Nat /\ Pending(s) # Custodian
  BY <1>1, PendingIs, Kinds
<1>5. /\ Exists(t, Custodian) /\ t[Custodian] = s[Custodian] /\ t[Pending(s)] = d
      /\ \A x : Exists(t, x) <=> Exists(s, x) \/ x = Pending(s)
      /\ \A x : Exists(s, x) /\ x # Pending(s) => t[x] = s[x]
  BY <1>1, <1>3, <1>4 DEF EngineProgram!Put, Exists
<1>6. Wellformed(t)
  <2>1. \A m \in Nat : ProposalAt(m) = Pending(s) => m = n
    BY <1>4, ProposalsDiffer
  <2>2. \A v : Pending(s) # Auction(v)
    BY <1>4, Kinds
  <2>. QED BY <1>3, <1>4, <1>5, <2>1, <2>2 DEF Wellformed
<1>7. Pending(t) = Pending(s)
  BY <1>5, PendingIs
<1>8. Quiet(s, t)
  BY <1>3, <1>4, Kinds, QuietPut, KeepsRefl DEF Fresh, Keeps
<1>. QED BY <1>3, <1>5, <1>6, <1>7, <1>8 DEF Moves

LEMMA closeProposalMoves ==
    ASSUME NEW s, NEW a, NEW call, NEW env, Wellformed(s),
           EngineProgram!closeProposal(s, a, call, env).kind = "done"
    PROVE  /\ Moves(s, EngineProgram!closeProposal(s, a, call, env).s, env)
           /\ Quiet(s, EngineProgram!closeProposal(s, a, call, env).s)
<1>. DEFINE t == EngineProgram!closeProposal(s, a, call, env).s
<1>1. /\ Exists(s, Custodian) /\ Exists(s, a.proposal) /\ s[a.proposal] \in EngineProgram!Idl!proposal
      /\ t = EngineProgram!Close(s, {a.proposal})
  BY DEF EngineProgram!closeProposal, EngineProgram!Result, EngineProgram!Done,
     EngineProgram!Refused, EngineProgram!Mismatch, EngineProgram!Authorized,
     EngineProgram!Exists, EngineProgram!Is, Exists, Custodian
<1>2. a.proposal # Custodian
  BY <1>1 DEF EngineProgram!Idl!proposal, Wellformed
<1>3. /\ Exists(t, Custodian) /\ t[Custodian] = s[Custodian]
      /\ \A x : Exists(t, x) => Exists(s, x) /\ t[x] = s[x]
  BY <1>1, <1>2 DEF EngineProgram!Close, Exists
<1>4. Wellformed(t) /\ Pending(t) = Pending(s)
  BY <1>3, PendingIs DEF Wellformed
<1>5. \A v : a.proposal # Auction(v)
  <2>1. "status" \notin DOMAIN s[a.proposal]
    BY <1>1 DEF EngineProgram!Idl!proposal
  <2>. QED BY <1>1, <2>1 DEF Wellformed, HasBid
<1>6. Quiet(s, t)
  BY <1>1, <1>5, QuietClose, KeepsRefl DEF Keeps
<1>. QED BY <1>1, <1>3, <1>4, <1>6 DEF Moves

LEMMA updateMoves ==
    ASSUME NEW s, NEW a, NEW call, NEW env, Wellformed(s),
           EngineProgram!updateAuctionParameters(s, a, call, env).kind = "done"
    PROVE  /\ Moves(s, EngineProgram!updateAuctionParameters(s, a, call, env).s, env)
           /\ Quiet(s, EngineProgram!updateAuctionParameters(s, a, call, env).s)
<1>. DEFINE t == EngineProgram!updateAuctionParameters(s, a, call, env).s
            n == s[Custodian].nextProposalId
            config == EngineProgram!ConfigAt(s[Pending(s)].action.id)
            v == s[Pending(s)].action.id
            c == [s[Custodian] EXCEPT !.auctionConfigId = v, !.nextProposalId = @ + 1]
            p == [s[Pending(s)] EXCEPT !.slotEnactedAt = <<env.slot>>]
<1>1. /\ Exists(s, Custodian) /\ Exists(s, Pending(s)) /\ a.proposal = Pending(s)
      /\ a.auctionConfig = config
  BY DEF EngineProgram!updateAuctionParameters, EngineProgram!Result, EngineProgram!Refused,
     EngineProgram!Mismatch, EngineProgram!Owner, EngineProgram!Exists, Exists, Custodian, Pending
<1>2. \E d : /\ Mute(d)
             /\ t = EngineProgram!Put(EngineProgram!Put(EngineProgram!Put(s, Custodian, c), config, d),
                                      Pending(s), p)
  BY <1>1 DEF EngineProgram!updateAuctionParameters, EngineProgram!Result, EngineProgram!Done,
     EngineProgram!Refused, EngineProgram!Mismatch, EngineProgram!SetCustodian,
     EngineProgram!Custody, Custodian, Pending, Mute
<1>3. PICK d : /\ Mute(d)
               /\ t = EngineProgram!Put(EngineProgram!Put(EngineProgram!Put(s, Custodian, c), config, d),
                                        Pending(s), p)
  BY <1>2
<1>4. /\ Pending(s) = ProposalAt(n) /\ n \in Nat /\ Pending(s) # Custodian
      /\ Plain(config) /\ "nextProposalId" \in DOMAIN s[Custodian]
  BY <1>1, PendingIs, Kinds, ConfigsArePlain DEF Wellformed
<1>5. "nextProposalId" \in DOMAIN c /\ c.nextProposalId = n + 1 /\ DOMAIN p = DOMAIN s[Pending(s)]
      /\ Fresh(s, Custodian, c) /\ Fresh(s, Pending(s), p)
  BY <1>1, <1>4 DEF Fresh, Mute, DelegateOf
<1>. HIDE DEF c, p, config, t
<1>6. /\ Exists(t, Custodian) /\ t[Custodian] = c /\ t[Pending(s)] = p
      /\ \A m \in Nat : Exists(t, ProposalAt(m)) <=> Exists(s, ProposalAt(m))
      /\ \A m \in Nat : Exists(s, ProposalAt(m)) /\ ProposalAt(m) # Pending(s)
                            => t[ProposalAt(m)] = s[ProposalAt(m)]
      /\ \A w : Exists(t, Auction(w)) => Exists(s, Auction(w)) /\ t[Auction(w)] = s[Auction(w)]
  BY <1>1, <1>3, <1>4, Kinds DEF EngineProgram!Put, Exists, Plain, Unproposed
<1>7. Wellformed(t)
  BY <1>1, <1>4, <1>5, <1>6 DEF Wellformed
<1>8. Pending(t) = ProposalAt(n + 1) /\ n + 1 \in Nat
  BY <1>4, <1>5, <1>6, PendingIs
<1>9. ~Exists(s, ProposalAt(n + 1))
  BY <1>4 DEF Wellformed
<1>10. Quiet(s, t)
  BY <1>3, <1>4, <1>5, Kinds, QuietPut, KeepsRefl DEF Fresh, Keeps, Plain
<1>. QED BY <1>6, <1>7, <1>8, <1>9, <1>10 DEF Moves, t
-----------------------------------------------------------------------------
\* Every instruction of the matching engine.
LEMMA EngineAffects ==
    ASSUME NEW s, NEW ix, NEW call, NEW env, Wellformed(s),
           env.slot \in Nat, env.enactDelay \in Nat,
           EngineProgram!Handle(s, ix, call, env).kind = "done"
    PROVE  Affects(s, EngineProgram!Handle(s, ix, call, env).s, ix, call, env)
<1>. DEFINE a == ix.accounts
            r == EngineProgram!Handle(s, ix, call, env)
<1>1. \/ /\ ix.name = "placeInitialOfferCctp"
         /\ r = EngineProgram!placeInitialOfferCctp(s, a, call, env)
      \/ /\ ix.name = "improveOffer"
         /\ r = EngineProgram!improveOffer(s, a, call, env)
      \/ r \in {EngineProgram!prepareOrderResponseCctp(s, a, call, env),
             EngineProgram!settleAuctionComplete(s, a, call, env),
             EngineProgram!settleAuctionNoneCctp(s, a, call, env),
             EngineProgram!settleAuctionNoneLocal(s, a, call, env),
             EngineProgram!executeFastOrderCctp(s, a, call, env),
             EngineProgram!executeFastOrderLocal(s, a, call, env),
             EngineProgram!reserveFastFillSequenceActiveAuction(s, a, call, env),
             EngineProgram!reserveFastFillSequenceNoAuction(s, a, call, env),
             EngineProgram!closeAuction(s, a, call, env)}
            \cup {EngineProgram!setPause(s, a, call, env),
             EngineProgram!submitOwnershipTransferRequest(s, a, call, env),
             EngineProgram!confirmOwnershipTransferRequest(s, a, call, env),
             EngineProgram!cancelOwnershipTransferRequest(s, a, call, env),
             EngineProgram!updateOwnerAssistant(s, a, call, env),
             EngineProgram!updateFeeRecipient(s, a, call, env)}
            \cup {EngineProgram!addCctpRouterEndpoint(s, a, call, env),
             EngineProgram!updateCctpRouterEndpoint(s, a, call, env),
             EngineProgram!addLocalRouterEndpoint(s, a, call, env),
             EngineProgram!updateLocalRouterEndpoint(s, a, call, env),
             EngineProgram!disableRouterEndpoint(s, a, call, env)}
            \cup {EngineProgram!initialize(s, a, call, env),
             EngineProgram!proposeAuctionParameters(s, a, call, env),
             EngineProgram!closeProposal(s, a, call, env),
             EngineProgram!updateAuctionParameters(s, a, call, env)}
  BY DEF EngineProgram!Handle, EngineProgram!Mismatch
<1>. HIDE DEF r
<1>2. r.kind = "done"
  BY DEF r
<1>3. ASSUME Keeps(s, r.s) PROVE Affects(s, r.s, ix, call, env)
  BY <1>3, KeepsAffects
<1>4. Affects(s, r.s, ix, call, env)
  <2>1. CASE /\ ix.name = "placeInitialOfferCctp"
             /\ r = EngineProgram!placeInitialOfferCctp(s, a, call, env)
    BY <1>2, <2>1, placeInitialOfferBids, BidsWellformed, SameMoves DEF Affects, Offers, Bids
  <2>2. CASE ix.name = "improveOffer" /\ r = EngineProgram!improveOffer(s, a, call, env)
    BY <1>2, <2>2, improveOfferBids, BidsWellformed, SameMoves DEF Affects, Offers, Bids
  <2>3. CASE r = EngineProgram!prepareOrderResponseCctp(s, a, call, env)
    BY <1>2, <1>3, <2>3, prepareResponseKeeps
  <2>4. CASE r = EngineProgram!settleAuctionComplete(s, a, call, env)
    BY <1>2, <1>3, <2>4, settleCompleteKeeps
  <2>5. CASE r = EngineProgram!settleAuctionNoneCctp(s, a, call, env)
    BY <1>2, <1>3, <2>5, settleNoneCctpKeeps
  <2>6. CASE r = EngineProgram!settleAuctionNoneLocal(s, a, call, env)
    BY <1>2, <1>3, <2>6, settleNoneLocalKeeps
  <2>7. CASE r = EngineProgram!executeFastOrderCctp(s, a, call, env)
    BY <1>2, <1>3, <2>7, executeCctpKeeps
  <2>8. CASE r = EngineProgram!executeFastOrderLocal(s, a, call, env)
    BY <1>2, <1>3, <2>8, executeLocalKeeps
  <2>9. CASE r = EngineProgram!reserveFastFillSequenceActiveAuction(s, a, call, env)
    BY <1>2, <1>3, <2>9, reserveActiveKeeps
  <2>10. CASE r = EngineProgram!reserveFastFillSequenceNoAuction(s, a, call, env)
    BY <1>2, <1>3, <2>10, reserveNoneKeeps
  <2>11. CASE r = EngineProgram!closeAuction(s, a, call, env)
    <3>1. SameProposals(s, r.s) /\ Ends(s, r.s, env)
      BY <1>2, <2>11, closeAuctionEnds DEF Ends
    <3>2. Wellformed(r.s)
      BY <3>1 DEF Wellformed, SameProposals, Ends
    <3>. QED BY <3>1, <3>2, SameMoves DEF Affects
  <2>12. CASE r \in {EngineProgram!setPause(s, a, call, env),
             EngineProgram!submitOwnershipTransferRequest(s, a, call, env),
             EngineProgram!confirmOwnershipTransferRequest(s, a, call, env),
             EngineProgram!cancelOwnershipTransferRequest(s, a, call, env),
             EngineProgram!updateOwnerAssistant(s, a, call, env),
             EngineProgram!updateFeeRecipient(s, a, call, env)}
    BY <1>2, <1>3, <2>12, ownersKeep
  <2>13. CASE r \in {EngineProgram!addCctpRouterEndpoint(s, a, call, env),
             EngineProgram!updateCctpRouterEndpoint(s, a, call, env),
             EngineProgram!addLocalRouterEndpoint(s, a, call, env),
             EngineProgram!updateLocalRouterEndpoint(s, a, call, env),
             EngineProgram!disableRouterEndpoint(s, a, call, env)}
    BY <1>2, <1>3, <2>13, endpointsKeep
  <2>14. CASE r = EngineProgram!initialize(s, a, call, env)
    BY <1>2, <2>14, initializeMoves DEF Affects
  <2>15. CASE r = EngineProgram!proposeAuctionParameters(s, a, call, env)
    BY <1>2, <2>15, proposeMoves DEF Affects
  <2>16. CASE r = EngineProgram!closeProposal(s, a, call, env)
    BY <1>2, <2>16, closeProposalMoves DEF Affects
  <2>17. CASE r = EngineProgram!updateAuctionParameters(s, a, call, env)
    BY <1>2, <2>17, updateMoves DEF Affects
  <2>. QED BY <1>1, <2>1, <2>2, <2>3, <2>4, <2>5, <2>6, <2>7, <2>8, <2>9, <2>10, <2>11, <2>12,
              <2>13, <2>14, <2>15, <2>16, <2>17
<1>. QED BY <1>4 DEF r
-----------------------------------------------------------------------------
(* The token router.                                                       *)
LEMMA SameOps ==
    /\ \A s, x, d : /\ RouterProgram!Put(s, x, d) = EngineProgram!Put(s, x, d)
                    /\ RouterProgram!Engine!Put(s, x, d) = EngineProgram!Put(s, x, d)
                    /\ UpgradeProgram!Put(s, x, d) = EngineProgram!Put(s, x, d)
                    /\ Put(s, x, d) = EngineProgram!Put(s, x, d)
    /\ \A s, X : /\ RouterProgram!Close(s, X) = EngineProgram!Close(s, X)
                 /\ UpgradeProgram!Close(s, X) = EngineProgram!Close(s, X)
    /\ \A s, x : /\ RouterProgram!IsToken(s, x) => EngineProgram!IsToken(s, x)
                 /\ IsToken(s, x) => EngineProgram!IsToken(s, x)
BY DEF RouterProgram!Put, RouterProgram!Engine!Put, UpgradeProgram!Put, Put, EngineProgram!Put,
   RouterProgram!Close, UpgradeProgram!Close, EngineProgram!Close, RouterProgram!IsToken, IsToken,
   EngineProgram!IsToken, RouterProgram!Is, Is, EngineProgram!Is, RouterProgram!Exists, Exists,
   EngineProgram!Exists, RouterProgram!TokenAccount, TokenAccount, EngineProgram!TokenAccount,
   RouterProgram!Pubkey, Pubkey, EngineProgram!Pubkey, RouterProgram!Null, Null, EngineProgram!Null

LEMMA NewTokensAreMute ==
    /\ \A x : Mute(EngineProgram!NewToken(x)) /\ Mute(RouterProgram!NewToken(x))
BY NullIsNull DEF Mute, EngineProgram!NewToken, RouterProgram!NewToken

LEMMA RouterSpendKeeps ==
    ASSUME NEW s, NEW x, NEW n, Wellformed(s), RouterProgram!IsToken(s, x)
    PROVE  Keeps(s, RouterProgram!Spend(s, x, n))
<1>1. RouterProgram!Spend(s, x, n) = EngineProgram!Spend(s, x, n)
  BY SameOps, NullIsNull DEF RouterProgram!Spend, EngineProgram!Spend
<1>. QED BY <1>1, SameOps, SpendKeeps

LEMMA RouterAccounts ==
    ASSUME NEW x, IsSeq(x)
    PROVE  /\ Plain(RouterProgram!FillAt(x)) /\ IsSeq(RouterProgram!FillAt(x))
           /\ Plain(RouterProgram!PreparedCustody(x))
<1>1. IsSeq(<<"fill">> \o x) /\ IsSeq(<<"prepared-custody">> \o x)
  BY Seeded
<1>. QED BY <1>1, Seeded, OtherProgram DEF RouterProgram!FillAt, RouterProgram!PreparedCustody,
     RouterProgram!Pda, RouterProgram!ID

LEMMA prepareOrderKeeps ==
    ASSUME NEW s, NEW a, NEW call, NEW env, Wellformed(s),
           a \in RouterProgram!Idl!prepareMarketOrder,
           RouterProgram!prepareMarketOrder(s, a, call, env).kind = "done"
    PROVE  Keeps(s, RouterProgram!prepareMarketOrder(s, a, call, env).s)
<1>. DEFINE custody == RouterProgram!PreparedCustody(a.preparedOrder)
            spent == IF a.sender # RouterProgram!Null THEN s
                     ELSE RouterProgram!Spend(s, a.senderToken, call.args.amountIn)
            t == RouterProgram!prepareMarketOrder(s, a, call, env).s
<1>1. /\ RouterProgram!IsKey(a.preparedOrder) /\ RouterProgram!IsToken(s, a.senderToken)
      /\ a.preparedCustodyToken = custody
  BY DEF RouterProgram!prepareMarketOrder, RouterProgram!Result, RouterProgram!Refused,
     RouterProgram!Mismatch
<1>2. \E d, e : /\ Mute(d) /\ Mute(e)
                /\ t = RouterProgram!Put(RouterProgram!Put(spent, a.preparedOrder, d), custody, e)
  BY <1>1, NewTokensAreMute DEF RouterProgram!prepareMarketOrder, RouterProgram!Result,
     RouterProgram!Done, RouterProgram!Refused, RouterProgram!Mismatch, Mute
<1>3. IsSeq(a.preparedOrder)
  BY DEF RouterProgram!Idl!prepareMarketOrder, RouterProgram!Idl!Pubkey, IsSeq
<1>4. Keeps(s, spent)
  BY <1>1, RouterSpendKeeps, KeepsRefl
<1>5. Plain(a.preparedOrder) /\ Plain(custody)
  BY <1>1, <1>3, KeyIsPlain, RouterAccounts
<1>. QED BY <1>2, <1>4, <1>5, SameOps, MuteKeeps

\* A prepared order that is there.
LEMMA OrderIsPlain ==
    ASSUME NEW s, NEW x, Wellformed(s), RouterProgram!Is(s, x, RouterProgram!Idl!preparedOrder)
    PROVE  Plain(x)
BY OtherData DEF RouterProgram!Is, RouterProgram!Exists, Exists, RouterProgram!Idl!preparedOrder

LEMMA closeOrderKeeps ==
    ASSUME NEW s, NEW a, NEW call, NEW env, Wellformed(s),
           a \in RouterProgram!Idl!closePreparedOrder,
           RouterProgram!closePreparedOrder(s, a, call, env).kind = "done"
    PROVE  Keeps(s, RouterProgram!closePreparedOrder(s, a, call, env).s)
<1>1. /\ RouterProgram!Is(s, a.preparedOrder, RouterProgram!Idl!preparedOrder)
      /\ a.preparedCustodyToken = RouterProgram!PreparedCustody(a.preparedOrder)
      /\ RouterProgram!closePreparedOrder(s, a, call, env).s
             = RouterProgram!Close(s, {a.preparedOrder, a.preparedCustodyToken})
  BY DEF RouterProgram!closePreparedOrder, RouterProgram!Result, RouterProgram!Done,
     RouterProgram!Refused, RouterProgram!Mismatch
<1>2. IsSeq(a.preparedOrder)
  BY DEF RouterProgram!Idl!closePreparedOrder, RouterProgram!Idl!Pubkey, IsSeq
<1>. QED BY <1>1, <1>2, OrderIsPlain, RouterAccounts, SameOps, CloseKeeps, KeepsRefl

LEMMA placeOrderKeeps ==
    ASSUME NEW s, NEW a, NEW call, NEW env, Wellformed(s),
           a \in RouterProgram!Idl!placeMarketOrderCctp,
           RouterProgram!placeMarketOrderCctp(s, a, call, env).kind = "done"
    PROVE  Keeps(s, RouterProgram!placeMarketOrderCctp(s, a, call, env).s)
<1>1. /\ RouterProgram!Is(s, a.preparedOrder, RouterProgram!Idl!preparedOrder)
      /\ a.preparedCustodyToken = RouterProgram!PreparedCustody(a.preparedOrder)
      /\ RouterProgram!placeMarketOrderCctp(s, a, call, env).s
             = RouterProgram!Close(s, {a.preparedOrder, a.preparedCustodyToken})
  BY DEF RouterProgram!placeMarketOrderCctp, RouterProgram!Result, RouterProgram!Done,
     RouterProgram!Refused, RouterProgram!Mismatch
<1>2. IsSeq(a.preparedOrder)
  BY DEF RouterProgram!Idl!placeMarketOrderCctp, RouterProgram!Idl!Pubkey, IsSeq
<1>. QED BY <1>1, <1>2, OrderIsPlain, RouterAccounts, SameOps, CloseKeeps, KeepsRefl

LEMMA RouterNoncesArePlain == \A m : Plain(RouterProgram!Engine!UsedNonces(m))
<1>1. ASSUME NEW m PROVE Plain(RouterProgram!Engine!UsedNonces(m))
  <2>. DEFINE d == RouterProgram!Engine!Circle!Decimal(m.sourceDomain)
              f == RouterProgram!Engine!Circle!Decimal(RouterProgram!Engine!Circle!FirstNonce(m.nonce))
  <2>1. IsSeq(d) /\ IsSeq(f) /\ IsSeq(<<"used_nonces">>)
    BY TupleIsSeq, NumbersAreSeq
  <2>2. IsSeq((<<"used_nonces">> \o d) \o f)
    BY <2>1, ConcatIsSeq
  <2>. QED BY <2>2, OtherProgram DEF RouterProgram!Engine!UsedNonces,
            RouterProgram!Engine!Circle!usedNoncesAddress, RouterProgram!Engine!Circle!Pda,
            RouterProgram!Engine!Circle!MessageTransmitter
<1>. QED BY <1>1

LEMMA redeemCctpKeeps ==
    ASSUME NEW s, NEW a, NEW call, NEW env, Wellformed(s),
           a \in RouterProgram!Idl!redeemCctpFill,
           RouterProgram!redeemCctpFill(s, a, call, env).kind = "done"
    PROVE  Keeps(s, RouterProgram!redeemCctpFill(s, a, call, env).s)
<1>. DEFINE fill == RouterProgram!FillAt(call.fillVaa)
            nonces == RouterProgram!Engine!UsedNonces(call.cctpMessage)
            t == RouterProgram!redeemCctpFill(s, a, call, env).s
<1>1. a.fillVaa.vaa = call.fillVaa
  BY DEF RouterProgram!redeemCctpFill, RouterProgram!Result, RouterProgram!Refused,
     RouterProgram!Mismatch
<1>2. \/ t = s
      \/ \E d, e, f :
            /\ Mute(d) /\ Mute(e) /\ Mute(f)
            /\ t = RouterProgram!Engine!Put(RouterProgram!Put(RouterProgram!Put(s, fill, d),
                              RouterProgram!PreparedCustody(fill), e), nonces, f)
  BY NewTokensAreMute DEF RouterProgram!redeemCctpFill, RouterProgram!Result, RouterProgram!Done,
     RouterProgram!Refused, RouterProgram!Mismatch, RouterProgram!NewFill,
     RouterProgram!Engine!Receive, Mute
<1>3. IsSeq(call.fillVaa)
  BY <1>1 DEF RouterProgram!Idl!redeemCctpFill, RouterProgram!Idl!LiquidityLayerVaa,
     RouterProgram!Idl!Pubkey, IsSeq
<1>4. Plain(fill) /\ Plain(RouterProgram!PreparedCustody(fill)) /\ Plain(nonces)
  BY <1>3, RouterAccounts, RouterNoncesArePlain
<1>. QED BY <1>2, <1>4, SameOps, MuteKeeps, KeepsRefl

LEMMA redeemFastKeeps ==
    ASSUME NEW s, NEW a, NEW call, NEW env, Wellformed(s),
           a \in RouterProgram!Idl!redeemFastFill,
           RouterProgram!redeemFastFill(s, a, call, env).kind = "done"
    PROVE  Keeps(s, RouterProgram!redeemFastFill(s, a, call, env).s)
<1>. DEFINE fill == RouterProgram!FillAt(call.fastFill)
            t == RouterProgram!redeemFastFill(s, a, call, env).s
<1>1. /\ a.fastFill = call.fastFill
      /\ RouterProgram!Is(s, call.fastFill, RouterProgram!Engine!Idl!fastFill)
  BY DEF RouterProgram!redeemFastFill, RouterProgram!Result, RouterProgram!Refused,
     RouterProgram!Mismatch
<1>2. \/ t = s
      \/ \E d, e, f :
            /\ Mute(d) /\ Mute(e) /\ Mute(f)
            /\ t = RouterProgram!Put(RouterProgram!Put(RouterProgram!Put(s, fill, d),
                              RouterProgram!PreparedCustody(fill), e), call.fastFill, f)
  BY <1>1, NewTokensAreMute DEF RouterProgram!redeemFastFill, RouterProgram!Result,
     RouterProgram!Done, RouterProgram!Refused, RouterProgram!Mismatch, RouterProgram!NewFill, Mute,
     RouterProgram!Is, RouterProgram!Engine!Idl!fastFill
<1>3. IsSeq(call.fastFill)
  BY <1>1 DEF RouterProgram!Idl!redeemFastFill, RouterProgram!Idl!Pubkey, IsSeq
<1>4. Plain(fill) /\ Plain(RouterProgram!PreparedCustody(fill))
  BY <1>3, RouterAccounts
<1>5. Plain(call.fastFill)
  BY <1>1, OtherData DEF RouterProgram!Is, RouterProgram!Exists, Exists,
     RouterProgram!Engine!Idl!fastFill
<1>. QED BY <1>2, <1>4, <1>5, SameOps, MuteKeeps, KeepsRefl

LEMMA consumeKeeps ==
    ASSUME NEW s, NEW a, NEW call, NEW env, Wellformed(s),
           a \in RouterProgram!Idl!consumePreparedFill,
           RouterProgram!consumePreparedFill(s, a, call, env).kind = "done"
    PROVE  Keeps(s, RouterProgram!consumePreparedFill(s, a, call, env).s)
<1>. DEFINE fill == RouterProgram!FillAt(call.fastFill)
<1>1. /\ RouterProgram!Is(s, fill, RouterProgram!Idl!preparedFill) /\ a.preparedFill = fill
      /\ RouterProgram!consumePreparedFill(s, a, call, env).s
             = RouterProgram!Close(s, {fill, RouterProgram!PreparedCustody(fill)})
  BY DEF RouterProgram!consumePreparedFill, RouterProgram!Result, RouterProgram!Done,
     RouterProgram!Refused, RouterProgram!Mismatch
<1>2. IsSeq(fill)
  BY <1>1 DEF RouterProgram!Idl!consumePreparedFill, RouterProgram!Idl!Pubkey, IsSeq
<1>3. Plain(fill)
  BY <1>1, OtherData DEF RouterProgram!Is, RouterProgram!Exists, Exists,
     RouterProgram!Idl!preparedFill
<1>. QED BY <1>1, <1>2, <1>3, RouterAccounts, SameOps, CloseKeeps, KeepsRefl

LEMMA RouterCustodianIsPlain ==
    /\ IsSeq(RouterProgram!Custodian) /\ Plain(RouterProgram!Custodian)
    /\ Plain(RouterProgram!Ata(RouterProgram!Custodian))
<1>1. IsSeq(<<"emitter">>) /\ Len(<<"emitter">>) >= 1
  BY TupleIsSeq
<1>2. IsSeq(RouterProgram!Custodian) /\ Plain(RouterProgram!Custodian)
  BY <1>1, Seeded, OtherProgram DEF RouterProgram!Custodian, RouterProgram!Pda, RouterProgram!ID
<1>3. IsSeq(RouterProgram!TokenProgram) /\ IsSeq(RouterProgram!Usdc)
  BY TupleIsSeq DEF RouterProgram!TokenProgram, RouterProgram!Usdc
<1>4. IsSeq((RouterProgram!Custodian \o RouterProgram!TokenProgram) \o RouterProgram!Usdc)
  BY <1>2, <1>3, ConcatIsSeq
<1>. QED BY <1>2, <1>4, OtherProgram DEF RouterProgram!Ata, RouterProgram!Pda,
     RouterProgram!AssociatedTokenProgram

LEMMA RouterOwnersKeep ==
    ASSUME NEW s, NEW a, NEW call, NEW env, NEW r,
           r \in {RouterProgram!setPause(s, a, call, env),
                  RouterProgram!submitOwnershipTransferRequest(s, a, call, env),
                  RouterProgram!confirmOwnershipTransferRequest(s, a, call, env),
                  RouterProgram!cancelOwnershipTransferRequest(s, a, call, env),
                  RouterProgram!updateOwnerAssistant(s, a, call, env)},
           r.kind = "done"
    PROVE  Keeps(s, r.s)
<1>. DEFINE x == RouterProgram!Custodian
            c == s[x]
<1>. HIDE DEF x
<1>1. ASSUME NEW d, Exists(s, x), r.s = RouterProgram!Put(s, x, d),
             "delegate" \in DOMAIN d => "delegate" \in DOMAIN c /\ d.delegate = c.delegate
      PROVE  Keeps(s, r.s)
  <2>1. Fresh(s, x, d)
    BY <1>1 DEF Fresh, Mute, DelegateOf
  <2>. QED BY <1>1, <2>1, RouterCustodianIsPlain, SameOps, PutKeeps, KeepsRefl DEF x
<1>2. CASE r = RouterProgram!setPause(s, a, call, env)
  <2>1. Exists(s, x) /\ r.s = RouterProgram!Put(s, x, [c EXCEPT !.paused = call.paused])
    BY <1>2 DEF RouterProgram!setPause, RouterProgram!Result, RouterProgram!Done,
       RouterProgram!Refused, RouterProgram!Mismatch, RouterProgram!Exists, Exists,
       RouterProgram!SetCustodian, x
  <2>. QED BY <1>1, <2>1
<1>3. CASE r = RouterProgram!submitOwnershipTransferRequest(s, a, call, env)
  <2>1. Exists(s, x) /\ r.s = RouterProgram!Put(s, x, [c EXCEPT !.pendingOwner = a.newOwner])
    BY <1>3 DEF RouterProgram!submitOwnershipTransferRequest, RouterProgram!Result, RouterProgram!Done,
       RouterProgram!Refused, RouterProgram!Mismatch, RouterProgram!Owner, RouterProgram!Exists, Exists,
       RouterProgram!SetCustodian, x
  <2>. QED BY <1>1, <2>1
<1>4. CASE r = RouterProgram!confirmOwnershipTransferRequest(s, a, call, env)
  <2>1. Exists(s, x) /\ r.s = RouterProgram!Put(s, x, [c EXCEPT !.owner = call.by, !.pendingOwner = RouterProgram!Null])
    BY <1>4 DEF RouterProgram!confirmOwnershipTransferRequest, RouterProgram!Result, RouterProgram!Done,
       RouterProgram!Refused, RouterProgram!Mismatch, RouterProgram!Exists, Exists,
       RouterProgram!SetCustodian, x
  <2>. QED BY <1>1, <2>1
<1>5. CASE r = RouterProgram!cancelOwnershipTransferRequest(s, a, call, env)
  <2>1. Exists(s, x) /\ r.s = RouterProgram!Put(s, x, [c EXCEPT !.pendingOwner = RouterProgram!Null])
    BY <1>5 DEF RouterProgram!cancelOwnershipTransferRequest, RouterProgram!Result, RouterProgram!Done,
       RouterProgram!Refused, RouterProgram!Mismatch, RouterProgram!Owner, RouterProgram!Exists, Exists,
       RouterProgram!SetCustodian, x
  <2>. QED BY <1>1, <2>1
<1>6. CASE r = RouterProgram!updateOwnerAssistant(s, a, call, env)
  <2>1. Exists(s, x) /\ r.s = RouterProgram!Put(s, x, [c EXCEPT !.ownerAssistant = a.newOwnerAssistant])
    BY <1>6 DEF RouterProgram!updateOwnerAssistant, RouterProgram!Result, RouterProgram!Done,
       RouterProgram!Refused, RouterProgram!Mismatch, RouterProgram!Owner, RouterProgram!Exists, Exists,
       RouterProgram!SetCustodian, x
  <2>. QED BY <1>1, <2>1
<1>. QED BY <1>2, <1>3, <1>4, <1>5, <1>6

LEMMA RouterInitializeKeeps ==
    ASSUME NEW s, NEW a, NEW call, NEW env,
           RouterProgram!initialize(s, a, call, env).kind = "done"
    PROVE  Keeps(s, RouterProgram!initialize(s, a, call, env).s)
<1>. DEFINE mint == RouterProgram!Ata(RouterProgram!Custodian)
            data == RouterProgram!Pda(RouterProgram!BpfLoader, RouterProgram!ID)
            t == RouterProgram!initialize(s, a, call, env).s
<1>1. a.cctpMintRecipient = mint /\ a.programData = data /\ Exists(s, data)
  BY DEF RouterProgram!initialize, RouterProgram!Result, RouterProgram!Refused,
     RouterProgram!Mismatch, RouterProgram!Exists, Exists
<1>2. \E c, d, e : /\ Mute(c) /\ Mute(d) /\ Fresh(s, data, e)
                   /\ t = RouterProgram!Put(RouterProgram!Put(RouterProgram!Put(s,
                              RouterProgram!Custodian, c), mint, d), data, e)
  BY <1>1, NewTokensAreMute DEF RouterProgram!initialize, RouterProgram!Result, RouterProgram!Done,
     RouterProgram!Refused, RouterProgram!Mismatch, RouterProgram!SetCustodian, Fresh, Mute, DelegateOf
<1>3. Plain(data)
  BY TupleIsSeq, OtherProgram DEF RouterProgram!Pda, RouterProgram!BpfLoader, RouterProgram!ID
<1>. QED BY <1>2, <1>3, RouterCustodianIsPlain, SameOps, PutKeeps, MuteKeeps, KeepsRefl

LEMMA RouterKeeps ==
    ASSUME NEW s, NEW ix, NEW call, NEW env, Wellformed(s),
           RouterProgram!Handle(s, ix, call, env).kind = "done"
    PROVE  Keeps(s, RouterProgram!Handle(s, ix, call, env).s)
<1>. DEFINE a == ix.accounts
            r == RouterProgram!Handle(s, ix, call, env)
<1>1. \/ /\ a \in RouterProgram!Idl!prepareMarketOrder
         /\ r = RouterProgram!prepareMarketOrder(s, a, call, env)
      \/ /\ a \in RouterProgram!Idl!closePreparedOrder
         /\ r = RouterProgram!closePreparedOrder(s, a, call, env)
      \/ /\ a \in RouterProgram!Idl!placeMarketOrderCctp
         /\ r = RouterProgram!placeMarketOrderCctp(s, a, call, env)
      \/ /\ a \in RouterProgram!Idl!redeemCctpFill
         /\ r = RouterProgram!redeemCctpFill(s, a, call, env)
      \/ /\ a \in RouterProgram!Idl!redeemFastFill
         /\ r = RouterProgram!redeemFastFill(s, a, call, env)
      \/ /\ a \in RouterProgram!Idl!consumePreparedFill
         /\ r = RouterProgram!consumePreparedFill(s, a, call, env)
      \/ r = RouterProgram!initialize(s, a, call, env)
      \/ r \in {RouterProgram!setPause(s, a, call, env),
                RouterProgram!submitOwnershipTransferRequest(s, a, call, env),
                RouterProgram!confirmOwnershipTransferRequest(s, a, call, env),
                RouterProgram!cancelOwnershipTransferRequest(s, a, call, env),
                RouterProgram!updateOwnerAssistant(s, a, call, env)}
  BY DEF RouterProgram!Handle, RouterProgram!Mismatch
<1>. HIDE DEF r
<1>2. r.kind = "done"
  BY DEF r
<1>3. Keeps(s, r.s)
  BY <1>1, <1>2, prepareOrderKeeps, closeOrderKeeps, placeOrderKeeps, redeemCctpKeeps,
     redeemFastKeeps, consumeKeeps, RouterInitializeKeeps, RouterOwnersKeep
<1>. QED BY <1>3 DEF r
-----------------------------------------------------------------------------
(* The upgrade manager: it takes the custodian of a program and gives it   *)
(* back, and changes its owners alone.                                     *)
LEMMA TakenKeeps ==
    ASSUME NEW s, NEW program \in {UpgradeProgram!MatchingEngine, UpgradeProgram!TokenRouter},
           NEW d, NEW x, NEW y,
           Exists(s, UpgradeProgram!CustodianAt(program)),
           d = [s[UpgradeProgram!CustodianAt(program)] EXCEPT !.owner = x, !.pendingOwner = y]
    PROVE  Keeps(s, UpgradeProgram!Put(s, UpgradeProgram!CustodianAt(program), d))
<1>1. CASE program = UpgradeProgram!MatchingEngine
  <2>1. UpgradeProgram!CustodianAt(program) = Custodian
    BY <1>1 DEF UpgradeProgram!MatchingEngine, UpgradeProgram!CustodianAt, UpgradeProgram!Pda,
       Custodian, EngineProgram!Custodian, EngineProgram!Pda, EngineProgram!ID
  <2>. QED BY <2>1, CustodianKeeps, SameOps
<1>2. CASE program = UpgradeProgram!TokenRouter
  <2>1. Plain(UpgradeProgram!CustodianAt(program))
    BY <1>2, TupleIsSeq, OtherProgram DEF UpgradeProgram!TokenRouter, UpgradeProgram!CustodianAt,
       UpgradeProgram!Pda
  <2>2. Fresh(s, UpgradeProgram!CustodianAt(program), d)
    BY DEF Fresh, Mute, DelegateOf
  <2>. QED BY <2>1, <2>2, PutKeeps, KeepsRefl, SameOps
<1>. QED BY <1>1, <1>2

LEMMA UpgradeAccounts ==
    ASSUME NEW program \in {UpgradeProgram!MatchingEngine, UpgradeProgram!TokenRouter}, NEW network_
    PROVE  /\ Plain(UpgradeProgram!Receipt(network_, program))
           /\ Plain(UpgradeProgram!ProgramData(program))
<1>1. IsSeq(program)
  BY TupleIsSeq DEF UpgradeProgram!MatchingEngine, UpgradeProgram!TokenRouter
<1>2. IsSeq(<<"receipt">> \o program)
  BY <1>1, Seeded
<1>3. \E p : UpgradeProgram!UpgradeManager(network_) = <<p>> /\ p # "matching-engine"
  BY DEF UpgradeProgram!UpgradeManager
<1>. QED BY <1>1, <1>2, <1>3, OtherProgram DEF UpgradeProgram!Receipt, UpgradeProgram!ProgramData,
     UpgradeProgram!Pda, UpgradeProgram!BpfLoader

LEMMA executeUpgradeKeeps ==
    ASSUME NEW s, NEW program \in {UpgradeProgram!MatchingEngine, UpgradeProgram!TokenRouter},
           NEW c, NEW a, NEW call, NEW env, Wellformed(s),
           UpgradeProgram!executeUpgrade(s, program, c, a, call, env).kind = "done"
    PROVE  Keeps(s, UpgradeProgram!executeUpgrade(s, program, c, a, call, env).s)
<1>. DEFINE receipt == UpgradeProgram!Receipt(env.network, program)
            data == UpgradeProgram!ProgramData(program)
            custodian == UpgradeProgram!CustodianAt(program)
            new == ~UpgradeProgram!Exists(s, receipt)
            owned == IF new
                     THEN UpgradeProgram!Put(s, custodian, [s[custodian] EXCEPT
                              !.owner = UpgradeProgram!Authority(env.network),
                              !.pendingOwner = UpgradeProgram!Null])
                     ELSE s
            t == UpgradeProgram!executeUpgrade(s, program, c, a, call, env).s
<1>1. /\ UpgradeProgram!Is(s, a.buffer, UpgradeProgram!Buffer)
      /\ new => UpgradeProgram!Exists(s, custodian)
      /\ c = custodian /\ a.receipt = receipt /\ a.programData = data /\ Exists(s, data)
  BY DEF UpgradeProgram!executeUpgrade, UpgradeProgram!Result, UpgradeProgram!Refused,
     UpgradeProgram!Mismatch, UpgradeProgram!Exists, Exists
<1>2. \E d, e : /\ Mute(d) /\ Fresh(s, data, e)
                /\ t = UpgradeProgram!Close(UpgradeProgram!Put(UpgradeProgram!Put(owned, receipt, d),
                                                data, e), {a.buffer})
  BY <1>1 DEF UpgradeProgram!executeUpgrade, UpgradeProgram!Result, UpgradeProgram!Done,
     UpgradeProgram!Refused, UpgradeProgram!Mismatch, Fresh, Mute, DelegateOf
<1>3. Keeps(s, owned)
  BY <1>1, TakenKeeps, KeepsRefl DEF UpgradeProgram!Exists, Exists
<1>4. Plain(a.buffer)
  BY <1>1, OtherData DEF UpgradeProgram!Is, UpgradeProgram!Exists, Exists, UpgradeProgram!Buffer
<1>. QED BY <1>2, <1>3, <1>4, UpgradeAccounts, SameOps, PutKeeps, MuteKeeps, CloseKeeps

LEMMA commitUpgradeKeeps ==
    ASSUME NEW s, NEW program \in {UpgradeProgram!MatchingEngine, UpgradeProgram!TokenRouter},
           NEW c, NEW a, NEW call, NEW env, Wellformed(s),
           UpgradeProgram!commitUpgrade(s, program, c, a, call, env).kind = "done"
    PROVE  Keeps(s, UpgradeProgram!commitUpgrade(s, program, c, a, call, env).s)
<1>. DEFINE receipt == UpgradeProgram!Receipt(env.network, program)
            custodian == UpgradeProgram!CustodianAt(program)
            owned == UpgradeProgram!Put(s, custodian, [s[custodian] EXCEPT
                         !.owner = call.by, !.pendingOwner = UpgradeProgram!Null])
            t == UpgradeProgram!commitUpgrade(s, program, c, a, call, env).s
<1>1. /\ UpgradeProgram!Exists(s, custodian)
      /\ c = custodian /\ a.receipt = receipt
      /\ t = UpgradeProgram!Close(owned, {receipt})
  BY DEF UpgradeProgram!commitUpgrade, UpgradeProgram!Result, UpgradeProgram!Refused,
     UpgradeProgram!Mismatch, UpgradeProgram!Done
<1>2. Keeps(s, owned)
  BY <1>1, TakenKeeps DEF UpgradeProgram!Exists, Exists
<1>. QED BY <1>1, <1>2, UpgradeAccounts, SameOps, CloseKeeps

LEMMA UpgradeKeeps ==
    ASSUME NEW s, NEW ix, NEW call, NEW env, Wellformed(s),
           UpgradeProgram!Handle(s, ix, call, env).kind = "done"
    PROVE  Keeps(s, UpgradeProgram!Handle(s, ix, call, env).s)
<1>. DEFINE r == UpgradeProgram!Handle(s, ix, call, env)
            programs == {UpgradeProgram!MatchingEngine, UpgradeProgram!TokenRouter}
<1>1. \E program \in programs : \E c, a :
        \/ r = UpgradeProgram!executeUpgrade(s, program, c, a, call, env)
        \/ r = UpgradeProgram!commitUpgrade(s, program, c, a, call, env)
  BY DEF UpgradeProgram!Handle, UpgradeProgram!Mismatch
<1>. QED BY <1>1, executeUpgradeKeeps, commitUpgradeKeeps
-----------------------------------------------------------------------------
(* Any instruction, and the transaction it is part of.                     *)
LEMMA MovesTrans ==
    \A s, t, u, env : Moves(s, t, env) /\ Moves(t, u, env) => Moves(s, u, env)
BY DEF Moves

\* An approval names a new delegate, and does nothing else.
Approves(s, t, ix) ==
    /\ ix.program = TokenProgram
    /\ SameBids(s, t)
    /\ \A x : \/ DelegateOf(t, x) \in {Null, DelegateOf(s, x)}
              \/ (x = ix.accounts.source /\ DelegateOf(t, x) = ix.accounts.delegate)

LEMMA ApproveApproves ==
    ASSUME NEW s, NEW a, Wellformed(s), Approve(s, a).kind = "done"
    PROVE  /\ Wellformed(Approve(s, a).s) /\ SameProposals(s, Approve(s, a).s)
           /\ SameBids(s, Approve(s, a).s)
           /\ \A x : \/ DelegateOf(Approve(s, a).s, x) \in {Null, DelegateOf(s, x)}
                     \/ (x = a.source /\ DelegateOf(Approve(s, a).s, x) = a.delegate)
<1>. DEFINE x == a.source
            d == [s[x] EXCEPT !.delegate = a.delegate, !.delegated = a.amount]
            t == Approve(s, a).s
<1>1. IsToken(s, x) /\ t = EngineProgram!Put(s, x, d)
  BY SameOps DEF Approve, Result, Done, Refused, Mismatch
<1>2. Plain(x) /\ "delegate" \in DOMAIN s[x]
  BY <1>1, SameOps, TokenIsPlain DEF EngineProgram!IsToken, EngineProgram!Is, EngineProgram!TokenAccount
<1>3. SameProposals(s, t) /\ SameBids(s, t)
  <2>1. SameProposals(s, t)
    BY <1>1, <1>2, UnproposedPut, KeepsRefl DEF Plain, Keeps
  <2>2. SameBids(s, t)
    BY <1>1, <1>2 DEF Plain, SameBids, SameBid, EngineProgram!Put, Exists
  <2>. QED BY <2>1, <2>2
<1>4. Wellformed(t)
  <2>1. ASSUME NEW v, Exists(t, Auction(v)) PROVE HasBid(t[Auction(v)])
    BY <1>3, <2>1 DEF Wellformed, SameBids, SameBid, Dull, HasBid
  <2>. QED BY <1>3, <2>1 DEF Wellformed, SameProposals
<1>5. \A y : y # x => DelegateOf(t, y) = DelegateOf(s, y)
  BY <1>1 DEF EngineProgram!Put, DelegateOf, Exists
<1>6. DelegateOf(t, x) = a.delegate
  <2>1. "delegate" \in DOMAIN d /\ d.delegate = a.delegate
    BY <1>2
  <2>. QED BY <1>1, <2>1 DEF EngineProgram!Put, DelegateOf, Exists
<1>. QED BY <1>3, <1>4, <1>5, <1>6

LEMMA HandleAffects ==
    ASSUME NEW s, NEW ix, NEW call, Wellformed(s), clock.slot \in Nat,
           Handle(s, ix, call).kind = "done"
    PROVE  LET t == Handle(s, ix, call).s
           IN  /\ Moves(s, t, Env)
               /\ \/ Approves(s, t, ix)
                  \/ Quiet(s, t)
                  \/ ix.program = Engine!ID /\ (Ends(s, t, Env) \/ Offers(s, t, ix, call, Env))
<1>. DEFINE r == Handle(s, ix, call)
<1>1. \/ ix.program = TokenProgram /\ r = Approve(s, ix.accounts)
      \/ ix.program = Engine!ID /\ r = EngineProgram!Handle(s, ix, call, Env)
      \/ r = RouterProgram!Handle(s, ix, call, Env)
      \/ r = UpgradeProgram!Handle(s, ix, call, Env)
  BY DEF Handle
<1>2. Env.slot \in Nat /\ Env.enactDelay \in Nat
  BY DelayOutlivesBlockhash DEF Env
<1>. HIDE DEF r
<1>3. r.kind = "done"
  BY DEF r
<1>4. CASE ix.program = TokenProgram /\ r = Approve(s, ix.accounts)
  <2>1. Approves(s, r.s, ix) /\ Wellformed(r.s) /\ SameProposals(s, r.s)
    BY <1>3, <1>4, ApproveApproves DEF Approves
  <2>. QED BY <2>1, SameMoves DEF r
<1>5. CASE ix.program = Engine!ID /\ r = EngineProgram!Handle(s, ix, call, Env)
  <2>1. Affects(s, r.s, ix, call, Env)
    BY <1>2, <1>3, <1>5, EngineAffects
  <2>. QED BY <1>5, <2>1 DEF Affects, r
<1>6. CASE r = RouterProgram!Handle(s, ix, call, Env) \/ r = UpgradeProgram!Handle(s, ix, call, Env)
  <2>1. Keeps(s, r.s)
    BY <1>3, <1>6, RouterKeeps, UpgradeKeeps
  <2>. QED BY <2>1, SameMoves, KeepsWellformed DEF Keeps, r
<1>. QED BY <1>1, <1>4, <1>5, <1>6

LEMMA OutcomeMoves ==
    ASSUME NEW call, NEW ixs, Wellformed(acct), clock.slot \in Nat,
           Outcome(call, ixs).kind = "done"
    PROVE  Moves(acct, Outcome(call, ixs).s, Env)
<1>. DEFINE first == Handle(acct, ixs[1], call)
<1>. HIDE DEF first
<1>1. \/ Outcome(call, ixs) = first
      \/ first.kind = "done" /\ Outcome(call, ixs) = Handle(first.s, ixs[2], call)
  BY DEF Outcome, first
<1>2. first.kind = "done" => Moves(acct, first.s, Env)
  BY HandleAffects DEF first
<1>3. CASE Outcome(call, ixs) = first
  BY <1>2, <1>3
<1>4. CASE first.kind = "done" /\ Outcome(call, ixs) = Handle(first.s, ixs[2], call)
  <2>1. Moves(acct, first.s, Env) /\ Wellformed(first.s)
    BY <1>2, <1>4 DEF Moves
  <2>2. Moves(first.s, Outcome(call, ixs).s, Env)
    BY <1>4, <2>1, HandleAffects
  <2>. QED BY <2>1, <2>2, MovesTrans
<1>. QED BY <1>1, <1>3, <1>4
-----------------------------------------------------------------------------
(* The invariant.                                                          *)

\* What an owner was shown is pending, or what is cannot be enacted before the
\* transaction is too old to land.
ShownOrLate ==
    Exists(acct, Custodian) /\ Exists(acct, Pending(acct)) =>
        \/ acct[Pending(acct)] = session.shown
        \/ /\ acct[Pending(acct)].slotEnactDelay \in Nat
           /\ acct[Pending(acct)].slotEnactDelay >= session.slot + EnactDelay

\* Slots are counted from nought.
ClockHasSlot == "slot" \in DOMAIN clock /\ clock.slot \in Nat

\* An owner signs the instructions its client built, and no others.
IsEnactment ==
    session.call.method = "updateAuctionParameters" =>
        session.ixs = Engine!updateAuctionParametersIx(session.call, session.seen)

\* A transaction was signed no later than now, and the proposal pending now is the one
\* its signer was shown or has its whole delay ahead of it.
SessionInv ==
    /\ setup \in DOMAIN Setups
    /\ ClockHasSlot
    /\ Wellformed(acct)
    /\ IsPending =>
         /\ session.slot \in Nat /\ session.slot <= clock.slot
         /\ IsEnactment /\ ShownOrLate

LEMMA Prefixed ==
    ASSUME NEW x, NEW y, IsSeq(x), IsSeq(y), Len(x) >= 1
    PROVE  IsPrefix(x, x \o y)
<1>1. PICK S, T : x \in Seq(S) /\ y \in Seq(T)
  BY DEF IsSeq
<1>2. x \in Seq(S \cup T) /\ y \in Seq(S \cup T) /\ 1 \in 1 .. Len(x) /\ Len(x) \in 1 .. Len(x)
  BY <1>1
<1>3. SubSeq(x \o y, 1, Len(x)) = SubSeq(x, 1, Len(x))
  BY <1>2, SubSeqOfConcat1
<1>4. Len(x) <= Len(x \o y)
  BY ConcatIsSeq
<1>. QED BY <1>3, <1>4 DEF IsPrefix

LEMMA SeedsAreAPrefix ==
    \A x, y, z : IsSeq(x) /\ IsSeq(y) /\ IsSeq(z) /\ Len(x) >= 1 =>
        IsPrefix(x, x \o (y \o z)) /\ IsPrefix(x \o y, x \o (y \o z))
<1>1. ASSUME NEW x, NEW y, NEW z, IsSeq(x), IsSeq(y), IsSeq(z), Len(x) >= 1
      PROVE  IsPrefix(x, x \o (y \o z)) /\ IsPrefix(x \o y, x \o (y \o z))
  <2>1. IsSeq(y \o z) /\ IsSeq(x \o y) /\ Len(x \o y) >= 1
    BY <1>1, ConcatIsSeq
  <2>2. IsPrefix(x, x \o (y \o z))
    BY <1>1, <2>1, Prefixed
  <2>3. IsPrefix(x \o y, (x \o y) \o z)
    BY <1>1, <2>1, Prefixed
  <2>4. (x \o y) \o z = x \o (y \o z)
    BY <1>1, ConcatIsAssociative
  <2>. QED BY <2>2, <2>3, <2>4
<1>. QED BY <1>1

LEMMA SetupsAreWellformed ==
    ASSUME NEW name \in DOMAIN Setups
    PROVE  Wellformed(Setups[name].accounts)
<1>. DEFINE s == Setups[name].accounts
<1>. HIDE DEF s
<1>1. ProposalsAreKnown(s) \/ \A x \in DOMAIN s : ~IsPrefix(EngineProgram!ID, x)
  BY SetupsAreDeployments DEF s
<1>2. ASSUME NEW n
      PROVE  /\ IsPrefix(EngineProgram!ID, ProposalAt(n))
             /\ IsPrefix(Pda(EngineProgram!ID, <<"proposal">>), ProposalAt(n))
  <2>. DEFINE p == <<"matching-engine">>
              k == <<"proposal">>
              u == EngineProgram!U64BE(n)
  <2>1. IsSeq(p) /\ Len(p) >= 1 /\ IsSeq(k) /\ IsSeq(u)
    BY TupleIsSeq, NumbersAreSeq
  <2>2. ProposalAt(n) = p \o (k \o u) /\ EngineProgram!ID = p
        /\ Pda(EngineProgram!ID, <<"proposal">>) = p \o k
    BY DEF ProposalAt, EngineProgram!ProposalAt, EngineProgram!Pda, EngineProgram!ID, Pda
  <2>. HIDE DEF p, k, u
  <2>3. IsPrefix(p, p \o (k \o u)) /\ IsPrefix(p \o k, p \o (k \o u))
    BY <2>1, SeedsAreAPrefix
  <2>. QED BY <2>2, <2>3
<1>3. IsPrefix(EngineProgram!ID, Custodian)
  <2>1. IsSeq(EngineProgram!ID) /\ Len(EngineProgram!ID) = 1 /\ IsSeq(<<"emitter">>)
    BY TupleIsSeq DEF EngineProgram!ID
  <2>. QED BY <2>1, Prefixed DEF Custodian, EngineProgram!Custodian, EngineProgram!Pda
<1>4. ASSUME NEW v PROVE ~Exists(s, Auction(v))
  <2>. DEFINE p == <<"matching-engine">>
              k == <<"auction">>
              h == EngineProgram!Digest(v)
  <2>1. IsSeq(p) /\ Len(p) >= 1 /\ IsSeq(k) /\ IsSeq(h)
    BY TupleIsSeq, HashIsSeq
  <2>2. Auction(v) = p \o (k \o h) /\ Pda(EngineProgram!ID, <<"auction">>) = p \o k
    BY DEF Auction, EngineProgram!AuctionAt, EngineProgram!Pda, EngineProgram!ID, Pda
  <2>. HIDE DEF p, k, h
  <2>3. IsPrefix(p \o k, p \o (k \o h))
    BY <2>1, SeedsAreAPrefix
  <2>. QED BY <2>2, <2>3, SetupsPrecedeOffers DEF s, Exists
<1>5. Wellformed(s)
  <2>1. CASE ProposalsAreKnown(s)
    <3>1. /\ Exists(s, Custodian) /\ "nextProposalId" \in DOMAIN s[Custodian]
          /\ s[Custodian].nextProposalId \in Nat
      BY <2>1 DEF ProposalsAreKnown, Is, Exists, Custodian, EngineProgram!Idl!custodian
    <3>2. ASSUME NEW n \in Nat, Exists(s, ProposalAt(n))
          PROVE  /\ n <= s[Custodian].nextProposalId
                 /\ "slotEnactDelay" \in DOMAIN s[ProposalAt(n)]
      <4>1. /\ \E m \in 0 .. s[Custodian].nextProposalId : ProposalAt(n) = ProposalAt(m)
            /\ s[ProposalAt(n)] \in EngineProgram!Idl!proposal
        BY <1>2, <2>1, <3>2 DEF ProposalsAreKnown, Exists, Custodian, ProposalAt
      <4>2. PICK m \in 0 .. s[Custodian].nextProposalId : ProposalAt(n) = ProposalAt(m)
        BY <4>1
      <4>3. n = m
        BY <3>1, <4>2, ProposalsDiffer
      <4>. QED BY <3>1, <4>1, <4>3 DEF EngineProgram!Idl!proposal
    <3>. QED BY <1>4, <3>1, <3>2 DEF Wellformed
  <2>2. CASE \A x \in DOMAIN s : ~IsPrefix(EngineProgram!ID, x)
    BY <1>2, <1>3, <1>4, <2>2 DEF Wellformed, Exists
  <2>. QED BY <1>1, <2>1, <2>2
<1>. QED BY <1>5 DEF s

LEMMA SessionInit == Init => SessionInv
<1>. SUFFICES ASSUME Init PROVE SessionInv
  OBVIOUS
<1>1. /\ setup \in DOMAIN Setups /\ acct = Setups[setup].accounts
      /\ ClockHasSlot /\ ~IsPending
  BY DEF Init, Situations, Idle, IsPending, ClockHasSlot
<1>. QED BY <1>1, SetupsAreWellformed DEF SessionInv

\* A transaction that lands leaves what is pending, or makes the owner wait.
LEMMA LandKeepsInv ==
    ASSUME SessionInv, NEW call, NEW ixs, LandTransaction(call, ixs)
    PROVE  /\ Wellformed(acct') /\ ClockHasSlot' /\ clock'.slot = clock.slot
           /\ IsPending /\ UNCHANGED session => ShownOrLate'
<1>1. Outcome(call, ixs).kind = "done" /\ acct' = Outcome(call, ixs).s
  BY DEF LandTransaction
<1>2. Moves(acct, acct', Env)
  BY <1>1, OutcomeMoves DEF SessionInv, ClockHasSlot
<1>3. ClockHasSlot' /\ clock'.slot = clock.slot
  BY DEF LandTransaction, SessionInv, ClockHasSlot
<1>4. ASSUME IsPending, UNCHANGED session PROVE ShownOrLate'
  <2>1. ShownOrLate /\ session.slot \in Nat /\ session.slot <= clock.slot /\ clock.slot \in Nat
    BY <1>4 DEF SessionInv, ClockHasSlot
  <2>. QED BY <1>2, <1>4, <2>1, DelayOutlivesBlockhash DEF ShownOrLate, Moves, Env, Pending, EngineProgram!Pending, EngineProgram!Custody
<1>. QED BY <1>2, <1>3, <1>4 DEF Moves

LEMMA SessionNext ==
    ASSUME SessionInv, [Next]_vars
    PROVE  SessionInv'
<1>. USE DEF SessionInv, ClockHasSlot
<1>1. CASE BeginCall
  <2>1. session'.phase = "reading" /\ UNCHANGED <<setup, acct, clock>>
    BY <1>1 DEF BeginCall
  <2>. QED BY <2>1 DEF IsPending
<1>2. CASE Fetch
  <2>1. session'.phase # "pending" /\ UNCHANGED <<setup, acct, clock>>
    BY <1>2 DEF Fetch, Idle
  <2>. QED BY <2>1 DEF IsPending
<1>3. CASE BuildTransaction
  <2>1. UNCHANGED <<setup, acct, clock>>
    BY <1>3 DEF BuildTransaction
  <2>2. ASSUME IsPending'
        PROVE  session'.slot = clock.slot /\ session'.shown = PendingProposal /\ IsEnactment'
    <3>1. /\ session'.slot = clock.slot /\ session'.shown = PendingProposal
          /\ session'.call = session.call /\ session'.seen = session.seen
          /\ session'.ixs = Build(session.call, session.seen)
      BY <1>3, <2>2 DEF BuildTransaction, IsPending, Idle
    <3>. QED BY <3>1 DEF IsEnactment, Build
  <2>3. IsPending' => ShownOrLate'
    BY <2>1, <2>2 DEF ShownOrLate, PendingProposal, Pending, Custodian
  <2>. QED BY <2>1, <2>2, <2>3 DEF ClockHasSlot
<1>4. CASE Land
  <2>1. ~IsPending' /\ UNCHANGED setup
    BY <1>4 DEF Land, Idle, IsPending
  <2>2. Wellformed(acct') /\ ClockHasSlot'
    BY <1>4, LandKeepsInv DEF Land
  <2>. QED BY <2>1, <2>2
<1>5. CASE Drop
  <2>1. ~IsPending' /\ UNCHANGED <<setup, acct, clock>>
    BY <1>5 DEF Drop, Idle, IsPending
  <2>. QED BY <2>1
<1>6. CASE OthersLand
  <2>1. UNCHANGED <<setup, session>> /\ \E call, ixs : LandTransaction(call, ixs)
    BY <1>6 DEF OthersLand
  <2>2. /\ Wellformed(acct') /\ ClockHasSlot' /\ clock'.slot = clock.slot
        /\ IsPending /\ UNCHANGED session => ShownOrLate'
    BY <2>1, LandKeepsInv
  <2>. QED BY <2>1, <2>2 DEF IsPending, IsEnactment
<1>7. CASE Tick
  <2>1. /\ UNCHANGED <<setup, acct, session>>
        /\ ClockHasSlot' /\ clock'.slot >= clock.slot
    <3>1. UNCHANGED <<setup, acct, session>>
      BY <1>7 DEF Tick
    <3>2. \/ clock' = [clock EXCEPT !.slot = clock.slot + 1]
          \/ clock' = [clock EXCEPT !.period = Later(clock.period)]
          \/ clock' = [clock EXCEPT !.expired = TRUE]
      BY <1>7 DEF Tick
    <3>. QED BY <3>1, <3>2 DEF ClockHasSlot
  <2>2. ShownOrLate' <=> ShownOrLate
    BY <2>1 DEF ShownOrLate
  <2>. QED BY <2>1, <2>2 DEF IsPending, IsEnactment, ClockHasSlot
<1>8. CASE UNCHANGED vars
  BY <1>8 DEF vars, IsPending, IsEnactment, ShownOrLate
<1>. QED BY <1>1, <1>2, <1>3, <1>4, <1>5, <1>6, <1>7, <1>8 DEF Next

LEMMA EnactmentIsShown == ASSUME SessionInv PROVE UnseenProposalsAreNotEnacted
<1>. SUFFICES ASSUME IsPending, session.call.method = "updateAuctionParameters", Accepted
              PROVE  acct[Pending(acct)] = session.shown
  BY DEF UnseenProposalsAreNotEnacted, Pending
<1>1. /\ clock.slot - session.slot <= BlockhashAge
      /\ Outcome(session.call, session.ixs).kind = "done"
  BY DEF Accepted, CanLand
<1>2. session.slot \in Nat /\ clock.slot \in Nat /\ ShownOrLate /\ IsEnactment
  BY DEF SessionInv, ClockHasSlot
<1>3. PICK accounts : session.ixs = << [program |-> Engine!ID, name |-> "updateAuctionParameters",
                                        accounts |-> accounts] >>
  BY <1>2 DEF IsEnactment, Engine!updateAuctionParametersIx, Engine!Ix
<1>4. Handle(acct, session.ixs[1], session.call).kind = "done"
  BY <1>1, <1>3 DEF Outcome
<1>5. EngineProgram!Handle(acct, session.ixs[1], session.call, Env).kind = "done"
  <2>1. Engine!ID # TokenProgram /\ Engine!ID # Router!ID
    BY DEF Engine!ID, TokenProgram, Router!ID
  <2>2. session.ixs[1].program = Engine!ID
    BY <1>3
  <2>. QED BY <1>4, <2>1, <2>2 DEF Handle
<1>6. EngineProgram!updateAuctionParameters(acct, accounts, session.call, Env).kind = "done"
  BY <1>3, <1>5 DEF EngineProgram!Handle, EngineProgram!Mismatch
<1>7. /\ Exists(acct, Custodian) /\ Exists(acct, Pending(acct))
      /\ clock.slot >= acct[Pending(acct)].slotEnactDelay
  BY <1>6 DEF EngineProgram!updateAuctionParameters, EngineProgram!Result, EngineProgram!Refused,
     EngineProgram!Mismatch, EngineProgram!Owner, EngineProgram!Exists, Exists, Custodian, Pending,
     EngineProgram!DelayIsOver, Env
<1>. QED BY <1>1, <1>2, <1>7, DelayOutlivesBlockhash DEF ShownOrLate

\* An update_auction_parameters that the programs accept enacts the proposal that was
\* pending when the owner's client read the custodian: not one that close_proposal and
\* propose_auction_parameters put in its place while the transaction was on its way.
THEOREM ShownProposalIsEnacted ==
    Spec => []UnseenProposalsAreNotEnacted
<1>1. Init => SessionInv
  BY SessionInit
<1>2. SessionInv /\ [Next]_vars => SessionInv'
  BY SessionNext
<1>3. SessionInv => UnseenProposalsAreNotEnacted
  BY EnactmentIsShown
<1>. QED BY <1>1, <1>2, <1>3, PTL DEF Spec
-----------------------------------------------------------------------------
(* What is left of an approval.                                            *)
LEMMA SeqExtensional ==
    ASSUME NEW x, NEW y, IsSeq(x), IsSeq(y), Len(x) = Len(y), \A i \in 1 .. Len(x) : x[i] = y[i]
    PROVE  x = y
<1>1. PICK S, T : x \in Seq(S) /\ y \in Seq(T)
  BY DEF IsSeq
<1>2. x \in Seq(S \cup T) /\ y \in Seq(S \cup T)
  BY <1>1
<1>. QED BY <1>2, SeqEqual

Joined(x, y, z) ==
    /\ IsSeq(z) /\ Len(z) = Len(x) + Len(y) /\ Len(x) \in Nat /\ Len(y) \in Nat
    /\ \A i \in 1 .. Len(x) : z[i] = x[i]
    /\ \A i \in 1 .. Len(y) : z[i + Len(x)] = y[i]

LEMMA Joins == \A x, y : IsSeq(x) /\ IsSeq(y) => Joined(x, y, x \o y) /\ IsSeq(x \o y)
<1>1. ASSUME NEW x, NEW y, IsSeq(x), IsSeq(y) PROVE Joined(x, y, x \o y) /\ IsSeq(x \o y)
  <2>1. IsSeq(x \o y) /\ Len(x \o y) = Len(x) + Len(y) /\ Len(x) \in Nat /\ Len(y) \in Nat
    BY <1>1, ConcatIsSeq
  <2>2. ASSUME NEW i \in 1 .. Len(x) PROVE (x \o y)[i] = x[i]
    BY <1>1, ConcatIsSeq
  <2>3. ASSUME NEW i \in 1 .. Len(y) PROVE (x \o y)[i + Len(x)] = y[i]
    BY <1>1, ConcatIsSeq
  <2>. QED BY <2>1, <2>2, <2>3 DEF Joined
<1>. QED BY <1>1

\* The cells of a transfer authority: two, the auction's, the width, and the strokes.
Cells(t, auction, p) ==
    LET n == Len(auction)
    IN  /\ n \in Nat /\ Len(t) = n + p + 3
        /\ \A i \in 1 .. n : t[i + 2] = auction[i]
        /\ t[n + 3] = "u64be"
        /\ \A i \in 1 .. p : t[i + n + 3] = "I"

LEMMA AuthorityCells == \A v : \A p \in Nat : Cells(Authority(v, p), Auction(v), p)
<1>1. ASSUME NEW v, NEW p \in Nat PROVE Cells(Authority(v, p), Auction(v), p)
  <2>. DEFINE auction == Auction(v)
              n == Len(auction)
              e == <<"matching-engine">>
              k == <<"transfer-authority">>
              w == <<"u64be">>
              z == EngineProgram!Strokes(p)
              u == w \o z
              y == k \o auction
              x == y \o u
              t == e \o x
  <2>1. /\ IsSeq(auction) /\ IsSeq(z) /\ Len(z) = p
        /\ \A i \in 1 .. p : z[i] = "I"
    BY AuctionsAreSeq, StrokesAreSeq DEF EngineProgram!Strokes
  <2>2. Authority(v, p) = t
    BY DEF Authority, EngineProgram!TransferAuthority, EngineProgram!Pda, EngineProgram!ID, EngineProgram!U64BE
  <2>3. /\ IsSeq(e) /\ Len(e) = 1 /\ IsSeq(k) /\ Len(k) = 1
        /\ IsSeq(w) /\ Len(w) = 1 /\ w[1] = "u64be"
    BY TupleIsSeq
  <2>. HIDE DEF e, k, w, z, auction
  <2>4. Joined(w, z, u) /\ Joined(k, auction, y) /\ IsSeq(u) /\ IsSeq(y)
    BY <2>1, <2>3, Joins
  <2>5. Joined(y, u, x) /\ IsSeq(x)
    BY <2>4, Joins
  <2>6. Joined(e, x, t)
    BY <2>3, <2>5, Joins
  <2>. HIDE DEF u, y, x, t
  <2>7. /\ Len(u) = p + 1 /\ u[1] = "u64be" /\ \A i \in 1 .. p : u[i + 1] = "I"
    <3>1. /\ Len(u) = 1 + Len(z) /\ \A i \in 1 .. 1 : u[i] = w[i]
          /\ \A i \in 1 .. Len(z) : u[i + 1] = z[i]
      BY <2>3, <2>4 DEF Joined
    <3>2. 1 \in 1 .. 1 /\ u[1] = w[1]
      BY <3>1
    <3>3. ASSUME NEW i \in 1 .. p PROVE u[i + 1] = "I"
      BY <2>1, <3>1
    <3>. QED BY <2>1, <2>3, <3>1, <3>2, <3>3
  <2>8. /\ Len(y) = n + 1 /\ n \in Nat /\ \A i \in 1 .. n : y[i + 1] = auction[i]
    BY <2>3, <2>4 DEF Joined
  <2>9. /\ Len(x) = n + p + 2
        /\ \A i \in 1 .. n + 1 : x[i] = y[i]
        /\ \A i \in 1 .. p + 1 : x[i + (n + 1)] = u[i]
    BY <2>5, <2>7, <2>8 DEF Joined
  <2>10. Len(t) = Len(x) + 1 /\ \A i \in 1 .. Len(x) : t[i + 1] = x[i]
    BY <2>3, <2>6, <2>9 DEF Joined
  <2>11. ASSUME NEW i \in 1 .. n PROVE t[i + 2] = auction[i]
    <3>1. i + 1 \in 1 .. Len(x) /\ i + 1 \in 1 .. n + 1 /\ (i + 1) + 1 = i + 2
      BY <2>8, <2>9
    <3>2. t[(i + 1) + 1] = x[i + 1] /\ x[i + 1] = y[i + 1]
      BY <2>9, <2>10, <3>1
    <3>. QED BY <2>8, <3>1, <3>2
  <2>12. ASSUME NEW i \in 1 .. p + 1 PROVE t[i + n + 2] = u[i]
    <3>1. i + (n + 1) \in 1 .. Len(x) /\ (i + (n + 1)) + 1 = i + n + 2
      BY <2>8, <2>9
    <3>2. t[(i + (n + 1)) + 1] = x[i + (n + 1)] /\ x[i + (n + 1)] = u[i]
      BY <2>9, <2>10, <3>1
    <3>. QED BY <3>1, <3>2
  <2>13. t[n + 3] = "u64be"
    <3>1. t[1 + n + 2] = u[1] /\ 1 + n + 2 = n + 3
      BY <2>8, <2>12
    <3>. QED BY <2>7, <3>1
  <2>14. ASSUME NEW i \in 1 .. p PROVE t[i + n + 3] = "I"
    <3>1. i + 1 \in 1 .. p + 1 /\ (i + 1) + n + 2 = i + n + 3
      BY <2>8
    <3>2. t[(i + 1) + n + 2] = u[i + 1]
      BY <2>12, <3>1
    <3>. QED BY <2>7, <3>1, <3>2
  <2>15. Cells(t, auction, p)
    BY <2>8, <2>9, <2>10, <2>11, <2>13, <2>14 DEF Cells
  <2>. QED BY <2>2, <2>15 DEF auction
<1>. QED BY <1>1

\* So an authority is of one auction and one price.
LEMMA CellsDiffer ==
    ASSUME NEW t, NEW x, NEW y, NEW p \in Nat, NEW q \in Nat,
           Cells(t, x, p), Cells(t, y, q), IsSeq(x), IsSeq(y)
    PROVE  x = y /\ p = q
<1>. DEFINE m == Len(x)
            n == Len(y)
<1>1. /\ m \in Nat /\ Len(t) = m + p + 3
      /\ \A i \in 1 .. m : t[i + 2] = x[i]
      /\ t[m + 3] = "u64be"
      /\ \A i \in 1 .. p : t[i + m + 3] = "I"
  BY DEF Cells
<1>2. /\ n \in Nat /\ Len(t) = n + q + 3
      /\ \A i \in 1 .. n : t[i + 2] = y[i]
      /\ t[n + 3] = "u64be"
      /\ \A i \in 1 .. q : t[i + n + 3] = "I"
  BY DEF Cells
<1>4. m = n
  <2>1. ~(m < n)
    <3>1. SUFFICES ASSUME m < n PROVE FALSE
      OBVIOUS
    <3>2. n - m \in 1 .. p /\ (n - m) + m + 3 = n + 3
      BY <1>1, <1>2, <3>1
    <3>3. t[n + 3] = "I"
      BY <1>1, <3>2
    <3>. QED BY <1>2, <3>3
  <2>2. ~(n < m)
    <3>1. SUFFICES ASSUME n < m PROVE FALSE
      OBVIOUS
    <3>2. m - n \in 1 .. q /\ (m - n) + n + 3 = m + 3
      BY <1>1, <1>2, <3>1
    <3>3. t[m + 3] = "I"
      BY <1>2, <3>2
    <3>. QED BY <1>1, <3>3
  <2>. QED BY <1>1, <1>2, <2>1, <2>2
<1>5. p = q
  BY <1>1, <1>2, <1>4
<1>6. \A i \in 1 .. Len(x) : x[i] = y[i]
  BY <1>1, <1>2, <1>4
<1>. QED BY <1>4, <1>5, <1>6, SeqExtensional

LEMMA AuthoritiesDiffer ==
    \A v, w : \A p, q \in Nat : Authority(v, p) = Authority(w, q) => Auction(v) = Auction(w) /\ p = q
<1>1. ASSUME NEW v, NEW w, NEW p \in Nat, NEW q \in Nat, Authority(v, p) = Authority(w, q)
      PROVE  Auction(v) = Auction(w) /\ p = q
  <2>1. Cells(Authority(v, p), Auction(v), p) /\ Cells(Authority(v, p), Auction(w), q)
    BY <1>1, AuthorityCells
  <2>2. IsSeq(Auction(v)) /\ IsSeq(Auction(w))
    BY AuctionsAreSeq
  <2>. QED BY <2>1, <2>2, CellsDiffer
<1>. QED BY <1>1

LEMMA AuthorityIsNotNull == \A v : \A p \in Nat : Authority(v, p) # Null
<1>1. ASSUME NEW v, NEW p \in Nat PROVE Authority(v, p) # Null
  <2>1. Len(Authority(v, p)) >= 3
    BY AuthorityCells DEF Cells
  <2>2. Len(Null) = 0
    BY DEF Null
  <2>. QED BY <2>1, <2>2
<1>. QED BY <1>1

\* No delegate outbids its auction: what is left of an approval is for an auction that
\* there was, at a price that the best offer has reached.
Leftovers(s, expired) ==
    /\ \A v : IsActive(s, v) => s[Auction(v)].info.offerPrice \in Nat
    /\ \A x, v : \A p \in Nat : DelegateOf(s, x) = Authority(v, p) =>
         /\ Exists(s, Auction(v)) \/ expired
         /\ IsActive(s, v) => s[Auction(v)].info.offerPrice <= p

LEMMA LeftoversExpire == \A s, e : Leftovers(s, e) => Leftovers(s, TRUE)
BY DEF Leftovers

LEMMA SameActive ==
    \A s, t, v : SameBid(s, t, v) /\ IsActive(t, v) => IsActive(s, v) /\ t[Auction(v)] = s[Auction(v)]
BY DEF SameBid, IsActive, Dull

LEMMA LeftoversQuiet ==
    ASSUME NEW s, NEW t, NEW e, Quiet(s, t), Leftovers(s, e)
    PROVE  Leftovers(t, e)
<1>1. ASSUME NEW v, IsActive(t, v) PROVE IsActive(s, v) /\ t[Auction(v)] = s[Auction(v)]
  BY <1>1, SameActive DEF Quiet, SameBids
<1>2. ASSUME NEW x, NEW v, NEW p \in Nat, DelegateOf(t, x) = Authority(v, p)
      PROVE  DelegateOf(s, x) = Authority(v, p)
  BY <1>2, AuthorityIsNotNull DEF Quiet, Grants
<1>3. \A v : Exists(s, Auction(v)) => Exists(t, Auction(v))
  BY DEF Quiet, SameBids, SameBid
<1>. QED BY <1>1, <1>2, <1>3 DEF Leftovers

LEMMA LeftoversEnd ==
    ASSUME NEW s, NEW t, NEW env, Ends(s, t, env), Leftovers(s, env.expired)
    PROVE  Leftovers(t, env.expired)
<1>1. ASSUME NEW v, IsActive(t, v) PROVE IsActive(s, v) /\ t[Auction(v)] = s[Auction(v)]
  BY <1>1 DEF Ends, IsActive
<1>2. ASSUME NEW x, NEW v, NEW p \in Nat, DelegateOf(t, x) = Authority(v, p)
      PROVE  DelegateOf(s, x) = Authority(v, p)
  BY <1>2, AuthorityIsNotNull DEF Ends, Grants
<1>. QED BY <1>1, <1>2 DEF Leftovers, Ends

\* An offer whose transaction first approved its own transfer authority.
LEMMA LeftoversOffer ==
    ASSUME NEW s, NEW u, NEW t, NEW v, NEW price \in Nat, NEW expired,
           Leftovers(s, expired), SameBids(s, u),
           \A x : DelegateOf(u, x) \in {Null, DelegateOf(s, x), Authority(v, price)},
           Bids(u, t, v, price),
           \/ ~Exists(u, Auction(v)) /\ ~expired
           \/ IsActive(u, v) /\ price < u[Auction(v)].info.offerPrice
    PROVE  Leftovers(t, expired)
<1>1. ASSUME NEW w, IsActive(t, w), Auction(w) # Auction(v)
      PROVE  IsActive(s, w) /\ t[Auction(w)] = s[Auction(w)]
  <2>1. IsActive(u, w) /\ t[Auction(w)] = u[Auction(w)]
    BY <1>1, SameActive DEF Bids
  <2>2. IsActive(s, w) /\ u[Auction(w)] = s[Auction(w)]
    BY <2>1, SameActive DEF SameBids
  <2>. QED BY <2>1, <2>2
<1>2. ASSUME NEW w, IsActive(t, w) PROVE t[Auction(w)].info.offerPrice \in Nat
  <2>1. CASE Auction(w) = Auction(v)
    BY <2>1 DEF Bids
  <2>2. CASE Auction(w) # Auction(v)
    BY <1>1, <1>2, <2>2 DEF Leftovers
  <2>. QED BY <2>1, <2>2
<1>3. ASSUME NEW x, NEW w, NEW p \in Nat, DelegateOf(t, x) = Authority(w, p)
      PROVE  /\ Exists(t, Auction(w)) \/ expired
             /\ IsActive(t, w) => t[Auction(w)].info.offerPrice <= p
  <2>1. Authority(w, p) \in {DelegateOf(s, x), Authority(v, price)}
    BY <1>3, AuthorityIsNotNull DEF Bids, Grants
  <2>2. CASE Authority(w, p) = Authority(v, price)
    <3>1. Auction(w) = Auction(v) /\ p = price
      BY <2>2, AuthoritiesDiffer
    <3>. QED BY <3>1 DEF Bids
  <2>3. CASE DelegateOf(s, x) = Authority(w, p)
    <3>1. /\ Exists(s, Auction(w)) \/ expired
          /\ IsActive(s, w) => s[Auction(w)].info.offerPrice <= p
      BY <2>3 DEF Leftovers
    <3>2. CASE Auction(w) # Auction(v)
      BY <1>1, <3>1, <3>2 DEF Bids, SameBids, SameBid
    <3>3. CASE Auction(w) = Auction(v)
      <4>1. IsActive(u, v) /\ price < u[Auction(v)].info.offerPrice
        BY <3>1, <3>3 DEF SameBids, SameBid
      <4>2. IsActive(s, v) /\ u[Auction(v)] = s[Auction(v)]
        BY <4>1, SameActive DEF SameBids
      <4>3. s[Auction(v)].info.offerPrice \in Nat /\ s[Auction(v)].info.offerPrice <= p
        BY <3>1, <3>3, <4>2 DEF Leftovers, IsActive
      <4>4. t[Auction(w)].info.offerPrice = price /\ Exists(t, Auction(w))
        BY <3>3 DEF Bids
      <4>. QED BY <4>1, <4>2, <4>3, <4>4
    <3>. QED BY <3>2, <3>3
  <2>. QED BY <2>1, <2>2, <2>3
<1>. QED BY <1>2, <1>3 DEF Leftovers
-----------------------------------------------------------------------------
(* The instructions that may follow an approval.                           *)
OfferNames == {"placeInitialOfferCctp", "improveOffer"}

LEMMA OffersOffer ==
    ASSUME NEW s, NEW ix, NEW call, Wellformed(s), ix.program = Engine!ID, ix.name \in OfferNames,
           Handle(s, ix, call).kind = "done"
    PROVE  Offers(s, Handle(s, ix, call).s, ix, call, Env)
<1>. DEFINE a == ix.accounts
            r == Handle(s, ix, call)
<1>1. Engine!ID # TokenProgram /\ Engine!ID # Router!ID
  BY DEF Engine!ID, TokenProgram, Router!ID
<1>2. r = EngineProgram!Handle(s, ix, call, Env)
  BY <1>1 DEF Handle
<1>3. \/ r = EngineProgram!placeInitialOfferCctp(s, a, call, Env)
      \/ r = EngineProgram!improveOffer(s, a, call, Env)
  <2>. HIDE DEF r
  <2>1. r.kind = "done"
    BY DEF r
  <2>2. CASE ix.name = "placeInitialOfferCctp"
    BY <1>2, <2>1, <2>2 DEF EngineProgram!Handle, EngineProgram!Mismatch
  <2>3. CASE ix.name = "improveOffer"
    BY <1>2, <2>1, <2>3 DEF EngineProgram!Handle, EngineProgram!Mismatch
  <2>. QED BY <2>2, <2>3 DEF OfferNames
<1>. HIDE DEF r
<1>4. r.kind = "done"
  BY DEF r
<1>5. Offers(s, r.s, ix, call, Env)
  <2>1. CASE r = EngineProgram!placeInitialOfferCctp(s, a, call, Env)
    BY <1>4, <2>1, placeInitialOfferBids DEF Offers, OfferNames
  <2>2. CASE r = EngineProgram!improveOffer(s, a, call, Env)
    BY <1>4, <2>2, improveOfferBids DEF Offers, OfferNames
  <2>. QED BY <1>3, <2>1, <2>2
<1>. QED BY <1>5 DEF r

\* prepare_market_order takes just what was approved, or nothing was to be taken.
LEMMA prepareOrderSpends ==
    ASSUME NEW s, NEW a, NEW call, NEW env, a.sender = Null,
           RouterProgram!prepareMarketOrder(s, a, call, env).kind = "done"
    PROVE  DelegateOf(RouterProgram!prepareMarketOrder(s, a, call, env).s, a.senderToken) = Null
<1>. DEFINE x == a.senderToken
            custody == RouterProgram!PreparedCustody(a.preparedOrder)
            left == s[x].delegated - call.args.amountIn
            d == [s[x] EXCEPT !.delegated = left,
                              !.delegate = IF left = 0 THEN RouterProgram!Null ELSE s[x].delegate]
            spent == RouterProgram!Put(s, x, d)
            t == RouterProgram!prepareMarketOrder(s, a, call, env).s
<1>1. /\ RouterProgram!IsToken(s, x) /\ s[x].delegated = call.args.amountIn
      /\ a.preparedCustodyToken = custody
  BY NullIsNull DEF RouterProgram!prepareMarketOrder, RouterProgram!Result, RouterProgram!Refused,
     RouterProgram!Mismatch
<1>2. \E e, f : /\ Mute(e) /\ Mute(f)
                /\ t = RouterProgram!Put(RouterProgram!Put(spent, a.preparedOrder, e), custody, f)
  BY <1>1, NullIsNull, NewTokensAreMute DEF RouterProgram!prepareMarketOrder, RouterProgram!Result,
     RouterProgram!Done, RouterProgram!Refused, RouterProgram!Mismatch, RouterProgram!Spend, Mute
<1>3. "delegate" \in DOMAIN s[x] /\ s[x].delegated \in Nat
  BY <1>1 DEF RouterProgram!IsToken, RouterProgram!Is, RouterProgram!TokenAccount
<1>4. d.delegate = Null
  <2>1. left = 0
    BY <1>1, <1>3
  <2>. QED BY <1>3, <2>1, NullIsNull
<1>. HIDE DEF d, t, custody
<1>5. DelegateOf(spent, x) = Null
  BY <1>4 DEF RouterProgram!Put, DelegateOf, Exists
<1>6. \A s_, y, e : Mute(e) /\ DelegateOf(s_, x) = Null => DelegateOf(RouterProgram!Put(s_, y, e), x) = Null
  BY DEF RouterProgram!Put, DelegateOf, Exists, Mute
<1>. HIDE DEF spent
<1>7. DelegateOf(t, x) = Null
  BY <1>2, <1>5, <1>6
<1>. QED BY <1>7 DEF t

LEMMA OrdersSpend ==
    ASSUME NEW s, NEW ix, NEW call, ix.program = Router!ID, ix.name = "prepareMarketOrder",
           ix.accounts.sender = Null, Handle(s, ix, call).kind = "done"
    PROVE  DelegateOf(Handle(s, ix, call).s, ix.accounts.senderToken) = Null
<1>. DEFINE r == Handle(s, ix, call)
<1>1. Router!ID # TokenProgram /\ Router!ID # Engine!ID
  BY DEF Engine!ID, Router!ID, TokenProgram
<1>2. r = RouterProgram!Handle(s, ix, call, Env)
  BY <1>1 DEF Handle
<1>. HIDE DEF r
<1>3. r.kind = "done"
  BY DEF r
<1>4. r = RouterProgram!prepareMarketOrder(s, ix.accounts, call, Env)
  BY <1>2, <1>3 DEF RouterProgram!Handle, RouterProgram!Mismatch
<1>5. DelegateOf(r.s, ix.accounts.senderToken) = Null
  BY <1>3, <1>4, prepareOrderSpends
<1>. QED BY <1>5 DEF r
-----------------------------------------------------------------------------
(* What the clients build.                                                 *)
Plainly(ix) == ix.program # TokenProgram /\ ix.name \notin OfferNames
IsOne(ixs) == \E ix : Plainly(ix) /\ ixs = <<ix>>
IsThrow(ixs) == ixs = <<>>
IsPlain(ixs) == /\ Plainly(ixs[1])
                /\ Len(ixs) > 1 => Plainly(ixs[2])

\* An offer spends what its own transfer authority may, a market order what its own may
\* or what its sender signs for.
Precedes(call, ap, ix) ==
    \/ /\ call.method \in {"placeInitialOffer", "improveOffer"}
       /\ ix.program = Engine!ID /\ ix.name \in OfferNames
       /\ ap.accounts.delegate = Authority(call.fastVaa, call.offerPrice)
    \/ /\ ix.program = Router!ID /\ ix.name = "prepareMarketOrder"
       /\ ix.accounts.sender = Null /\ ix.accounts.senderToken = ap.accounts.source
IsApproved(call, ixs) ==
    \E ap, ix : ixs = <<ap, ix>> /\ ap.program = TokenProgram /\ Precedes(call, ap, ix)
Shape(call, ixs) == IsThrow(ixs) \/ IsPlain(ixs) \/ IsApproved(call, ixs)

LEMMA OnesArePlain ==
    /\ \A x : IsOne(x) => IsPlain(x)
    /\ \A x, y : IsOne(x) /\ IsOne(y) => IsPlain(x \o y)
<1>1. ASSUME NEW x, IsOne(x) PROVE IsPlain(x)
  <2>1. PICK ix : Plainly(ix) /\ x = <<ix>>
    BY <1>1 DEF IsOne
  <2>2. Len(x) = 1 /\ x[1] = ix
    BY <2>1, TupleIsSeq
  <2>. QED BY <2>1, <2>2 DEF IsPlain
<1>2. ASSUME NEW x, NEW y, IsOne(x), IsOne(y) PROVE IsPlain(x \o y)
  <2>1. PICK ix : Plainly(ix) /\ x = <<ix>>
    BY <1>2 DEF IsOne
  <2>2. PICK iy : Plainly(iy) /\ y = <<iy>>
    BY <1>2 DEF IsOne
  <2>3. /\ IsSeq(x) /\ Len(x) = 1 /\ x[1] = ix
        /\ IsSeq(y) /\ Len(y) = 1 /\ y[1] = iy
    BY <2>1, <2>2, TupleIsSeq
  <2>4. (x \o y)[1] = ix /\ (x \o y)[1 + 1] = iy
    <3>. DEFINE z == x \o y
    <3>1. Joined(x, y, z)
      BY <2>3, Joins
    <3>. HIDE DEF z
    <3>2. /\ \A i \in 1 .. 1 : z[i] = x[i]
          /\ \A i \in 1 .. 1 : z[i + 1] = y[i]
      BY <2>3, <3>1 DEF Joined
    <3>3. z[1] = ix /\ z[1 + 1] = iy
      BY <2>3, <3>2
    <3>. QED BY <3>3 DEF z
  <2>. QED BY <2>1, <2>2, <2>4 DEF IsPlain
<1>. QED BY <1>1, <1>2

LEMMA EngineIx == \A name, a : name \notin OfferNames => IsOne(<<Engine!Ix(name, a)>>)
<1>1. ASSUME NEW name, NEW a, name \notin OfferNames PROVE Plainly(Engine!Ix(name, a))
  BY <1>1 DEF Plainly, Engine!Ix, Engine!ID, TokenProgram
<1>. QED BY <1>1 DEF IsOne

LEMMA RouterIx == \A name, a : name \notin OfferNames => IsOne(<<Router!Ix(name, a)>>)
<1>1. ASSUME NEW name, NEW a, name \notin OfferNames PROVE Plainly(Router!Ix(name, a))
  BY <1>1 DEF Plainly, Router!Ix, Router!ID, TokenProgram
<1>. QED BY <1>1 DEF IsOne

LEMMA UpgradeIx ==
    \A net, name, a : name \notin OfferNames =>
        IsOne(Upgrade!Ix(net, name, a)) \/ IsThrow(Upgrade!Ix(net, name, a))
<1>1. ASSUME NEW net, NEW name, NEW a, name \notin OfferNames, Upgrade!Supported(net)
      PROVE  IsOne(Upgrade!Ix(net, name, a))
  <2>1. Upgrade!ManagerOf(net) # TokenProgram
    <3>1. Upgrade!ManagerOf(net) \in {<<"ucdP9ktg">>, <<"UpgradeManager11">>, Null}
      BY DEF Upgrade!ManagerOf, Upgrade!Null, Null
    <3>2. Upgrade!ManagerOf(net) # Null
      BY <1>1, NullIsNull DEF Upgrade!Supported, Upgrade!Null, Null
    <3>. QED BY <3>1, <3>2 DEF TokenProgram
  <2>. DEFINE ix == [program |-> Upgrade!ManagerOf(net), name |-> name, accounts |-> a]
  <2>2. Plainly(ix)
    BY <1>1, <2>1 DEF Plainly
  <2>3. Upgrade!Ix(net, name, a) = <<ix>>
    BY <1>1 DEF Upgrade!Ix
  <2>. QED BY <2>2, <2>3 DEF IsOne
<1>2. ASSUME NEW net, NEW name, NEW a, ~Upgrade!Supported(net)
      PROVE  IsThrow(Upgrade!Ix(net, name, a))
  BY <1>2 DEF Upgrade!Ix, Upgrade!Throw, IsThrow
<1>. QED BY <1>1, <1>2

Sane(ixs) == IsOne(ixs) \/ IsThrow(ixs)
LEMMA SaneShape == \A call, ixs : Sane(ixs) => Shape(call, ixs)
BY OnesArePlain DEF Sane, Shape

LEMMA AdminIsSane ==
    ASSUME NEW call, NEW net
    PROVE  /\ Sane(Engine!setPauseIx(call)) /\ Sane(Router!setPauseIx(call))
           /\ Sane(Engine!submitOwnershipTransferIx(call))
           /\ Sane(Router!submitOwnershipTransferIx(call))
           /\ Sane(Engine!confirmOwnershipTransferIx(call))
           /\ Sane(Router!confirmOwnershipTransferIx(call))
           /\ Sane(Engine!cancelOwnershipTransferIx(call))
           /\ Sane(Router!cancelOwnershipTransferIx(call))
           /\ Sane(Engine!updateOwnerAssistantIx(call))
           /\ Sane(Router!updateOwnerAssistantIx(call))
           /\ Sane(Engine!initializeIx(call, net)) /\ Sane(Router!initializeIx(call, net))
<1>1. Sane(Engine!setPauseIx(call))
  BY EngineIx DEF Engine!setPauseIx, Sane, OfferNames
<1>2. Sane(Engine!submitOwnershipTransferIx(call))
  BY EngineIx DEF Engine!submitOwnershipTransferIx, Sane, OfferNames
<1>3. Sane(Engine!confirmOwnershipTransferIx(call))
  BY EngineIx DEF Engine!confirmOwnershipTransferIx, Sane, OfferNames
<1>4. Sane(Engine!cancelOwnershipTransferIx(call))
  BY EngineIx DEF Engine!cancelOwnershipTransferIx, Sane, OfferNames
<1>5. Sane(Engine!updateOwnerAssistantIx(call))
  BY EngineIx DEF Engine!updateOwnerAssistantIx, Sane, OfferNames
<1>6. Sane(Engine!initializeIx(call, net))
  BY EngineIx DEF Engine!initializeIx, Sane, OfferNames
<1>7. Sane(Router!setPauseIx(call))
  BY RouterIx DEF Router!setPauseIx, Sane, OfferNames
<1>8. Sane(Router!submitOwnershipTransferIx(call))
  BY RouterIx DEF Router!submitOwnershipTransferIx, Sane, OfferNames
<1>9. Sane(Router!confirmOwnershipTransferIx(call))
  BY RouterIx DEF Router!confirmOwnershipTransferIx, Sane, OfferNames
<1>10. Sane(Router!cancelOwnershipTransferIx(call))
  BY RouterIx DEF Router!cancelOwnershipTransferIx, Sane, OfferNames
<1>11. Sane(Router!updateOwnerAssistantIx(call))
  BY RouterIx DEF Router!updateOwnerAssistantIx, Sane, OfferNames
<1>12. Sane(Router!initializeIx(call, net))
  BY RouterIx DEF Router!initializeIx, Sane, OfferNames, IsThrow, Router!Throw
<1>. QED BY <1>1, <1>2, <1>3, <1>4, <1>5, <1>6,
          <1>7, <1>8, <1>9, <1>10, <1>11, <1>12

LEMMA BuildersAreSane ==
    ASSUME NEW call, NEW seen, NEW token, NEW net
    PROVE  /\ Sane(Engine!prepareOrderResponseCctpIx(call, token))
           /\ Sane(Engine!settleAuctionCompleteIx(call, seen))
           /\ Sane(Engine!executeFastOrderTx(call, seen, net))
           /\ Sane(Engine!reserveFastFillSequenceActiveAuctionIx(call, seen))
           /\ Sane(Engine!reserveFastFillSequenceNoAuctionIx(call))
           /\ Sane(Engine!closeAuctionIx(call, seen))
           /\ Sane(Engine!addCctpRouterEndpointIx(call))
           /\ Sane(Engine!updateCctpRouterEndpointIx(call))
           /\ Sane(Engine!addLocalRouterEndpointIx(call))
           /\ Sane(Engine!updateLocalRouterEndpointIx(call))
           /\ Sane(Engine!disableRouterEndpointIx(call))
           /\ Sane(Engine!updateFeeRecipientIx(call))
           /\ Sane(Engine!proposeAuctionParametersIx(call, seen))
           /\ Sane(Engine!closeProposalIx(call, seen))
           /\ Sane(Engine!updateAuctionParametersIx(call, seen))
           /\ Sane(Router!closePreparedOrderIx(call, seen))
           /\ Sane(Router!placeMarketOrderCctpIx(call, seen, net))
           /\ Sane(Router!redeemCctpFillIx(call))
           /\ Sane(Router!redeemFastFillIx(call, seen))
           /\ Sane(Router!consumePreparedFillIx(call))
           /\ Sane(Upgrade!executeMatchingEngineUpgradeIx(call, net))
           /\ Sane(Upgrade!commitMatchingEngineUpgradeIx(call, net))
           /\ Sane(Upgrade!executeTokenRouterUpgradeIx(call, net))
           /\ Sane(Upgrade!commitTokenRouterUpgradeIx(call, net))
<1>1. Sane(Engine!prepareOrderResponseCctpIx(call, token))
  BY EngineIx DEF Engine!prepareOrderResponseCctpIx, Sane, OfferNames, IsThrow, Engine!Throw
<1>2. Sane(Engine!settleAuctionCompleteIx(call, seen))
  BY EngineIx DEF Engine!settleAuctionCompleteIx, Engine!settleAuctionCompleteAccounts,
     Sane, OfferNames, IsThrow, Engine!Throw
<1>3. Sane(Engine!executeFastOrderTx(call, seen, net))
  BY EngineIx DEF Engine!executeFastOrderTx, Engine!executeFastOrderLocalIx,
     Engine!executeFastOrderCctpIx, Sane, OfferNames, IsThrow, Engine!Throw
<1>4. Sane(Engine!reserveFastFillSequenceActiveAuctionIx(call, seen))
  BY EngineIx DEF Engine!reserveFastFillSequenceActiveAuctionIx, Sane, OfferNames, IsThrow,
     Engine!Throw
<1>5. Sane(Engine!reserveFastFillSequenceNoAuctionIx(call))
  BY EngineIx DEF Engine!reserveFastFillSequenceNoAuctionIx, Sane, OfferNames, IsThrow,
     Engine!Throw
<1>6. Sane(Engine!closeAuctionIx(call, seen))
  BY EngineIx DEF Engine!closeAuctionIx, Sane, OfferNames, IsThrow, Engine!Throw
<1>7. Sane(Engine!addCctpRouterEndpointIx(call))
  BY EngineIx DEF Engine!addCctpRouterEndpointIx, Sane, OfferNames, IsThrow, Engine!Throw
<1>8. Sane(Engine!updateCctpRouterEndpointIx(call))
  BY EngineIx DEF Engine!updateCctpRouterEndpointIx, Sane, OfferNames, IsThrow, Engine!Throw
<1>9. Sane(Engine!addLocalRouterEndpointIx(call))
  BY EngineIx DEF Engine!addLocalRouterEndpointIx, Sane, OfferNames, IsThrow, Engine!Throw
<1>10. Sane(Engine!updateLocalRouterEndpointIx(call))
  BY EngineIx DEF Engine!updateLocalRouterEndpointIx, Sane, OfferNames, IsThrow, Engine!Throw
<1>11. Sane(Engine!disableRouterEndpointIx(call))
  BY EngineIx DEF Engine!disableRouterEndpointIx, Sane, OfferNames, IsThrow, Engine!Throw
<1>12. Sane(Engine!updateFeeRecipientIx(call))
  BY EngineIx DEF Engine!updateFeeRecipientIx, Sane, OfferNames, IsThrow, Engine!Throw
<1>13. Sane(Engine!proposeAuctionParametersIx(call, seen))
  BY EngineIx DEF Engine!proposeAuctionParametersIx, Sane, OfferNames, IsThrow, Engine!Throw
<1>14. Sane(Engine!closeProposalIx(call, seen))
  BY EngineIx DEF Engine!closeProposalIx, Sane, OfferNames, IsThrow, Engine!Throw
<1>15. Sane(Engine!updateAuctionParametersIx(call, seen))
  BY EngineIx DEF Engine!updateAuctionParametersIx, Sane, OfferNames, IsThrow, Engine!Throw
<1>16. Sane(Router!closePreparedOrderIx(call, seen))
  BY RouterIx DEF Router!closePreparedOrderIx, Sane, OfferNames, IsThrow, Router!Throw
<1>17. Sane(Router!placeMarketOrderCctpIx(call, seen, net))
  BY RouterIx DEF Router!placeMarketOrderCctpIx, Sane, OfferNames, IsThrow, Router!Throw
<1>18. Sane(Router!redeemCctpFillIx(call))
  BY RouterIx DEF Router!redeemCctpFillIx, Sane, OfferNames, IsThrow, Router!Throw
<1>19. Sane(Router!redeemFastFillIx(call, seen))
  BY RouterIx DEF Router!redeemFastFillIx, Sane, OfferNames, IsThrow, Router!Throw
<1>20. Sane(Router!consumePreparedFillIx(call))
  BY RouterIx DEF Router!consumePreparedFillIx, Sane, OfferNames, IsThrow, Router!Throw
<1>21. Sane(Upgrade!executeMatchingEngineUpgradeIx(call, net))
  BY UpgradeIx DEF Upgrade!executeMatchingEngineUpgradeIx, Sane, OfferNames, IsThrow
<1>22. Sane(Upgrade!commitMatchingEngineUpgradeIx(call, net))
  BY UpgradeIx DEF Upgrade!commitMatchingEngineUpgradeIx, Sane, OfferNames, IsThrow
<1>23. Sane(Upgrade!executeTokenRouterUpgradeIx(call, net))
  BY UpgradeIx DEF Upgrade!executeTokenRouterUpgradeIx, Sane, OfferNames, IsThrow
<1>24. Sane(Upgrade!commitTokenRouterUpgradeIx(call, net))
  BY UpgradeIx DEF Upgrade!commitTokenRouterUpgradeIx, Sane, OfferNames, IsThrow
<1>. QED BY <1>1, <1>2, <1>3, <1>4, <1>5, <1>6, <1>7, <1>8,
          <1>9, <1>10, <1>11, <1>12, <1>13, <1>14, <1>15, <1>16,
          <1>17, <1>18, <1>19, <1>20, <1>21, <1>22, <1>23, <1>24

LEMMA SettlementsAreSane ==
    ASSUME NEW call, NEW seen, NEW net
    PROVE  /\ Shape(call, Engine!settleAuctionCompleteTx(call, seen))
           /\ Shape(call, Engine!settleAuctionNoneTx(call, seen, net))
<1>1. \A x, y : IsOne(x) /\ IsOne(y) => Shape(call, x \o y)
  BY OnesArePlain DEF Shape
<1>2. Shape(call, <<>>)
  BY DEF Shape, IsThrow
<1>3. \A c, token : IsOne(Engine!prepareOrderResponseCctpIx(c, token))
  BY EngineIx DEF Engine!prepareOrderResponseCctpIx, OfferNames
<1>4. Shape(call, Engine!settleAuctionCompleteTx(call, seen))
  <2>1. \A b, t, r, a, o : IsOne(Engine!settleAuctionCompleteAccounts(b, t, r, a, o))
    BY EngineIx DEF Engine!settleAuctionCompleteAccounts, OfferNames
  <2>. QED BY <1>1, <1>2, <1>3, <2>1 DEF Engine!settleAuctionCompleteTx, Engine!Throw
<1>5. Shape(call, Engine!settleAuctionNoneTx(call, seen, net))
  <2>1. \A c, r, d : IsOne(Engine!settleAuctionNoneLocalIx(c, r, d))
    BY EngineIx DEF Engine!settleAuctionNoneLocalIx, OfferNames
  <2>2. \A c, e, d, n : \/ IsOne(Engine!settleAuctionNoneCctpIx(c, e, d, n))
                        \/ Engine!settleAuctionNoneCctpIx(c, e, d, n) = Engine!Throw
    BY EngineIx DEF Engine!settleAuctionNoneCctpIx, OfferNames
  <2>. QED BY <1>1, <1>2, <1>3, <2>1, <2>2 DEF Engine!settleAuctionNoneTx, Engine!Throw
<1>. QED BY <1>4, <1>5

LEMMA AuthorityIsDerived ==
    \A call, price : Engine!transferAuthorityAddress(Engine!AuctionOf(call), price)
                        = Authority(call.fastVaa, price)
<1>1. \A n : Engine!U64BE(n) = EngineProgram!U64BE(n) /\ Engine!U16BE(n) = EngineProgram!U16BE(n)
  BY DEF Engine!U64BE, EngineProgram!U64BE, Engine!U16BE, EngineProgram!U16BE,
     Engine!Strokes, EngineProgram!Strokes
<1>2. \A v : Engine!Body(v) = EngineProgram!Circle!Body(v)
  BY DEF Engine!Body, EngineProgram!Circle!Body
<1>3. \A x : Engine!Keccak256(x) = EngineProgram!Keccak256(x)
  BY DEF Engine!Keccak256, EngineProgram!Keccak256
<1>4. \A v : Engine!digest(Vaas[v]) = EngineProgram!Digest(v)
  BY <1>1, <1>2, <1>3 DEF Engine!digest, Engine!hash, Engine!payload, EngineProgram!Digest
<1>5. \A call : Engine!AuctionOf(call) = Auction(call.fastVaa)
  BY <1>4 DEF Engine!AuctionOf, Engine!HashOf, Engine!auctionAddress, Auction,
     EngineProgram!AuctionAt, Engine!ID, EngineProgram!ID, Engine!Pda, EngineProgram!Pda
<1>. QED BY <1>1, <1>5 DEF Engine!transferAuthorityAddress, Authority,
            EngineProgram!TransferAuthority, Engine!ID, EngineProgram!ID, Engine!Pda,
            EngineProgram!Pda

LEMMA OfferShape ==
    ASSUME NEW call, NEW name \in OfferNames, NEW a, NEW by, NEW n,
           call.method \in {"placeInitialOffer", "improveOffer"}
    PROVE  LET approval == Engine!approveTransferAuthority(by, Engine!AuctionOf(call),
                                                           call.offerPrice, n)
           IN  Shape(call, Engine!Approved(approval, Engine!Ix(name, a)))
<1>. DEFINE approval == Engine!approveTransferAuthority(by, Engine!AuctionOf(call), call.offerPrice, n)
            ap == [program |-> TokenProgram, name |-> "approve", accounts |-> approval]
            ix == Engine!Ix(name, a)
<1>1. Engine!Approved(approval, ix) = <<ap, ix>>
  BY DEF Engine!Approved, Engine!TokenProgram, TokenProgram
<1>2. approval.delegate = Authority(call.fastVaa, call.offerPrice)
  BY AuthorityIsDerived DEF Engine!approveTransferAuthority
<1>3. ix.program = Engine!ID /\ ix.name = name
  BY DEF Engine!Ix
<1>. HIDE DEF approval, ix
<1>4. ap.program = TokenProgram /\ ap.accounts = approval
  OBVIOUS
<1>. HIDE DEF ap
<1>5. IsApproved(call, <<ap, ix>>)
  BY <1>2, <1>3, <1>4 DEF IsApproved, Precedes
<1>. QED BY <1>1, <1>5 DEF Shape, approval, ix

LEMMA OffersAreApproved ==
    ASSUME NEW call, NEW seen
    PROVE  /\ call.method = "placeInitialOffer" =>
                Shape(call, Engine!placeInitialOfferCctpIx(call, seen))
           /\ call.method = "improveOffer" => Shape(call, Engine!improveOfferIx(call, seen))
<1>1. ASSUME call.method = "placeInitialOffer"
      PROVE  Shape(call, Engine!placeInitialOfferCctpIx(call, seen))
  BY <1>1, OfferShape DEF Engine!placeInitialOfferCctpIx, OfferNames
<1>2. ASSUME call.method = "improveOffer" PROVE Shape(call, Engine!improveOfferIx(call, seen))
  <2>1. Shape(call, <<>>)
    BY DEF Shape, IsThrow
  <2>. QED BY <1>2, <2>1, OfferShape DEF Engine!improveOfferIx, OfferNames, Engine!Throw
<1>. QED BY <1>1, <1>2

LEMMA OrdersAreApproved ==
    ASSUME NEW call, NEW seen
    PROVE  Shape(call, Router!prepareMarketOrderIx(call, seen))
<1>1. CASE ~call.useAuthority
  <2>1. IsOne(Router!prepareMarketOrderIx(call, seen))
    BY <1>1, RouterIx DEF Router!prepareMarketOrderIx, OfferNames
  <2>. QED BY <2>1, SaneShape DEF Sane
<1>2. CASE call.useAuthority
  <2>1. PICK ap, ix : /\ Router!prepareMarketOrderIx(call, seen) = <<ap, ix>>
                      /\ ap.program = TokenProgram
                      /\ ix.program = Router!ID /\ ix.name = "prepareMarketOrder"
                      /\ ix.accounts.sender = Null
                      /\ ix.accounts.senderToken = ap.accounts.source
    BY <1>2 DEF Router!prepareMarketOrderIx, Router!Ix, Router!TokenProgram, TokenProgram,
       Router!Null, Null
  <2>. QED BY <2>1 DEF Shape, IsApproved, Precedes
<1>. QED BY <1>1, <1>2

LEMMA BuildShape == ASSUME NEW call, NEW seen PROVE Shape(call, Build(call, seen))
<1>. DEFINE r == Build(call, seen)
<1>1. Sane(AdminIx(call))
  <2>1. Sane(<<>>)
    BY DEF Sane, IsThrow
  <2>. QED BY <2>1, AdminIsSane DEF AdminIx
<1>2. \/ call.method = "placeInitialOffer" /\ r = Engine!placeInitialOfferCctpIx(call, seen)
      \/ call.method = "improveOffer" /\ r = Engine!improveOfferIx(call, seen)
      \/ r \in {Engine!settleAuctionCompleteTx(call, seen),
               Engine!settleAuctionNoneTx(call, seen, network),
               Router!prepareMarketOrderIx(call, seen), AdminIx(call)}
      \/ r \in {Engine!prepareOrderResponseCctpIx(call, Ata(call.by)),
               Engine!settleAuctionCompleteIx(call, seen),
               Engine!executeFastOrderTx(call, seen, network),
               Engine!reserveFastFillSequenceActiveAuctionIx(call, seen),
               Engine!reserveFastFillSequenceNoAuctionIx(call),
               Engine!closeAuctionIx(call, seen)}
           \cup {Engine!addCctpRouterEndpointIx(call), Engine!updateCctpRouterEndpointIx(call),
               Engine!addLocalRouterEndpointIx(call), Engine!updateLocalRouterEndpointIx(call),
               Engine!disableRouterEndpointIx(call), Engine!updateFeeRecipientIx(call)}
           \cup {Engine!proposeAuctionParametersIx(call, seen),
               Engine!closeProposalIx(call, seen),
               Engine!updateAuctionParametersIx(call, seen)}
           \cup {Router!closePreparedOrderIx(call, seen),
               Router!placeMarketOrderCctpIx(call, seen, network),
               Router!redeemCctpFillIx(call), Router!redeemFastFillIx(call, seen),
               Router!consumePreparedFillIx(call)}
           \cup {Upgrade!executeMatchingEngineUpgradeIx(call, network),
               Upgrade!commitMatchingEngineUpgradeIx(call, network),
               Upgrade!executeTokenRouterUpgradeIx(call, network),
               Upgrade!commitTokenRouterUpgradeIx(call, network)}
  BY ZenonT(60) DEF Build
<1>. HIDE DEF r
<1>3. Shape(call, r)
  BY <1>1, <1>2, OffersAreApproved, OrdersAreApproved, SettlementsAreSane, BuildersAreSane,
     SaneShape
<1>. QED BY <1>3 DEF r
-----------------------------------------------------------------------------
(* No transaction leaves more than was left before.                        *)
Priced(call) == call.method \in {"placeInitialOffer", "improveOffer"} => call.offerPrice \in Nat

LEMMA PlainLeftovers ==
    ASSUME NEW s, NEW ix, NEW call, Wellformed(s), clock.slot \in Nat, Plainly(ix),
           Leftovers(s, clock.expired), Handle(s, ix, call).kind = "done"
    PROVE  LET t == Handle(s, ix, call).s IN Wellformed(t) /\ Leftovers(t, clock.expired)
<1>. DEFINE t == Handle(s, ix, call).s
<1>1. /\ Moves(s, t, Env)
      /\ \/ Approves(s, t, ix)
         \/ Quiet(s, t)
         \/ ix.program = Engine!ID /\ (Ends(s, t, Env) \/ Offers(s, t, ix, call, Env))
  BY HandleAffects
<1>. HIDE DEF t
<1>2. ~Approves(s, t, ix) /\ ~Offers(s, t, ix, call, Env)
  BY DEF Approves, Offers, Plainly, OfferNames
<1>3. CASE Quiet(s, t)
  BY <1>1, <1>3, LeftoversQuiet DEF Moves, t
<1>4. CASE Ends(s, t, Env)
  <2>1. Env.expired = clock.expired
    BY DEF Env
  <2>2. Leftovers(t, Env.expired)
    BY <1>4, <2>1, LeftoversEnd
  <2>. QED BY <1>1, <2>1, <2>2 DEF Moves, t
<1>. QED BY <1>1, <1>2, <1>3, <1>4

LEMMA ApprovedLeftovers ==
    ASSUME NEW s, NEW ap, NEW ix, NEW call, Wellformed(s), clock.slot \in Nat, Priced(call),
           Leftovers(s, clock.expired), ap.program = TokenProgram, Precedes(call, ap, ix),
           Handle(s, ap, call).kind = "done",
           Handle(Handle(s, ap, call).s, ix, call).kind = "done"
    PROVE  Leftovers(Handle(Handle(s, ap, call).s, ix, call).s, clock.expired)
<1>. DEFINE u == Handle(s, ap, call).s
            r == Handle(u, ix, call)
<1>1. Engine!ID # TokenProgram /\ Router!ID # TokenProgram /\ Router!ID # Engine!ID
  BY DEF Engine!ID, Router!ID, TokenProgram
<1>2. Moves(s, u, Env) /\ (Approves(s, u, ap) \/ Quiet(s, u))
  BY <1>1, HandleAffects
<1>3. r.kind = "done"
  OBVIOUS
<1>. HIDE DEF u
<1>4. /\ Wellformed(u) /\ SameBids(s, u)
      /\ \A x : \/ DelegateOf(u, x) \in {Null, DelegateOf(s, x)}
                \/ x = ap.accounts.source /\ DelegateOf(u, x) = ap.accounts.delegate
  BY <1>2 DEF Moves, Approves, Quiet, Grants
<1>5. CASE /\ call.method \in {"placeInitialOffer", "improveOffer"}
           /\ ix.program = Engine!ID /\ ix.name \in OfferNames
           /\ ap.accounts.delegate = Authority(call.fastVaa, call.offerPrice)
  <2>1. Offers(u, r.s, ix, call, Env)
    BY <1>3, <1>4, <1>5, OffersOffer
  <2>. HIDE DEF r
  <2>2. call.offerPrice \in Nat
    BY <1>5 DEF Priced
  <2>3. /\ Bids(u, r.s, call.fastVaa, call.offerPrice)
        /\ \/ ~Exists(u, Auction(call.fastVaa)) /\ ~clock.expired
           \/ /\ IsActive(u, call.fastVaa)
              /\ call.offerPrice < u[Auction(call.fastVaa)].info.offerPrice
    BY <2>1 DEF Offers, Env
  <2>4. \A x : DelegateOf(u, x) \in
                {Null, DelegateOf(s, x), Authority(call.fastVaa, call.offerPrice)}
    BY <1>4, <1>5
  <2>5. Leftovers(r.s, clock.expired)
    BY <1>4, <2>2, <2>3, <2>4, LeftoversOffer
  <2>. QED BY <2>5 DEF r, u
<1>6. CASE /\ ix.program = Router!ID /\ ix.name = "prepareMarketOrder"
           /\ ix.accounts.sender = Null /\ ix.accounts.senderToken = ap.accounts.source
  <2>1. DelegateOf(r.s, ap.accounts.source) = Null
    BY <1>3, <1>6, OrdersSpend
  <2>2. Quiet(u, r.s)
    BY <1>1, <1>3, <1>4, <1>6, HandleAffects DEF Approves
  <2>. HIDE DEF r
  <2>3. Grants(s, r.s)
    BY <1>4, <2>1, <2>2 DEF Quiet, Grants
  <2>4. SameBids(s, r.s)
    BY <1>4, <2>2 DEF Quiet, SameBids, SameBid
  <2>5. Leftovers(r.s, clock.expired)
    BY <2>3, <2>4, LeftoversQuiet DEF Quiet
  <2>. QED BY <2>5 DEF r, u
<1>. QED BY <1>5, <1>6 DEF Precedes

LEMMA OutcomeLeftovers ==
    ASSUME NEW call, NEW ixs, Wellformed(acct), clock.slot \in Nat, Priced(call),
           Leftovers(acct, clock.expired), Shape(call, ixs), ixs # <<>>,
           Outcome(call, ixs).kind = "done"
    PROVE  Leftovers(Outcome(call, ixs).s, clock.expired)
<1>. DEFINE first == Handle(acct, ixs[1], call)
            second == Handle(first.s, ixs[2], call)
            r == Outcome(call, ixs)
<1>1. IF Len(ixs) > 1 /\ first.kind = "done" THEN r = second ELSE r = first
  BY DEF Outcome
<1>2. CASE IsPlain(ixs)
  <2>1. first.kind = "done" => Wellformed(first.s) /\ Leftovers(first.s, clock.expired)
    BY <1>2, PlainLeftovers DEF IsPlain
  <2>2. /\ Len(ixs) > 1 /\ first.kind = "done" /\ second.kind = "done"
        => Leftovers(second.s, clock.expired)
    <3>. HIDE DEF first
    <3>. QED BY <1>2, <2>1, PlainLeftovers DEF IsPlain
  <2>. HIDE DEF first, second
  <2>. QED BY <1>1, <2>1, <2>2
<1>3. CASE IsApproved(call, ixs)
  <2>1. PICK ap, ix : /\ ixs = <<ap, ix>> /\ ap.program = TokenProgram
                      /\ Precedes(call, ap, ix)
    BY <1>3 DEF IsApproved
  <2>2. Len(ixs) > 1 /\ ixs[1] = ap /\ ixs[2] = ix
    BY <2>1, TupleIsSeq
  <2>3. first.kind = "done" /\ second.kind = "done" /\ r = second
    <3>. HIDE DEF first, second
    <3>1. r.kind = "done"
      OBVIOUS
    <3>. HIDE DEF r
    <3>. QED BY <1>1, <2>2, <3>1
  <2>4. Leftovers(second.s, clock.expired)
    BY <2>1, <2>2, <2>3, ApprovedLeftovers
  <2>. QED BY <2>3, <2>4
<1>. QED BY <1>2, <1>3 DEF Shape, IsThrow

\* What a client has built is of this shape, and no approval is left for a better offer.
LeftoversInv ==
    /\ SessionInv
    /\ "expired" \in DOMAIN clock /\ Leftovers(acct, clock.expired)
    /\ session.phase = "reading" => "call" \in DOMAIN session /\ Priced(session.call)
    /\ IsPending => Priced(session.call) /\ Shape(session.call, session.ixs)

LEMMA CallsArePriced ==
    ASSUME setup \in DOMAIN Setups,
           NEW call \in Situations[setup].calls \cup Situations[setup].others
    PROVE  Priced(call)
BY SetupsPrecedeOffers DEF Situations, Priced

LEMMA AuthorityIsPrefixed ==
    \A v : \A p \in Nat :
        IsPrefix(Pda(EngineProgram!ID, <<"transfer-authority">>), Authority(v, p))
<1>1. ASSUME NEW v, NEW p \in Nat
      PROVE  IsPrefix(Pda(EngineProgram!ID, <<"transfer-authority">>), Authority(v, p))
  <2>. DEFINE e == <<"matching-engine">>
              k == <<"transfer-authority">>
              auction == Auction(v)
              u == EngineProgram!U64BE(p)
  <2>1. IsSeq(e) /\ Len(e) >= 1 /\ IsSeq(k) /\ IsSeq(auction) /\ IsSeq(u)
    BY TupleIsSeq, AuctionsAreSeq, NumbersAreSeq
  <2>2. Authority(v, p) = e \o ((k \o auction) \o u)
    BY DEF Authority, EngineProgram!TransferAuthority, EngineProgram!Pda, EngineProgram!ID
  <2>3. Pda(EngineProgram!ID, <<"transfer-authority">>) = e \o k
    BY DEF EngineProgram!ID, Pda
  <2>. HIDE DEF e, k, auction, u
  <2>4. (k \o auction) \o u = k \o (auction \o u) /\ IsSeq(auction \o u)
    BY <2>1, ConcatIsAssociative, ConcatIsSeq
  <2>5. IsPrefix(e \o k, e \o (k \o (auction \o u)))
    BY <2>1, <2>4, SeedsAreAPrefix
  <2>. QED BY <2>2, <2>3, <2>4, <2>5
<1>. QED BY <1>1

LEMMA LeftoversInit == Init => LeftoversInv
<1>. SUFFICES ASSUME Init PROVE LeftoversInv
  OBVIOUS
<1>1. /\ setup \in DOMAIN Setups /\ acct = Setups[setup].accounts
      /\ "expired" \in DOMAIN clock /\ session.phase = "idle"
  BY DEF Init, Situations, Idle
<1>2. ASSUME NEW v PROVE ~Exists(acct, Auction(v))
  <2>. DEFINE p == <<"matching-engine">>
              k == <<"auction">>
              h == EngineProgram!Digest(v)
  <2>1. IsSeq(p) /\ Len(p) >= 1 /\ IsSeq(k) /\ IsSeq(h)
    BY TupleIsSeq, HashIsSeq
  <2>2. Auction(v) = p \o (k \o h) /\ Pda(EngineProgram!ID, <<"auction">>) = p \o k
    BY DEF Auction, EngineProgram!AuctionAt, EngineProgram!Pda, EngineProgram!ID, Pda
  <2>. HIDE DEF p, k, h
  <2>3. IsPrefix(p \o k, p \o (k \o h))
    BY <2>1, SeedsAreAPrefix
  <2>. QED BY <1>1, <2>2, <2>3, SetupsPrecedeOffers DEF Exists
<1>3. ASSUME NEW x, NEW v, NEW p \in Nat PROVE DelegateOf(acct, x) # Authority(v, p)
  BY <1>1, SetupsPrecedeOffers, AuthorityIsPrefixed, AuthorityIsNotNull DEF DelegateOf, Exists
<1>4. Leftovers(acct, clock.expired)
  BY <1>2, <1>3 DEF Leftovers, IsActive
<1>. QED BY <1>1, <1>4, SessionInit DEF LeftoversInv, IsPending

LEMMA LandKeepsLeftovers ==
    ASSUME LeftoversInv, NEW call, NEW ixs, Priced(call), Shape(call, ixs),
           LandTransaction(call, ixs)
    PROVE  "expired" \in DOMAIN clock' /\ Leftovers(acct, clock.expired)'
<1>1. /\ ixs # <<>> /\ Outcome(call, ixs).kind = "done" /\ acct' = Outcome(call, ixs).s
      /\ DOMAIN clock' = DOMAIN clock /\ clock'.expired = clock.expired
  BY DEF LandTransaction, LeftoversInv
<1>2. Leftovers(Outcome(call, ixs).s, clock.expired)
  BY <1>1, OutcomeLeftovers DEF LeftoversInv, SessionInv, ClockHasSlot
<1>. QED BY <1>1, <1>2 DEF LeftoversInv

LEMMA LeftoversNext ==
    ASSUME LeftoversInv, [Next]_vars
    PROVE  LeftoversInv'
<1>. USE DEF LeftoversInv
<1>1. SessionInv'
  BY SessionNext
<1>2. CASE BeginCall
  <2>1. PICK call \in Situations[setup].calls :
            session' = [phase |-> "reading", call |-> call, seen |-> <<>>]
    BY <1>2 DEF BeginCall
  <2>2. Priced(call)
    BY CallsArePriced DEF SessionInv
  <2>3. "call" \in DOMAIN session' /\ session'.call = call /\ session'.phase = "reading"
    BY <2>1
  <2>. QED BY <1>1, <1>2, <2>2, <2>3 DEF BeginCall, IsPending
<1>3. CASE Fetch
  <2>1. /\ UNCHANGED <<setup, acct, clock>>
        /\ session.phase = "reading"
        /\ \/ session' = Idle
           \/ \E seen : session' = [session EXCEPT !.seen = seen]
    BY <1>3 DEF Fetch
  <2>2. CASE session' = Idle
    BY <1>1, <2>1, <2>2 DEF Idle, IsPending
  <2>3. CASE \E seen : session' = [session EXCEPT !.seen = seen]
    <3>1. /\ DOMAIN session' = DOMAIN session /\ session'.call = session.call
          /\ session'.phase = session.phase
      BY <2>1, <2>3
    <3>. QED BY <1>1, <2>1, <3>1 DEF IsPending
  <2>. QED BY <2>1, <2>2, <2>3
<1>4. CASE BuildTransaction
  <2>1. /\ UNCHANGED <<setup, acct, clock>> /\ session.phase = "reading"
        /\ \/ session' = Idle
           \/ /\ session'.phase = "pending" /\ session'.call = session.call
              /\ session'.ixs = Build(session.call, session.seen)
    BY <1>4 DEF BuildTransaction
  <2>2. Shape(session.call, Build(session.call, session.seen))
    BY BuildShape
  <2>. QED BY <1>1, <2>1, <2>2 DEF Idle, IsPending
<1>5. CASE Land
  <2>1. IsPending /\ LandTransaction(session.call, session.ixs) /\ session' = Idle
    BY <1>5 DEF Land, CanLand
  <2>2. "expired" \in DOMAIN clock' /\ Leftovers(acct, clock.expired)'
    BY <2>1, LandKeepsLeftovers
  <2>. QED BY <1>1, <2>1, <2>2 DEF Idle, IsPending
<1>6. CASE Drop
  BY <1>1, <1>6 DEF Drop, Idle, IsPending
<1>7. CASE OthersLand
  <2>1. PICK call \in Situations[setup].others :
            \E seen : LandTransaction(call, Build(call, seen)) /\ UNCHANGED session
    BY <1>7 DEF OthersLand
  <2>2. Priced(call) /\ \A seen : Shape(call, Build(call, seen))
    BY CallsArePriced, BuildShape DEF SessionInv
  <2>3. "expired" \in DOMAIN clock' /\ Leftovers(acct, clock.expired)'
    BY <2>1, <2>2, LandKeepsLeftovers
  <2>. QED BY <1>1, <2>1, <2>3 DEF IsPending
<1>8. CASE Tick
  <2>1. UNCHANGED <<acct, session>>
    BY <1>8 DEF Tick
  <2>2. DOMAIN clock' = DOMAIN clock /\ (clock'.expired = clock.expired \/ clock'.expired = TRUE)
    <3>1. \/ clock' = [clock EXCEPT !.slot = clock.slot + 1]
          \/ clock' = [clock EXCEPT !.period = Later(clock.period)]
          \/ clock' = [clock EXCEPT !.expired = TRUE]
      BY <1>8 DEF Tick
    <3>. QED BY <3>1
  <2>3. Leftovers(acct, clock.expired)'
    BY <2>1, <2>2, LeftoversExpire
  <2>. QED BY <1>1, <2>1, <2>2, <2>3 DEF IsPending
<1>9. CASE UNCHANGED vars
  BY <1>1, <1>9 DEF vars, IsPending
<1>. QED BY <1>2, <1>3, <1>4, <1>5, <1>6, <1>7, <1>8, <1>9 DEF Next

LEMMA ImprovementIs ==
    ASSUME NEW call, NEW seen, call.method = "improveOffer",
           NEW ix \in Range(Build(call, seen)), ix.program = Engine!ID
    PROVE  \E a : ix = [program |-> Engine!ID, name |-> "improveOffer", accounts |-> a]
<1>1. Build(call, seen) = Engine!improveOfferIx(call, seen)
  BY DEF Build
<1>2. PICK ap, i, a : /\ Build(call, seen) = <<>> \/ Build(call, seen) = <<ap, i>>
                      /\ ap.program = TokenProgram
                      /\ i = [program |-> Engine!ID, name |-> "improveOffer", accounts |-> a]
  BY <1>1 DEF Engine!improveOfferIx, Engine!Throw, Engine!Approved, Engine!Ix,
     Engine!TokenProgram, TokenProgram
<1>3. ix \in {ap, i}
  BY <1>2 DEF Range
<1>. QED BY <1>2, <1>3 DEF Engine!ID, TokenProgram

LEMMA LeftoversAreSafe == ASSUME LeftoversInv PROVE LeftoversCannotBeSpent
<1>1. SUFFICES
        ASSUME NEW token \in {x \in DOMAIN acct : IsToken(acct, x) /\ acct[x].delegated > 0},
               NEW call \in {c \in Situations[setup].others : c.method = "improveOffer"},
               NEW ix \in Range(Build(call, FetchAll(call))), ix.program = Engine!ID,
               NEW a, a = [ix.accounts EXCEPT !.offerToken = token],
               Handle(acct, [ix EXCEPT !.accounts = a], call).kind = "done"
        PROVE  token = a.activeAuction.bestOfferToken
  BY DEF LeftoversCannotBeSpent
<1>. DEFINE i == [program |-> Engine!ID, name |-> "improveOffer", accounts |-> a]
            v == call.fastVaa
            info == acct[Auction(v)].info
<1>2. [ix EXCEPT !.accounts = a] = i
  BY <1>1, ImprovementIs
<1>3. EngineProgram!Handle(acct, i, call, Env).kind = "done"
  <2>1. Engine!ID # TokenProgram /\ Engine!ID # Router!ID
    BY DEF Engine!ID, TokenProgram, Router!ID
  <2>2. Handle(acct, i, call).kind = "done" /\ i.program = Engine!ID
    BY <1>1, <1>2
  <2>. HIDE DEF i
  <2>. QED BY <2>1, <2>2 DEF Handle
<1>4. /\ a \in EngineProgram!Idl!improveOffer
      /\ EngineProgram!improveOffer(acct, a, call, Env).kind = "done"
  <2>1. i.name = "improveOffer" /\ i.accounts = a
    OBVIOUS
  <2>. HIDE DEF i
  <2>. QED BY <1>3, <2>1 DEF EngineProgram!Handle, EngineProgram!Mismatch
<1>5. a.offerToken = token
  BY <1>1, <1>4 DEF EngineProgram!Idl!improveOffer
<1>6. /\ IsActive(acct, v) /\ call.offerPrice < info.offerPrice
      /\ a.activeAuction.bestOfferToken = info.bestOfferToken
      /\ token # info.bestOfferToken => acct[token].delegate = Authority(v, call.offerPrice)
  BY <1>4, <1>5 DEF EngineProgram!improveOffer, EngineProgram!Result, EngineProgram!Refused,
     EngineProgram!Mismatch, EngineProgram!IsActive, EngineProgram!Improves,
     EngineProgram!CanSpend, EngineProgram!ActiveAuction, EngineProgram!IsBestOffer,
     EngineProgram!Exists, IsActive, Exists, Authority, Auction
<1>7. DelegateOf(acct, token) = acct[token].delegate
  BY <1>1 DEF IsToken, Is, TokenAccount, DelegateOf
<1>8. call.offerPrice \in Nat
  BY <1>1, CallsArePriced DEF LeftoversInv, SessionInv, Priced
<1>9. ASSUME token # info.bestOfferToken PROVE FALSE
  <2>1. info.offerPrice <= call.offerPrice /\ info.offerPrice \in Nat
    BY <1>6, <1>7, <1>8, <1>9 DEF LeftoversInv, Leftovers
  <2>. QED BY <1>6, <1>8, <2>1
<1>. QED BY <1>6, <1>9

\* What a transaction approved and did not spend stays unspendable.  Whoever improves an
\* offer may name any token account and any transfer authority, but an authority is for
\* one auction at one price (transfer_authority_signer_seeds), and no approval is left
\* for a price that would still be an improvement: improve_offer takes the funds of no
\* account but the one approved for it, or leaves the best offer's owner its own.
THEOREM LeftoversStayUnspent == Spec => []LeftoversCannotBeSpent
<1>1. Init => LeftoversInv
  BY LeftoversInit
<1>2. LeftoversInv /\ [Next]_vars => LeftoversInv'
  BY LeftoversNext
<1>3. LeftoversInv => LeftoversCannotBeSpent
  BY LeftoversAreSafe
<1>. QED BY <1>1, <1>2, <1>3, PTL DEF Spec
=============================================================================
