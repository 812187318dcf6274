----------------------------- MODULE CctpClient -----------------------------
(***************************************************************************)
(* The clients of Circle's token messenger minter and message transmitter, *)
(* and of Wormhole's VAA accounts: the accounts they derive from a domain, *)
(* from an encoded CCTP message and from a posted VAA.                     *)
(***************************************************************************)
EXTENDS SolanaAddresses

TokenMessengerMinter == <<"CCTPiPYP">>
MessageTransmitter == <<"CCTPmbSD">>
MAX_NONCES == 6400
-----------------------------------------------------------------------------
tokenMessengerAddress == Pda(TokenMessengerMinter, <<"token_messenger">>)
tokenMinterAddress == Pda(TokenMessengerMinter, <<"token_minter">>)
custodyTokenAddress(mint) == Pda(TokenMessengerMinter, <<"custody">> \o mint)
tokenPairAddress(remoteDomain, remoteToken) ==
    Pda(TokenMessengerMinter,
        <<"token_pair">> \o Decimal(remoteDomain) \o remoteToken)
remoteTokenMessengerAddress(remoteDomain) ==
    Pda(TokenMessengerMinter,
        <<"remote_token_messenger">> \o Decimal(remoteDomain))
localTokenAddress(mint) == Pda(TokenMessengerMinter, <<"local_token">> \o mint)
senderAuthorityAddress == Pda(TokenMessengerMinter, <<"sender_authority">>)
minterEventAuthority == Pda(TokenMessengerMinter, <<"__event_authority">>)

messageTransmitterConfigAddress == Pda(MessageTransmitter, <<"message_transmitter">>)
authorityAddress(cpiProgram) ==
    Pda(MessageTransmitter, <<"message_transmitter_authority">> \o cpiProgram)
transmitterEventAuthority == Pda(MessageTransmitter, <<"__event_authority">>)

\* One account remembers the used nonces of a range.
FirstNonce(nonce) == ((nonce - 1) \div MAX_NONCES) * MAX_NONCES + 1
usedNoncesAddress(remoteDomain, nonce) ==
    Pda(MessageTransmitter,
        <<"used_nonces">> \o Decimal(remoteDomain) \o Decimal(FirstNonce(nonce)))
-----------------------------------------------------------------------------
\* What a burn on the way to a domain takes.
depositForBurnWithCallerAccounts(mint, remoteDomain) ==
    [mint |-> mint,
     tokenMessengerMinterSenderAuthority |-> senderAuthorityAddress,
     messageTransmitterConfig |-> messageTransmitterConfigAddress,
     tokenMessenger |-> tokenMessengerAddress,
     remoteTokenMessenger |-> remoteTokenMessengerAddress(remoteDomain),
     tokenMinter |-> tokenMinterAddress,
     localToken |-> localTokenAddress(mint),
     tokenMessengerMinterEventAuthority |-> minterEventAuthority,
     tokenMessengerMinterProgram |-> TokenMessengerMinter,
     messageTransmitterProgram |-> MessageTransmitter]

\* What receiving a burn message takes; domain, nonce and token are read from the
\* encoded message.
receiveTokenMessengerMinterMessageAccounts(mint, message) ==
    [messageTransmitterAuthority |-> authorityAddress(TokenMessengerMinter),
     messageTransmitterConfig |-> messageTransmitterConfigAddress,
     usedNonces |-> usedNoncesAddress(message.sourceDomain, message.nonce),
     messageTransmitterEventAuthority |-> transmitterEventAuthority,
     tokenMessenger |-> tokenMessengerAddress,
     remoteTokenMessenger |-> remoteTokenMessengerAddress(message.sourceDomain),
     tokenMinter |-> tokenMinterAddress,
     localToken |-> localTokenAddress(mint),
     tokenPair |-> tokenPairAddress(message.sourceDomain, message.burnTokenAddress),
     tokenMessengerMinterCustodyToken |-> custodyTokenAddress(mint),
     tokenMessengerMinterEventAuthority |-> minterEventAuthority,
     tokenMessengerMinterProgram |-> TokenMessengerMinter,
     messageTransmitterProgram |-> MessageTransmitter]
-----------------------------------------------------------------------------
(* A VAA account is an encoded VAA, whose buffer is the signed message, or *)
(* a posted one, which stores the fields of the body one by one.           *)
Body(vaa) == IF vaa.kind = "encodedVaa" THEN vaa.buf.body ELSE vaa.body

emitterInfo(vaa) ==
    [chain |-> Body(vaa).emitterChain, sequence |-> Body(vaa).sequence]

payload(vaa) == Body(vaa).payload

\* The hash is taken over the body, whatever the account keeps besides it.
hash(vaa) ==
    Keccak256(U16BE(Body(vaa).emitterChain) \o U64BE(Body(vaa).sequence)
              \o <<payload(vaa).kind>>)

digest(vaa) == Keccak256(hash(vaa))
=============================================================================
