-------------------------- MODULE SolanaAddresses --------------------------
(***************************************************************************)
(* Addresses as the clients and the programs derive them.  The address of  *)
(* a program or of a wallet is one cell, its name.  A derived address is   *)
(* the program followed by its seeds: findProgramAddressSync hashes their  *)
(* concatenation, and nothing here depends on more than that two           *)
(* derivations are equal exactly when program and seeds are.  A number is  *)
(* the encoding that was chosen for it and as many strokes: another number *)
(* is another seed, and so is the same in another width or byte order.     *)
(***************************************************************************)
EXTENDS Naturals, Sequences, TLC

Null == <<>>
Pubkey == Seq(STRING) \ {Null}

Pda(program, seeds) == program \o seeds
\* A transaction is signed with keys, and a derived address has none.
IsKey(addr) == Len(addr) = 1

Strokes(n) == IF n \in Nat THEN [i \in 1 .. n |-> "I"] ELSE <<>>
U16BE(n) == <<"u16be">> \o Strokes(n)
U32BE(n) == <<"u32be">> \o Strokes(n)
U64BE(n) == <<"u64be">> \o Strokes(n)
U64LE(n) == <<"u64le">> \o Strokes(n)
Decimal(n) == <<"decimal">> \o Strokes(n)

Keccak256(data) == <<"keccak256">> \o data
-----------------------------------------------------------------------------
SystemProgram == <<"system">>
TokenProgram == <<"token">>
AssociatedTokenProgram == <<"associated-token">>
BpfLoader == <<"bpf-loader-upgradeable">>
Rent == <<"sysvar-rent">>
Clock == <<"sysvar-clock">>
EpochSchedule == <<"sysvar-epoch-schedule">>
Usdc == <<"usdc">>

\* The associated token account of an owner, always of USDC here.
Ata(owner) == Pda(AssociatedTokenProgram, owner \o TokenProgram \o Usdc)

programDataAddress(programId) == Pda(BpfLoader, programId)

Solana == 1
=============================================================================
