--------------------------- MODULE ProgramAccounts --------------------------
(***************************************************************************)
(* The accounts of the chain as a program sees them: `s` maps the          *)
(* addresses that exist to their data.  An instruction has three results.  *)
(* It is refused when what was asked for cannot be done now, whatever      *)
(* accounts are named; it is a mismatch when it could be done, and the     *)
(* accounts named are not the ones the program looks for; otherwise it is  *)
(* done, and leaves the accounts in a new state.                           *)
(***************************************************************************)
EXTENDS SolanaAddresses

Refused == [kind |-> "refused"]
Mismatch == [kind |-> "mismatch"]
Done(s) == [kind |-> "done", s |-> s]
Result(possible, matches, s) ==
    IF ~possible THEN Refused ELSE IF ~matches THEN Mismatch ELSE Done(s)
-----------------------------------------------------------------------------
Exists(s, addr) == addr \in DOMAIN s
Is(s, addr, type) == Exists(s, addr) /\ s[addr] \in type
Put(s, addr, data) == [x \in DOMAIN s \cup {addr} |-> IF x = addr THEN data ELSE s[x]]
Close(s, addrs) == [x \in DOMAIN s \ addrs |-> s[x]]

TokenAccount == [owner: Pubkey, delegate: Pubkey \cup {Null}, delegated: Nat]
IsToken(s, addr) == Is(s, addr, TokenAccount)
NewToken(owner) == [owner |-> owner, delegate |-> Null, delegated |-> 0]

\* The token program keeps one delegate per account, for an amount.
Approve(s, a) ==
    Result(IsToken(s, a.source) /\ s[a.source].owner = a.owner, TRUE,
           Put(s, a.source, [s[a.source] EXCEPT !.delegate = a.delegate,
                                                !.delegated = a.amount]))
CanSpend(s, token, authority, amount) ==
    s[token].delegate = authority /\ s[token].delegated >= amount
Spend(s, token, amount) ==
    LET left == s[token].delegated - amount
    IN  Put(s, token, [s[token] EXCEPT !.delegated = left,
                                       !.delegate = IF left = 0 THEN Null ELSE @])

\* The programs around, by network.
Bridge(network) == IF network = "testnet" THEN <<"3u8hJUVT">> ELSE <<"worm2ZoG">>
UpgradeManager(network) ==
    CASE network = "mainnet" -> <<"4jyJ7EEs">>
      [] network = "testnet" -> <<"ucdP9ktg">>
      [] OTHER -> <<"UpgradeManager11">>
=============================================================================
