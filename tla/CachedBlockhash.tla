--------------------------- MODULE CachedBlockhash ---------------------------
(***************************************************************************)
(* The blockhash that the solver's processes sign their transactions with: *)
(* fetched again every so many slots, and at every slot after a fetch that *)
(* failed.  A blockhash is modelled by the slot at which it was asked for. *)
(***************************************************************************)
EXTENDS Naturals

CONSTANTS
    UpdateBlockhashFrequency,   \* slots between two fetches
    BlockhashValidity           \* slots a blockhash can be used for

ASSUME BlockhashAssumption ==
    /\ UpdateBlockhashFrequency \in Nat \ {0}
    /\ BlockhashValidity \in Nat

VARIABLES
    cached,     \* _cached
    tryAgain,   \* whether the last answer was a failure
    fetches     \* requests that were not answered yet

blockhashVars == <<cached, tryAgain, fetches>>

BlockhashInit == cached = 0 /\ tryAgain = FALSE /\ fetches = {}

FetchDue(slot) == tryAgain \/ slot % UpdateBlockhashFrequency = 0

BlockhashOnSlotChange(slot) ==
    /\ fetches' = IF FetchDue(slot) THEN fetches \cup {slot} ELSE fetches
    /\ UNCHANGED <<cached, tryAgain>>

\* Answers come in any order: an old one replaces a newer blockhash.
FetchSucceeds ==
    \E s \in fetches :
       /\ fetches' = fetches \ {s}
       /\ cached' = s
       /\ tryAgain' = FALSE

FetchFails ==
    \E s \in fetches :
       /\ fetches' = fetches \ {s}
       /\ tryAgain' = TRUE
       /\ UNCHANGED cached

\* Whether the chain still takes a transaction signed with a blockhash.
Valid(blockhash, slot) == slot <= blockhash + BlockhashValidity
=============================================================================
