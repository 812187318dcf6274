------------------------------- MODULE VaaSpy -------------------------------
(***************************************************************************)
(* The subscription of the relayer to signed VAAs: every VAA is handed to  *)
(* the callback once, until its hash is forgotten by the clean-up.         *)
(***************************************************************************)
EXTENDS Integers, FiniteSetsExt

CONSTANTS
    SeenThreshold,  \* how long a hash is remembered at least
    MaxToRemove     \* hashes that one clean-up forgets at most

VARIABLES
    seenHashes      \* _seenHashes: VAA |-> when it was seen, for those remembered

SpyInit == seenHashes = <<>>

IsUnique(v) == v \notin DOMAIN seenHashes

\* processUniqueVaa remembers a VAA before it calls back.
Remember(v, now) ==
    seenHashes' = [w \in DOMAIN seenHashes \cup {v} |->
                     IF w = v THEN now ELSE seenHashes[w]]

\* Mutation: the clean-up forgets whatever it finds.
Expired_Always(now) == DOMAIN seenHashes

Expired(now) == {v \in DOMAIN seenHashes : now - seenHashes[v] > SeenThreshold}

\* One call of the interval: the oldest expired hashes go first, the order of
\* insertion being that of the times.
CleanUp(now) ==
    \E removed \in SUBSET Expired(now) :
       /\ Cardinality(removed) = Min({MaxToRemove, Cardinality(Expired(now))})
       /\ \A v \in removed, w \in Expired(now) \ removed : seenHashes[v] <= seenHashes[w]
       /\ removed # {}
       /\ seenHashes' = [w \in DOMAIN seenHashes \ removed |-> seenHashes[w]]
=============================================================================
