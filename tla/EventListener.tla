---------------------------- MODULE EventListener ----------------------------
(***************************************************************************)
(* onEventCpi of the matching engine's client: transactions that the logs  *)
(* subscription names are queued, and at every slot notification a         *)
(* callback fetches the transactions at the head of the queue one by one   *)
(* and hands their events to the listener.  The callback is asynchronous:  *)
(* the next notification starts another one while a fetch is under way.    *)
(* The queue is the client's ArrayQueue, a growing circular one, modelled  *)
(* by operators on its fields.                                             *)
(***************************************************************************)
EXTENDS Integers, Sequences, FiniteSets, TLC

CONSTANTS
    Capacity,       \* of a new queue
    Null,           \* what head() returns for an empty queue
    Undefined,      \* an element that was never written
    Transactions,   \* signatures of transactions with an event of the program
    LastSlot,       \* bound on the slots
    KeptSlots,      \* slots for which signatures are remembered
    MaxNotices      \* bound on the notices of one transaction

-----------------------------------------------------------------------------
\* ArrayQueue.  An array that resize() made longer holds nothing ("undefined") behind
\* the elements it copied.

EmptyQueue == [data |-> [i \in 1 .. Capacity |-> Null], size |-> 0, index |-> 0]

IsEmpty(q) == q.size = 0

\* The position of the i-th element (from 0) in the sequence of the data.
Position(q, i) == ((q.index + i) % Len(q.data)) + 1

QueueHead(q) == IF IsEmpty(q) THEN Null ELSE q.data[Position(q, 0)]

Resize(q) ==
    [q EXCEPT !.index = 0,
              !.data = [i \in 1 .. 2 * q.size |->
                          IF i <= q.size THEN q.data[Position(q, i - 1)]
                          ELSE Undefined]]

\* enqueue() fetches the array before it calls resize(), and writes to that one:
\* in a full queue the value is lost with the old array.
Enqueue(q, value) ==
    LET full    == q.size + 1 > Len(q.data)
        resized == IF full THEN Resize(q)
                   ELSE [q EXCEPT !.data[Position(q, q.size)] = value]
    IN  [resized EXCEPT !.size = @ + 1]

Dequeue(q) ==
    IF IsEmpty(q) THEN q
    ELSE [q EXCEPT !.index = (@ + 1) % Len(q.data), !.size = @ - 1]

\* What the queue holds, from its head.
Contents(q) == [i \in 1 .. q.size |-> q.data[Position(q, i - 1)]]
-----------------------------------------------------------------------------
VARIABLES
    slot,           \* the slot that was notified last
    landed,         \* transaction |-> its slot, or -1
    notices,        \* notices of a transaction so far
    unprocessedTxs, \* the queue
    observedTxs,    \* the signatures seen, with their slots
    awaiting,       \* per running callback, the head it fetches
    delivered       \* how often the event of a transaction was delivered

vars == <<slot, landed, notices, unprocessedTxs, observedTxs, awaiting, delivered>>

Init ==
    /\ slot = 0
    /\ landed = [t \in Transactions |-> -1]
    /\ notices = [t \in Transactions |-> 0]
    /\ unprocessedTxs = EmptyQueue
    /\ observedTxs = {}
    /\ awaiting = <<>>
    /\ delivered = [t \in Transactions |-> 0]
-----------------------------------------------------------------------------
Land(t) ==
    /\ landed[t] = -1
    /\ landed' = [landed EXCEPT ![t] = slot]
    /\ UNCHANGED <<slot, notices, unprocessedTxs, observedTxs, awaiting, delivered>>

\* The callback of onLogs: a transaction of a slot is queued once, as long as the
\* slot is remembered.
OnLogs(t) ==
    /\ landed[t] # -1 /\ notices[t] < MaxNotices
    /\ notices' = [notices EXCEPT ![t] = @ + 1]
    /\ LET seen == <<landed[t], t>>
       IN  /\ observedTxs' = observedTxs \cup {seen}
           /\ unprocessedTxs' = IF seen \in observedTxs THEN unprocessedTxs
                                ELSE Enqueue(unprocessedTxs, t)
    /\ UNCHANGED <<slot, landed, awaiting, delivered>>

\* What remains of observedTxs when a callback for slot s ends.
CleanedUp(s) == {seen \in observedTxs : seen[1] >= s - KeptSlots}

\* The head of the loop: a callback that finds nothing cleans up and ends.  A head
\* that is undefined cannot be destructured, and the callback ends without.
Continue(s, queue, others) ==
    LET head == QueueHead(queue)
    IN  /\ unprocessedTxs' = queue
        /\ observedTxs' = IF head = Null THEN CleanedUp(s) ELSE observedTxs
        /\ awaiting' = IF head \in {Null, Undefined} THEN others
                       ELSE (s :> head) @@ others

\* onSlotChange: a callback of its own for every notification.
OnSlotChange ==
    /\ slot < LastSlot
    /\ slot' = slot + 1
    /\ Continue(slot + 1, unprocessedTxs, awaiting)
    /\ UNCHANGED <<landed, notices, delivered>>

Others(s) == [c \in DOMAIN awaiting \ {s} |-> awaiting[c]]

\* getParsedTransaction answers: the callback dequeues whatever is the head by now
\* and delivers the event of the transaction it asked for.
Fetched(s) ==
    /\ delivered' = [delivered EXCEPT ![awaiting[s]] = @ + 1]
    /\ Continue(s, Dequeue(unprocessedTxs), Others(s))
    /\ UNCHANGED <<slot, landed, notices>>

\* The transaction is not confirmed yet: the callback leaves the queue alone.
NotConfirmed(s) ==
    /\ awaiting' = Others(s)
    /\ observedTxs' = CleanedUp(s)
    /\ UNCHANGED <<slot, landed, notices, unprocessedTxs, delivered>>

Next ==
    \/ OnSlotChange
    \/ \E t \in Transactions : Land(t) \/ OnLogs(t)
    \/ \E s \in DOMAIN awaiting : Fetched(s) \/ NotConfirmed(s)

Spec == Init /\ [][Next]_vars
-----------------------------------------------------------------------------
\* The event of a transaction that was noticed is delivered, or the transaction is
\* in the queue or being fetched: onEventCpi is the reliable way to listen.
NoEventIsLost ==
    \A t \in Transactions :
       notices[t] > 0 =>
          \/ delivered[t] > 0
          \/ \E s \in DOMAIN awaiting : awaiting[s] = t
          \/ \E i \in DOMAIN Contents(unprocessedTxs) : Contents(unprocessedTxs)[i] = t
=============================================================================
