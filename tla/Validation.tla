----------------------------- MODULE Validation -----------------------------
(***************************************************************************)
(* A telemetry replica judging the events of the runs it reads: one        *)
(* OrderBook per process (cmd/telemetry/main.go:22), shared by all runs,   *)
(* although every run calls its orders ORD-1, ORD-2, ...  The replica may  *)
(* be given an event again, and may restart with an empty book.            *)
(***************************************************************************)
EXTENDS OrderBook, FiniteSets

CONSTANTS Runs,            \* load tests whose events this replica reads
          TestBots,        \* the runs of the contestants under test-bots/
          NumOrders,       \* orders of a run; ORD-i is i
          Fills,           \* what a contestant may answer to an order
          Confirmations,   \* what it may answer to a cancel
          MaxEvents,       \* bound: events read, redeliveries apart
          MaxRedeliveries, \* bound
          MaxRestarts      \* bound

ASSUME ValidationAssumption ==
    /\ TestBots \subseteq Runs
    /\ {NumOrders, MaxEvents, MaxRedeliveries, MaxRestarts} \subseteq Nat
    /\ Fills # {}
    /\ \A a \in Fills : {a.ordered, a.filled, a.price, a.execution} \subseteq Int

VARIABLES
    book,         \* the OrderBook
    read,         \* the events of each run judged so far
    verdicts,     \* history: the values of is_correct given to each event
    redeliveries, restarts

vars == <<book, read, verdicts, redeliveries, restarts>>

Ids == 1..NumOrders

\* events.OrderEvent of order i.  "target" is its cancel_target_id, which the
\* event does not carry: only the contestant is told.  When i = 1 the generator
\* makes an order its own target.
Events(i) ==
    LET Earlier == {1} \cup 1..(i - 1)
    IN  [id : {i}, type : {"ORDER"}, flawed : {FALSE}, answer : Fills, target : {0}]
        \cup
        [id : {i}, type : {"ORDER"}, flawed : {TRUE}, answer : {CHOOSE a \in Fills : TRUE}, target : {0}]
        \cup
        [id : {i}, type : {"CANCEL"}, flawed : {FALSE}, answer : Confirmations, target : Earlier]

\* test-bots/contestant.go: every order filled whole, a limit order at its own
\* price, and every cancel confirmed.
BotAnswers(event) ==
    /\ ~ event.flawed
    /\ \/ event.type = "CANCEL" /\ event.answer.status = "cancelled"
       \/ /\ event.type = "ORDER"
          /\ event.answer.filled = event.answer.ordered /\ event.answer.ordered > 0
          /\ event.answer.status = "" /\ event.answer.side \in {"BUY", "SELL"}
          /\ event.answer.type = "LIMIT" => event.answer.execution = event.answer.price

Init ==
    /\ book = EmptyBook
    /\ read = [r \in Runs |-> {}]
    /\ verdicts = [r \in Runs |-> [i \in Ids |-> {}]]
    /\ redeliveries = 0 /\ restarts = 0

\* orderBook.ValidateOrder(event), with the verdict put into the batch.
ValidateOrder(r, event) ==
    /\ verdicts' = [verdicts EXCEPT ![r][event.id] = @ \cup {IsCorrect(book, event)}]
    /\ book' = After(book, event)

\* The next message is an order of run r.  Bots publish when an answer is in,
\* and the topic has four partitions: orders arrive in no particular order.
Deliver(r) ==
    /\ Cardinality(UNION {{r2} \X read[r2] : r2 \in Runs}) < MaxEvents
    /\ \E i \in Ids \ {e.id : e \in read[r]} : \E event \in Events(i) :
        /\ r \in TestBots => BotAnswers(event)
        /\ ValidateOrder(r, event)
        /\ read' = [read EXCEPT ![r] = @ \cup {event}]
    /\ UNCHANGED <<redeliveries, restarts>>

\* Offsets are committed after the rows: an event comes again when its
\* partition moves away and back, or the process dies in between.
Redeliver(r) ==
    /\ redeliveries < MaxRedeliveries
    /\ \E event \in read[r] : ValidateOrder(r, event)
    /\ redeliveries' = redeliveries + 1
    /\ UNCHANGED <<read, restarts>>

\* NewOrderBook at the start of main.
Restart ==
    /\ restarts < MaxRestarts
    /\ book' = EmptyBook
    /\ restarts' = restarts + 1
    /\ UNCHANGED <<read, verdicts, redeliveries>>

Next == (\E r \in Runs : Deliver(r) \/ Redeliver(r)) \/ Restart

Spec == Init /\ [][Next]_vars

-----------------------------------------------------------------------------
(* Properties *)

\* An answer that puts the remainder of a limit order on the contestant's book.
SaysItRests(event) ==
    /\ ~ event.flawed /\ event.type = "ORDER" /\ event.answer.type = "LIMIT"
    /\ event.answer.filled < event.answer.ordered /\ event.answer.status # "REJECTED"

EverRested(r) == {e \in read[r] : SaysItRests(e)}

\* The orders that still rest by every account: the verdict on them was never
\* FALSE, and no cancel of them was confirmed.
Resting(r) ==
    {e \in EverRested(r) :
        /\ verdicts[r][e.id] = {TRUE}
        /\ ~ \E c \in read[r] : c.type = "CANCEL" /\ c.target = e.id}

\* The fill of the event was at a worse price than order o offered.
TradesThrough(event, o) ==
    \/ /\ event.answer.side = "BUY" /\ o.answer.side = "SELL"
       /\ o.answer.price < event.answer.execution
    \/ /\ event.answer.side = "SELL" /\ o.answer.side = "BUY"
       /\ o.answer.price > event.answer.execution

IsLimitFill(event) == event.type = "ORDER" /\ ~ event.flawed /\ LimitFill(event.answer)

\* The type of the book, and what puts an entry there: an answer judged correct
\* of an order that is said to rest, with the quantity it left unfilled.
SaidBy(side, e) ==
    \E r \in Runs : \E o \in EverRested(r) :
        /\ o.id = e.id /\ TRUE \in verdicts[r][o.id]
        /\ (o.answer.side = "BUY") = (side = "BUY")
        /\ o.answer.price = e.price /\ o.answer.ordered - o.answer.filled = e.qty

OneEach(entries) ==
    \A e, f \in entries : e.id = f.id \/ e.sequence = f.sequence => e = f

BookInv ==
    /\ \A e \in book.bids : SaidBy("BUY", e)
    /\ \A e \in book.asks : SaidBy("SELL", e)
    /\ OneEach(book.bids) /\ OneEach(book.asks)

\* What the validator is for: as long as it reads one run and is not restarted,
\* a limit fill that skips a better resting order of that run is never judged
\* correct, whatever else was filled, cancelled or redelivered in between.
TradeThroughsAreCaught ==
    [][\A r \in Runs : \A event \in read'[r] :
        (/\ IsLimitFill(event)
         /\ restarts = 0 /\ \A q \in Runs \ {r} : read[q] = {}
         /\ \E o \in Resting(r) : o.id # event.id /\ TradesThrough(event, o))
        => (verdicts'[r][event.id] = verdicts[r][event.id] \/ FALSE \in verdicts'[r][event.id])]_vars

\* A limit fill that is consistent in itself is judged wrong only if some
\* contestant did say that an order with a better price rests.
AlarmsAreExplained ==
    \A r \in Runs : \A event \in read[r] :
        (IsLimitFill(event) /\ Plausible(event.answer) /\ FALSE \in verdicts[r][event.id])
        => \E q \in Runs : \E o \in EverRested(q) : TradesThrough(event, o)

\* A test bot is judged wrong only if a contestant that is none said that an
\* order rests at a better price than a fill of the bot (contestant.go:66-83):
\* bots are never wrong by themselves, nor because of each other.
BotAlarmsComeFromOthers ==
    \A r \in TestBots : \A event \in read[r] :
        FALSE \in verdicts[r][event.id]
        => \E q \in Runs \ TestBots : \E o \in EverRested(q) : TradesThrough(event, o)

\* An event that comes again before any other is judged as it was: judging it
\* does not change what it is judged by.
RedeliveryStable ==
    \A r \in Runs : \A event \in read[r] :
        IsCorrect(After(book, event), event) = IsCorrect(book, event)

\* A test bot fills every order whole, at its own price, "Fully fill to pass
\* validation" (test-bots/contestant.go:77): its answers are judged correct.
\* Violated: the book also holds what other contestants say rests.
CompliantBotPasses == \A r \in TestBots : \A i \in Ids : FALSE \notin verdicts[r][i]
=============================================================================
