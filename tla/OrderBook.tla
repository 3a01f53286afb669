----------------------------- MODULE OrderBook -----------------------------
(***************************************************************************)
(* ValidateOrder of cmd/telemetry/validator.go as operators: the verdict   *)
(* on an event and the book after it.  Everything said of an order is the  *)
(* contestant's answer; the event adds the order's id and type, and what   *)
(* made the exchange fail.  Prices are numbers of some unit.               *)
(***************************************************************************)
EXTENDS Integers

\* A book is a record of bids and asks, sets of entries, and a counter.
EmptyBook == [bids |-> {}, asks |-> {}, sequence |-> 0]

\* One goroutine calls ValidateOrder, so its locked parts are one step.
Without(entries, id) == {e \in entries : e.id # id}
Remove(book, id) ==
    [book EXCEPT !.bids = Without(@, id), !.asks = Without(@, id)]

\* ob.bids[id] = entry replaces the entry with the same key on that side.
Put(entries, e) == Without(entries, e.id) \cup {e}

\* Mutant: the whole quantity is said to rest.
RecordWhole(book, id, answer) ==
    LET e == [id |-> id, price |-> answer.price, qty |-> answer.ordered,
              sequence |-> book.sequence + 1]
    IN  IF answer.side = "BUY"
        THEN [book EXCEPT !.bids = Put(@, e), !.sequence = @ + 1]
        ELSE [book EXCEPT !.asks = Put(@, e), !.sequence = @ + 1]

Record(book, id, answer) ==
    LET e == [id |-> id, price |-> answer.price, qty |-> answer.ordered - answer.filled,
              sequence |-> book.sequence + 1]
    IN  IF answer.side = "BUY"
        THEN [book EXCEPT !.bids = Put(@, e), !.sequence = @ + 1]
        ELSE [book EXCEPT !.asks = Put(@, e), !.sequence = @ + 1]

LimitFill(answer) == answer.type = "LIMIT" /\ answer.filled > 0

\* Mutant: limits are exclusive.
StrictlyWithinLimit(answer) ==
    /\ answer.side = "BUY" => answer.execution < answer.price
    /\ answer.side = "SELL" => answer.execution > answer.price

WithinLimit(answer) ==
    /\ answer.side = "BUY" => answer.execution <= answer.price
    /\ answer.side = "SELL" => answer.execution >= answer.price

\* The checks that do not look at the book.
Plausible(answer) ==
    /\ answer.ordered >= 0 /\ answer.filled >= 0
    /\ answer.filled <= answer.ordered
    /\ answer.side \in {"BUY", "SELL"}
    /\ LimitFill(answer) => WithinLimit(answer)
    /\ ~ (answer.filled = 0 /\ answer.status = "FILLED")
    /\ ~ (answer.filled = answer.ordered /\ answer.ordered > 0 /\ answer.status = "REJECTED")

\* Mutant: the comparison of the other side.
Worse(side, price, execution) ==
    IF side = "BUY" THEN price > execution ELSE price < execution

\* A resting order at this price would have been a better price for a taker on "side".
Better(side, price, execution) ==
    IF side = "BUY" THEN price < execution ELSE price > execution

\* validatePriceTimePriority, negated: the sequence numbers order entries of
\* one price, but the verdict asks only whether there is a better price.
Skips(book, answer) ==
    \E e \in IF answer.side = "BUY" THEN book.asks ELSE book.bids :
        Better(answer.side, e.price, answer.execution)

\* event.flawed: the event is unsuccessful, has another status code than 200,
\* or its body is no JSON or names another order; each returns before the
\* answer is read.  Of the event's type only CANCEL matters: the type of the
\* answer, which the contestant chooses, decides what is checked.
IsCorrect(book, event) ==
    /\ ~ event.flawed
    /\ IF event.type = "CANCEL"
       THEN event.answer.status = "cancelled"
       ELSE /\ Plausible(event.answer)
            /\ LimitFill(event.answer) => ~ Skips(book, event.answer)

\* Mutant: an order filled in part is not recorded.
AfterUnfilledOnly(book, event) ==
    LET answer == event.answer IN
    IF ~ IsCorrect(book, event) THEN book
    ELSE IF event.type = "CANCEL" \/ answer.filled = answer.ordered THEN Remove(book, event.id)
    ELSE IF answer.type = "LIMIT" /\ answer.filled = 0 /\ answer.status # "REJECTED"
         THEN Record(book, event.id, answer)
    ELSE book

\* Mutant: the orders a wrong fill skipped are reported once and forgotten.
AfterForgetting(book, event) ==
    LET answer == event.answer IN
    IF ~ IsCorrect(book, event)
    THEN IF ~ event.flawed /\ event.type # "CANCEL" /\ LimitFill(answer)
         THEN [book EXCEPT !.asks = {}, !.bids = {}] ELSE book
    ELSE IF event.type = "CANCEL" \/ answer.filled = answer.ordered THEN Remove(book, event.id)
    ELSE IF answer.type = "LIMIT" /\ answer.status # "REJECTED"
         THEN Record(book, event.id, answer)
    ELSE book

\* The book after the event.  A cancel removes the id of the cancel itself.
After(book, event) ==
    LET answer == event.answer IN
    IF ~ IsCorrect(book, event) THEN book
    ELSE IF event.type = "CANCEL" \/ answer.filled = answer.ordered THEN Remove(book, event.id)
    ELSE IF answer.type = "LIMIT" /\ answer.status # "REJECTED"
         THEN Record(book, event.id, answer)
    ELSE book
=============================================================================
