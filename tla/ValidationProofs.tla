--------------------------- MODULE ValidationProofs ---------------------------
(***************************************************************************)
(* Proofs about Validation, for every set of runs and every answer a       *)
(* contestant may give.                                                    *)
(***************************************************************************)
EXTENDS Validation, TLAPS

\* The book is a record of two sets of entries and a counter, whatever the
\* entries are.
ABook(bids, asks, sequence) == [bids |-> bids, asks |-> asks, sequence |-> sequence]

BookShape == book = ABook(book.bids, book.asks, book.sequence)

\* Removing an order takes entries from both sides; recording one adds to the
\* side of the order.
LEMMA Removed ==
    ASSUME NEW bids, NEW asks, NEW sequence, NEW id
    PROVE  Remove(ABook(bids, asks, sequence), id)
             = ABook(Without(bids, id), Without(asks, id), sequence)
<1>1. [ABook(bids, asks, sequence) EXCEPT !.bids = Without(bids, id)]
        = ABook(Without(bids, id), asks, sequence)
  BY DEF ABook
<1>2. ABook(bids, asks, sequence).bids = bids /\ ABook(bids, asks, sequence).asks = asks
  BY DEF ABook
<1>3. Remove(ABook(bids, asks, sequence), id)
        = [ABook(bids, asks, sequence) EXCEPT !.bids = Without(bids, id), !.asks = Without(asks, id)]
  BY <1>2 DEF Remove
<1> QED  BY <1>3 DEF ABook

LEMMA Recorded ==
    ASSUME NEW bids, NEW asks, NEW sequence, NEW id, NEW answer
    PROVE  \/ /\ answer.side = "BUY"
              /\ \E e : Record(ABook(bids, asks, sequence), id, answer)
                          = ABook(Put(bids, e), asks, sequence + 1)
           \/ /\ answer.side # "BUY"
              /\ \E e : Record(ABook(bids, asks, sequence), id, answer)
                          = ABook(bids, Put(asks, e), sequence + 1)
<1>1. CASE answer.side = "BUY"  BY <1>1 DEF Record, ABook
<1>2. CASE answer.side # "BUY"  BY <1>2 DEF Record, ABook
<1> QED  BY <1>1, <1>2

\* What After leaves of the side of the book that a limit order trades with:
\* entries go, none come.
LEMMA OtherSideShrinks ==
    ASSUME NEW bids, NEW asks, NEW sequence, NEW event,
           NEW a, a = After(ABook(bids, asks, sequence), event)
    PROVE  /\ a = ABook(a.bids, a.asks, a.sequence)
           /\ event.answer.side = "BUY" => a.asks \subseteq asks
           /\ event.answer.side # "BUY" => a.bids \subseteq bids
<1>1. \/ a = ABook(bids, asks, sequence)
      \/ a = Remove(ABook(bids, asks, sequence), event.id)
      \/ a = Record(ABook(bids, asks, sequence), event.id, event.answer)
  BY DEF After
<1>2. CASE a = ABook(bids, asks, sequence)
  BY <1>2 DEF ABook
<1>3. CASE a = Remove(ABook(bids, asks, sequence), event.id)
  <2>1. a = ABook(Without(bids, event.id), Without(asks, event.id), sequence)
    BY <1>3, Removed
  <2>2. Without(bids, event.id) \subseteq bids /\ Without(asks, event.id) \subseteq asks
    BY DEF Without
  <2> QED  BY <2>1, <2>2 DEF ABook
<1>4. CASE a = Record(ABook(bids, asks, sequence), event.id, event.answer)
  <2>1. CASE event.answer.side = "BUY"
    <3>1. PICK e : a = ABook(Put(bids, e), asks, sequence + 1)
      BY <2>1, <1>4, Recorded
    <3> QED  BY <3>1, <2>1 DEF ABook
  <2>2. CASE event.answer.side # "BUY"
    <3>1. PICK e : a = ABook(bids, Put(asks, e), sequence + 1)
      BY <2>2, <1>4, Recorded
    <3> QED  BY <3>1, <2>2 DEF ABook
  <2> QED  BY <2>1, <2>2
<1> QED  BY <1>1, <1>2, <1>3, <1>4

\* A wrong fill leaves the book alone, and a right one only removes from the
\* side it was checked against: the second verdict is the first.
LEMMA SecondVerdict ==
    ASSUME NEW bids, NEW asks, NEW sequence, NEW event
    PROVE  IsCorrect(After(ABook(bids, asks, sequence), event), event)
             = IsCorrect(ABook(bids, asks, sequence), event)
<1> DEFINE b == ABook(bids, asks, sequence)
           a == After(b, event)
<1>1. CASE ~ IsCorrect(b, event)
  BY <1>1 DEF After
<1>2. CASE IsCorrect(b, event) /\ event.type = "CANCEL"
  BY <1>2 DEF IsCorrect
<1>3. CASE IsCorrect(b, event) /\ event.type # "CANCEL"
  <2>1. LimitFill(event.answer) => ~ Skips(a, event.answer)
    <3> SUFFICES ASSUME LimitFill(event.answer)  PROVE ~ Skips(a, event.answer)
      OBVIOUS
    <3>1. ~ Skips(b, event.answer)
      BY <1>3 DEF IsCorrect
    <3>2. CASE event.answer.side = "BUY"
      <4>1. a.asks \subseteq asks
        BY <3>2, OtherSideShrinks
      <4>2. b.asks = asks
        BY DEF ABook
      <4> QED  BY <4>1, <4>2, <3>1, <3>2 DEF Skips
    <3>3. CASE event.answer.side # "BUY"
      <4>1. a.bids \subseteq bids
        BY <3>3, OtherSideShrinks
      <4>2. b.bids = bids
        BY DEF ABook
      <4> QED  BY <4>1, <4>2, <3>1, <3>3 DEF Skips
    <3> QED  BY <3>2, <3>3
  <2> QED  BY <2>1, <1>3 DEF IsCorrect
<1> QED  BY <1>1, <1>2, <1>3 DEF IsCorrect

LEMMA Shape == Spec => []BookShape
<1>1. Init => BookShape
  BY DEF Init, BookShape, ABook, EmptyBook
<1>2. BookShape /\ [Next]_vars => BookShape'
  <2> SUFFICES ASSUME BookShape, [Next]_vars  PROVE BookShape'
    OBVIOUS
  <2>1. ASSUME NEW event, book' = After(book, event)  PROVE BookShape'
    BY <2>1, OtherSideShrinks DEF BookShape
  <2>2. ASSUME NEW r \in Runs, Deliver(r)  PROVE BookShape'
    BY <2>1, <2>2 DEF Deliver, ValidateOrder
  <2>3. ASSUME NEW r \in Runs, Redeliver(r)  PROVE BookShape'
    BY <2>1, <2>3 DEF Redeliver, ValidateOrder
  <2>4. CASE Restart
    BY <2>4 DEF Restart, BookShape, ABook, EmptyBook
  <2>5. CASE UNCHANGED vars
    BY <2>5 DEF vars, BookShape
  <2> QED  BY <2>2, <2>3, <2>4, <2>5 DEF Next
<1> QED  BY <1>1, <1>2, PTL DEF Spec

\* An event that comes twice in a row is judged the same twice, for every
\* answer and every book the validator can have built.
THEOREM SecondVerdictIsTheFirst == Spec => []RedeliveryStable
<1>1. BookShape => RedeliveryStable
  BY SecondVerdict DEF BookShape, RedeliveryStable
<1> QED  BY <1>1, Shape, PTL

-----------------------------------------------------------------------------
(* Why a fill is reported only when some order did rest at a better price:   *)
(* every entry of the book comes from an answer that was read.               *)

\* The price of each entry was named by an order that some run said rests.
BookSaid ==
    /\ \A e \in book.bids : \E q \in Runs : \E o \in EverRested(q) :
          o.answer.side = "BUY" /\ o.answer.price = e.price
    /\ \A e \in book.asks : \E q \in Runs : \E o \in EverRested(q) :
          o.answer.side = "SELL" /\ o.answer.price = e.price

\* An order has one event, and no verdict before the event is read.
Judged ==
    /\ read = [r \in Runs |-> read[r]]
    /\ verdicts = [r \in Runs |-> [i \in Ids |-> verdicts[r][i]]]
    /\ \A r \in Runs :
          /\ \A e \in read[r] : e \in Events(e.id) /\ e.id \in Ids
          /\ \A e, f \in read[r] : e.id = f.id => e = f
          /\ \A i \in Ids : (\A e \in read[r] : e.id # i) => verdicts[r][i] = {}

AlarmInv == BookShape /\ BookSaid /\ Judged /\ AlarmsAreExplained

\* An entry that After adds is that of the event, on the side the answer names,
\* and the answer says that it rests.
LEMMA NewEntries ==
    ASSUME NEW bids, NEW asks, NEW sequence, NEW i \in Ids, NEW event \in Events(i),
           NEW a, a = After(ABook(bids, asks, sequence), event)
    PROVE  /\ \A e \in a.bids : e \in bids \/
                 (SaysItRests(event) /\ event.answer.side = "BUY" /\ e.price = event.answer.price)
           /\ \A e \in a.asks : e \in asks \/
                 (SaysItRests(event) /\ event.answer.side = "SELL" /\ e.price = event.answer.price)
<1> DEFINE b == ABook(bids, asks, sequence)
           answer == event.answer
<1>1. \/ a = b
      \/ a = Remove(b, event.id)
      \/ /\ a = Record(b, event.id, answer)
         /\ IsCorrect(b, event) /\ event.type # "CANCEL"
         /\ answer.filled # answer.ordered /\ answer.type = "LIMIT" /\ answer.status # "REJECTED"
  BY DEF After
<1>2. CASE a = b
  BY <1>2 DEF ABook
<1>3. CASE a = Remove(b, event.id)
  <2>1. a = ABook(Without(bids, event.id), Without(asks, event.id), sequence)
    BY <1>3, Removed
  <2> QED  BY <2>1 DEF ABook, Without
<1>4. CASE /\ a = Record(b, event.id, answer)
           /\ IsCorrect(b, event) /\ event.type # "CANCEL"
           /\ answer.filled # answer.ordered /\ answer.type = "LIMIT" /\ answer.status # "REJECTED"
  <2>1. event.type = "ORDER" /\ answer \in Fills
    BY <1>4, ValidationAssumption DEF Events
  <2>2. Plausible(answer) /\ ~ event.flawed
    BY <1>4 DEF IsCorrect
  <2>3. answer.filled < answer.ordered
    BY <1>4, <2>1, <2>2, ValidationAssumption DEF Plausible
  <2>4. SaysItRests(event)
    BY <1>4, <2>1, <2>2, <2>3 DEF SaysItRests
  <2>5. answer.side \in {"BUY", "SELL"}
    BY <2>2 DEF Plausible
  <2> DEFINE entry == [id |-> event.id, price |-> answer.price,
                       qty |-> answer.ordered - answer.filled, sequence |-> sequence + 1]
  <2>6. entry.price = answer.price
    OBVIOUS
  <2>7. CASE answer.side = "BUY"
    <3>1. a = ABook(Put(bids, entry), asks, sequence + 1)
      BY <1>4, <2>7 DEF Record, ABook
    <3>2. a.bids = Put(bids, entry) /\ a.asks = asks
      BY <3>1 DEF ABook
    <3>3. \A e \in Put(bids, entry) : e \in bids \/ e = entry
      BY DEF Put, Without
    <3> QED  BY <2>4, <2>6, <2>7, <3>2, <3>3
  <2>8. CASE answer.side = "SELL"
    <3>1. a = ABook(bids, Put(asks, entry), sequence + 1)
      BY <1>4, <2>8 DEF Record, ABook
    <3>2. a.asks = Put(asks, entry) /\ a.bids = bids
      BY <3>1 DEF ABook
    <3>3. \A e \in Put(asks, entry) : e \in asks \/ e = entry
      BY DEF Put, Without
    <3> QED  BY <2>4, <2>6, <2>8, <3>2, <3>3
  <2> QED  BY <2>5, <2>7, <2>8
<1> QED  BY <1>1, <1>2, <1>3, <1>4

\* What judging an event adds to the histories.
LEMMA JudgingAdds ==
    ASSUME Judged, NEW r \in Runs, NEW event, event.id \in Ids, ValidateOrder(r, event),
           \/ event \in read[r] /\ UNCHANGED read
           \/ /\ \A e \in read[r] : e.id # event.id
              /\ read' = [read EXCEPT ![r] = read[r] \cup {event}]
    PROVE  /\ read' = [q \in Runs |-> read'[q]]
           /\ \A q \in Runs : read[q] \subseteq read'[q]
           /\ \A q \in Runs : q # r => read'[q] = read[q]
           /\ read'[r] = read[r] \cup {event}
           /\ verdicts' = [q \in Runs |-> [i \in Ids |-> verdicts'[q][i]]]
           /\ \A q \in Runs, i \in Ids : q # r \/ i # event.id => verdicts'[q][i] = verdicts[q][i]
           /\ verdicts'[r][event.id] = verdicts[r][event.id] \cup {IsCorrect(book, event)}
<1>1. /\ read' = [q \in Runs |-> read'[q]]
      /\ \A q \in Runs : read[q] \subseteq read'[q]
      /\ \A q \in Runs : q # r => read'[q] = read[q]
      /\ read'[r] = read[r] \cup {event}
  BY DEF Judged
<1>2. /\ verdicts' = [q \in Runs |-> [i \in Ids |-> verdicts'[q][i]]]
      /\ \A q \in Runs, i \in Ids : q # r \/ i # event.id => verdicts'[q][i] = verdicts[q][i]
      /\ verdicts'[r][event.id] = verdicts[r][event.id] \cup {IsCorrect(book, event)}
  <2> DEFINE verdict == verdicts[r][event.id] \cup {IsCorrect(book, event)}
             row == [verdicts[r] EXCEPT ![event.id] = verdict]
  <2>1. verdicts' = [verdicts EXCEPT ![r] = row]
    BY DEF ValidateOrder
  <2> HIDE DEF verdict
  <2>2. verdicts = [q \in Runs |-> verdicts[q]]
    BY DEF Judged
  <2>3. \A q \in Runs : verdicts[q] = [i \in Ids |-> verdicts[q][i]]
    BY DEF Judged
  <2>4. row = [i \in Ids |-> IF i = event.id THEN verdict ELSE verdicts[r][i]]
    BY <2>3
  <2> HIDE DEF row
  <2>5. verdicts' = [q \in Runs |-> IF q = r THEN row ELSE verdicts[q]]
    BY <2>1, <2>2
  <2>6. \A q \in Runs : verdicts'[q] = [i \in Ids |-> verdicts'[q][i]]
    BY <2>3, <2>4, <2>5
  <2>7. verdicts' = [q \in Runs |-> [i \in Ids |-> verdicts'[q][i]]]
    BY <2>5, <2>6
  <2>8. \A q \in Runs, i \in Ids : q # r \/ i # event.id => verdicts'[q][i] = verdicts[q][i]
    BY <2>4, <2>5
  <2>9. verdicts'[r][event.id] = verdict
    BY <2>4, <2>5
  <2> QED  BY <2>7, <2>8, <2>9 DEF verdict
<1> QED  BY <1>1, <1>2

\* A step that judges an event, new or known, keeps the invariant.
LEMMA JudgingKeepsAlarmInv ==
    ASSUME AlarmInv, NEW r \in Runs, NEW event,
           event.id \in Ids, event \in Events(event.id), ValidateOrder(r, event),
           \/ event \in read[r] /\ UNCHANGED read
           \/ /\ \A e \in read[r] : e.id # event.id
              /\ read' = [read EXCEPT ![r] = read[r] \cup {event}]
    PROVE  AlarmInv'
<1>1. BookShape /\ BookSaid /\ Judged /\ AlarmsAreExplained
  BY DEF AlarmInv
<1>2. /\ book' = After(book, event)
      /\ verdicts' = [verdicts EXCEPT ![r][event.id] = verdicts[r][event.id] \cup {IsCorrect(book, event)}]
  BY DEF ValidateOrder
<1>3. /\ read' = [q \in Runs |-> read'[q]]
      /\ \A q \in Runs : read[q] \subseteq read'[q]
      /\ \A q \in Runs : q # r => read'[q] = read[q]
      /\ read'[r] = read[r] \cup {event}
  BY <1>1, JudgingAdds
<1>4. /\ verdicts' = [q \in Runs |-> [i \in Ids |-> verdicts'[q][i]]]
      /\ \A q \in Runs, i \in Ids : q # r \/ i # event.id => verdicts'[q][i] = verdicts[q][i]
      /\ verdicts'[r][event.id] = verdicts[r][event.id] \cup {IsCorrect(book, event)}
  BY <1>1, JudgingAdds
<1>5. \A q \in Runs : \A o \in EverRested(q) : o \in EverRested(q)'
  BY <1>3 DEF EverRested
<1>6. BookShape'
  BY <1>1, <1>2, OtherSideShrinks DEF BookShape
<1>7. BookSaid'
  <2>1. SaysItRests(event) => event \in EverRested(r)'
    BY <1>3 DEF EverRested
  <2>2. /\ \A e \in book'.bids : e \in book.bids \/
               (SaysItRests(event) /\ event.answer.side = "BUY" /\ e.price = event.answer.price)
        /\ \A e \in book'.asks : e \in book.asks \/
               (SaysItRests(event) /\ event.answer.side = "SELL" /\ e.price = event.answer.price)
    BY <1>1, <1>2, NewEntries DEF BookShape
  <2>3. \A e \in book'.bids : \E q \in Runs : \E o \in EverRested(q)' :
            o.answer.side = "BUY" /\ o.answer.price = e.price
    BY <1>1, <1>5, <2>1, <2>2 DEF BookSaid
  <2>4. \A e \in book'.asks : \E q \in Runs : \E o \in EverRested(q)' :
            o.answer.side = "SELL" /\ o.answer.price = e.price
    BY <1>1, <1>5, <2>1, <2>2 DEF BookSaid
  <2> QED  BY <2>3, <2>4 DEF BookSaid
<1>8. Judged'
  <2>1. ASSUME NEW q \in Runs
        PROVE  /\ \A e \in read'[q] : e \in Events(e.id) /\ e.id \in Ids
               /\ \A e, f \in read'[q] : e.id = f.id => e = f
               /\ \A i \in Ids : (\A e \in read'[q] : e.id # i) => verdicts'[q][i] = {}
    <3>1. CASE q # r
      <4>1. read'[q] = read[q] /\ \A i \in Ids : verdicts'[q][i] = verdicts[q][i]
        BY <1>3, <1>4, <3>1
      <4> QED  BY <1>1, <4>1 DEF Judged
    <3>2. CASE q = r
      <4>1. \A e \in read'[q] : e \in Events(e.id) /\ e.id \in Ids
        BY <1>1, <1>3, <3>2 DEF Judged
      <4>2. \A e \in read[r] : e.id = event.id => e = event
        BY <1>1 DEF Judged
      <4>3. \A e, f \in read'[q] : e.id = f.id => e = f
        BY <1>1, <1>3, <3>2, <4>2 DEF Judged
      <4>4. \A i \in Ids : (\A e \in read'[q] : e.id # i) => verdicts'[q][i] = {}
        BY <1>1, <1>3, <1>4, <3>2 DEF Judged
      <4> QED  BY <4>1, <4>3, <4>4
    <3> QED  BY <3>1, <3>2
  <2> QED  BY <1>3, <1>4, <2>1 DEF Judged, Events
<1>9. AlarmsAreExplained'
  <2> SUFFICES ASSUME NEW q \in Runs, NEW f \in read'[q], IsLimitFill(f), Plausible(f.answer),
                      FALSE \in verdicts'[q][f.id]
               PROVE  \E s \in Runs : \E o \in EverRested(s)' : TradesThrough(f, o)
    BY DEF AlarmsAreExplained
  <2>1. f.id \in Ids
    BY <1>1, <1>3 DEF Judged
  <2>2. CASE FALSE \in verdicts[q][f.id]
    <3>1. \E e \in read[q] : e.id = f.id
      BY <1>1, <2>1, <2>2 DEF Judged
    <3>2. f \in read[q]
      BY <1>1, <1>3, <3>1 DEF Judged
    <3> QED  BY <1>1, <1>5, <2>2, <3>2 DEF AlarmsAreExplained
  <2>3. CASE FALSE \notin verdicts[q][f.id]
    <3>1. q = r /\ f.id = event.id /\ ~ IsCorrect(book, event)
      BY <1>4, <2>1, <2>3
    <3>2. f = event
      BY <1>1, <1>3, <3>1 DEF Judged
    <3>3. Skips(book, event.answer)
      BY <3>1, <3>2 DEF IsCorrect, IsLimitFill
    <3>4. event.answer.side \in {"BUY", "SELL"}
      BY <3>2 DEF Plausible
    <3>5. CASE event.answer.side = "BUY"
      <4>1. PICK e \in book.asks : e.price < event.answer.execution
        BY <3>3, <3>5 DEF Skips, Better
      <4>2. PICK s \in Runs : \E o \in EverRested(s) :
                o.answer.side = "SELL" /\ o.answer.price = e.price
        BY <1>1 DEF BookSaid
      <4>3. PICK o \in EverRested(s) : o.answer.side = "SELL" /\ o.answer.price = e.price
        BY <4>2
      <4> QED  BY <1>5, <3>2, <3>5, <4>1, <4>3 DEF TradesThrough
    <3>6. CASE event.answer.side = "SELL"
      <4>1. PICK e \in book.bids : e.price > event.answer.execution
        BY <3>3, <3>6 DEF Skips, Better
      <4>2. PICK s \in Runs : \E o \in EverRested(s) :
                o.answer.side = "BUY" /\ o.answer.price = e.price
        BY <1>1 DEF BookSaid
      <4>3. PICK o \in EverRested(s) : o.answer.side = "BUY" /\ o.answer.price = e.price
        BY <4>2
      <4> QED  BY <1>5, <3>2, <3>6, <4>1, <4>3 DEF TradesThrough
    <3> QED  BY <3>4, <3>5, <3>6
  <2> QED  BY <2>2, <2>3
<1> QED  BY <1>6, <1>7, <1>8, <1>9 DEF AlarmInv

LEMMA InitAlarm == Init => AlarmInv
  BY DEF Init, AlarmInv, BookShape, ABook, EmptyBook, BookSaid, Judged, AlarmsAreExplained

LEMMA StepAlarm == AlarmInv /\ [Next]_vars => AlarmInv'
<1> SUFFICES ASSUME AlarmInv, [Next]_vars  PROVE AlarmInv'
  OBVIOUS
<1>1. ASSUME NEW r \in Runs, Deliver(r)  PROVE AlarmInv'
  <2>1. PICK i \in Ids \ {e.id : e \in read[r]} : \E event \in Events(i) :
            /\ ValidateOrder(r, event)
            /\ read' = [read EXCEPT ![r] = read[r] \cup {event}]
    BY <1>1 DEF Deliver
  <2>2. PICK event \in Events(i) :
            /\ ValidateOrder(r, event)
            /\ read' = [read EXCEPT ![r] = read[r] \cup {event}]
    BY <2>1
  <2>3. event.id = i
    BY DEF Events
  <2> QED  BY <2>2, <2>3, JudgingKeepsAlarmInv
<1>2. ASSUME NEW r \in Runs, Redeliver(r)  PROVE AlarmInv'
  <2>1. PICK event \in read[r] : ValidateOrder(r, event) /\ UNCHANGED read
    BY <1>2 DEF Redeliver
  <2>2. event.id \in Ids /\ event \in Events(event.id)
    BY DEF AlarmInv, Judged
  <2> QED  BY <2>1, <2>2, JudgingKeepsAlarmInv
<1>3. CASE Restart
  <2>1. BookShape' /\ BookSaid'
    BY <1>3 DEF Restart, BookShape, BookSaid, ABook, EmptyBook
  <2>2. read' = read /\ verdicts' = verdicts
    BY <1>3 DEF Restart
  <2>3. \A q : EverRested(q)' = EverRested(q)
    BY <2>2 DEF EverRested
  <2>4. Judged'
    BY <2>2 DEF AlarmInv, Judged
  <2>5. AlarmsAreExplained'
    BY <2>2, <2>3 DEF AlarmInv, AlarmsAreExplained
  <2> QED  BY <2>1, <2>4, <2>5 DEF AlarmInv
<1>4. CASE UNCHANGED vars
  <2>1. book' = book /\ read' = read /\ verdicts' = verdicts
    BY <1>4 DEF vars
  <2>2. \A q : EverRested(q)' = EverRested(q)
    BY <2>1 DEF EverRested
  <2>3. BookShape' /\ Judged'
    BY <2>1 DEF AlarmInv, BookShape, Judged
  <2>4. BookSaid'
    BY <2>1, <2>2 DEF AlarmInv, BookSaid
  <2>5. AlarmsAreExplained'
    BY <2>1, <2>2 DEF AlarmInv, AlarmsAreExplained
  <2> QED  BY <2>3, <2>4, <2>5 DEF AlarmInv
<1> QED  BY <1>1, <1>2, <1>3, <1>4 DEF Next

\* A consistent limit fill is judged wrong only if a contestant said that an
\* order with a better price rests, for any runs, answers and restarts.
THEOREM AlarmsHaveReasons == Spec => []AlarmsAreExplained
<1>1. AlarmInv => AlarmsAreExplained
  BY DEF AlarmInv
<1> QED  BY <1>1, InitAlarm, StepAlarm, PTL DEF Spec

-----------------------------------------------------------------------------
(* Why test bots are judged wrong by the orders of others only.               *)

\* The events of a test bot are what contestant.go answers, and a verdict
\* FALSE on one is a verdict on a fill that is consistent in itself.
BotInv ==
    \A r \in TestBots : \A event \in read[r] :
        /\ BotAnswers(event) /\ event \in Events(event.id)
        /\ FALSE \in verdicts[r][event.id] => IsLimitFill(event) /\ Plausible(event.answer)

\* What a test bot answers passes every check but the one against the book.
LEMMA BotAnswersArePlausible ==
    ASSUME NEW i, NEW event \in Events(i), BotAnswers(event), ~ IsCorrect(book, event)
    PROVE  IsLimitFill(event) /\ Plausible(event.answer)
<1>1. ~ event.flawed /\ event.type = "ORDER"
  BY DEF BotAnswers, IsCorrect
<1>2. event.answer \in Fills
  BY <1>1 DEF Events
<1>3. {event.answer.ordered, event.answer.filled, event.answer.price, event.answer.execution}
        \subseteq Int
  BY <1>2, ValidationAssumption
<1>4. /\ event.answer.filled = event.answer.ordered /\ event.answer.ordered > 0
      /\ event.answer.status = "" /\ event.answer.side \in {"BUY", "SELL"}
      /\ event.answer.type = "LIMIT" => event.answer.execution = event.answer.price
  BY <1>1 DEF BotAnswers
<1>5. Plausible(event.answer)
  <2>1. LimitFill(event.answer) => WithinLimit(event.answer)
    <3>1. \A x, y \in Int : x = y => x <= y /\ x >= y
      OBVIOUS
    <3> QED
      BY <1>3, <1>4, <3>1 DEF LimitFill, WithinLimit
  <2>2. /\ event.answer.ordered >= 0 /\ event.answer.filled >= 0
        /\ event.answer.filled <= event.answer.ordered
        /\ event.answer.filled # 0
    <3>1. \A x, y \in Int : x = y /\ y > 0 => y >= 0 /\ x >= 0 /\ x <= y /\ x # 0
      OBVIOUS
    <3>2. event.answer.filled = event.answer.ordered /\ event.answer.ordered > 0
      BY <1>4
    <3>3. event.answer.filled \in Int /\ event.answer.ordered \in Int
      BY <1>3
    <3> QED
      BY <3>1, <3>2, <3>3
  <2>3. event.answer.status # "FILLED" /\ event.answer.status # "REJECTED"
    BY <1>4
  <2> QED
    BY <1>4, <2>1, <2>2, <2>3 DEF Plausible
<1> QED
  BY <1>1, <1>5 DEF IsCorrect, IsLimitFill

\* It leaves nothing on the book: every order is filled whole.
LEMMA BotsRestNothing ==
    ASSUME BotInv, NEW r \in TestBots
    PROVE  EverRested(r) = {}
<1> SUFFICES ASSUME NEW event \in read[r], SaysItRests(event)  PROVE FALSE
  BY DEF EverRested
<1>1. BotAnswers(event) /\ event \in Events(event.id) /\ event.type = "ORDER"
  BY DEF BotInv, SaysItRests
<1>2. event.answer \in Fills
  BY <1>1 DEF Events, SaysItRests
<1>3. event.answer.filled = event.answer.ordered /\ event.answer.ordered \in Int
  BY <1>1, <1>2, ValidationAssumption DEF BotAnswers
<1> QED
  BY <1>3 DEF SaysItRests

\* Judging an event, new or known, keeps this.
LEMMA JudgingKeepsBotInv ==
    ASSUME AlarmInv, BotInv, NEW r \in Runs, NEW event,
           event.id \in Ids, event \in Events(event.id), ValidateOrder(r, event),
           r \in TestBots => BotAnswers(event),
           \/ event \in read[r] /\ UNCHANGED read
           \/ /\ \A e \in read[r] : e.id # event.id
              /\ read' = [read EXCEPT ![r] = read[r] \cup {event}]
    PROVE  BotInv'
<1>1. Judged
  BY DEF AlarmInv
<1>2. /\ \A q \in Runs : q # r => read'[q] = read[q]
      /\ read'[r] = read[r] \cup {event}
  BY <1>1, JudgingAdds
<1>3. /\ \A q \in Runs, i \in Ids : q # r \/ i # event.id => verdicts'[q][i] = verdicts[q][i]
      /\ verdicts'[r][event.id] = verdicts[r][event.id] \cup {IsCorrect(book, event)}
  BY <1>1, JudgingAdds
<1>4. SUFFICES ASSUME NEW b \in TestBots, NEW f \in read'[b]
               PROVE  /\ BotAnswers(f) /\ f \in Events(f.id)
                      /\ FALSE \in verdicts'[b][f.id] => IsLimitFill(f) /\ Plausible(f.answer)
  BY DEF BotInv
<1>5. b \in Runs
  BY ValidationAssumption
<1>6. f \in read[b] \/ (b = r /\ f = event)
  BY <1>2, <1>5
<1>7. BotAnswers(f) /\ f \in Events(f.id) /\ f.id \in Ids
  BY <1>1, <1>5, <1>6 DEF BotInv, Judged
<1>8. CASE b = r /\ f = event
  <2>1. ASSUME FALSE \in verdicts[r][event.id]
        PROVE  IsLimitFill(event) /\ Plausible(event.answer)
    <3>1. \E e \in read[r] : e.id = event.id
      BY <1>1, <2>1 DEF Judged
    <3>2. event \in read[r]
      BY <3>1
    <3> QED
      BY <1>8, <2>1, <3>2 DEF BotInv
  <2>2. ASSUME ~ IsCorrect(book, event)
        PROVE  IsLimitFill(event) /\ Plausible(event.answer)
    BY <1>7, <1>8, <2>2, BotAnswersArePlausible
  <2> QED
    BY <1>3, <1>7, <1>8, <2>1, <2>2
<1>9. CASE f \in read[b] /\ ~ (b = r /\ f = event)
  <2>1. b # r \/ f.id # event.id
    BY <1>1, <1>5, <1>9 DEF Judged
  <2>2. verdicts'[b][f.id] = verdicts[b][f.id]
    BY <1>3, <1>5, <1>7, <2>1
  <2> QED
    BY <1>7, <1>9, <2>2 DEF BotInv
<1> QED
  BY <1>6, <1>8, <1>9

LEMMA StepBot == AlarmInv /\ BotInv /\ [Next]_vars => BotInv'
<1> SUFFICES ASSUME AlarmInv, BotInv, [Next]_vars  PROVE BotInv'
  OBVIOUS
<1>1. ASSUME NEW r \in Runs, Deliver(r)  PROVE BotInv'
  <2>1. PICK i \in Ids \ {e.id : e \in read[r]} : \E event \in Events(i) :
            /\ r \in TestBots => BotAnswers(event)
            /\ ValidateOrder(r, event)
            /\ read' = [read EXCEPT ![r] = read[r] \cup {event}]
    BY <1>1 DEF Deliver
  <2>2. PICK event \in Events(i) :
            /\ r \in TestBots => BotAnswers(event)
            /\ ValidateOrder(r, event)
            /\ read' = [read EXCEPT ![r] = read[r] \cup {event}]
    BY <2>1
  <2>3. event.id = i
    BY DEF Events
  <2> QED  BY <2>2, <2>3, JudgingKeepsBotInv
<1>2. ASSUME NEW r \in Runs, Redeliver(r)  PROVE BotInv'
  <2>1. PICK event \in read[r] : ValidateOrder(r, event) /\ UNCHANGED read
    BY <1>2 DEF Redeliver
  <2>2. event.id \in Ids /\ event \in Events(event.id)
    BY DEF AlarmInv, Judged
  <2>3. r \in TestBots => BotAnswers(event)
    BY DEF BotInv
  <2> QED  BY <2>1, <2>2, <2>3, JudgingKeepsBotInv
<1>3. CASE Restart \/ UNCHANGED vars
  <2>1. read' = read /\ verdicts' = verdicts
    BY <1>3 DEF Restart, vars
  <2> QED  BY <2>1 DEF BotInv
<1> QED  BY <1>1, <1>2, <1>3 DEF Next

\* Test bots never make each other, or themselves, wrong: a verdict FALSE on
\* one takes a contestant that says an order rests at a better price, for any
\* number of bots and contestants, redeliveries and restarts
\* (contestant.go:66-83, validator.go:108).
THEOREM BotsAreWrongByOthers == Spec => []BotAlarmsComeFromOthers
<1>1. Init => BotInv
  <2> SUFFICES ASSUME Init, NEW r \in TestBots  PROVE read[r] = {}
    BY DEF BotInv
  <2> QED  BY ValidationAssumption DEF Init
<1>2. AlarmInv /\ BotInv => BotAlarmsComeFromOthers
  <2> SUFFICES ASSUME AlarmInv, BotInv, NEW r \in TestBots, NEW event \in read[r],
                      FALSE \in verdicts[r][event.id]
               PROVE  \E q \in Runs \ TestBots : \E o \in EverRested(q) : TradesThrough(event, o)
    BY DEF BotAlarmsComeFromOthers
  <2>1. r \in Runs /\ IsLimitFill(event) /\ Plausible(event.answer)
    BY ValidationAssumption DEF BotInv
  <2>2. PICK q \in Runs : \E o \in EverRested(q) : TradesThrough(event, o)
    BY <2>1 DEF AlarmInv, AlarmsAreExplained
  <2>3. q \notin TestBots
    BY <2>2, BotsRestNothing
  <2> QED  BY <2>2, <2>3
<1> QED  BY <1>1, <1>2, InitAlarm, StepAlarm, StepBot, PTL DEF Spec

-----------------------------------------------------------------------------
(* Why trade-throughs are caught: while the replica reads one run and is not  *)
(* restarted, every order that rests by all accounts is in the book.          *)

Side(book_, side) == IF side = "BUY" THEN book_.bids ELSE book_.asks

OnlyReads(r) == restarts = 0 /\ \A q \in Runs \ {r} : read[q] = {}

RestingInBook(r) ==
    \A o \in Resting(r) : \E e \in Side(book, o.answer.side) :
        e.id = o.id /\ e.price = o.answer.price

CaughtInv ==
    /\ restarts \in Nat
    /\ \A r \in Runs : OnlyReads(r) => RestingInBook(r)

\* What After keeps: the entries of other orders, and of this one what it says
\* rests, once the verdict is TRUE.
LEMMA KeptEntries ==
    ASSUME NEW bids, NEW asks, NEW sequence, NEW event,
           NEW a, a = After(ABook(bids, asks, sequence), event)
    PROVE  /\ \A e \in bids : e.id # event.id => e \in a.bids
           /\ \A e \in asks : e.id # event.id => e \in a.asks
<1> DEFINE b == ABook(bids, asks, sequence)
<1>1. \/ a = b
      \/ a = Remove(b, event.id)
      \/ a = Record(b, event.id, event.answer)
  BY DEF After
<1>2. CASE a = b
  BY <1>2 DEF ABook
<1>3. CASE a = Remove(b, event.id)
  <2>1. a = ABook(Without(bids, event.id), Without(asks, event.id), sequence)
    BY <1>3, Removed
  <2> QED  BY <2>1 DEF ABook, Without
<1>4. CASE a = Record(b, event.id, event.answer)
  <2> DEFINE entry == [id |-> event.id, price |-> event.answer.price,
                       qty |-> event.answer.ordered - event.answer.filled,
                       sequence |-> sequence + 1]
  <2>1. entry.id = event.id
    OBVIOUS
  <2>2. CASE event.answer.side = "BUY"
    <3>1. a = ABook(Put(bids, entry), asks, sequence + 1)
      BY <1>4, <2>2 DEF Record, ABook
    <3>2. a.bids = Put(bids, entry) /\ a.asks = asks
      BY <3>1 DEF ABook
    <3> QED  BY <2>1, <3>2 DEF Put, Without
  <2>3. CASE event.answer.side # "BUY"
    <3>1. a = ABook(bids, Put(asks, entry), sequence + 1)
      BY <1>4, <2>3 DEF Record, ABook
    <3>2. a.asks = Put(asks, entry) /\ a.bids = bids
      BY <3>1 DEF ABook
    <3> QED  BY <2>1, <3>2 DEF Put, Without
  <2> QED  BY <2>2, <2>3
<1> QED  BY <1>1, <1>2, <1>3, <1>4

LEMMA RecordedEntry ==
    ASSUME NEW bids, NEW asks, NEW sequence, NEW event, SaysItRests(event),
           event.answer \in Fills, IsCorrect(ABook(bids, asks, sequence), event),
           NEW a, a = After(ABook(bids, asks, sequence), event)
    PROVE  \E e \in Side(a, event.answer.side) : e.id = event.id /\ e.price = event.answer.price
<1> DEFINE b == ABook(bids, asks, sequence)
           answer == event.answer
           entry == [id |-> event.id, price |-> answer.price,
                     qty |-> answer.ordered - answer.filled, sequence |-> sequence + 1]
<1>1. /\ event.type = "ORDER" /\ answer.filled # answer.ordered
      /\ answer.type = "LIMIT" /\ answer.status # "REJECTED"
  BY ValidationAssumption DEF SaysItRests
<1>2. a = Record(b, event.id, answer)
  BY <1>1 DEF After
<1>3. entry.id = event.id /\ entry.price = answer.price
  OBVIOUS
<1>4. CASE answer.side = "BUY"
  <2>1. a = ABook(Put(bids, entry), asks, sequence + 1)
    BY <1>2, <1>4 DEF Record, ABook
  <2>2. a.bids = Put(bids, entry)
    BY <2>1 DEF ABook
  <2>3. entry \in Side(a, answer.side)
    BY <1>4, <2>2 DEF Side, Put
  <2> QED  BY <1>3, <2>3
<1>5. CASE answer.side # "BUY"
  <2>1. a = ABook(bids, Put(asks, entry), sequence + 1)
    BY <1>2, <1>5 DEF Record, ABook
  <2>2. a.asks = Put(asks, entry)
    BY <2>1 DEF ABook
  <2>3. entry \in Side(a, answer.side)
    BY <1>5, <2>2 DEF Side, Put
  <2> QED  BY <1>3, <2>3
<1> QED  BY <1>4, <1>5

\* A step judges one event, new or known, or restarts the replica.
Judges(r, event) ==
    /\ event.id \in Ids /\ event \in Events(event.id)
    /\ ValidateOrder(r, event) /\ UNCHANGED restarts
    /\ \/ event \in read[r] /\ UNCHANGED read
       \/ /\ \A e \in read[r] : e.id # event.id
          /\ read' = [read EXCEPT ![r] = read[r] \cup {event}]

LEMMA StepJudges ==
    ASSUME AlarmInv, [Next]_vars
    PROVE  \/ \E r \in Runs : \E event : Judges(r, event)
           \/ Restart
           \/ UNCHANGED vars
<1>1. ASSUME NEW r \in Runs, Deliver(r)  PROVE \E event : Judges(r, event)
  <2>1. PICK i \in Ids \ {e.id : e \in read[r]} : \E event \in Events(i) :
            /\ ValidateOrder(r, event)
            /\ read' = [read EXCEPT ![r] = read[r] \cup {event}]
    BY <1>1 DEF Deliver
  <2>2. PICK event \in Events(i) :
            /\ ValidateOrder(r, event)
            /\ read' = [read EXCEPT ![r] = read[r] \cup {event}]
    BY <2>1
  <2>3. event.id = i
    BY DEF Events
  <2>4. UNCHANGED restarts
    BY <1>1 DEF Deliver
  <2>5. Judges(r, event)
    BY <2>2, <2>3, <2>4 DEF Judges
  <2> QED  BY <2>5
<1>2. ASSUME NEW r \in Runs, Redeliver(r)  PROVE \E event : Judges(r, event)
  <2>1. PICK event \in read[r] : ValidateOrder(r, event) /\ UNCHANGED <<read, restarts>>
    BY <1>2 DEF Redeliver
  <2>2. event.id \in Ids /\ event \in Events(event.id)
    BY DEF AlarmInv, Judged
  <2>3. Judges(r, event)
    BY <2>1, <2>2 DEF Judges
  <2> QED  BY <2>3
<1> QED  BY <1>1, <1>2 DEF Next

LEMMA JudgingKeepsCaught ==
    ASSUME AlarmInv, AlarmInv', CaughtInv, NEW r \in Runs, NEW event, Judges(r, event)
    PROVE  CaughtInv'
<1>1. /\ Judged /\ Judged' /\ book = ABook(book.bids, book.asks, book.sequence)
      /\ book' = After(book, event) /\ restarts' = restarts /\ event.id \in Ids
  BY DEF AlarmInv, BookShape, Judges, ValidateOrder
<1>2. /\ \A q \in Runs : q # r => read'[q] = read[q]
      /\ read'[r] = read[r] \cup {event}
      /\ \A q \in Runs, i \in Ids : q # r \/ i # event.id => verdicts'[q][i] = verdicts[q][i]
      /\ verdicts'[r][event.id] = verdicts[r][event.id] \cup {IsCorrect(book, event)}
  BY <1>1, JudgingAdds DEF Judges
<1>3. SUFFICES ASSUME NEW q \in Runs, OnlyReads(q)' PROVE RestingInBook(q)'
  BY <1>1 DEF CaughtInv
<1>4. q = r
  BY <1>2, <1>3 DEF OnlyReads
<1>5. OnlyReads(r)
  BY <1>1, <1>2, <1>3, <1>4 DEF OnlyReads
<1>6. RestingInBook(r)
  BY <1>5 DEF CaughtInv
<1>7. SUFFICES ASSUME NEW o \in Resting(r)'
               PROVE  \E e \in Side(book', o.answer.side) : e.id = o.id /\ e.price = o.answer.price
  BY <1>4 DEF RestingInBook
<1>8. /\ o \in read'[r] /\ SaysItRests(o) /\ verdicts'[r][o.id] = {TRUE}
      /\ ~ \E c \in read'[r] : c.type = "CANCEL" /\ c.target = o.id
      /\ o.id \in Ids /\ o \in Events(o.id)
  BY <1>1, <1>7 DEF Resting, EverRested, Judged
<1>9. CASE o.id = event.id
  <2>1. o = event
    BY <1>1, <1>2, <1>8, <1>9 DEF Judged
  <2>2. IsCorrect(book, event)
    <3>1. IsCorrect(book, event) \in verdicts'[r][event.id]
      BY <1>2
    <3>2. IsCorrect(book, event) \in {TRUE}
      BY <1>8, <1>9, <3>1
    <3> QED  BY <3>2
  <2>3. event.answer \in Fills
    BY <1>8, <2>1, ValidationAssumption DEF Events, SaysItRests
  <2> QED  BY <1>1, <1>8, <2>1, <2>2, <2>3, RecordedEntry
<1>10. CASE o.id # event.id
  <2>1. o \in Resting(r)
    BY <1>2, <1>8, <1>10 DEF Resting, EverRested
  <2>2. PICK e \in Side(book, o.answer.side) : e.id = o.id /\ e.price = o.answer.price
    BY <1>6, <2>1 DEF RestingInBook
  <2>3. e \in Side(book', o.answer.side)
    BY <1>1, <1>10, <2>2, KeptEntries DEF Side
  <2> QED  BY <2>2, <2>3
<1> QED  BY <1>9, <1>10

LEMMA StepCaught == AlarmInv /\ AlarmInv' /\ CaughtInv /\ [Next]_vars => CaughtInv'
<1> SUFFICES ASSUME AlarmInv, AlarmInv', CaughtInv, [Next]_vars  PROVE CaughtInv'
  OBVIOUS
<1>1. CASE Restart
  <2>1. restarts' \in Nat /\ restarts' # 0
    BY <1>1 DEF CaughtInv, Restart
  <2> QED  BY <2>1 DEF CaughtInv, OnlyReads
<1>2. CASE UNCHANGED vars
  <2>1. UNCHANGED <<book, read, verdicts, restarts>>
    BY <1>2 DEF vars
  <2>2. \A r : OnlyReads(r)' = OnlyReads(r) /\ RestingInBook(r)' = RestingInBook(r)
    BY <2>1 DEF OnlyReads, RestingInBook, Resting, EverRested
  <2> QED  BY <2>1, <2>2 DEF CaughtInv
<1> QED  BY <1>1, <1>2, StepJudges, JudgingKeepsCaught

\* A replica that reads one run and is not restarted never judges correct a
\* limit fill that skips a better order resting in that run: any orders,
\* answers, cancels and redeliveries, in any order.
THEOREM TradeThroughsAreReported == Spec => TradeThroughsAreCaught
<1> DEFINE Caught ==
        \A r \in Runs : \A event \in read'[r] :
            (/\ IsLimitFill(event)
             /\ restarts = 0 /\ \A q \in Runs \ {r} : read[q] = {}
             /\ \E o \in Resting(r) : o.id # event.id /\ TradesThrough(event, o))
            => (verdicts'[r][event.id] = verdicts[r][event.id] \/ FALSE \in verdicts'[r][event.id])
<1>1. Init => CaughtInv
  BY DEF Init, CaughtInv, RestingInBook, Resting, EverRested
<1>2. AlarmInv /\ AlarmInv' /\ CaughtInv /\ [Next]_vars => [Caught]_vars
  <2> SUFFICES ASSUME AlarmInv, AlarmInv', CaughtInv, [Next]_vars,
                      NEW r \in Runs, NEW event \in read'[r], IsLimitFill(event), OnlyReads(r),
                      NEW o \in Resting(r), TradesThrough(event, o)
               PROVE  \/ verdicts'[r][event.id] = verdicts[r][event.id]
                      \/ FALSE \in verdicts'[r][event.id]
    BY DEF OnlyReads
  <2>1. CASE Restart \/ UNCHANGED vars
    BY <2>1 DEF Restart, vars
  <2>2. ASSUME NEW q \in Runs, NEW judged, Judges(q, judged)
        PROVE  \/ verdicts'[r][event.id] = verdicts[r][event.id]
               \/ FALSE \in verdicts'[r][event.id]
    <3>1. Judged /\ Judged' /\ event.id \in Ids
      BY DEF AlarmInv, Judged
    <3>2. /\ \A p \in Runs, i \in Ids : p # q \/ i # judged.id => verdicts'[p][i] = verdicts[p][i]
          /\ verdicts'[q][judged.id] = verdicts[q][judged.id] \cup {IsCorrect(book, judged)}
          /\ judged \in read'[q]
      BY <2>2, <3>1, JudgingAdds DEF Judges
    <3>3. CASE q # r \/ judged.id # event.id
      BY <3>1, <3>2, <3>3
    <3>4. CASE q = r /\ judged.id = event.id
      <4>1. judged = event
        BY <3>1, <3>2, <3>4 DEF Judged
      <4>2. Skips(book, event.answer)
        <5>1. PICK e \in Side(book, o.answer.side) : e.id = o.id /\ e.price = o.answer.price
          BY DEF CaughtInv, RestingInBook
        <5> QED  BY <5>1 DEF TradesThrough, Side, Skips, Better
      <4>3. ~ IsCorrect(book, event)
        BY <4>2 DEF IsCorrect, IsLimitFill
      <4>4. IsCorrect(book, event) \in BOOLEAN
        BY DEF IsCorrect
      <4> QED  BY <3>2, <3>4, <4>1, <4>3, <4>4
    <3> QED  BY <3>3, <3>4
  <2> QED  BY <2>1, <2>2, StepJudges
<1> QED  BY <1>1, <1>2, InitAlarm, StepAlarm, StepCaught, PTL DEF Spec, TradeThroughsAreCaught

-----------------------------------------------------------------------------
(* What an entry of the book says.                                            *)

\* Entries were recorded at different times.
Sequenced(entries, sequence) == \A e \in entries : e.sequence \in Int /\ e.sequence <= sequence

EntriesInv ==
    /\ BookInv
    /\ book.sequence \in Int
    /\ Sequenced(book.bids, book.sequence) /\ Sequenced(book.asks, book.sequence)

LEMMA PutKeepsOneEach ==
    ASSUME NEW entries, NEW sequence \in Int, OneEach(entries), Sequenced(entries, sequence),
           NEW entry, entry.sequence = sequence + 1
    PROVE  OneEach(Put(entries, entry)) /\ Sequenced(Put(entries, entry), sequence + 1)
BY DEF OneEach, Sequenced, Put, Without

LEMMA WithoutKeepsOneEach ==
    ASSUME NEW entries, NEW sequence \in Int, OneEach(entries), Sequenced(entries, sequence), NEW id
    PROVE  OneEach(Without(entries, id)) /\ Sequenced(Without(entries, id), sequence)
BY DEF OneEach, Sequenced, Without

\* The three books After can give, side by side.
LEMMA BookAfter ==
    ASSUME NEW bids, NEW asks, NEW sequence, NEW i, NEW event \in Events(i),
           NEW a, a = After(ABook(bids, asks, sequence), event)
    PROVE  \/ a.bids = bids /\ a.asks = asks /\ a.sequence = sequence
           \/ /\ a.bids = Without(bids, event.id) /\ a.asks = Without(asks, event.id)
              /\ a.sequence = sequence
           \/ /\ SaysItRests(event) /\ IsCorrect(ABook(bids, asks, sequence), event)
              /\ a.sequence = sequence + 1
              /\ \E entry :
                    /\ entry.id = event.id /\ entry.price = event.answer.price
                    /\ entry.qty = event.answer.ordered - event.answer.filled
                    /\ entry.sequence = sequence + 1
                    /\ \/ event.answer.side = "BUY" /\ a.bids = Put(bids, entry) /\ a.asks = asks
                       \/ event.answer.side = "SELL" /\ a.bids = bids /\ a.asks = Put(asks, entry)
<1> DEFINE b == ABook(bids, asks, sequence)
           answer == event.answer
<1>1. \/ a = b
      \/ a = Remove(b, event.id)
      \/ /\ a = Record(b, event.id, answer)
         /\ IsCorrect(b, event) /\ event.type # "CANCEL"
         /\ answer.filled # answer.ordered /\ answer.type = "LIMIT" /\ answer.status # "REJECTED"
  BY DEF After
<1>2. CASE a = b
  BY <1>2 DEF ABook
<1>3. CASE a = Remove(b, event.id)
  <2>1. a = ABook(Without(bids, event.id), Without(asks, event.id), sequence)
    BY <1>3, Removed
  <2> QED  BY <2>1 DEF ABook
<1>4. CASE /\ a = Record(b, event.id, answer)
           /\ IsCorrect(b, event) /\ event.type # "CANCEL"
           /\ answer.filled # answer.ordered /\ answer.type = "LIMIT" /\ answer.status # "REJECTED"
  <2>1. event.type = "ORDER" /\ answer \in Fills
    BY <1>4, ValidationAssumption DEF Events
  <2>2. Plausible(answer) /\ ~ event.flawed
    BY <1>4 DEF IsCorrect
  <2>3. answer.filled < answer.ordered /\ answer.side \in {"BUY", "SELL"}
    BY <1>4, <2>1, <2>2, ValidationAssumption DEF Plausible
  <2>4. SaysItRests(event)
    BY <1>4, <2>1, <2>2, <2>3 DEF SaysItRests
  <2> DEFINE entry == [id |-> event.id, price |-> answer.price,
                       qty |-> answer.ordered - answer.filled, sequence |-> sequence + 1]
  <2>5. /\ entry.id = event.id /\ entry.price = answer.price
        /\ entry.qty = answer.ordered - answer.filled /\ entry.sequence = sequence + 1
    OBVIOUS
  <2>6. CASE answer.side = "BUY"
    <3>1. a = ABook(Put(bids, entry), asks, sequence + 1)
      BY <1>4, <2>6 DEF Record, ABook
    <3>2. a.bids = Put(bids, entry) /\ a.asks = asks /\ a.sequence = sequence + 1
      BY <3>1 DEF ABook
    <3> HIDE DEF entry
    <3> QED  BY <1>4, <2>4, <2>5, <2>6, <3>2
  <2>7. CASE answer.side = "SELL"
    <3>1. a = ABook(bids, Put(asks, entry), sequence + 1)
      BY <1>4, <2>7 DEF Record, ABook
    <3>2. a.asks = Put(asks, entry) /\ a.bids = bids /\ a.sequence = sequence + 1
      BY <3>1 DEF ABook
    <3> HIDE DEF entry
    <3> QED  BY <1>4, <2>4, <2>5, <2>7, <3>2
  <2> QED  BY <2>3, <2>6, <2>7
<1> QED  BY <1>1, <1>2, <1>3, <1>4

LEMMA JudgingKeepsEntries ==
    ASSUME AlarmInv, EntriesInv, NEW r \in Runs, NEW event, Judges(r, event)
    PROVE  EntriesInv'
<1>1. /\ Judged /\ book = ABook(book.bids, book.asks, book.sequence)
      /\ book' = After(book, event) /\ event.id \in Ids /\ event \in Events(event.id)
  BY DEF AlarmInv, BookShape, Judges, ValidateOrder
<1>2. /\ \A q \in Runs : read[q] \subseteq read'[q]
      /\ read'[r] = read[r] \cup {event}
      /\ \A q \in Runs, i \in Ids : q # r \/ i # event.id => verdicts'[q][i] = verdicts[q][i]
      /\ verdicts'[r][event.id] = verdicts[r][event.id] \cup {IsCorrect(book, event)}
  BY <1>1, JudgingAdds DEF Judges
<1>3. ASSUME NEW side, NEW e, SaidBy(side, e) PROVE SaidBy(side, e)'
  <2>1. PICK q \in Runs : \E o \in EverRested(q) :
            /\ o.id = e.id /\ TRUE \in verdicts[q][o.id]
            /\ (o.answer.side = "BUY") = (side = "BUY")
            /\ o.answer.price = e.price /\ o.answer.ordered - o.answer.filled = e.qty
    BY <1>3 DEF SaidBy
  <2>2. PICK o \in EverRested(q) :
            /\ o.id = e.id /\ TRUE \in verdicts[q][o.id]
            /\ (o.answer.side = "BUY") = (side = "BUY")
            /\ o.answer.price = e.price /\ o.answer.ordered - o.answer.filled = e.qty
    BY <2>1
  <2>3. o.id \in Ids
    BY <1>1 DEF Judged, EverRested
  <2>4. TRUE \in verdicts'[q][o.id] /\ o \in EverRested(q)'
    BY <1>2, <2>2, <2>3 DEF EverRested
  <2> QED  BY <2>2, <2>4 DEF SaidBy
<1>4. EntriesInv /\ OneEach(book.bids) /\ OneEach(book.asks)
  BY DEF EntriesInv, BookInv
<1>5. CASE book'.bids = book.bids /\ book'.asks = book.asks /\ book'.sequence = book.sequence
  BY <1>3, <1>4, <1>5 DEF EntriesInv, BookInv
<1>6. CASE /\ book'.bids = Without(book.bids, event.id) /\ book'.asks = Without(book.asks, event.id)
           /\ book'.sequence = book.sequence
  <2>1. /\ OneEach(book'.bids) /\ OneEach(book'.asks)
        /\ Sequenced(book'.bids, book'.sequence) /\ Sequenced(book'.asks, book'.sequence)
    BY <1>4, <1>6, WithoutKeepsOneEach DEF EntriesInv
  <2>2. book'.bids \subseteq book.bids /\ book'.asks \subseteq book.asks
    BY <1>6 DEF Without
  <2> QED  BY <1>3, <1>4, <1>6, <2>1, <2>2 DEF EntriesInv, BookInv
<1>7. ASSUME SaysItRests(event), IsCorrect(book, event), book'.sequence = book.sequence + 1,
             NEW entry,
             entry.id = event.id, entry.price = event.answer.price,
             entry.qty = event.answer.ordered - event.answer.filled,
             entry.sequence = book.sequence + 1,
             \/ /\ event.answer.side = "BUY"
                /\ book'.bids = Put(book.bids, entry) /\ book'.asks = book.asks
             \/ /\ event.answer.side = "SELL"
                /\ book'.bids = book.bids /\ book'.asks = Put(book.asks, entry)
      PROVE  EntriesInv'
  <2>1. event \in EverRested(r)'
    BY <1>2, <1>7 DEF EverRested
  <2>2. TRUE \in verdicts'[r][event.id]
    <3>1. IsCorrect(book, event) = TRUE
      BY <1>7 DEF IsCorrect
    <3> QED  BY <1>2, <3>1
  <2>3. SaidBy(event.answer.side, entry)'
    BY <1>7, <2>1, <2>2 DEF SaidBy
  <2>4. book'.sequence \in Int
    BY <1>4, <1>7 DEF EntriesInv
  <2>5. ASSUME NEW entries, Sequenced(entries, book.sequence), book.sequence \in Int
        PROVE  Sequenced(entries, book.sequence + 1)
    BY <2>5 DEF Sequenced
  <2>6. \A e \in Put(book.bids, entry) : e \in book.bids \/ e = entry
    BY DEF Put, Without
  <2>7. \A e \in Put(book.asks, entry) : e \in book.asks \/ e = entry
    BY DEF Put, Without
  <2>8. CASE event.answer.side = "BUY"
    <3>1. book'.bids = Put(book.bids, entry) /\ book'.asks = book.asks
      BY <1>7, <2>8
    <3>2. OneEach(book'.bids) /\ Sequenced(book'.bids, book'.sequence)
      BY <1>4, <1>7, <3>1, PutKeepsOneEach DEF EntriesInv
    <3>3. OneEach(book'.asks) /\ Sequenced(book'.asks, book'.sequence)
      BY <1>4, <1>7, <2>5, <3>1 DEF EntriesInv
    <3>4. \A e \in book'.bids : SaidBy("BUY", e)'
      BY <1>3, <1>4, <2>3, <2>6, <2>8, <3>1 DEF EntriesInv, BookInv
    <3>5. \A e \in book'.asks : SaidBy("SELL", e)'
      BY <1>3, <1>4, <3>1 DEF EntriesInv, BookInv
    <3> QED  BY <2>4, <3>2, <3>3, <3>4, <3>5 DEF EntriesInv, BookInv
  <2>9. CASE event.answer.side = "SELL"
    <3>1. book'.asks = Put(book.asks, entry) /\ book'.bids = book.bids
      BY <1>7, <2>9
    <3>2. OneEach(book'.asks) /\ Sequenced(book'.asks, book'.sequence)
      BY <1>4, <1>7, <3>1, PutKeepsOneEach DEF EntriesInv
    <3>3. OneEach(book'.bids) /\ Sequenced(book'.bids, book'.sequence)
      BY <1>4, <1>7, <2>5, <3>1 DEF EntriesInv
    <3>4. \A e \in book'.asks : SaidBy("SELL", e)'
      BY <1>3, <1>4, <2>3, <2>7, <2>9, <3>1 DEF EntriesInv, BookInv
    <3>5. \A e \in book'.bids : SaidBy("BUY", e)'
      BY <1>3, <1>4, <3>1 DEF EntriesInv, BookInv
    <3> QED  BY <2>4, <3>2, <3>3, <3>4, <3>5 DEF EntriesInv, BookInv
  <2> QED  BY <1>7, <2>8, <2>9
<1> QED  BY <1>1, <1>5, <1>6, <1>7, BookAfter

LEMMA StepEntries == AlarmInv /\ EntriesInv /\ [Next]_vars => EntriesInv'
<1> SUFFICES ASSUME AlarmInv, EntriesInv, [Next]_vars  PROVE EntriesInv'
  OBVIOUS
<1>1. CASE Restart
  BY <1>1 DEF Restart, EmptyBook, EntriesInv, BookInv, OneEach, Sequenced
<1>2. CASE UNCHANGED vars
  <2>1. UNCHANGED <<book, read, verdicts>>
    BY <1>2 DEF vars
  <2>2. \A side, e : SaidBy(side, e)' = SaidBy(side, e)
    BY <2>1 DEF SaidBy, EverRested
  <2> QED  BY <2>1, <2>2 DEF EntriesInv, BookInv
<1> QED  BY <1>1, <1>2, StepJudges, JudgingKeepsEntries

\* Every entry of the book is an order that some run said rests, with the
\* side, price and remaining quantity of an answer judged correct, and an
\* order has one entry on a side: any runs, answers and restarts.
THEOREM BookIsSaid == Spec => []BookInv
<1>1. Init => EntriesInv
  BY DEF Init, EmptyBook, EntriesInv, BookInv, OneEach, Sequenced
<1>2. EntriesInv => BookInv
  BY DEF EntriesInv
<1> QED  BY <1>1, <1>2, InitAlarm, StepAlarm, StepEntries, PTL DEF Spec
=============================================================================
