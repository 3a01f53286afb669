---------------------------- MODULE FleetProofs ----------------------------
(***************************************************************************)
(* For any number of bots and orders: a clean HTTP run has published every *)
(* order, and no second sees more than the bucket and its ticks.           *)
(***************************************************************************)
EXTENDS Fleet, FiniteSetTheorems, TLAPS

LEMMA InitComplete == Init => CompleteInv
<1> SUFFICES ASSUME Init PROVE CompleteInv
  OBVIOUS
<1> USE RequestAssumption DEF Init
<1>1. TypeOK
  BY DEF TypeOK, BotStates, Orders
<1>2. OrderInHand /\ Accounted /\ DoneIsLast /\ RestDropsNothing
  BY DEF OrderInHand, Accounted, DoneIsLast, RestDropsNothing, Orders, Running, Rest
<1> QED
  BY <1>1, <1>2 DEF CompleteInv

\* The main goroutine and the ticker.
LEMMA MainComplete ==
    ASSUME CompleteInv, Feed \/ CloseJobs \/ Return \/ Kill \/ Tick \/ Observe
    PROVE  CompleteInv'
<1> USE RequestAssumption
<1>1. TypeOK /\ OrderInHand /\ Accounted /\ DoneIsLast /\ RestDropsNothing
  BY DEF CompleteInv
<1>2. UNCHANGED <<request, next, botVars, copies, publishFailures, dropped, sent>>
  BY DEF Feed, CloseJobs, Return, Kill, Tick, Observe
<1>3. OrderInHand' /\ Accounted' /\ RestDropsNothing'
  BY <1>1, <1>2 DEF OrderInHand, Accounted, RestDropsNothing, Published, Holds, Rest, botVars
<1>4. CASE Feed
  BY <1>1, <1>3, <1>4 DEF Feed, CompleteInv, TypeOK, DoneIsLast, Running, botVars
<1>5. CASE CloseJobs
  BY <1>1, <1>3, <1>5 DEF CloseJobs, CompleteInv, TypeOK, DoneIsLast, Running, botVars
<1>6. CASE Return
  BY <1>1, <1>3, <1>6 DEF Return, CompleteInv, TypeOK, DoneIsLast, Running, botVars
<1>7. CASE Kill
  BY <1>1, <1>3, <1>7 DEF Kill, CompleteInv, TypeOK, DoneIsLast, Running, botVars
<1>8. CASE Tick \/ Observe
  <2>1. UNCHANGED <<request, fed, next, main, botVars, copies, publishFailures, dropped, sent>>
    BY <1>8 DEF Tick, Observe
  <2>2. tokens' \in 0..TPS
    BY <1>1, <1>8 DEF Tick, Observe, TypeOK
  <2>3. window' \in [ticks : 0..TPS, sends : Nat]
    BY <1>1, <1>8 DEF Tick, Observe, Second, TypeOK
  <2>4. TypeOK'
    BY <1>1, <2>1, <2>2, <2>3 DEF TypeOK, botVars
  <2> QED
    BY <1>1, <1>3, <2>1, <2>4 DEF CompleteInv, DoneIsLast, Running, botVars
<1> QED
  BY <1>4, <1>5, <1>6, <1>7, <1>8

\* What a bot takes from jobs it holds, or drops while draining.
LEMMA TakeJobComplete ==
    ASSUME CompleteInv, NEW b \in Bots, TakeJob(b)
    PROVE  CompleteInv'
<1> USE RequestAssumption
<1>1. TypeOK /\ OrderInHand /\ Accounted /\ DoneIsLast /\ RestDropsNothing
  BY DEF CompleteInv
<1>2. /\ UNCHANGED <<request, fed, main, tokens, tries, conn, copies, publishFailures, sent, window>>
      /\ Running /\ pc[b] \in {"range", "drain"}
  BY DEF TakeJob
<1>3. CASE next <= fed
  <2>1. /\ next \in Orders /\ next' = next + 1
        /\ next # NumOrders + 1
    BY <1>1, <1>3 DEF TakeJob, TypeOK, Orders
  <2>2. \/ /\ pc[b] = "drain" /\ dropped' = dropped \cup {next}
           /\ UNCHANGED <<pc, order>>
        \/ /\ pc[b] = "range" /\ UNCHANGED dropped
           /\ pc' = [pc EXCEPT ![b] = "token"] /\ order' = [order EXCEPT ![b] = next]
    BY <1>1, <1>2, <1>3 DEF TakeJob, Goto, TypeOK
  <2>3. TypeOK'
    <3>1. next' \in 1..(NumOrders + 1)
      BY <1>1, <2>1 DEF Orders
    <3>2. next \in 0..NumOrders
      BY <2>1 DEF Orders
    <3>3. pc' \in [Bots -> BotStates] /\ order' \in [Bots -> 0..NumOrders]
      BY <1>1, <2>2, <3>2 DEF TypeOK, BotStates
    <3>4. dropped' \subseteq Orders
      BY <1>1, <2>1, <2>2 DEF TypeOK
    <3> QED
      BY <1>1, <1>2, <3>1, <3>3, <3>4 DEF TypeOK
  <2>4. Accounted'
    <3> SUFFICES ASSUME NEW o \in Orders, o < next + 1
                 PROVE  \/ Published(o)' \/ o \in dropped' \/ publishFailures > 0
                        \/ \E c \in Bots : Holds(c, o)'
      BY <1>2, <2>1 DEF Accounted
    <3>1. CASE o = next
      BY <3>1, <1>1, <2>2 DEF Holds, TypeOK
    <3>2. CASE o < next
      <4>1. ASSUME NEW c \in Bots, Holds(c, o) PROVE Holds(c, o)'
        BY <4>1, <1>1, <1>2, <2>2 DEF Holds, TypeOK
      <4>2. Published(o) => Published(o)'
        BY <1>2 DEF Published
      <4>3. o \in dropped => o \in dropped'
        BY <2>2
      <4> QED
        BY <3>2, <4>1, <4>2, <4>3, <1>1 DEF Accounted
    <3> QED
      BY <3>1, <3>2, <1>1 DEF TypeOK, Orders
  <2>5. \A c \in Bots : pc'[c] = "done" => pc[c] = "done"
    BY <1>1, <2>2 DEF TypeOK
  <2>6. \A c \in Bots : pc[c] # "done"
    BY <1>1, <1>2, <2>1 DEF DoneIsLast
  <2>7. DoneIsLast'
    BY <1>1, <1>2, <1>3, <2>1, <2>5, <2>6 DEF DoneIsLast, Running, TypeOK
  <2>8. RestDropsNothing'
    BY <1>1, <1>2, <2>2 DEF RestDropsNothing, Rest, TypeOK
  <2>9. OrderInHand'
    BY <1>1, <1>2, <2>1, <2>2 DEF OrderInHand, TypeOK
  <2> QED
    BY <2>3, <2>4, <2>7, <2>8, <2>9 DEF CompleteInv
<1>4. CASE ~ (next <= fed)
  <2>1. /\ next > fed /\ Closed
        /\ pc' = [pc EXCEPT ![b] = "done"]
        /\ UNCHANGED <<next, order, dropped>>
    BY <1>4 DEF TakeJob, Goto
  <2>2. TypeOK'
    BY <1>1, <1>2, <2>1 DEF TypeOK, BotStates
  <2>3. \A c \in Bots : \A o : Holds(c, o) => Holds(c, o)'
    BY <1>1, <1>2, <2>1 DEF Holds, TypeOK
  <2>4. Accounted'
    BY <1>1, <1>2, <2>1, <2>3 DEF Accounted, Published
  <2>5. next = NumOrders + 1 /\ main = "waiting"
    BY <1>1, <2>1 DEF DoneIsLast, Closed, TypeOK
  <2>6. DoneIsLast' /\ RestDropsNothing'
    BY <1>1, <1>2, <2>1, <2>5 DEF DoneIsLast, RestDropsNothing, Running, Rest, TypeOK
  <2>7. OrderInHand'
    BY <1>1, <1>2, <2>1 DEF OrderInHand, TypeOK
  <2> QED
    BY <2>2, <2>4, <2>6, <2>7 DEF CompleteInv
<1> QED
  BY <1>3, <1>4

\* A bot that goes on to state "to" with an order in hand, or without one
\* once the order is published, dropped or counted as failed.
LEMMA BotComplete ==
    ASSUME CompleteInv, NEW b \in Bots, NEW to \in BotStates \ {"done"}, TypeOK', OrderInHand',
           pc[b] # "done", pc' = [pc EXCEPT ![b] = to],
           UNCHANGED <<request, fed, next, main, order>>,
           Rest => to \notin {"dial", "drain"},
           \A o \in Orders : Published(o) => Published(o)',
           dropped \subseteq dropped',
           Rest /\ request.endpoint = "valid" => dropped' = dropped,
           publishFailures > 0 => publishFailures' > 0,
           pc[b] \in {"token", "answer", "publish"} =>
               \/ to \in {"token", "answer", "publish"}
               \/ order[b] \in Orders =>
                      Published(order[b])' \/ order[b] \in dropped' \/ publishFailures' > 0
    PROVE  CompleteInv'
<1>1. TypeOK /\ OrderInHand /\ Accounted /\ DoneIsLast /\ RestDropsNothing
  BY DEF CompleteInv
<1>2. pc'[b] = to /\ \A c \in Bots : c # b => pc'[c] = pc[c]
  BY <1>1 DEF TypeOK
<1>3. Accounted'
  <2> SUFFICES ASSUME NEW o \in Orders, o < next
               PROVE  \/ Published(o)' \/ o \in dropped' \/ publishFailures' > 0
                      \/ \E c \in Bots : Holds(c, o)'
    BY DEF Accounted
  <2>1. CASE Published(o) \/ o \in dropped \/ publishFailures > 0
    BY <2>1
  <2>2. ASSUME NEW c \in Bots, Holds(c, o), c # b PROVE Holds(c, o)'
    BY <2>2, <1>2 DEF Holds
  <2>3. CASE Holds(b, o)
    <3>1. CASE to \in {"token", "answer", "publish"}
      BY <3>1, <2>3, <1>2 DEF Holds
    <3>2. CASE to \notin {"token", "answer", "publish"}
      BY <3>2, <2>3 DEF Holds
    <3> QED
      BY <3>1, <3>2
  <2> QED
    BY <2>1, <2>2, <2>3, <1>1 DEF Accounted
<1>4. \A c \in Bots : pc'[c] = "done" => pc[c] = "done"
  BY <1>2
<1>5. main # "returned"
  BY <1>1 DEF DoneIsLast
<1>6. DoneIsLast'
  BY <1>1, <1>4, <1>5 DEF DoneIsLast, Running
<1>7. RestDropsNothing'
  BY <1>1, <1>2 DEF RestDropsNothing, Rest
<1> QED
  BY <1>3, <1>6, <1>7 DEF CompleteInv

LEMMA TakeTokenType ==
    ASSUME TypeOK, NEW b \in Bots, TakeToken(b)
    PROVE  /\ tokens' \in 0..TPS /\ tokens' = tokens - 1
           /\ pc[b] = "token" /\ Running
BY RequestAssumption DEF TypeOK, TakeToken

LEMMA BotStepComplete ==
    ASSUME CompleteInv, NEW b \in Bots, BotStep(b)
    PROVE  CompleteInv'
<1> USE RequestAssumption
<1>1. TypeOK /\ OrderInHand /\ RestDropsNothing
  BY DEF CompleteInv
<1>2. CASE TakeJob(b)
  BY <1>2, TakeJobComplete
<1>3. CASE Dial(b)
  <2>1. /\ pc[b] = "dial" /\ ~ Rest
        /\ \E to \in {"range", "drain"} : pc' = [pc EXCEPT ![b] = to]
        /\ UNCHANGED <<request, fed, next, main, tokens, order, tries, conn, copies,
                       publishFailures, dropped, sent, window>>
    BY <1>1, <1>3 DEF Dial, Goto, RestDropsNothing
  <2>2. TypeOK' /\ OrderInHand'
    BY <1>1, <2>1 DEF TypeOK, BotStates, OrderInHand
  <2>3. PICK to \in {"range", "drain"} : pc' = [pc EXCEPT ![b] = to]
    BY <2>1
  <2>4. to \in BotStates \ {"done"} /\ \A o \in Orders : Published(o) => Published(o)'
    BY <2>1 DEF BotStates, Published
  <2> QED
    BY <2>1, <2>2, <2>3, <2>4, BotComplete
<1>4. CASE Send(b)
  <2>1. /\ pc[b] = "token" /\ tokens' \in 0..TPS
        /\ pc' = [pc EXCEPT ![b] = "answer"]
        /\ window' = [window EXCEPT !.sends = window.sends + 1]
        /\ sent' = sent \cup {order[b]}
        /\ UNCHANGED <<request, fed, next, main, order, tries, conn, copies, publishFailures,
                       dropped>>
    BY <1>1, <1>4, TakeTokenType DEF Send, Goto, Counted
  <2>2. order[b] \in Orders
    BY <1>1, <2>1, <1>4 DEF OrderInHand
  <2>3. TypeOK' /\ OrderInHand'
    BY <1>1, <2>1, <2>2 DEF TypeOK, BotStates, OrderInHand
  <2>4. "answer" \in BotStates \ {"done"} /\ \A o \in Orders : Published(o) => Published(o)'
    BY <2>1 DEF BotStates, Published
  <2> QED
    BY <2>1, <2>3, <2>4, BotComplete
<1>5. CASE SendFails(b)
  <2>1. /\ pc[b] = "token" /\ tokens' \in 0..TPS
        /\ pc' = [pc EXCEPT ![b] = "range"]
        /\ conn' \in [Bots -> {"open", "deaf", "dead"}]
        /\ Rest => request.endpoint = "malformed"
        /\ dropped' = dropped \cup {order[b]}
        /\ UNCHANGED <<request, fed, next, main, order, tries, copies, publishFailures, sent,
                       window>>
    BY <1>1, <1>5, TakeTokenType DEF SendFails, Goto, TypeOK
  <2>2. order[b] \in Orders
    BY <1>1, <2>1 DEF OrderInHand
  <2>3. TypeOK' /\ OrderInHand'
    BY <1>1, <2>1, <2>2 DEF TypeOK, BotStates, OrderInHand
  <2>4. "range" \in BotStates \ {"done"} /\ \A o \in Orders : Published(o) => Published(o)'
    BY <2>1 DEF BotStates, Published
  <2> QED
    BY <2>1, <2>3, <2>4, BotComplete
<1>6. CASE Answer(b)
  <2>1. /\ pc[b] = "answer" /\ pc' = [pc EXCEPT ![b] = "publish"]
        /\ conn' \in [Bots -> {"open", "deaf", "dead"}]
        /\ tries' = [tries EXCEPT ![b] = 0]
        /\ UNCHANGED <<request, fed, next, main, tokens, order, copies, publishFailures, dropped,
                       sent, window>>
    BY <1>1, <1>6 DEF Answer, Goto, TypeOK
  <2>2. TypeOK' /\ OrderInHand'
    BY <1>1, <2>1 DEF TypeOK, BotStates, OrderInHand
  <2>3. "publish" \in BotStates \ {"done"} /\ \A o \in Orders : Published(o) => Published(o)'
    BY <2>1 DEF BotStates, Published
  <2> QED
    BY <2>1, <2>2, <2>3, BotComplete
<1>7. CASE PublishOK(b)
  <2>1. PICK n \in 1..MaxCopies : copies' = [copies EXCEPT ![order[b]] = copies[order[b]] + n]
    BY <1>7 DEF PublishOK
  <2>2. /\ pc[b] = "publish" /\ pc' = [pc EXCEPT ![b] = "range"]
        /\ UNCHANGED <<request, fed, next, main, tokens, order, tries, conn, publishFailures,
                       dropped, sent, window>>
    BY <1>7 DEF PublishOK, Goto
  <2>3. order[b] \in Orders
    BY <1>1, <2>2 DEF OrderInHand
  <2>4. /\ copies' \in [Orders -> Nat]
        /\ \A o \in Orders : copies'[o] >= copies[o]
        /\ copies'[order[b]] > 0
    BY <1>1, <2>1, <2>3 DEF TypeOK
  <2>5. TypeOK' /\ OrderInHand'
    BY <1>1, <2>2, <2>4 DEF TypeOK, BotStates, OrderInHand
  <2>6. \A o \in Orders : Published(o) => Published(o)'
    BY <1>1, <2>4 DEF TypeOK, Published
  <2>7. Published(order[b])'
    BY <2>2, <2>4 DEF Published
  <2>8. "range" \in BotStates \ {"done"}
    BY DEF BotStates
  <2> QED
    BY <2>2, <2>5, <2>6, <2>7, <2>8, BotComplete
<1>8. CASE PublishError(b)
  <2>1. PICK n \in 0..MaxCopies : copies' = [copies EXCEPT ![order[b]] = copies[order[b]] + n]
    BY <1>8 DEF PublishError
  <2>2. /\ pc[b] = "publish"
        /\ tries' = [tries EXCEPT ![b] = tries[b] + 1]
        /\ UNCHANGED <<request, fed, next, main, tokens, order, conn, dropped, sent, window>>
    BY <1>8 DEF PublishError
  <2>3. /\ order[b] \in Orders /\ tries[b] < Attempts
    BY <1>1, <2>2 DEF OrderInHand
  <2>4. /\ copies' \in [Orders -> Nat]
        /\ \A o \in Orders : copies'[o] >= copies[o]
    BY <1>1, <2>1, <2>3 DEF TypeOK
  <2>5. \A o \in Orders : Published(o) => Published(o)'
    BY <1>1, <2>4 DEF TypeOK, Published
  <2>6. tries' \in [Bots -> 0..Attempts]
    BY <1>1, <2>2, <2>3 DEF TypeOK
  <2>7. "range" \in BotStates \ {"done"} /\ "publish" \in BotStates \ {"done"}
    BY DEF BotStates
  <2>8. CASE tries[b] + 1 < Attempts
    <3>1. UNCHANGED <<pc, publishFailures>> /\ pc' = [pc EXCEPT ![b] = "publish"]
      BY <1>1, <1>8, <2>2, <2>8 DEF PublishError, TypeOK
    <3>2. TypeOK' /\ OrderInHand'
      BY <1>1, <2>2, <2>4, <2>6, <2>8, <3>1 DEF TypeOK, OrderInHand
    <3> QED
      BY <2>2, <2>5, <2>7, <3>1, <3>2, BotComplete
  <2>9. CASE ~ (tries[b] + 1 < Attempts)
    <3>1. publishFailures' = publishFailures + 1 /\ pc' = [pc EXCEPT ![b] = "range"]
      BY <1>8, <2>9 DEF PublishError, Goto
    <3>2. TypeOK' /\ OrderInHand' /\ publishFailures' > 0
      BY <1>1, <2>2, <2>4, <2>6, <3>1 DEF TypeOK, BotStates, OrderInHand
    <3> QED
      BY <2>2, <2>5, <2>7, <3>1, <3>2, BotComplete
  <2> QED
    BY <2>8, <2>9
<1> QED
  BY <1>2, <1>3, <1>4, <1>5, <1>6, <1>7, <1>8 DEF BotStep

LEMMA StepComplete == CompleteInv /\ [Next]_vars => CompleteInv'
<1> SUFFICES ASSUME CompleteInv, [Next]_vars PROVE CompleteInv'
  OBVIOUS
<1>1. CASE Feed \/ CloseJobs \/ Return \/ Kill \/ Tick \/ Observe
  BY <1>1, MainComplete
<1>2. ASSUME NEW b \in Bots, BotStep(b) PROVE CompleteInv'
  BY <1>2, BotStepComplete
<1>3. CASE UNCHANGED vars
  BY <1>3 DEF vars, botVars, CompleteInv, TypeOK, OrderInHand, Accounted, DoneIsLast,
              RestDropsNothing, Published, Holds, Running, Rest
<1> QED
  BY <1>1, <1>2, <1>3 DEF Next, BotStep

\* Every order taken from jobs is published, counted, dropped or in the hands
\* of the bot that took it, whatever fails: any bots, orders and rate.
THEOREM OrdersAreAccounted == Spec => []CompleteInv
<1> QED
  BY InitComplete, StepComplete, PTL DEF Spec

\* When startLoadTest returns nil after an HTTP run to an endpoint that
\* parses, every order has an event in the topic: any bots, orders and rate.
THEOREM CleanRunPublishesAll == Spec => []CleanRunIsComplete
<1>1. CompleteInv => CleanRunIsComplete
  <2> SUFFICES ASSUME CompleteInv, Succeeded, Rest, request.endpoint = "valid",
                      NEW o \in Orders
               PROVE  Published(o)
    BY DEF CleanRunIsComplete
  <2>1. o < next
    BY RequestAssumption DEF CompleteInv, DoneIsLast, Succeeded, Orders
  <2>2. \A b \in Bots : ~ Holds(b, o)
    BY DEF CompleteInv, DoneIsLast, Succeeded, Holds
  <2>3. publishFailures = 0 /\ dropped = {}
    BY DEF CompleteInv, RestDropsNothing, Succeeded
  <2> QED
    BY <2>1, <2>2, <2>3 DEF CompleteInv, Accounted
<1> QED
  BY <1>1, InitComplete, StepComplete, PTL DEF Spec

-----------------------------------------------------------------------------
\* A token is spent for every order sent, and only a tick makes one; the
\* bucket held at most TPS of them when the second began.
THEOREM BurstIsBounded == Spec => []BurstBounded
<1> USE RequestAssumption
<1>1. Init => BurstBounded
  BY DEF Init, BurstBounded
<1>2. TypeOK /\ BurstBounded /\ [Next]_vars => BurstBounded'
  <2> SUFFICES ASSUME TypeOK, BurstBounded, [Next]_vars PROVE BurstBounded'
    OBVIOUS
  <2>1. /\ tokens \in 0..TPS
        /\ window \in [ticks : 0..TPS, sends : Nat]
        /\ window.sends + tokens <= TPS + window.ticks
    BY DEF TypeOK, BurstBounded
  <2>2. CASE UNCHANGED <<tokens, window>>
    BY <2>1, <2>2 DEF BurstBounded
  <2>3. CASE Tick
    BY <2>1, <2>3 DEF Tick, Second, BurstBounded
  <2>4. CASE Observe
    BY <2>1, <2>4 DEF Observe, BurstBounded
  <2>5. ASSUME NEW b \in Bots, Send(b) PROVE BurstBounded'
    BY <2>1, <2>5 DEF Send, TakeToken, Counted, BurstBounded
  <2>6. ASSUME NEW b \in Bots, SendFails(b) PROVE BurstBounded'
    BY <2>1, <2>6 DEF SendFails, TakeToken, BurstBounded
  <2>7. ASSUME NEW b \in Bots,
               TakeJob(b) \/ Dial(b) \/ Answer(b) \/ PublishOK(b) \/ PublishError(b)
        PROVE  UNCHANGED <<tokens, window>>
    BY <2>7 DEF TakeJob, Dial, Answer, PublishOK, PublishError
  <2>8. CASE Feed \/ CloseJobs \/ Return \/ Kill \/ UNCHANGED vars
    BY <2>2, <2>8 DEF Feed, CloseJobs, Return, Kill, vars
  <2> QED
    BY <2>2, <2>3, <2>4, <2>5, <2>6, <2>7, <2>8 DEF Next
<1>3. CompleteInv => TypeOK
  BY DEF CompleteInv
<1> QED
  BY <1>1, <1>2, <1>3, InitComplete, StepComplete, PTL DEF Spec

-----------------------------------------------------------------------------
\* Sets of orders are finite, and a smaller one has no more members.
LEMMA OrdersAreFinite ==
    ASSUME NEW S \in SUBSET Orders
    PROVE  /\ IsFiniteSet(S) /\ Cardinality(S) \in Nat
           /\ \A T \in SUBSET S : Cardinality(T) <= Cardinality(S)
<1>1. IsFiniteSet(Orders)
  BY RequestAssumption, FS_Interval DEF Orders
<1>2. IsFiniteSet(S)
  BY <1>1, FS_Subset
<1> QED
  BY <1>2, FS_Subset, FS_CardinalityType

\* Counting: no order is newly lost, or one is and it is counted.
LEMMA LossIsCounted ==
    ASSUME TypeOK, TypeOK', LostAreCounted,
           \/ LostOrders' \subseteq LostOrders /\ publishFailures' >= publishFailures
           \/ /\ publishFailures' = publishFailures + 1
              /\ \E o \in Orders : LostOrders' \subseteq LostOrders \cup {o}
    PROVE  LostAreCounted'
<1>1. /\ LostOrders \subseteq Orders /\ LostOrders' \subseteq Orders
      /\ publishFailures \in Nat /\ publishFailures' \in Nat
  BY DEF LostOrders, Orders, TypeOK
<1>2. /\ IsFiniteSet(LostOrders) /\ Cardinality(LostOrders) \in Nat
      /\ Cardinality(LostOrders') \in Nat
  BY <1>1, OrdersAreFinite
<1>3. CASE LostOrders' \subseteq LostOrders /\ publishFailures' >= publishFailures
  <2>1. Cardinality(LostOrders') <= Cardinality(LostOrders)
    BY <1>1, <1>3, OrdersAreFinite
  <2> QED
    BY <1>1, <1>2, <1>3, <2>1 DEF LostAreCounted
<1>4. ASSUME NEW o \in Orders, LostOrders' \subseteq LostOrders \cup {o},
             publishFailures' = publishFailures + 1
      PROVE  LostAreCounted'
  <2>1. Cardinality(LostOrders \cup {o}) <= Cardinality(LostOrders) + 1
    <3>1. Cardinality(LostOrders \cup {o}) =
             IF o \in LostOrders THEN Cardinality(LostOrders) ELSE Cardinality(LostOrders) + 1
      BY <1>2, FS_AddElement
    <3> QED
      BY <1>2, <3>1
  <2>2. /\ Cardinality(LostOrders') <= Cardinality(LostOrders \cup {o})
        /\ Cardinality(LostOrders \cup {o}) \in Nat
    BY <1>1, <1>4, OrdersAreFinite
  <2> QED
    BY <1>1, <1>2, <1>4, <2>1, <2>2 DEF LostAreCounted
<1> QED
  BY <1>3, <1>4

\* A bot that goes on to state "to" can lose only the order in its hand.
LEMMA BotLoses ==
    ASSUME TypeOK, NEW b \in Bots, NEW to, pc' = [pc EXCEPT ![b] = to],
           UNCHANGED <<next, order>>, dropped \subseteq dropped',
           \A o \in Orders : Published(o) => Published(o)'
    PROVE  /\ LostOrders' \subseteq LostOrders \cup {order[b]}
           /\ \/ pc[b] \notin {"token", "answer", "publish"}
              \/ to \in {"token", "answer", "publish"}
              \/ Published(order[b])' \/ order[b] \in dropped'
              => LostOrders' \subseteq LostOrders
<1>1. pc'[b] = to /\ \A c \in Bots \ {b} : pc'[c] = pc[c]
  BY DEF TypeOK
<1>2. \A c \in Bots \ {b} : \A o \in Orders : Holds(c, o) => Holds(c, o)'
  BY <1>1 DEF Holds
<1>3. ASSUME NEW o \in LostOrders', o \notin LostOrders
      PROVE  /\ Holds(b, o) /\ ~ Holds(b, o)'
             /\ ~ Published(o)' /\ o \notin dropped'
  <2>1. /\ o \in Orders /\ o < next /\ ~ Published(o)' /\ o \notin dropped'
        /\ \A c \in Bots : ~ Holds(c, o)'
    BY <1>3 DEF LostOrders, Orders
  <2>2. ~ Published(o) /\ o \notin dropped
    BY <2>1
  <2>3. \E c \in Bots : Holds(c, o)
    BY <1>3, <2>1, <2>2 DEF LostOrders
  <2> QED
    BY <1>2, <2>1, <2>3
<1>4. ASSUME NEW o, Holds(b, o), ~ Holds(b, o)'
      PROVE  /\ o = order[b] /\ pc[b] \in {"token", "answer", "publish"}
             /\ to \notin {"token", "answer", "publish"}
  BY <1>1, <1>4 DEF Holds
<1> QED
  BY <1>3, <1>4

\* Taking an order from jobs, or finding it closed, loses nothing.
LEMMA TakeJobLosesNothing ==
    ASSUME CompleteInv, NEW b \in Bots, TakeJob(b)
    PROVE  LostOrders' \subseteq LostOrders
<1>1. /\ TypeOK /\ pc[b] \in {"range", "drain"} /\ UNCHANGED copies
      /\ next \in Nat /\ dropped \subseteq dropped'
  BY DEF CompleteInv, TypeOK, TakeJob
<1>2. \A c \in Bots, o \in Orders : Holds(c, o) => Holds(c, o)'
  BY <1>1 DEF Holds, TakeJob, Goto, TypeOK
<1>3. ASSUME NEW o \in Orders, o < next', ~ (o < next)
      PROVE  o \in dropped' \/ Holds(b, o)'
  <2>1. next' = next + 1
    BY <1>1, <1>3 DEF TakeJob
  <2>2. o = next
    BY <1>1, <1>3, <2>1 DEF Orders
  <2> QED
    BY <1>1, <1>3, <2>1, <2>2 DEF TakeJob, Goto, Holds, TypeOK
<1>4. SUFFICES ASSUME NEW o \in LostOrders' PROVE o \in LostOrders
  OBVIOUS
<1>5. /\ o \in Orders /\ o < next' /\ ~ Published(o)' /\ o \notin dropped'
      /\ \A c \in Bots : ~ Holds(c, o)'
  BY <1>4 DEF LostOrders, Orders
<1>6. o < next /\ ~ Published(o) /\ o \notin dropped /\ \A c \in Bots : ~ Holds(c, o)
  BY <1>1, <1>2, <1>3, <1>5 DEF Published
<1> QED
  BY <1>5, <1>6 DEF LostOrders

\* A failed publication is counted at its last attempt, when the bot gives up.
LEMMA PublishErrorIsCounted ==
    ASSUME CompleteInv, CompleteInv', LostAreCounted, NEW b \in Bots, PublishError(b)
    PROVE  LostAreCounted'
<1> USE RequestAssumption
<1>1. /\ TypeOK /\ TypeOK' /\ OrderInHand /\ pc[b] = "publish" /\ order[b] \in Orders
      /\ UNCHANGED <<next, order, dropped>>
  BY DEF CompleteInv, OrderInHand, PublishError
<1>2. \A o \in Orders : Published(o) => Published(o)'
  BY <1>1 DEF PublishError, Published, TypeOK
<1>3. CASE tries[b] + 1 < Attempts
  <2>1. pc' = [pc EXCEPT ![b] = "publish"] /\ publishFailures' = publishFailures
    BY <1>1, <1>3 DEF PublishError, TypeOK
  <2>2. LostOrders' \subseteq LostOrders
    BY <1>1, <1>2, <2>1, BotLoses
  <2> QED
    BY <1>1, <2>1, <2>2, LossIsCounted DEF TypeOK
<1>4. CASE ~ (tries[b] + 1 < Attempts)
  <2>1. pc' = [pc EXCEPT ![b] = "range"] /\ publishFailures' = publishFailures + 1
    BY <1>4 DEF PublishError, Goto
  <2>2. LostOrders' \subseteq LostOrders \cup {order[b]}
    BY <1>1, <1>2, <2>1, BotLoses
  <2> QED
    BY <1>1, <2>1, <2>2, LossIsCounted
<1> QED
  BY <1>3, <1>4

\* The other steps of a bot lose nothing.
LEMMA BotStepLosesNothing ==
    ASSUME CompleteInv, NEW b \in Bots,
           Dial(b) \/ Send(b) \/ SendFails(b) \/ Answer(b) \/ PublishOK(b)
    PROVE  LostOrders' \subseteq LostOrders /\ publishFailures' = publishFailures
<1> USE RequestAssumption
<1>1. TypeOK /\ OrderInHand
  BY DEF CompleteInv
<1>2. UNCHANGED <<next, order, publishFailures>> /\ dropped \subseteq dropped'
  BY DEF Dial, Send, SendFails, Answer, PublishOK
<1>3. CASE Dial(b)
  <2>1. pc[b] = "dial" /\ UNCHANGED copies /\ \E to \in BotStates : pc' = [pc EXCEPT ![b] = to]
    BY <1>3 DEF Dial, Goto, BotStates
  <2> QED
    BY <1>1, <1>2, <2>1, BotLoses DEF Published
<1>4. CASE Send(b)
  <2>1. UNCHANGED copies /\ pc' = [pc EXCEPT ![b] = "answer"]
    BY <1>4 DEF Send, Goto
  <2> QED
    BY <1>1, <1>2, <2>1, BotLoses DEF Published
<1>5. CASE SendFails(b)
  <2>1. /\ UNCHANGED copies /\ pc' = [pc EXCEPT ![b] = "range"]
        /\ order[b] \in dropped'
    BY <1>5 DEF SendFails, Goto
  <2> QED
    BY <1>1, <1>2, <2>1, BotLoses DEF Published
<1>6. CASE Answer(b)
  <2>1. UNCHANGED copies /\ pc' = [pc EXCEPT ![b] = "publish"]
    BY <1>6 DEF Answer, Goto
  <2> QED
    BY <1>1, <1>2, <2>1, BotLoses DEF Published
<1>7. CASE PublishOK(b)
  <2>1. PICK n \in 1..MaxCopies : copies' = [copies EXCEPT ![order[b]] = copies[order[b]] + n]
    BY <1>7 DEF PublishOK
  <2>2. pc[b] = "publish" /\ pc' = [pc EXCEPT ![b] = "range"] /\ order[b] \in Orders
    BY <1>1, <1>7 DEF PublishOK, Goto, OrderInHand
  <2>3. /\ \A o \in Orders : Published(o) => Published(o)'
        /\ Published(order[b])'
    BY <1>1, <1>2, <2>1, <2>2 DEF Published, TypeOK
  <2> QED
    BY <1>1, <1>2, <2>2, <2>3, BotLoses
<1> QED
  BY <1>2, <1>3, <1>4, <1>5, <1>6, <1>7

LEMMA StepLost == CompleteInv /\ CompleteInv' /\ LostAreCounted /\ [Next]_vars => LostAreCounted'
<1> SUFFICES ASSUME CompleteInv, CompleteInv', LostAreCounted, [Next]_vars PROVE LostAreCounted'
  OBVIOUS
<1>1. TypeOK /\ TypeOK' /\ publishFailures \in Nat
  BY DEF CompleteInv, TypeOK
<1>2. CASE Feed \/ CloseJobs \/ Return \/ Kill \/ Tick \/ Observe \/ UNCHANGED vars
  <2>1. UNCHANGED <<next, copies, dropped, pc, order, publishFailures>>
    BY <1>2 DEF Feed, CloseJobs, Return, Kill, Tick, Observe, vars, botVars
  <2>2. LostOrders' = LostOrders
    BY <2>1 DEF LostOrders, Published, Holds, Orders
  <2> QED
    BY <2>1, <2>2 DEF LostAreCounted
<1>3. ASSUME NEW b \in Bots, TakeJob(b) PROVE LostAreCounted'
  BY <1>1, <1>3, TakeJobLosesNothing, LossIsCounted DEF TakeJob
<1>4. ASSUME NEW b \in Bots, PublishError(b) PROVE LostAreCounted'
  BY <1>4, PublishErrorIsCounted
<1>5. ASSUME NEW b \in Bots, Dial(b) \/ Send(b) \/ SendFails(b) \/ Answer(b) \/ PublishOK(b)
      PROVE  LostAreCounted'
  BY <1>1, <1>5, BotStepLosesNothing, LossIsCounted
<1> QED
  BY <1>2, <1>3, <1>4, <1>5 DEF Next

\* When startLoadTest returns, over HTTP or a websocket and whatever failed,
\* the orders without an event are no more than the failures it counted and
\* the orders its bots dropped: any bots, orders and attempts.
THEOREM GapsHaveReasons == Spec => []GapsAreExplained
<1>1. Init => LostAreCounted
  <2> SUFFICES ASSUME Init PROVE LostAreCounted
    OBVIOUS
  <2>1. LostOrders = {}
    BY DEF Init, LostOrders, Orders
  <2> QED
    BY <2>1, FS_EmptySet DEF Init, LostAreCounted
<1>2. CompleteInv /\ LostAreCounted => GapsAreExplained
  <2> SUFFICES ASSUME CompleteInv, LostAreCounted, main = "returned"
               PROVE  Cardinality({o \in Orders : ~ Published(o)})
                          <= publishFailures + Cardinality(dropped)
    BY DEF GapsAreExplained
  <2> DEFINE Gaps == {o \in Orders : ~ Published(o)}
  <2>1. /\ dropped \subseteq Orders /\ publishFailures \in Nat
        /\ next = NumOrders + 1 /\ \A b \in Bots : pc[b] = "done"
    BY DEF CompleteInv, TypeOK, DoneIsLast
  <2>2. Gaps \subseteq LostOrders \cup dropped
    BY <2>1, RequestAssumption DEF LostOrders, Holds, Orders
  <2>3. LostOrders \subseteq Orders
    BY DEF LostOrders
  <2>4. /\ IsFiniteSet(LostOrders) /\ IsFiniteSet(dropped)
        /\ Cardinality(LostOrders) \in Nat /\ Cardinality(dropped) \in Nat
    BY <2>1, <2>3, OrdersAreFinite
  <2>5. /\ Cardinality(LostOrders \cap dropped) \in Nat
        /\ Cardinality(LostOrders \cup dropped) \in Nat
        /\ Cardinality(Gaps) \in Nat
        /\ Cardinality(Gaps) <= Cardinality(LostOrders \cup dropped)
    <3>1. /\ LostOrders \cap dropped \in SUBSET Orders
          /\ LostOrders \cup dropped \in SUBSET Orders
          /\ Gaps \in SUBSET (LostOrders \cup dropped)
      BY <2>1, <2>2, <2>3
    <3> QED
      BY <3>1, OrdersAreFinite
  <2>6. Cardinality(LostOrders \cup dropped)
            = Cardinality(LostOrders) + Cardinality(dropped) - Cardinality(LostOrders \cap dropped)
    BY <2>4, FS_Union
  <2> QED
    BY <2>1, <2>4, <2>5, <2>6 DEF LostAreCounted
<1>3. CompleteInv /\ LostAreCounted /\ [Next]_vars => CompleteInv' /\ LostAreCounted'
  BY StepComplete, StepLost
<1> QED
  BY <1>1, <1>2, <1>3, InitComplete, PTL DEF Spec

-----------------------------------------------------------------------------
Hand == {"token", "answer", "publish"}

LEMMA InitHands == Init => LivesInv
<1>1. Init => OneHand
  BY DEF Init, OneHand, Holds, Orders
<1> QED
  BY <1>1, InitComplete DEF LivesInv

\* A bot that keeps its order, or lets it go, takes nobody else's; its order
\* counts as sent from the moment it is past sending it.
LEMMA BotHands ==
    ASSUME TypeOK, OneHand, NEW b \in Bots, NEW to \in BotStates,
           pc' = [pc EXCEPT ![b] = to], UNCHANGED <<next, order>>,
           to \in Hand => pc[b] \in Hand,
           \/ sent' = sent /\ (to \in Hand => (to = "token" <=> pc[b] = "token"))
           \/ sent' = sent \cup {order[b]} /\ pc[b] = "token" /\ to # "token" /\ order[b] \in Orders,
           \A o \in Orders : o >= next => copies'[o] = copies[o]
    PROVE  OneHand'
<1>1. \A c \in Bots \ {b} : pc'[c] = pc[c]
  BY DEF TypeOK
<1>2. pc'[b] = to
  BY DEF TypeOK
<1>3. \A c \in Bots, o \in Orders : Holds(c, o)' => Holds(c, o)
  BY <1>1, <1>2 DEF Holds, Hand
<1>4. \A c, d \in Bots, o \in Orders : Holds(c, o)' /\ Holds(d, o)' => c = d
  BY <1>3 DEF OneHand
<1>5. ASSUME NEW c \in Bots, NEW o \in Orders, Holds(c, o)'
      PROVE  o < next /\ (o \in sent' <=> pc'[c] # "token")
  <2>1. Holds(c, o) /\ o < next /\ (o \in sent <=> pc[c] # "token")
    BY <1>3, <1>5 DEF OneHand
  <2>2. CASE c = b
    BY <1>2, <1>5, <2>1, <2>2 DEF Holds, Hand
  <2>3. CASE c # b
    <3>1. pc[b] = "token" /\ order[b] \in Orders => order[b] # o
      <4> SUFFICES ASSUME pc[b] = "token", order[b] = o PROVE FALSE
        OBVIOUS
      <4>1. Holds(b, o)
        BY DEF Holds
      <4> QED
        BY <2>1, <2>3, <4>1 DEF OneHand
    <3> QED
      BY <1>1, <2>1, <2>3, <3>1
  <2> QED
    BY <2>2, <2>3
<1>6. ASSUME NEW o \in Orders, o >= next PROVE copies'[o] = 0 /\ o \notin sent'
  <2>1. copies[o] = 0 /\ o \notin sent
    BY <1>6 DEF OneHand
  <2>2. pc[b] = "token" /\ order[b] \in Orders => order[b] < next
    <3> SUFFICES ASSUME pc[b] = "token", order[b] \in Orders PROVE order[b] < next
      OBVIOUS
    <3>1. Holds(b, order[b])
      BY DEF Holds
    <3> QED
      BY <3>1 DEF OneHand
  <2>3. o \in Nat /\ next \in Nat
    BY DEF Orders, TypeOK
  <2> QED
    BY <1>6, <2>1, <2>2, <2>3
<1> QED
  BY <1>4, <1>5, <1>6 DEF OneHand

\* What that does to the lives of the orders.
LEMMA BotFates ==
    ASSUME TypeOK, OneHand, NEW b \in Bots, NEW to \in BotStates,
           pc' = [pc EXCEPT ![b] = to], UNCHANGED <<next, order>>
    PROVE  /\ (to \in Hand <=> pc[b] \in Hand) => Fate' = Fate
           /\ pc[b] \in Hand /\ to \notin Hand /\ order[b] \in Orders =>
                 /\ Fate[order[b]] = "taken"
                 /\ Fate' = [Fate EXCEPT ![order[b]] = "settled"]
<1>1. pc'[b] = to /\ \A c \in Bots \ {b} : pc'[c] = pc[c]
  BY DEF TypeOK
<1>2. ASSUME to \in Hand <=> pc[b] \in Hand PROVE Fate' = Fate
  <2>1. \A c \in Bots, o \in Orders : Holds(c, o)' <=> Holds(c, o)
    BY <1>1, <1>2 DEF Holds, Hand
  <2> QED
    BY <2>1 DEF Fate
<1>3. ASSUME pc[b] \in Hand, to \notin Hand, order[b] \in Orders
      PROVE  /\ Fate[order[b]] = "taken"
             /\ Fate' = [Fate EXCEPT ![order[b]] = "settled"]
  <2>1. Holds(b, order[b])
    BY <1>3 DEF Holds, Hand
  <2>2. order[b] < next /\ order[b] \in Nat /\ next \in Nat
    BY <1>3, <2>1 DEF OneHand, TypeOK, Orders
  <2>3. \A c \in Bots : ~ Holds(c, order[b])'
    <3> SUFFICES ASSUME NEW c \in Bots, Holds(c, order[b])' PROVE FALSE
      OBVIOUS
    <3>1. c # b
      BY <1>1, <1>3 DEF Holds, Hand
    <3>2. Holds(c, order[b])
      BY <1>1, <3>1 DEF Holds
    <3> QED
      BY <1>3, <2>1, <3>1, <3>2 DEF OneHand
  <2>4. \A o \in Orders : o # order[b] => \A c \in Bots : Holds(c, o)' <=> Holds(c, o)
    BY <1>1 DEF Holds
  <2>5. Fate[order[b]] = "taken" /\ Fate'[order[b]] = "settled"
    BY <1>3, <2>1, <2>2, <2>3 DEF Fate
  <2>6. \A o \in Orders : o # order[b] => Fate'[o] = Fate[o]
    BY <2>4 DEF Fate
  <2> QED
    BY <2>5, <2>6 DEF Fate
<1> QED
  BY <1>2, <1>3

\* jobs hands its next order to one bot, or to one that drains it.
LEMMA TakeJobHands ==
    ASSUME LivesInv, NEW b \in Bots, TakeJob(b)
    PROVE  /\ OneHand'
           /\ UNCHANGED <<publishFailures, Outcome>>
           /\ \/ UNCHANGED <<Fate, sent, copies, dropped>>
              \/ \E o \in Orders : Test!Take(o) \/ Test!Skip(o)
<1> USE RequestAssumption
<1>1. TypeOK /\ OrderInHand /\ DoneIsLast /\ OneHand
  BY DEF LivesInv, CompleteInv
<1>2. /\ UNCHANGED <<main, copies, publishFailures, sent>>
      /\ pc[b] \in {"range", "drain"} /\ next \in Nat
  BY <1>1 DEF TakeJob, TypeOK
<1>3. UNCHANGED Outcome
  BY <1>2 DEF Outcome, Running
<1>4. CASE next <= fed
  <2>1. next \in Orders /\ next' = next + 1
    BY <1>1, <1>4 DEF TakeJob, TypeOK, Orders
  <2>2. /\ next \notin sent /\ copies[next] = 0
        /\ \A c \in Bots, o \in Orders : Holds(c, o) => o < next
    BY <1>2, <2>1 DEF LivesInv, OneHand
  <2>3. CASE pc[b] = "drain"
    <3>1. UNCHANGED <<pc, order>> /\ dropped' = dropped \cup {next}
      BY <1>1, <1>4, <2>3 DEF TakeJob, TypeOK
    <3>2. \A c \in Bots, o \in Orders : Holds(c, o)' <=> Holds(c, o)
      BY <3>1 DEF Holds
    <3>3. OneHand'
      BY <1>1, <1>2, <2>1, <2>2, <3>1, <3>2 DEF OneHand, Orders
    <3>4. Fate[next] = "queued" /\ Fate' = [Fate EXCEPT ![next] = "settled"]
      <4>1. Fate[next] = "queued"
        BY <1>2, <2>1 DEF Fate
      <4>2. \A o \in Orders : Fate'[o] = IF o = next THEN "settled" ELSE Fate[o]
        BY <1>2, <2>1, <2>2, <3>2 DEF Fate, Orders
      <4> QED
        BY <2>1, <4>1, <4>2 DEF Fate
    <3>5. Test!Skip(next)
      BY <1>2, <2>2, <3>1, <3>4 DEF Test!Skip, Test!Settle
    <3> QED
      BY <1>2, <1>3, <2>1, <3>3, <3>5
  <2>4. CASE pc[b] # "drain"
    <3>1. /\ pc' = [pc EXCEPT ![b] = "token"] /\ order' = [order EXCEPT ![b] = next]
          /\ UNCHANGED dropped
      BY <1>1, <1>4, <2>4 DEF TakeJob, Goto, TypeOK
    <3>2. /\ pc'[b] = "token" /\ order'[b] = next
          /\ \A c \in Bots \ {b} : pc'[c] = pc[c] /\ order'[c] = order[c]
      BY <1>1, <3>1 DEF TypeOK
    <3>3. \A c \in Bots, o \in Orders : Holds(c, o)' <=> Holds(c, o) \/ (c = b /\ o = next)
      BY <1>2, <3>2 DEF Holds
    <3>4. OneHand'
      <4>1. \A c, d \in Bots, o \in Orders : Holds(c, o)' /\ Holds(d, o)' => c = d
        BY <1>1, <1>2, <2>2, <3>3 DEF OneHand
      <4>2. \A c \in Bots, o \in Orders : Holds(c, o)' =>
               o < next' /\ (o \in sent' <=> pc'[c] # "token")
        <5> SUFFICES ASSUME NEW c \in Bots, NEW o \in Orders, Holds(c, o)'
                     PROVE  o < next + 1 /\ (o \in sent <=> pc'[c] # "token")
          BY <1>2, <2>1
        <5>1. CASE c = b
          <6>1. o = next
            BY <3>2, <5>1 DEF Holds
          <6> QED
            BY <1>2, <2>2, <3>2, <5>1, <6>1
        <5>2. CASE c # b
          <6>1. Holds(c, o) /\ pc'[c] = pc[c] /\ o \in Nat
            BY <3>2, <3>3, <5>2 DEF Orders
          <6> QED
            BY <1>1, <1>2, <6>1 DEF OneHand
        <5> QED
          BY <5>1, <5>2
      <4>3. \A o \in Orders : o >= next' => copies'[o] = 0 /\ o \notin sent'
        BY <1>1, <1>2, <2>1 DEF OneHand, Orders
      <4> QED
        BY <4>1, <4>2, <4>3 DEF OneHand
    <3>5. Fate[next] = "queued" /\ Fate' = [Fate EXCEPT ![next] = "taken"]
      <4>1. Fate[next] = "queued"
        BY <1>2, <2>1 DEF Fate
      <4>2. \A o \in Orders : Fate'[o] = IF o = next THEN "taken" ELSE Fate[o]
        BY <1>2, <2>1, <3>3 DEF Fate, Orders
      <4> QED
        BY <2>1, <4>1, <4>2 DEF Fate
    <3>6. Test!Take(next)
      BY <1>2, <3>1, <3>5 DEF Test!Take
    <3> QED
      BY <1>2, <1>3, <2>1, <3>4, <3>6
  <2> QED
    BY <2>3, <2>4
<1>5. CASE next > fed
  <2>1. /\ pc' = [pc EXCEPT ![b] = "done"] /\ UNCHANGED <<next, order, dropped>>
        /\ "done" \in BotStates
    BY <1>1, <1>5 DEF TakeJob, Goto, TypeOK, BotStates
  <2>2. OneHand'
    BY <1>1, <1>2, <2>1, BotHands DEF Hand
  <2>3. Fate' = Fate
    BY <1>1, <1>2, <2>1, BotFates DEF Hand
  <2> QED
    BY <1>2, <1>3, <2>1, <2>2, <2>3
<1> QED
  BY <1>1, <1>2, <1>4, <1>5 DEF TypeOK

\* The other steps of a bot send its order, settle it, or neither.
LEMMA BotStepLives ==
    ASSUME LivesInv, TypeOK', NEW b \in Bots,
           Dial(b) \/ Send(b) \/ SendFails(b) \/ Answer(b) \/ PublishOK(b) \/ PublishError(b)
    PROVE  /\ OneHand'
           /\ \/ UNCHANGED <<Fate, sent, copies, dropped, publishFailures>>
              \/ \E o \in Orders : Test!OrderStep(o)
<1> USE RequestAssumption
<1> DEFINE mine == order[b]
<1>1. TypeOK /\ OrderInHand /\ OneHand
  BY DEF LivesInv, CompleteInv
<1>2. /\ pc[b] \in Hand => mine \in Orders /\ Holds(b, mine)
      /\ pc[b] \in Hand => mine < next /\ (mine \in sent <=> pc[b] # "token")
  <2>1. pc[b] \in Hand => mine \in Orders /\ Holds(b, mine)
    BY <1>1 DEF OrderInHand, Holds, Hand
  <2> QED
    BY <1>1, <2>1 DEF OneHand
<1>3. \A o \in Orders : o \in Nat /\ next \in Nat /\ (o >= next /\ mine < next => o # mine)
  BY <1>1 DEF Orders, TypeOK
<1>4. CASE Dial(b)
  <2>1. PICK to \in {"range", "drain"} : pc' = [pc EXCEPT ![b] = to]
    BY <1>4 DEF Dial, Goto
  <2>2. /\ UNCHANGED <<next, order, copies, sent, dropped, publishFailures>>
        /\ pc[b] = "dial" /\ to \in BotStates /\ to \notin Hand /\ pc[b] \notin Hand
    BY <1>4, <2>1 DEF Dial, BotStates, Hand
  <2> QED
    BY <1>1, <2>1, <2>2, BotHands, BotFates
<1>5. CASE Send(b)
  <2>1. /\ pc' = [pc EXCEPT ![b] = "answer"] /\ sent' = sent \cup {mine}
        /\ UNCHANGED <<next, order, copies, dropped, publishFailures>>
        /\ pc[b] = "token"
    BY <1>5 DEF Send, Goto, TakeToken
  <2>2. "answer" \in BotStates /\ "answer" \in Hand /\ pc[b] \in Hand
    BY <2>1 DEF BotStates, Hand
  <2>3. OneHand' /\ Fate' = Fate
    BY <1>1, <1>2, <2>1, <2>2, BotHands, BotFates
  <2>4. Fate[mine] = "taken" /\ mine \notin sent
    BY <1>2, <1>3, <2>1, <2>2 DEF Fate
  <2>5. Test!Send(mine)
    BY <2>1, <2>3, <2>4 DEF Test!Send
  <2> QED
    BY <1>2, <2>2, <2>3, <2>5 DEF Test!OrderStep
<1>6. CASE SendFails(b)
  <2>1. /\ pc' = [pc EXCEPT ![b] = "range"] /\ dropped' = dropped \cup {mine}
        /\ UNCHANGED <<next, order, copies, sent, publishFailures>>
        /\ pc[b] = "token"
    BY <1>6 DEF SendFails, Goto, TakeToken
  <2>2. "range" \in BotStates /\ "range" \notin Hand /\ pc[b] \in Hand
    BY <2>1 DEF BotStates, Hand
  <2>3. OneHand'
    BY <1>1, <2>1, <2>2, BotHands
  <2>4. Fate[mine] = "taken" /\ Fate' = [Fate EXCEPT ![mine] = "settled"]
    BY <1>1, <1>2, <2>1, <2>2, BotFates
  <2>5. Test!Skip(mine)
    BY <1>2, <2>1, <2>2, <2>4 DEF Test!Skip, Test!Settle
  <2> QED
    BY <1>2, <2>2, <2>3, <2>5 DEF Test!OrderStep
<1>7. CASE Answer(b)
  <2>1. /\ pc' = [pc EXCEPT ![b] = "publish"]
        /\ UNCHANGED <<next, order, copies, sent, dropped, publishFailures>>
        /\ pc[b] = "answer"
    BY <1>7 DEF Answer, Goto
  <2>2. "publish" \in BotStates /\ "publish" \in Hand /\ pc[b] \in Hand
    BY <2>1 DEF BotStates, Hand
  <2> QED
    BY <1>1, <2>1, <2>2, BotHands, BotFates
<1>8. ASSUME PublishOK(b) \/ PublishError(b)
      PROVE  /\ pc[b] = "publish" /\ pc[b] \in Hand /\ mine \in sent
             /\ UNCHANGED <<next, order, sent, dropped>>
             /\ copies' \in [Orders -> Nat] /\ copies'[mine] >= copies[mine]
             /\ \A o \in Orders \ {mine} : copies'[o] = copies[o]
             /\ \A o \in Orders : o >= next => copies'[o] = copies[o]
             /\ PublishOK(b) => copies'[mine] > copies[mine]
  <2>1. /\ pc[b] = "publish" /\ pc[b] \in Hand
        /\ UNCHANGED <<next, order, sent, dropped>>
    BY <1>8 DEF PublishOK, PublishError, Hand
  <2>2. mine \in Orders /\ mine < next /\ mine \in sent
    BY <1>2, <2>1
  <2>3. /\ copies \in [Orders -> Nat]
        /\ \E n \in 0..MaxCopies : copies' = [copies EXCEPT ![mine] = @ + n]
        /\ PublishOK(b) => \E n \in 1..MaxCopies : copies' = [copies EXCEPT ![mine] = @ + n]
    BY <1>1, <1>8 DEF PublishOK, PublishError, TypeOK
  <2>4. /\ copies' \in [Orders -> Nat] /\ copies'[mine] >= copies[mine]
        /\ \A o \in Orders \ {mine} : copies'[o] = copies[o]
        /\ PublishOK(b) => copies'[mine] > copies[mine]
    <3>1. ASSUME NEW n \in Nat, copies' = [copies EXCEPT ![mine] = @ + n]
          PROVE  /\ copies' \in [Orders -> Nat] /\ copies'[mine] = copies[mine] + n
                 /\ \A o \in Orders \ {mine} : copies'[o] = copies[o]
      BY <2>2, <2>3, <3>1
    <3>2. copies[mine] \in Nat
      BY <2>2, <2>3
    <3>3. CASE PublishOK(b)
      <4>1. PICK n \in 1..MaxCopies : copies' = [copies EXCEPT ![mine] = @ + n]
        BY <2>3, <3>3
      <4>2. n \in Nat /\ n > 0
        BY <4>1
      <4>3. /\ copies' \in [Orders -> Nat] /\ copies'[mine] = copies[mine] + n
            /\ \A o \in Orders \ {mine} : copies'[o] = copies[o]
        BY <3>1, <4>1, <4>2
      <4> QED
        BY <3>2, <4>2, <4>3
    <3>4. CASE ~ PublishOK(b)
      <4>1. PICK n \in 0..MaxCopies : copies' = [copies EXCEPT ![mine] = @ + n]
        BY <2>3
      <4>2. n \in Nat
        BY <4>1
      <4>3. /\ copies' \in [Orders -> Nat] /\ copies'[mine] = copies[mine] + n
            /\ \A o \in Orders \ {mine} : copies'[o] = copies[o]
        BY <3>1, <4>1, <4>2
      <4> QED
        BY <3>2, <3>4, <4>2, <4>3
    <3> QED
      BY <3>3, <3>4
  <2> QED
    BY <1>3, <2>1, <2>2, <2>4
<1>9. ASSUME PublishOK(b) \/ PublishError(b)
      PROVE  mine \in Orders /\ Fate[mine] = "taken" /\ Test!Write(mine)
  <2>1. mine \in Orders /\ Fate[mine] = "taken"
    BY <1>2, <1>3, <1>8, <1>9 DEF Fate
  <2> QED
    BY <1>8, <1>9, <2>1 DEF Test!Write
<1>10. ASSUME PublishOK(b) \/ PublishError(b), pc' = [pc EXCEPT ![b] = "range"]
       PROVE  OneHand' /\ Test!Settle(mine)
  <2>1. "range" \in BotStates /\ "range" \notin Hand
    BY DEF BotStates, Hand
  <2>2. OneHand'
    BY <1>1, <1>8, <1>10, <2>1, BotHands
  <2>3. Fate' = [Fate EXCEPT ![mine] = "settled"]
    BY <1>1, <1>2, <1>8, <1>10, <2>1, BotFates
  <2> QED
    BY <2>2, <2>3 DEF Test!Settle
<1>11. CASE PublishOK(b)
  <2>1. pc' = [pc EXCEPT ![b] = "range"] /\ UNCHANGED publishFailures
    BY <1>11 DEF PublishOK, Goto
  <2>2. Test!Publish(mine)
    BY <1>8, <1>9, <1>10, <1>11, <2>1 DEF Test!Publish
  <2> QED
    BY <1>9, <1>10, <1>11, <2>1, <2>2 DEF Test!OrderStep
<1>12. CASE PublishError(b)
  <2>1. CASE pc' = pc /\ publishFailures' = publishFailures
    <3>1. OneHand' /\ Fate' = Fate
      <4>1. \A c \in Bots, o \in Orders : Holds(c, o)' <=> Holds(c, o)
        BY <1>8, <1>12, <2>1 DEF Holds
      <4> QED
        BY <1>1, <1>8, <1>12, <2>1, <4>1 DEF OneHand, Fate
    <3>2. Test!Retry(mine)
      BY <1>9, <1>12, <2>1, <3>1 DEF Test!Retry
    <3> QED
      BY <1>9, <1>12, <3>1, <3>2 DEF Test!OrderStep
  <2>2. CASE pc' = [pc EXCEPT ![b] = "range"] /\ publishFailures' = publishFailures + 1
    <3>1. Test!Fail(mine)
      BY <1>9, <1>10, <1>12, <2>2 DEF Test!Fail
    <3> QED
      BY <1>9, <1>10, <1>12, <2>2, <3>1 DEF Test!OrderStep
  <2> QED
    BY <1>12, <2>1, <2>2 DEF PublishError, Goto
<1> QED
  BY <1>4, <1>5, <1>6, <1>7, <1>11, <1>12

LEMMA StepLives ==
    ASSUME LivesInv, TypeOK', [Next]_vars
    PROVE  OneHand' /\ [Test!Next]_(Test!vars)
<1> USE RequestAssumption
<1>1. TypeOK /\ DoneIsLast /\ OneHand
  BY DEF LivesInv, CompleteInv
<1>2. ASSUME UNCHANGED <<next, pc, order, copies, sent>> PROVE OneHand' /\ UNCHANGED Fate
  <2>1. \A c \in Bots, o \in Orders : Holds(c, o)' <=> Holds(c, o)
    BY <1>2 DEF Holds
  <2> QED
    BY <1>1, <1>2, <2>1 DEF OneHand, Fate
<1>3. CASE Feed \/ CloseJobs \/ Tick \/ Observe \/ UNCHANGED vars
  <2>1. UNCHANGED <<next, pc, order, copies, sent, dropped, publishFailures, Outcome>>
    BY <1>3 DEF Feed, CloseJobs, Tick, Observe, vars, botVars, Outcome, Running
  <2> QED
    BY <1>2, <2>1 DEF Test!vars
<1>4. CASE Kill
  <2>1. /\ UNCHANGED <<next, pc, order, copies, sent, dropped, publishFailures>>
        /\ Outcome = "running" /\ Outcome' = "killed"
    BY <1>4 DEF Kill, botVars, Outcome, Running
  <2> QED
    BY <1>2, <2>1 DEF Test!End, Test!Next
<1>5. CASE Return
  <2>1. /\ UNCHANGED <<next, pc, order, copies, sent, dropped, publishFailures>>
        /\ Outcome = "running" /\ Outcome' = "returned"
    BY <1>5 DEF Return, botVars, Outcome, Running
  <2>2. \A b \in Bots : pc[b] = "done"
    BY <1>5 DEF Return
  <2>3. next = NumOrders + 1
    BY <1>1, <1>5, <2>2 DEF DoneIsLast, Return, Running
  <2>4. \A o \in Orders : Fate[o] = "settled"
    <3>1. \A o \in Orders : ~ (o >= next)
      BY <2>3 DEF Orders
    <3>2. \A o \in Orders, b \in Bots : ~ Holds(b, o)
      BY <2>2 DEF Holds
    <3> QED
      BY <3>1, <3>2 DEF Fate
  <2> QED
    BY <1>2, <2>1, <2>4 DEF Test!End, Test!Next
<1>6. ASSUME NEW b \in Bots, BotStep(b) PROVE OneHand' /\ [Test!Next]_(Test!vars)
  <2>1. Outcome = "running" /\ UNCHANGED Outcome
    <3>1. Running /\ UNCHANGED main
      BY <1>6 DEF BotStep, TakeJob, Dial, Send, SendFails, Answer, PublishOK, PublishError, TakeToken
    <3> QED
      BY <3>1 DEF Outcome, Running
  <2>2. CASE TakeJob(b)
    BY <2>1, <2>2, TakeJobHands DEF Test!Next, Test!OrderStep, Test!vars
  <2>3. CASE ~ TakeJob(b)
    BY <1>6, <2>1, <2>3, BotStepLives DEF BotStep, Test!Next, Test!vars
  <2> QED
    BY <2>2, <2>3
<1> QED
  BY <1>3, <1>4, <1>5, <1>6 DEF Next, BotStep

LEMMA LivesAreKept == Spec => []LivesInv
<1>1. LivesInv /\ [Next]_vars => LivesInv'
  BY StepComplete, StepLives DEF LivesInv, CompleteInv
<1> QED
  BY <1>1, InitHands, PTL DEF Spec

\* No order is in the hands of two bots, and none was sent or published before
\* it was taken from jobs (worker.go:58-65, 97-147).
THEOREM OrdersHaveOneHand == Spec => []OneHand
<1>1. LivesInv => OneHand
  BY DEF LivesInv
<1> QED
  BY <1>1, LivesAreKept, PTL

LEMMA InitImplements == Init => Test!Init
<1> SUFFICES ASSUME Init PROVE Test!Init
  OBVIOUS
<1>1. \A o \in Orders : Fate[o] = "queued"
  BY DEF Init, Fate, Orders
<1>2. Fate = [o \in Orders |-> "queued"]
  BY <1>1 DEF Fate
<1> QED
  BY <1>2 DEF Init, Test!Init, Outcome, Running

\* The bots of a run, with their retries, failing dials and dead connections,
\* implement a load test in which every order is taken, sent and settled once:
\* any number of bots, orders, attempts and copies.
THEOREM BotsImplementLoadTest == Spec => ImplementsLoadTest
<1>1. LivesInv /\ LivesInv' /\ [Next]_vars => [Test!Next]_(Test!vars)
  BY StepLives DEF LivesInv, CompleteInv
<1> QED
  BY <1>1, InitImplements, LivesAreKept, PTL DEF Spec, ImplementsLoadTest, Test!Spec
=============================================================================
