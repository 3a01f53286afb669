------------------------------- MODULE Fleet -------------------------------
(***************************************************************************)
(* One load test of the fleet (startLoadTest in cmd/fleet/worker.go): the  *)
(* main goroutine, the ticker that fills the token bucket, and the bots,   *)
(* over HTTP (worker) or over a websocket (wsWorker).  Runs share nothing  *)
(* but the Kafka writer and the process, so one run is modelled, and the   *)
(* process may end under it.  An order is its index; its contents, and     *)
(* what the contestant answers, do not matter here.                        *)
(***************************************************************************)
EXTENDS Naturals, FiniteSets

CONSTANTS Bots,       \* req.NumBots goroutines
          NumOrders,  \* req.NumOrders
          TPS,        \* req.TPS: capacity of tokens, and ticks in a second
          Attempts,   \* 3: calls of WriteMessages for an event
          MaxCopies   \* bound: copies one call may leave in the topic

\* runHandler refuses anything else (main.go:89-100).
ASSUME RequestAssumption ==
    /\ IsFiniteSet(Bots) /\ Bots # {}
    /\ NumOrders \in Nat \ {0}
    /\ TPS \in Nat \ {0}
    /\ Attempts \in Nat \ {0}
    /\ MaxCopies \in Nat \ {0}

VARIABLES
    request,          \* the protocol asked for, and whether the endpoint parses
    fed, next,        \* channel jobs holds the orders next..fed
    main,             \* main goroutine: "feeding", "waiting", "returned", "killed"
    tokens,           \* tokens in the bucket
    pc, order, tries, \* each bot: where it is, its order, calls of WriteMessages made
    conn,             \* each bot's websocket: "open", "deaf" (reads fail), "dead"
    copies,           \* events of each order in the topic
    publishFailures,
    dropped,          \* history: orders consumed without an event
    sent,             \* history: orders sent to the contestant
    window            \* history: ticks and sends of a second beginning anywhere

botVars == <<pc, order, tries, conn>>
vars == <<request, fed, next, main, tokens, botVars, copies, publishFailures, dropped, sent,
          window>>

Orders == 1..NumOrders
Requests == [protocol : {"rest", "websocket"}, endpoint : {"valid", "malformed"}]
BotStates == {"dial", "drain", "range", "token", "answer", "publish", "done"}

TypeOK ==
    /\ request \in Requests
    /\ fed \in 0..NumOrders /\ next \in 1..(NumOrders + 1)
    /\ main \in {"feeding", "waiting", "returned", "killed"}
    /\ tokens \in 0..TPS
    /\ pc \in [Bots -> BotStates]
    /\ order \in [Bots -> 0..NumOrders]
    /\ tries \in [Bots -> 0..Attempts]
    /\ conn \in [Bots -> {"open", "deaf", "dead"}]
    /\ copies \in [Orders -> Nat]
    /\ publishFailures \in Nat
    /\ dropped \subseteq Orders /\ sent \subseteq Orders
    /\ window \in [ticks : 0..TPS, sends : Nat]

Rest == request.protocol = "rest"
Running == main \in {"feeding", "waiting"}

Init ==
    /\ request \in Requests
    /\ fed = 0 /\ next = 1 /\ main = "feeding" /\ tokens = 0
    /\ pc = [b \in Bots |-> IF Rest THEN "range" ELSE "dial"]
    /\ order = [b \in Bots |-> 0]
    /\ tries = [b \in Bots |-> 0]
    /\ conn = [b \in Bots |-> "open"]
    /\ copies = [o \in Orders |-> 0]
    /\ publishFailures = 0
    /\ dropped = {} /\ sent = {}
    /\ window = [ticks |-> 0, sends |-> 0]

-----------------------------------------------------------------------------
\* The main goroutine: fill jobs, close it, wait for the bots.
Feed ==
    /\ main = "feeding" /\ fed < NumOrders
    /\ fed' = fed + 1
    /\ UNCHANGED <<request, next, main, tokens, botVars, copies, publishFailures, dropped, sent,
                   window>>

CloseJobs ==
    /\ main = "feeding" /\ fed = NumOrders
    /\ main' = "waiting"
    /\ UNCHANGED <<request, fed, next, tokens, botVars, copies, publishFailures, dropped, sent,
                   window>>

\* Mutant: close(jobs) is deferred to the end of startLoadTest.
ClosedOnReturn == main = "returned"
Closed == main = "waiting"

\* Mutant: wg.Wait() is missing.
ReturnAtOnce ==
    /\ main = "waiting"
    /\ main' = "returned"
    /\ UNCHANGED <<request, fed, next, tokens, botVars, copies, publishFailures, dropped, sent,
                   window>>

Return ==
    /\ main = "waiting"
    /\ \A b \in Bots : pc[b] = "done"
    /\ main' = "returned"
    /\ UNCHANGED <<request, fed, next, tokens, botVars, copies, publishFailures, dropped, sent,
                   window>>

\* SIGTERM: main() shuts its HTTP servers down and returns; nobody waits for
\* the goroutines runHandler started.
Kill ==
    /\ Running
    /\ main' = "killed"
    /\ UNCHANGED <<request, fed, next, tokens, botVars, copies, publishFailures, dropped, sent,
                   window>>

\* The result startLoadTest returns.
Succeeded == main = "returned" /\ publishFailures = 0

-----------------------------------------------------------------------------
Second == window' = IF window.ticks < TPS THEN [window EXCEPT !.ticks = @ + 1]
          ELSE [ticks |-> 0, sends |-> 0]

\* Mutant: tokens are counted, and nothing stops the count.
TickUnbounded ==
    /\ Running
    /\ tokens' = tokens + 1
    /\ Second
    /\ UNCHANGED <<request, fed, next, main, botVars, copies, publishFailures, dropped, sent>>

\* Mutant: cancel() comes before wg.Wait().
TickWhileFeeding ==
    /\ main = "feeding"
    /\ tokens' = IF tokens < TPS THEN tokens + 1 ELSE tokens
    /\ Second
    /\ UNCHANGED <<request, fed, next, main, botVars, copies, publishFailures, dropped, sent>>

\* A tick adds a token unless the bucket is full.  In a second there are at
\* most TPS ticks; then the observed second is over and another one begins.
Tick ==
    /\ Running
    /\ tokens' = IF tokens < TPS THEN tokens + 1 ELSE tokens
    /\ Second
    /\ UNCHANGED <<request, fed, next, main, botVars, copies, publishFailures, dropped, sent>>

\* The observed second may begin at any moment.
Observe ==
    /\ Running
    /\ window' = [ticks |-> 0, sends |-> 0]
    /\ UNCHANGED <<request, fed, next, main, tokens, botVars, copies, publishFailures, dropped,
                   sent>>

-----------------------------------------------------------------------------
Goto(b, label) == pc' = [pc EXCEPT ![b] = label]

\* for order := range jobs.  A bot whose dial failed takes orders as well.
TakeJob(b) ==
    /\ Running
    /\ pc[b] \in {"range", "drain"}
    /\ \/ /\ next <= fed
          /\ next' = next + 1
          /\ IF pc[b] = "drain"
             THEN dropped' = dropped \cup {next} /\ UNCHANGED <<pc, order>>
             ELSE Goto(b, "token") /\ order' = [order EXCEPT ![b] = next] /\ UNCHANGED dropped
       \/ /\ next > fed /\ Closed
          /\ Goto(b, "done")
          /\ UNCHANGED <<next, order, dropped>>
    /\ UNCHANGED <<request, fed, main, tokens, tries, conn, copies, publishFailures, sent, window>>

Dial(b) ==
    /\ Running
    /\ pc[b] = "dial"
    /\ \/ request.endpoint = "valid" /\ Goto(b, "range")
       \/ Goto(b, "drain")
    /\ UNCHANGED <<request, fed, next, main, tokens, order, tries, conn, copies, publishFailures,
                   dropped, sent, window>>

\* Before a token is taken nothing is sent.
TakeToken(b) ==
    /\ Running
    /\ pc[b] = "token" /\ tokens > 0
    /\ tokens' = tokens - 1

Counted == window' = [window EXCEPT !.sends = @ + 1]

\* Mutant: an order whose request failed is sent again.
SendAgain(b) ==
    /\ TakeToken(b)
    /\ IF Rest THEN request.endpoint = "valid" ELSE conn[b] # "dead"
    /\ sent' = sent \cup {order[b]}
    /\ Counted
    /\ Goto(b, "answer") \/ UNCHANGED pc
    /\ UNCHANGED <<request, fed, next, main, order, tries, conn, copies, publishFailures, dropped>>

\* The order goes out: client.Do, or WriteMessage on a connection that takes it.
Send(b) ==
    /\ TakeToken(b)
    /\ IF Rest THEN request.endpoint = "valid" ELSE conn[b] # "dead"
    /\ sent' = sent \cup {order[b]}
    /\ Counted
    /\ Goto(b, "answer")
    /\ UNCHANGED <<request, fed, next, main, order, tries, conn, copies, publishFailures, dropped>>

\* The early returns to the loop: http.NewRequest fails, or WriteMessage does,
\* after which every write on the connection fails.  There is no event, and
\* nothing is counted.
SendFails(b) ==
    /\ TakeToken(b)
    /\ IF Rest THEN request.endpoint = "malformed" /\ UNCHANGED conn
               ELSE conn' = [conn EXCEPT ![b] = "dead"]
    /\ dropped' = dropped \cup {order[b]}
    /\ Goto(b, "range")
    /\ UNCHANGED <<request, fed, next, main, order, tries, copies, publishFailures, sent, window>>

\* Mutant: an order without an answer is given up like one that was not sent.
AnswerErrorDrops(b) ==
    /\ Running
    /\ pc[b] = "answer"
    /\ UNCHANGED conn
    /\ \/ Goto(b, "publish") /\ UNCHANGED dropped
       \/ Goto(b, "range") /\ dropped' = dropped \cup {order[b]}
    /\ tries' = [tries EXCEPT ![b] = 0]
    /\ UNCHANGED <<request, fed, next, main, tokens, order, copies, publishFailures, sent, window>>

\* An answer, an error or (HTTP only) the client's timeout of five seconds.
\* A failed read leaves the connection deaf.
Answer(b) ==
    /\ Running
    /\ pc[b] = "answer"
    /\ IF Rest THEN UNCHANGED conn
       ELSE \E state \in {conn[b], "deaf"} : conn' = [conn EXCEPT ![b] = state]
    /\ Goto(b, "publish")
    /\ tries' = [tries EXCEPT ![b] = 0]
    /\ UNCHANGED <<request, fed, next, main, tokens, order, copies, publishFailures, dropped, sent,
                   window>>

\* WriteMessages returns nil: at least one copy of the event is in the topic.
PublishOK(b) ==
    /\ Running
    /\ pc[b] = "publish"
    /\ \E n \in 1..MaxCopies : copies' = [copies EXCEPT ![order[b]] = @ + n]
    /\ Goto(b, "range")
    /\ UNCHANGED <<request, fed, next, main, tokens, order, tries, conn, publishFailures, dropped,
                   sent, window>>

\* Mutant: the last failure is not counted.
PublishErrorUncounted(b) ==
    /\ Running
    /\ pc[b] = "publish"
    /\ \E n \in 0..MaxCopies : copies' = [copies EXCEPT ![order[b]] = @ + n]
    /\ tries' = [tries EXCEPT ![b] = @ + 1]
    /\ IF tries[b] + 1 < Attempts
       THEN UNCHANGED <<pc, publishFailures>>
       ELSE Goto(b, "range") /\ UNCHANGED publishFailures
    /\ UNCHANGED <<request, fed, next, main, tokens, order, conn, dropped, sent, window>>

\* Mutant: two bots that fail together count once.
PublishErrorOverwrites(b) ==
    /\ Running
    /\ pc[b] = "publish"
    /\ \E n \in 0..MaxCopies : copies' = [copies EXCEPT ![order[b]] = @ + n]
    /\ tries' = [tries EXCEPT ![b] = @ + 1]
    /\ IF tries[b] + 1 < Attempts
       THEN UNCHANGED <<pc, publishFailures>>
       ELSE Goto(b, "range") /\ publishFailures' = 1
    /\ UNCHANGED <<request, fed, next, main, tokens, order, conn, dropped, sent, window>>

\* WriteMessages returns an error, although copies may have been written.
PublishError(b) ==
    /\ Running
    /\ pc[b] = "publish"
    /\ \E n \in 0..MaxCopies : copies' = [copies EXCEPT ![order[b]] = @ + n]
    /\ tries' = [tries EXCEPT ![b] = @ + 1]
    /\ IF tries[b] + 1 < Attempts
       THEN UNCHANGED <<pc, publishFailures>>
       ELSE Goto(b, "range") /\ publishFailures' = publishFailures + 1
    /\ UNCHANGED <<request, fed, next, main, tokens, order, conn, dropped, sent, window>>

-----------------------------------------------------------------------------
BotStep(b) == \/ TakeJob(b) \/ Dial(b) \/ Send(b) \/ SendFails(b)
              \/ Answer(b) \/ PublishOK(b) \/ PublishError(b)

Next ==
    \/ Feed \/ CloseJobs \/ Return \/ Kill
    \/ Tick \/ Observe
    \/ \E b \in Bots : TakeJob(b)
    \/ \E b \in Bots : Dial(b)
    \/ \E b \in Bots : Send(b)
    \/ \E b \in Bots : SendFails(b)
    \/ \E b \in Bots : Answer(b)
    \/ \E b \in Bots : PublishOK(b)
    \/ \E b \in Bots : PublishError(b)

Spec == Init /\ [][Next]_vars

\* Goroutines are scheduled and the ticker ticks.  Every call a bot makes
\* returns (HTTP and Kafka have timeouts, a dead connection answers at once)
\* except ReadMessage on an open websocket, which has no deadline.
Fairness ==
    /\ WF_vars(Feed) /\ WF_vars(CloseJobs) /\ WF_vars(Return) /\ WF_vars(Tick)
    /\ \A b \in Bots :
          WF_vars(BotStep(b) /\ (pc[b] = "answer" => Rest \/ conn[b] # "open"))

FairSpec == Spec /\ Fairness
-----------------------------------------------------------------------------
Published(o) == copies[o] > 0
Holds(b, o) == order[b] = o /\ pc[b] \in {"token", "answer", "publish"}

\* Over HTTP to an endpoint that parses, startLoadTest returns nil only when
\* the topic has an event of every order, whatever the contestant answered
\* and however often Kafka failed (worker.go:68-71).
CleanRunIsComplete ==
    Succeeded /\ Rest /\ request.endpoint = "valid" => \A o \in Orders : Published(o)

\* Otherwise the orders without an event are at most those whose publication
\* was counted as failed and those a bot consumed without saying so: by
\* draining jobs (worker.go:170), or returning to the loop (97, 188).
GapsAreExplained ==
    main = "returned" =>
        Cardinality({o \in Orders : ~ Published(o)}) <= publishFailures + Cardinality(dropped)

\* Why they hold: an order taken from jobs is somewhere.
Accounted ==
    \A o \in Orders : o < next =>
        \/ Published(o) \/ o \in dropped \/ publishFailures > 0
        \/ \E b \in Bots : Holds(b, o)

\* A bot that is done saw jobs closed and empty.
DoneIsLast ==
    /\ next <= fed + 1
    /\ main \in {"waiting", "returned"} => fed = NumOrders
    /\ \A b \in Bots : pc[b] = "done" => main # "feeding" /\ (Running => next = NumOrders + 1)
    /\ main = "returned" => next = NumOrders + 1 /\ \A b \in Bots : pc[b] = "done"

RestDropsNothing ==
    Rest => /\ \A b \in Bots : pc[b] \notin {"dial", "drain"}
            /\ request.endpoint = "valid" => dropped = {}

OrderInHand ==
    \A b \in Bots : /\ pc[b] \in {"token", "answer", "publish"} => order[b] \in Orders
                    /\ pc[b] = "publish" => tries[b] < Attempts

\* Why the gaps are explained: an order that is taken, neither published nor
\* dropped, and in nobody's hands, was counted.
LostOrders ==
    {o \in Orders : o < next /\ ~ Published(o) /\ o \notin dropped /\ \A b \in Bots : ~ Holds(b, o)}

LostAreCounted == Cardinality(LostOrders) <= publishFailures

CompleteInv == TypeOK /\ OrderInHand /\ Accounted /\ DoneIsLast /\ RestDropsNothing

\* Why every order has one life: bots never hold the same order, the order in
\* a bot's hands was sent if the bot is past sending it, and then not dropped,
\* and nothing happened yet to an order that is still in jobs.
OneHand ==
    /\ \A b, c \in Bots, o \in Orders : Holds(b, o) /\ Holds(c, o) => b = c
    /\ \A b \in Bots, o \in Orders : Holds(b, o) =>
          /\ o < next
          /\ o \in sent <=> pc[b] # "token"
    /\ \A o \in Orders : o >= next => copies[o] = 0 /\ o \notin sent

LivesInv == CompleteInv /\ OneHand

\* The bots together implement the load test of LoadTest: jobs is the queue,
\* and an order is settled when it was taken and no bot holds it any more.
Fate == [o \in Orders |-> IF o >= next THEN "queued"
                          ELSE IF \E b \in Bots : Holds(b, o) THEN "taken" ELSE "settled"]

Outcome == IF Running THEN "running" ELSE main

Test == INSTANCE LoadTest WITH fate <- Fate, events <- copies, skipped <- dropped,
                               failures <- publishFailures, outcome <- Outcome
ImplementsLoadTest == Test!Spec

\* In a second that begins anywhere the fleet sends no more than the bucket
\* held plus what the ticks added: at most 2 * TPS orders.
BurstBounded == window.sends + tokens <= TPS + window.ticks

\* An HTTP run ends, or the process does.
RestRunEnds == Rest ~> ~ Running

\* A websocket run ends too, unless a bot waits for ever for an answer on an
\* open connection: ReadMessage has no deadline (worker.go:191).
WebsocketRunEnds ==
    <>(~ Running) \/ \E b \in Bots : <>[](pc[b] = "answer" /\ conn[b] = "open")

\* ARCHITECTURE.md:22: the bots are constrained by a token bucket "to
\* strictly enforce target TPS".  A second beginning anywhere may cut one
\* interval of the ticker, hence the one more.
WithinTargetTPS == window.sends <= TPS + 1
=============================================================================
