------------------------------ MODULE LiveFeed ------------------------------
(***************************************************************************)
(* The live feed: boards come from Redis channel "live-scores" to every    *)
(* replica of the leaderboard, whose broadcaster (listenAndBroadcast in    *)
(* cmd/leaderboard/ws.go) writes them to the browsers in its registry.     *)
(* One handler per connection (handleWebSocket) registers it, and forgets  *)
(* it when reading fails; the page (index.html) connects again.  A board   *)
(* is a version number, as in Scoring.                                     *)
(***************************************************************************)
EXTENDS Naturals, Sequences, FiniteSets

CONSTANTS Browsers, Replicas,
          Buffer,      \* boards the sockets of a connection hold
          Backlog,     \* bound: boards waiting in a subscription
          MaxVersion,  \* bound: different boards
          MaxFaults    \* bound: lost connections, suspended pages, crashes

ASSUME FeedAssumption ==
    /\ Replicas # {}
    /\ {MaxVersion, MaxFaults} \subseteq Nat
    /\ {Buffer, Backlog} \subseteq Nat \ {0}

VARIABLES
    version,     \* the newest board published
    subscribed,  \* replicas whose subscription is up
    inbox,       \* boards waiting in each replica's subscription
    clients,     \* each replica's registry
    msg,         \* the board each broadcaster relays
    targets,     \* activeClients it has not written to yet
    failing,     \* the connection it closed and will now delete, if any
    handler,     \* where handleWebSocket of each connection is
    at,          \* the replica of each connection
    closed,      \* connections on which a replica called Close
    peer,        \* the page's end of each connection
    buffer,      \* boards under way on each connection
    made,        \* connections each page has made
    displayed,   \* the last board each connection brought to its page
    faults

registryVars == <<clients, targets, failing, handler, closed>>
pageVars == <<peer, made, at>>
vars == <<version, subscribed, inbox, msg, registryVars, pageVars, buffer, displayed, faults>>

\* The n-th connection of a page.  It makes another one only when a fault
\* ended the one before.
Conns == Browsers \X (1..(MaxFaults + 1))
Current(b) == <<b, made[b]>>

HandlerStates == {"none", "upgraded", "reading", "leaving", "forgotten", "done"}

\* "gone": the replica's end notices; "vanished": nothing arrives there any
\* more; "suspended": the page is alive and does not read.
PeerStates == {"none", "open", "suspended", "gone", "vanished"}

TypeOK ==
    /\ version \in 0..MaxVersion
    /\ subscribed \subseteq Replicas
    /\ inbox \in [Replicas -> Seq(0..MaxVersion)]
    /\ clients \in [Replicas -> SUBSET Conns]
    /\ msg \in [Replicas -> 0..MaxVersion]
    /\ targets \in [Replicas -> SUBSET Conns]
    /\ failing \in [Replicas -> SUBSET Conns]
    /\ handler \in [Conns -> HandlerStates]
    /\ at \in [Conns -> Replicas]
    /\ closed \subseteq Conns
    /\ peer \in [Conns -> PeerStates]
    /\ buffer \in [Conns -> Seq(0..MaxVersion)]
    /\ made \in [Browsers -> 0..(MaxFaults + 1)]
    /\ displayed \in [Conns -> 0..MaxVersion]
    /\ faults \in 0..MaxFaults

Fault == faults < MaxFaults /\ faults' = faults + 1

Init ==
    /\ version = 0
    /\ subscribed = Replicas
    /\ inbox = [r \in Replicas |-> <<>>]
    /\ clients = [r \in Replicas |-> {}]
    /\ msg = [r \in Replicas |-> 0]
    /\ targets = [r \in Replicas |-> {}]
    /\ failing = [r \in Replicas |-> {}]
    /\ handler = [c \in Conns |-> "none"]
    /\ \E r \in Replicas : at = [c \in Conns |-> r]
    /\ closed = {}
    /\ peer = [c \in Conns |-> "none"]
    /\ buffer = [c \in Conns |-> <<>>]
    /\ made = [b \in Browsers |-> 0]
    /\ displayed = [c \in Conns |-> 0]
    /\ faults = 0

-----------------------------------------------------------------------------
\* Redis: the leader of the scoring publishes a board, new or as before, and
\* the replicas that are subscribed get it.  Boards are seconds apart; that a
\* subscription never grows beyond Backlog is a bound of the model.
Publish ==
    /\ \A r \in subscribed : Len(inbox[r]) < Backlog
    /\ \E v \in {version, version + 1} \cap 1..MaxVersion :
          /\ version' = v
          /\ inbox' = [r \in Replicas |->
                          IF r \in subscribed THEN Append(inbox[r], v) ELSE inbox[r]]
    /\ UNCHANGED <<subscribed, msg, registryVars, pageVars, buffer, displayed, faults>>

\* The subscription breaks, and with it what was waiting in it.
Unsubscribe(r) ==
    /\ r \in subscribed
    /\ Fault
    /\ subscribed' = subscribed \ {r}
    /\ inbox' = [inbox EXCEPT ![r] = <<>>]
    /\ UNCHANGED <<version, msg, registryVars, pageVars, buffer, displayed>>

Relaying(r) == targets[r] # {} \/ failing[r] # {}

\* ReceiveMessage returned an error; the loop calls it again, and go-redis
\* subscribes anew.
Resubscribe(r) ==
    /\ r \notin subscribed /\ ~ Relaying(r)
    /\ subscribed' = subscribed \cup {r}
    /\ UNCHANGED <<version, inbox, msg, registryVars, pageVars, buffer, displayed, faults>>

-----------------------------------------------------------------------------
(* listenAndBroadcast *)

\* Mutant: of the boards that wait, the newest is relayed first.
ReceiveNewest(r) ==
    /\ ~ Relaying(r) /\ inbox[r] # <<>>
    /\ msg' = [msg EXCEPT ![r] = inbox[r][Len(inbox[r])]]
    /\ inbox' = [inbox EXCEPT ![r] = SubSeq(@, 1, Len(@) - 1)]
    /\ targets' = [targets EXCEPT ![r] = clients[r]]
    /\ UNCHANGED <<version, subscribed, clients, failing, handler, closed, pageVars, buffer,
                   displayed, faults>>

\* A board arrives, and the registry is copied under the mutex.
Receive(r) ==
    /\ ~ Relaying(r) /\ inbox[r] # <<>>
    /\ msg' = [msg EXCEPT ![r] = Head(inbox[r])]
    /\ inbox' = [inbox EXCEPT ![r] = Tail(@)]
    /\ targets' = [targets EXCEPT ![r] = clients[r]]
    /\ UNCHANGED <<version, subscribed, clients, failing, handler, closed, pageVars, buffer,
                   displayed, faults>>

\* WriteMessage returns nil: the sockets take the board.  A connection whose
\* other end has gone may take it once more.
Write(r, c) ==
    /\ c \in targets[r] /\ failing[r] = {} /\ c \notin closed
    /\ Len(buffer[c]) < Buffer
    /\ targets' = [targets EXCEPT ![r] = @ \ {c}]
    /\ buffer' = IF peer[c] = "gone" THEN buffer ELSE [buffer EXCEPT ![c] = Append(@, msg[r])]
    /\ UNCHANGED <<version, subscribed, inbox, msg, clients, failing, handler, closed, pageVars,
                   displayed, faults>>

\* Mutant: there is no write deadline.
BrokenWithoutDeadline(c) == c \in closed \/ peer[c] = "gone"

\* Writing fails: the connection is closed on this end or on the other one, or
\* nobody reads it, its buffers are full and the deadline of five seconds ends
\* the wait.
Broken(c) ==
    \/ c \in closed \/ peer[c] = "gone"
    \/ peer[c] \in {"suspended", "vanished"} /\ Len(buffer[c]) = Buffer

\* Mutant: the error of WriteMessage is ignored.
WriteErrorIgnored(r, c) ==
    /\ c \in targets[r] /\ failing[r] = {} /\ Broken(c)
    /\ targets' = [targets EXCEPT ![r] = @ \ {c}]
    /\ UNCHANGED <<version, subscribed, inbox, msg, clients, failing, handler, closed, pageVars,
                   buffer, displayed, faults>>

\* Mutant: the broadcaster closes and leaves the deletion to the handler.
WriteErrorKeeps(r, c) ==
    /\ c \in targets[r] /\ failing[r] = {} /\ Broken(c)
    /\ targets' = [targets EXCEPT ![r] = @ \ {c}]
    /\ closed' = closed \cup {c}
    /\ UNCHANGED <<version, subscribed, inbox, msg, clients, failing, handler, pageVars, buffer,
                   displayed, faults>>

\* client.Close(), outside the mutex.
WriteError(r, c) ==
    /\ c \in targets[r] /\ failing[r] = {} /\ Broken(c)
    /\ targets' = [targets EXCEPT ![r] = @ \ {c}]
    /\ closed' = closed \cup {c}
    /\ failing' = [failing EXCEPT ![r] = {c}]
    /\ UNCHANGED <<version, subscribed, inbox, msg, clients, handler, pageVars, buffer,
                   displayed, faults>>

\* delete(clients, client), under the mutex.
Delete(r) ==
    /\ failing[r] # {}
    /\ clients' = [clients EXCEPT ![r] = @ \ failing[r]]
    /\ failing' = [failing EXCEPT ![r] = {}]
    /\ UNCHANGED <<version, subscribed, inbox, msg, targets, handler, closed, pageVars, buffer,
                   displayed, faults>>

-----------------------------------------------------------------------------
(* handleWebSocket *)

HandlerGoes(c, from, to) == handler[c] = from /\ handler' = [handler EXCEPT ![c] = to]
NotHandlers == <<version, subscribed, inbox, msg, targets, failing, pageVars, buffer, displayed,
                 faults>>

Register(c) ==
    /\ HandlerGoes(c, "upgraded", "reading")
    /\ clients' = [clients EXCEPT ![at[c]] = @ \cup {c}]
    /\ UNCHANGED <<closed, NotHandlers>>

\* ReadMessage returns an error.  On a connection that went silent it does so
\* only when the kernel gives the connection up.
ReadFails(c) ==
    /\ c \in closed \/ peer[c] \in {"gone", "vanished"}
    /\ HandlerGoes(c, "reading", "leaving")
    /\ UNCHANGED <<clients, closed, NotHandlers>>

\* Mutant: the deferred delete is missing.
ForgetNothing(c) ==
    /\ HandlerGoes(c, "leaving", "forgotten")
    /\ UNCHANGED <<clients, closed, NotHandlers>>

\* The deferred function: delete under the mutex, then Close.
Forget(c) ==
    /\ HandlerGoes(c, "leaving", "forgotten")
    /\ clients' = [clients EXCEPT ![at[c]] = @ \ {c}]
    /\ UNCHANGED <<closed, NotHandlers>>

Close(c) ==
    /\ HandlerGoes(c, "forgotten", "done")
    /\ closed' = closed \cup {c}
    /\ UNCHANGED <<clients, NotHandlers>>

-----------------------------------------------------------------------------
(* The page, and what happens to connections *)

Connected(b) == made[b] > 0 /\ peer[Current(b)] \in {"open", "suspended"}
NotPages == <<version, subscribed, inbox, msg, clients, targets, failing, closed>>

\* connectWebSocket, at first or three seconds after onclose, to any replica.
\* An attempt that fails changes nothing; it is made again.
Connect(b) ==
    /\ ~ Connected(b)
    /\ made[b] <= MaxFaults
    /\ made' = [made EXCEPT ![b] = @ + 1]
    /\ LET c == <<b, made[b] + 1>> IN
          /\ peer' = [peer EXCEPT ![c] = "open"]
          /\ HandlerGoes(c, "none", "upgraded")
          /\ \E r \in Replicas : at' = [at EXCEPT ![c] = r]
    /\ UNCHANGED <<NotPages, buffer, displayed, faults>>

\* onmessage: the table is drawn again.
Display(c) ==
    /\ peer[c] = "open" /\ buffer[c] # <<>>
    /\ displayed' = [displayed EXCEPT ![c] = Head(buffer[c])]
    /\ buffer' = [buffer EXCEPT ![c] = Tail(@)]
    /\ UNCHANGED <<NotPages, handler, pageVars, faults>>

\* onclose after the replica closed the connection; boards under way are lost.
SeesClose(c) ==
    /\ peer[c] = "open" /\ c \in closed
    /\ peer' = [peer EXCEPT ![c] = "gone"]
    /\ buffer' = [buffer EXCEPT ![c] = <<>>]
    /\ UNCHANGED <<NotPages, handler, at, made, displayed, faults>>

\* The page is left or loses the network, which the replica notices or not.
Disconnect(c) ==
    /\ peer[c] \in {"open", "suspended"}
    /\ Fault
    /\ \/ /\ peer' = [peer EXCEPT ![c] = "gone"]
          /\ buffer' = [buffer EXCEPT ![c] = <<>>]
       \/ peer' = [peer EXCEPT ![c] = "vanished"] /\ UNCHANGED buffer
    /\ UNCHANGED <<NotPages, handler, at, made, displayed>>

\* The browser freezes the page, or thaws it.
Suspend(c) ==
    /\ peer[c] = "open"
    /\ Fault
    /\ peer' = [peer EXCEPT ![c] = "suspended"]
    /\ UNCHANGED <<NotPages, handler, at, made, buffer, displayed>>

Resume(c) ==
    /\ peer[c] = "suspended"
    /\ peer' = [peer EXCEPT ![c] = "open"]
    /\ UNCHANGED <<NotPages, handler, at, made, buffer, displayed, faults>>

\* A replica dies, with its registry and its ends of the connections.
Crash(r) ==
    /\ Fault
    /\ LET lost == {c \in Conns : at[c] = r /\ handler[c] # "none"} IN
          /\ handler' = [c \in Conns |-> IF c \in lost THEN "done" ELSE handler[c]]
          /\ closed' = closed \cup lost
    /\ clients' = [clients EXCEPT ![r] = {}]
    /\ targets' = [targets EXCEPT ![r] = {}]
    /\ failing' = [failing EXCEPT ![r] = {}]
    /\ subscribed' = subscribed \ {r}
    /\ inbox' = [inbox EXCEPT ![r] = <<>>]
    /\ UNCHANGED <<version, msg, pageVars, buffer, displayed>>

-----------------------------------------------------------------------------
Next ==
    \/ Publish
    \/ \E r \in Replicas : Unsubscribe(r)
    \/ \E r \in Replicas : Resubscribe(r)
    \/ \E r \in Replicas : Receive(r)
    \/ \E r \in Replicas, c \in Conns : Write(r, c)
    \/ \E r \in Replicas, c \in Conns : WriteError(r, c)
    \/ \E r \in Replicas : Delete(r)
    \/ \E c \in Conns : Register(c)
    \/ \E c \in Conns : ReadFails(c)
    \/ \E c \in Conns : Forget(c)
    \/ \E c \in Conns : Close(c)
    \/ \E b \in Browsers : Connect(b)
    \/ \E c \in Conns : Display(c)
    \/ \E c \in Conns : SeesClose(c)
    \/ \E c \in Conns : Disconnect(c)
    \/ \E c \in Conns : Suspend(c)
    \/ \E c \in Conns : Resume(c)
    \/ \E r \in Replicas : Crash(r)

Spec == Init /\ [][Next]_vars

\* Scoring goes on and so do goroutines and pages.  Reading a connection that
\* went silent need not fail, and a frozen page need not thaw.
Fairness ==
    /\ WF_vars(Publish)
    /\ \A r \in Replicas : /\ WF_vars(Resubscribe(r)) /\ WF_vars(Receive(r)) /\ WF_vars(Delete(r))
    /\ \A r \in Replicas, c \in Conns : WF_vars(Write(r, c) \/ WriteError(r, c))
    /\ \A c \in Conns : /\ WF_vars(Register(c)) /\ WF_vars(Forget(c)) /\ WF_vars(Close(c))
                        /\ WF_vars(peer[c] # "vanished" /\ ReadFails(c))
                        /\ WF_vars(Display(c)) /\ WF_vars(SeesClose(c))
    /\ \A b \in Browsers : WF_vars(Connect(b))

FairSpec == Spec /\ Fairness

-----------------------------------------------------------------------------
\* What a replica has closed is in its registry only until the broadcaster
\* that closed it deletes it: no later board is written to it.  The handler
\* deletes before it closes (ws.go:70-73), the broadcaster after (52-55), and
\* it copies the registry only when it has deleted.
ClosedAreLeaving ==
    \A r \in Replicas : closed \cap clients[r] \subseteq failing[r]

\* Why that holds: who is in a registry has a handler that will delete it.
RegistryInv ==
    /\ TypeOK
    /\ ClosedAreLeaving
    /\ \A r \in Replicas : \A c \in clients[r] :
          at[c] = r /\ handler[c] \in {"reading", "leaving"}
    /\ \A r \in Replicas : \A c \in targets[r] \cup failing[r] :
          at[c] = r /\ handler[c] \notin {"none", "upgraded"}
    /\ \A r \in Replicas : failing[r] \subseteq closed
    /\ \A c \in Conns : handler[c] \in {"none", "upgraded"} => c \notin closed

\* A page that stops reading for ever, closed, cut off or frozen, leaves the
\* registry: its handler notices, or a board that cannot be written does.
SilentAreForgotten ==
    \A c \in Conns :
        <>[](peer[c] # "open") => <>[](\A r \in Replicas : c \notin clients[r])

\* A page that is not frozen for ever ends up with the last board, whichever
\* connections, subscriptions and replicas were lost before, and whoever else
\* is slow: a frozen neighbour holds the broadcaster up for five seconds.
PagesCatchUp ==
    \A b \in Browsers :
        \/ <>[](made[b] > 0 /\ displayed[Current(b)] = version)
        \/ <>[](made[b] > 0 /\ peer[Current(b)] = "suspended")

\* Boards between two given ones, the older first.
Ordered(q, oldest, newest) ==
    /\ \A i \in 1..Len(q) : q[i] \in oldest..newest
    /\ \A i, j \in 1..Len(q) : i <= j => q[i] <= q[j]

\* Boards are in order all the way from Redis to a page: those waiting in a
\* subscription are no older than the one relayed, that one no older than
\* those under way on the replica's connections (ws.go:31-48).
FlowInv ==
    /\ \A r \in Replicas : msg[r] <= version /\ Ordered(inbox[r], msg[r], version)
    /\ \A c \in Conns :
          /\ displayed[c] <= msg[at[c]] /\ Ordered(buffer[c], displayed[c], msg[at[c]])
          /\ handler[c] = "none" => displayed[c] = 0 /\ buffer[c] = <<>>

\* On one connection boards never go back.
BoardsInOrder == [][\A c \in Conns : displayed'[c] >= displayed[c]]_vars
=============================================================================
