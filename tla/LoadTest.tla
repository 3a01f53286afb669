------------------------------ MODULE LoadTest ------------------------------
(***************************************************************************)
(* What a load test promises, however many bots share its orders: each     *)
(* order is taken once, sent once at most, and settled once: with an event *)
(* in the topic, as a failure that is counted, or skipped without having   *)
(* been sent.  Events are only of orders that were sent, none is added     *)
(* once an order is settled, and the test returns when all are settled.    *)
(***************************************************************************)
EXTENDS Naturals

CONSTANT Orders

VARIABLES
    fate,      \* of each order: "queued", "taken", "settled"
    sent,      \* orders the contestant was sent
    events,    \* events of each order in the topic
    skipped,   \* orders settled without being sent
    failures,  \* publications counted as failed
    outcome    \* "running", "returned", "killed"

vars == <<fate, sent, events, skipped, failures, outcome>>

Init ==
    /\ fate = [o \in Orders |-> "queued"]
    /\ sent = {} /\ skipped = {}
    /\ events = [o \in Orders |-> 0]
    /\ failures = 0
    /\ outcome = "running"

Settle(o) == fate' = [fate EXCEPT ![o] = "settled"]

Take(o) ==
    /\ fate[o] = "queued"
    /\ fate' = [fate EXCEPT ![o] = "taken"]
    /\ UNCHANGED <<sent, events, skipped, failures>>

Send(o) ==
    /\ fate[o] = "taken" /\ o \notin sent
    /\ sent' = sent \cup {o}
    /\ UNCHANGED <<fate, events, skipped, failures>>

Skip(o) ==
    /\ fate[o] # "settled" /\ o \notin sent
    /\ Settle(o)
    /\ skipped' = skipped \cup {o}
    /\ UNCHANGED <<sent, events, failures>>

\* Copies of the event of an order that was sent come into the topic.
Write(o) ==
    /\ fate[o] = "taken" /\ o \in sent
    /\ events' \in [Orders -> Nat]
    /\ events'[o] >= events[o]
    /\ \A p \in Orders \ {o} : events'[p] = events[p]
    /\ UNCHANGED <<sent, skipped>>

Publish(o) ==
    /\ Write(o) /\ events'[o] > events[o]
    /\ Settle(o)
    /\ UNCHANGED failures

Retry(o) ==
    /\ Write(o)
    /\ UNCHANGED <<fate, failures>>

Fail(o) ==
    /\ Write(o)
    /\ Settle(o)
    /\ failures' = failures + 1

OrderStep(o) == Take(o) \/ Send(o) \/ Skip(o) \/ Publish(o) \/ Retry(o) \/ Fail(o)

End ==
    /\ \/ outcome' = "returned" /\ \A o \in Orders : fate[o] = "settled"
       \/ outcome' = "killed"
    /\ UNCHANGED <<fate, sent, events, skipped, failures>>

Next ==
    /\ outcome = "running"
    /\ \/ \E o \in Orders : OrderStep(o) /\ UNCHANGED outcome
       \/ End

Spec == Init /\ [][Next]_vars
=============================================================================
