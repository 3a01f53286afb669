------------------------------ MODULE Pipeline ------------------------------
(***************************************************************************)
(* From the bots to the table: a load test and the telemetry replicas,     *)
(* which have nothing in common but the topic.  The run's messages are     *)
(* among others, of other runs, and in any partition.                      *)
(***************************************************************************)
EXTENDS Naturals, Sequences, FiniteSets, TLAPS

CONSTANTS
    Bots, NumOrders, TPS, Attempts, MaxCopies,                        \* of Fleet
    Replicas, Partitions, Nobody, BatchSize, MaxLog, MaxFaults,       \* of Telemetry
    OrderOf    \* the order of this run a message of the topic is about, or something else

VARIABLES
    request, fed, next, main, tokens, pc, order, tries, conn, copies, publishFailures, dropped,
    sent, window,                                                     \* of Fleet
    log, committed, owner, position, batch, control, rows, faults     \* of Telemetry

Run == INSTANCE FleetProofs
Group == INSTANCE TelemetryProofs

\* The messages of the topic that are events of order o.
EventsOf(o) == {m \in Group!Messages : Group!IsEvent(m[1], m[2]) /\ OrderOf[m] = o}

\* What joins the two: an event that was published is in a partition of the
\* topic, and is not malformed: worker.go:117-144 marshals what main.go:86
\* unmarshals.
TopicHoldsPublished == \A o \in Run!Orders : copies[o] > 0 => EventsOf(o) # {}

\* The run was over HTTP and startLoadTest returned nil.
CleanRun == Run!Succeeded /\ Run!Rest /\ request.endpoint = "valid"

\* Every order of a clean run has a row, or an event that the group has yet to
\* acknowledge.
ArrivesCompletely ==
    CleanRun => \A o \in Run!Orders : \E m \in EventsOf(o) :
        rows[m] > 0 \/ committed[m[1]] < m[2]

\* Nothing of a clean run is lost on its way to order_metrics, whatever fails,
\* moves or dies on either side, at any time (worker.go:105-160, main.go:55-104):
\* an order without a row still waits in the topic, and will be read again.
THEOREM CleanRunsArrive ==
    ASSUME Run!RequestAssumption, Group!ConstantsAssumption
    PROVE  Run!Spec /\ Group!Spec /\ []TopicHoldsPublished => []ArrivesCompletely
<1>1. Run!CleanRunIsComplete /\ Group!NoLossInv /\ TopicHoldsPublished => ArrivesCompletely
  <2> SUFFICES ASSUME Run!CleanRunIsComplete, Group!NoLossInv, TopicHoldsPublished,
                      CleanRun, NEW o \in Run!Orders
               PROVE  \E m \in EventsOf(o) : rows[m] > 0 \/ committed[m[1]] < m[2]
    BY DEF ArrivesCompletely
  <2>1. copies[o] > 0
    BY DEF CleanRun, Run!CleanRunIsComplete, Run!Published
  <2>2. PICK m \in EventsOf(o) : TRUE
    BY <2>1 DEF TopicHoldsPublished
  <2>3. PICK p \in Partitions, i \in 1..MaxLog : m = <<p, i>>
    BY DEF EventsOf, Group!Messages, Group!Offsets
  <2>4. Group!IsEvent(p, i) /\ committed[p] \in Nat
    BY <2>3 DEF EventsOf, Group!NoLossInv, Group!TypeOK
  <2>5. i <= committed[p] => rows[<<p, i>>] > 0
    BY <2>4 DEF Group!NoLossInv, Group!CommittedIsStored, Group!Stored
  <2> QED
    BY <2>3, <2>4, <2>5
<1> QED
  BY <1>1, Run!CleanRunPublishesAll, Group!NoLoss, PTL
=============================================================================
