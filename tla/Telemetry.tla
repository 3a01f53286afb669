----------------------------- MODULE Telemetry -----------------------------
(***************************************************************************)
(* The ingest loop of cmd/telemetry/main.go and the bulk insert of         *)
(* cmd/telemetry/db.go, for every replica of the service.  The replicas    *)
(* are members of one Kafka consumer group reading topic "order-events".   *)
(* What an event says is left out: to this loop a message is an order      *)
(* event, one whose row the database refuses (run_id is any string), or    *)
(* something json.Unmarshal rejects.                                       *)
(***************************************************************************)
EXTENDS Naturals, Sequences, FiniteSets

CONSTANTS Replicas,    \* telemetry pods (k8s/hpa-telemetry.yaml scales them)
          Partitions,  \* partitions of the topic
          Nobody,      \* owner of a partition that no replica is assigned
          BatchSize,   \* 1000 in main.go
          MaxLog,      \* bound: messages produced to a partition
          MaxFaults    \* bound: crashes, errors and group changes together

ASSUME ConstantsAssumption ==
    /\ Replicas # {}
    /\ Nobody \notin Replicas
    /\ BatchSize \in Nat \ {0}
    /\ MaxLog \in Nat
    /\ MaxFaults \in Nat

VARIABLES
    log,        \* [Partitions -> Seq(Kinds)]: the topic; never shortened
    committed,  \* messages of each partition below the group's offset
    owner,      \* which replica the group assigned each partition to
    position,   \* messages of each partition its owner has fetched
    batch,      \* `batch` and `pending`, which main.go fills and clears together
    control,    \* where in the select loop each replica is
    rows,       \* copies of each message in table order_metrics
    faults      \* faults so far

vars == <<log, committed, owner, position, batch, control, rows, faults>>

Kinds == {"event", "refused", "malformed"}
Offsets == 1..MaxLog
Messages == Partitions \X Offsets

\* "loop": in the select; "flush": called flush() for a full batch;
\* "commit": the rows are in the database, CommitMessages is next.
Controls == {"loop", "flush", "commit"}

TypeOK ==
    /\ log \in [Partitions -> Seq(Kinds)]
    /\ committed \in [Partitions -> 0..MaxLog]
    /\ owner \in [Partitions -> Replicas \cup {Nobody}]
    /\ position \in [Partitions -> 0..MaxLog]
    /\ batch \in [Replicas -> Seq(Messages)]
    /\ control \in [Replicas -> Controls]
    /\ rows \in [Messages -> Nat]
    /\ faults \in 0..MaxFaults

Fault == /\ faults < MaxFaults
         /\ faults' = faults + 1

\* The places of message m in sequence s, and the messages in s.
Occurrences(s, m) == {i \in 1..Len(s) : s[i] = m}
InBatch(r, m) == \E i \in 1..Len(batch[r]) : batch[r][i] = m

IsEvent(p, o) == o \in 1..Len(log[p]) /\ log[p][o] \in {"event", "refused"}
Refused(p, o) == o \in 1..Len(log[p]) /\ log[p][o] = "refused"
NoneRefused == \A p \in Partitions, o \in Offsets : ~ Refused(p, o)

-----------------------------------------------------------------------------
Init ==
    /\ log = [p \in Partitions |-> <<>>]
    /\ committed = [p \in Partitions |-> 0]
    /\ owner = [p \in Partitions |-> Nobody]
    /\ position = [p \in Partitions |-> 0]
    /\ batch = [r \in Replicas |-> <<>>]
    /\ control = [r \in Replicas |-> "loop"]
    /\ rows = [m \in Messages |-> 0]
    /\ faults = 0

\* The fleet writes to the topic (kafkaWriter.WriteMessages).
Produce(p, kind) ==
    /\ Len(log[p]) < MaxLog
    /\ log' = [log EXCEPT ![p] = Append(@, kind)]
    /\ UNCHANGED <<committed, owner, position, batch, control, rows, faults>>

\* A generation of the group: every member reads its partitions from the
\* committed offset again (kafka-go subscribes anew in every generation).
\* What the replicas hold in memory survives the rebalance.
Assign(assignment) ==
    /\ owner' = assignment
    /\ position' = committed
    /\ UNCHANGED <<log, committed, batch, control, rows>>

\* Members take over partitions nobody reads: on startup, or after a crash.
JoinGroup ==
    /\ \E p \in Partitions : owner[p] = Nobody
    /\ \E assignment \in [Partitions -> Replicas] : Assign(assignment)
    /\ UNCHANGED faults

\* A rebalance while all partitions are being read: the autoscaler adds or
\* removes a pod, or a member misses its heartbeats.
Rebalance ==
    /\ \A p \in Partitions : owner[p] # Nobody
    /\ \E assignment \in [Partitions -> Replicas] : Assign(assignment)
    /\ Fault

\* Mutant: a full batch is flushed one event late.
FetchBeyondBatch(r, p) ==
    /\ control[r] = "loop"
    /\ owner[p] = r
    /\ position[p] < Len(log[p])
    /\ position' = [position EXCEPT ![p] = @ + 1]
    /\ IF IsEvent(p, position[p] + 1)
       THEN /\ batch' = [batch EXCEPT ![r] = Append(@, <<p, position[p] + 1>>)]
            /\ control' = [control EXCEPT ![r] =
                              IF Len(batch[r]) + 1 > BatchSize THEN "flush" ELSE "loop"]
       ELSE UNCHANGED <<batch, control>>
    /\ UNCHANGED <<log, committed, owner, rows, faults>>

\* One round of the select loop's default branch.  A malformed message is
\* logged and skipped; it joins neither batch nor pending.
Fetch(r, p) ==
    /\ control[r] = "loop"
    /\ owner[p] = r
    /\ position[p] < Len(log[p])
    /\ position' = [position EXCEPT ![p] = @ + 1]
    /\ IF IsEvent(p, position[p] + 1)
       THEN /\ batch' = [batch EXCEPT ![r] = Append(@, <<p, position[p] + 1>>)]
            /\ control' = [control EXCEPT ![r] =
                              IF Len(batch[r]) + 1 >= BatchSize THEN "flush" ELSE "loop"]
       ELSE UNCHANGED <<batch, control>>
    /\ UNCHANGED <<log, committed, owner, rows, faults>>

-----------------------------------------------------------------------------
\* Mutant: only a full batch is flushed; there is no ticker.
FlushingFull(r) == control[r] = "flush"

\* flush(): called by the ticker branch, or for a full batch.
Flushing(r) ==
    /\ control[r] \in {"loop", "flush"}
    /\ batch[r] # <<>>

\* A transaction stores all rows of the batch, or none.
Storable(r) == \A m \in Messages : InBatch(r, m) => ~ Refused(m[1], m[2])

Inserted(r) ==
    [m \in Messages |-> rows[m] + Cardinality(Occurrences(batch[r], m))]

\* flushBatchToDB commits its transaction.
FlushOK(r) ==
    /\ Flushing(r) /\ Storable(r)
    /\ rows' = Inserted(r)
    /\ control' = [control EXCEPT ![r] = "commit"]
    /\ UNCHANGED <<log, committed, owner, position, batch, faults>>

\* Mutant: the early return of main.go:61 is missing.
FlushErrorGoesOn(r) ==
    /\ Flushing(r)
    /\ Fault
    /\ rows' = rows \/ (Storable(r) /\ rows' = Inserted(r))
    /\ control' = [control EXCEPT ![r] = "commit"]
    /\ UNCHANGED <<log, committed, owner, position, batch>>

\* Mutant: a batch that could not be stored is dropped.
FlushErrorDrops(r) ==
    /\ Flushing(r)
    /\ Fault
    /\ rows' = rows \/ (Storable(r) /\ rows' = Inserted(r))
    /\ batch' = [batch EXCEPT ![r] = <<>>]
    /\ control' = [control EXCEPT ![r] = "loop"]
    /\ UNCHANGED <<log, committed, owner, position>>

\* flushBatchToDB returns an error: the transaction was rolled back, or it
\* was committed and the answer was lost.  batch and pending are kept.
FlushError(r) ==
    /\ Flushing(r)
    /\ Fault
    /\ rows' = rows \/ (Storable(r) /\ rows' = Inserted(r))
    /\ control' = [control EXCEPT ![r] = "loop"]
    /\ UNCHANGED <<log, committed, owner, position, batch>>

\* Mutant: a batch that cannot be stored is given up.
FlushRefusedDrops(r) ==
    /\ Flushing(r) /\ ~ Storable(r)
    /\ batch' = [batch EXCEPT ![r] = <<>>]
    /\ control' = [control EXCEPT ![r] = "loop"]
    /\ UNCHANGED <<log, committed, owner, position, rows, faults>>

\* The database refuses a row, so COPY fails, and the transaction is rolled
\* back.  The batch, that row in it, is kept and will be tried again.
FlushRefused(r) ==
    /\ Flushing(r) /\ ~ Storable(r)
    /\ control' = [control EXCEPT ![r] = "loop"]
    /\ UNCHANGED <<log, committed, owner, position, batch, rows, faults>>

\* Mutant: what the reader has fetched is committed, pending or not.
CommittedByReader(r, p) == position[p]

\* The offset CommitMessages sends for partition p: one past the highest
\* pending message, or nothing when pending has no message of p.
CommittedBy(r, p) ==
    LET pending == {o \in Offsets : InBatch(r, <<p, o>>)}
    IN  IF pending = {} THEN committed[p]
        ELSE CHOOSE o \in pending : \A q \in pending : q <= o

CommitTo(r) == [p \in Partitions |-> CommittedBy(r, p)]

\* Mutant: batch and pending are not reset.
CommitKeepsBatch(r) ==
    /\ control[r] = "commit"
    /\ committed' = CommitTo(r)
    /\ control' = [control EXCEPT ![r] = "loop"]
    /\ UNCHANGED <<log, owner, position, batch, rows, faults>>

\* CommitMessages succeeds; batch and pending are cleared.
CommitOK(r) ==
    /\ control[r] = "commit"
    /\ committed' = CommitTo(r)
    /\ batch' = [batch EXCEPT ![r] = <<>>]
    /\ control' = [control EXCEPT ![r] = "loop"]
    /\ UNCHANGED <<log, owner, position, rows, faults>>

\* CommitMessages returns an error, whether or not the broker took the
\* offsets.  batch and pending are kept although their rows are stored.
CommitError(r) ==
    /\ control[r] = "commit"
    /\ Fault
    /\ committed' \in {committed, CommitTo(r)}
    /\ control' = [control EXCEPT ![r] = "loop"]
    /\ UNCHANGED <<log, owner, position, batch, rows>>

\* The process dies and starts again with empty memory and no partitions.
Crash(r) ==
    /\ Fault
    /\ owner' = [p \in Partitions |-> IF owner[p] = r THEN Nobody ELSE owner[p]]
    /\ batch' = [batch EXCEPT ![r] = <<>>]
    /\ control' = [control EXCEPT ![r] = "loop"]
    /\ UNCHANGED <<log, committed, position, rows>>

-----------------------------------------------------------------------------
Next ==
    \/ \E p \in Partitions, kind \in Kinds : Produce(p, kind)
    \/ JoinGroup
    \/ Rebalance
    \/ \E r \in Replicas, p \in Partitions : Fetch(r, p)
    \/ \E r \in Replicas : FlushOK(r)
    \/ \E r \in Replicas : FlushError(r)
    \/ \E r \in Replicas : FlushRefused(r)
    \/ \E r \in Replicas : CommitOK(r)
    \/ \E r \in Replicas : CommitError(r)
    \/ \E r \in Replicas : Crash(r)

Spec == Init /\ [][Next]_vars

\* The loop never stops, the ticker fires every second and the group
\* coordinator hands out unread partitions.  Faults end (MaxFaults); no
\* fairness is asked of the producer.
Fairness ==
    /\ WF_vars(JoinGroup)
    /\ \A r \in Replicas : /\ \A p \in Partitions : WF_vars(Fetch(r, p))
                           /\ WF_vars(FlushOK(r) \/ FlushRefused(r))
                           /\ WF_vars(CommitOK(r))

FairSpec == Spec /\ Fairness
-----------------------------------------------------------------------------
\* An event's row is in the table, or replica r still holds the event.
Stored(p, o) == rows[<<p, o>>] > 0
StoredOrHeld(r, p, o) == Stored(p, o) \/ InBatch(r, <<p, o>>)

\* The group's offset never passes an event whose row is not in the table,
\* through crashes, failed flushes, lost answers and rebalances: offsets are
\* committed only after the insert, and for everything held (main.go:55-69).
CommittedIsStored ==
    \A p \in Partitions : \A o \in 1..committed[p] : IsEvent(p, o) => Stored(p, o)

\* Why CommittedIsStored is inductive.
LogBounded ==
    \A p \in Partitions : /\ committed[p] <= Len(log[p])
                          /\ position[p] <= Len(log[p])
                          /\ Len(log[p]) <= MaxLog

BatchHoldsEvents ==
    \A r \in Replicas : \A i \in 1..Len(batch[r]) : IsEvent(batch[r][i][1], batch[r][i][2])

FetchedIsHeld ==
    \A p \in Partitions : owner[p] # Nobody =>
        \A o \in 1..position[p] : IsEvent(p, o) => StoredOrHeld(owner[p], p, o)

HeldWithPredecessors ==
    \A r \in Replicas, p \in Partitions, o \in Offsets : InBatch(r, <<p, o>>) =>
        \A q \in 1..o : IsEvent(p, q) => StoredOrHeld(r, p, q)

CommittingIsStored ==
    \A r \in Replicas : control[r] = "commit" =>
        \A m \in Messages : InBatch(r, m) => rows[m] > 0

NoLossInv ==
    /\ TypeOK
    /\ LogBounded
    /\ BatchHoldsEvents
    /\ CommittedIsStored
    /\ FetchedIsHeld
    /\ HeldWithPredecessors
    /\ CommittingIsStored

\* Redelivery multiplies rows, and order_metrics has no key that would stop
\* it: one fault at most doubles the copies of a row, and without faults
\* every event has one (batch and pending cleared together, main.go:67-68).
CopiesBounded == \A m \in Messages : rows[m] <= 2^faults

\* Why that is so.  More copies of m may come from every place of a batch that
\* is not stored, from its partition's owner when it has not read m yet, and
\* from a generation that has to come because a partition has no owner.
Awaiting(m) ==
    UNION {{r} \X Occurrences(batch[r], m) : r \in {q \in Replicas : control[q] # "commit"}}

Unread(m) == owner[m[1]] # Nobody /\ position[m[1]] < m[2]
Unassigned == \E p \in Partitions : owner[p] = Nobody
One(condition) == IF condition THEN 1 ELSE 0

Expected(m) == rows[m] + Cardinality(Awaiting(m)) + One(Unread(m)) + One(Unassigned)

\* Rows, and copies of them to be expected, at most double with a fault: to
\* store a batch again adds no more rows of m than it will add, or has added.
CopiesInv ==
    /\ \A m \in Messages : IsFiniteSet(Awaiting(m)) /\ Expected(m) <= 2^faults
    /\ \A r \in Replicas : control[r] = "commit" =>
          \A m \in Messages : Cardinality(Occurrences(batch[r], m)) <= rows[m]

\* Until something fails, what replica r has fetched and not committed is what
\* it holds, at most a batch: a first crash re-reads no more than BatchSize
\* events (main.go:94-102, where both slices grow together up to the limit).
Uncommitted(r) ==
    {m \in Messages : /\ owner[m[1]] = r
                      /\ IsEvent(m[1], m[2])
                      /\ committed[m[1]] < m[2] /\ m[2] <= position[m[1]]}

FirstCrashRereadsABatch ==
    faults = 0 /\ NoneRefused =>
        \A r \in Replicas : Cardinality(Uncommitted(r)) <= BatchSize

\* Why that is so.  Until something fails a partition keeps the owner it was
\* first given, and a batch holds exactly the events its replica has fetched
\* and not committed (main.go:94-102, 67-68).
FullyHeld ==
    /\ \A r \in Replicas : /\ Len(batch[r]) <= BatchSize
                           /\ control[r] = "loop" => Len(batch[r]) < BatchSize
                           /\ \A m \in Uncommitted(r) : InBatch(r, m)
    /\ \A r \in Replicas, p \in Partitions, o \in Offsets :
          InBatch(r, <<p, o>>) => owner[p] = r /\ o \in (committed[p] + 1)..position[p]
    /\ \A p, q \in Partitions : owner[p] = Nobody => owner[q] = Nobody
    /\ \A p \in Partitions : owner[p] # Nobody => committed[p] <= position[p]

RereadInv == faults = 0 /\ NoneRefused => FullyHeld

\* An event whose row the database refuses is never skipped: the offset of its
\* partition stays in front of it, so that every restart reads it again
\* (main.go:59-62).  Nor is it ever stored by a transaction with others.
RefusedBlocks ==
    \A p \in Partitions, o \in Offsets :
        Refused(p, o) => committed[p] < o /\ rows[<<p, o>>] = 0

\* Every event the topic holds reaches the table, whichever replica it was
\* handed to and however often the partition moved, as long as the database
\* refuses none: one such event keeps all that are in a batch with it out.
EventuallyStored ==
    \A p \in Partitions, o \in Offsets : IsEvent(p, o) ~> Stored(p, o) \/ ~ NoneRefused

\* No replica keeps events in memory for ever: the ticker flushes a partial
\* batch, and a batch whose flush failed is flushed again (main.go:75-76).
BatchesDrain == \A r \in Replicas : []<>(batch[r] = <<>> \/ ~ NoneRefused)

\* The replicas together implement at-least-once ingestion: the group's
\* offsets are the acknowledgements, the table is the table.
AtLeastOnce == INSTANCE Ingestion WITH acknowledged <- committed
ImplementsIngestion == AtLeastOnce!Spec

\* ARCHITECTURE.md:77: partitions "allow multiple Telemetry pods to consume
\* messages concurrently without overlapping".
NoOverlap ==
    \A r, q \in Replicas, m \in Messages : InBatch(r, m) /\ InBatch(q, m) => r = q

\* It is what a fault breaks: until the first one a partition keeps the owner
\* it was first given, and only its owner holds messages of it.
HeldByOwner ==
    /\ \A r \in Replicas, m \in Messages : InBatch(r, m) => owner[m[1]] = r
    /\ \A p, q \in Partitions : owner[p] = Nobody => owner[q] = Nobody
=============================================================================
