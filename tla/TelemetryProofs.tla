-------------------------- MODULE TelemetryProofs --------------------------
(***************************************************************************)
(* Proofs about Telemetry for any set of replicas and partitions and any   *)
(* bounds: no committed event is missing from the table, and the service   *)
(* implements at-least-once ingestion.                                     *)
(***************************************************************************)
EXTENDS Telemetry, Integers, FiniteSetTheorems,
        SequenceTheorems, WellFoundedInduction, TLAPS

\* A nonempty set of offsets has a greatest one.
LEMMA BoundedMaximum ==
    ASSUME NEW N \in Nat, NEW S \in SUBSET (1..N), S # {}
    PROVE  \E o \in S : \A q \in S : q <= o
<1> DEFINE R == {ss \in Nat \X Nat : ss[1] < ss[2]}
           T == {n \in Nat : \E s \in S : n = N - s}
<1>1. IsWellFoundedOn(R, Nat)
  BY NatLessThanWellFounded DEF OpToRel
<1>2. T \subseteq Nat /\ T # {}
  <2>1. PICK s \in S : TRUE
    OBVIOUS
  <2>2. N - s \in T
    BY <2>1
  <2> QED
    BY <2>2
<1> HIDE DEF R, T
<1>3. PICK n \in T : \A m \in T : <<m, n>> \notin R
  BY <1>1, <1>2, WFMin
<1>4. PICK s \in S : n = N - s
  BY DEF T
<1>5. ASSUME NEW q \in S PROVE q <= s
  <2>1. N - q \in T
    BY DEF T
  <2>2. ~ (N - q < n)
    BY <1>3, <2>1, <1>2 DEF R
  <2> QED
    BY <1>4, <2>2
<1> QED
  BY <1>5

\* The offset a flush commits is that of a message it holds, the last one of
\* the partition; a partition with no message held keeps its offset.
LEMMA CommittedByIsLast ==
    ASSUME TypeOK, NEW r \in Replicas, NEW p \in Partitions
    PROVE  \/ CommittedBy(r, p) = committed[p]
           \/ CommittedBy(r, p) \in Offsets /\ InBatch(r, <<p, CommittedBy(r, p)>>)
<1> DEFINE pending == {o \in Offsets : InBatch(r, <<p, o>>)}
<1>1. CASE pending = {}
  BY <1>1 DEF CommittedBy
<1>2. CASE pending # {}
  <2>1. \E o \in pending : \A q \in pending : q <= o
    BY <1>2, BoundedMaximum, ConstantsAssumption DEF Offsets
  <2>2. CommittedBy(r, p) = CHOOSE o \in pending : \A q \in pending : q <= o
    BY <1>2 DEF CommittedBy
  <2>3. CommittedBy(r, p) \in pending
    BY <2>1, <2>2
  <2> QED
    BY <2>3
<1> QED
  BY <1>1, <1>2

\* The insert adds one row for every place of a message in the batch.
LEMMA InsertedCounts ==
    ASSUME TypeOK, NEW r \in Replicas
    PROVE  /\ Inserted(r) \in [Messages -> Nat]
           /\ \A m \in Messages : /\ Inserted(r)[m] >= rows[m]
                                  /\ InBatch(r, m) => Inserted(r)[m] > 0
                                  /\ Inserted(r)[m] > rows[m] => InBatch(r, m)
<1> SUFFICES ASSUME NEW m \in Messages
             PROVE  /\ Inserted(r)[m] \in Nat
                    /\ Inserted(r)[m] >= rows[m]
                    /\ InBatch(r, m) => Inserted(r)[m] > 0
                    /\ Inserted(r)[m] > rows[m] => InBatch(r, m)
  BY DEF Inserted
<1> DEFINE places == Occurrences(batch[r], m)
<1>1. batch[r] \in Seq(Messages) /\ rows[m] \in Nat
  BY DEF TypeOK
<1>2. Len(batch[r]) \in Int /\ 1 \in Int
  BY <1>1
<1>3. IsFiniteSet(1..Len(batch[r]))
  BY <1>2, FS_Interval
<1>4. places \in SUBSET (1..Len(batch[r]))
  BY DEF Occurrences
<1>5. IsFiniteSet(places)
  BY <1>3, <1>4, FS_Subset
<1>6. Cardinality(places) \in Nat /\ (Cardinality(places) = 0 <=> places = {})
  BY <1>5, FS_CardinalityType, FS_EmptySet
<1>7. places # {} <=> InBatch(r, m)
  BY <1>1 DEF Occurrences, InBatch
<1>8. Inserted(r)[m] = rows[m] + Cardinality(places)
  BY DEF Inserted
<1> QED
  BY <1>1, <1>6, <1>7, <1>8

-----------------------------------------------------------------------------
LEMMA InitNoLoss == Init => NoLossInv
<1> SUFFICES ASSUME Init PROVE NoLossInv
  OBVIOUS
<1> USE ConstantsAssumption DEF Init, Offsets, Messages
<1>1. TypeOK
  BY DEF TypeOK, Controls, Kinds
<1>2. \A r \in Replicas : Len(batch[r]) = 0
  OBVIOUS
<1>3. \A r \in Replicas : \A m : ~ InBatch(r, m)
  BY <1>2 DEF InBatch
<1>4. LogBounded /\ CommittedIsStored /\ FetchedIsHeld
  BY DEF LogBounded, CommittedIsStored, FetchedIsHeld
<1>5. BatchHoldsEvents /\ HeldWithPredecessors /\ CommittingIsStored
  BY <1>2, <1>3 DEF BatchHoldsEvents, HeldWithPredecessors, CommittingIsStored
<1> QED
  BY <1>1, <1>4, <1>5 DEF NoLossInv

\* The topic only grows: what was an event stays one, and what is new lies
\* beyond everything fetched, held or committed.
LEMMA ProduceNoLoss ==
    ASSUME NoLossInv, NEW p \in Partitions, NEW kind \in Kinds, Produce(p, kind)
    PROVE  NoLossInv'
<1> USE ConstantsAssumption
<1>1. TypeOK /\ LogBounded
  BY DEF NoLossInv
<1>2. /\ UNCHANGED <<committed, owner, position, batch, control, rows, faults>>
      /\ Len(log[p]) < MaxLog
      /\ log' = [log EXCEPT ![p] = Append(log[p], kind)]
  BY DEF Produce
<1>3. /\ log' \in [Partitions -> Seq(Kinds)]
      /\ Len(log'[p]) = Len(log[p]) + 1
      /\ \A q \in Partitions : Len(log'[q]) >= Len(log[q]) /\ Len(log'[q]) <= MaxLog
  BY <1>1, <1>2 DEF TypeOK, LogBounded
<1>4. \A q \in Partitions : \A o \in 1..Len(log[q]) : IsEvent(q, o)' <=> IsEvent(q, o)
  BY <1>1, <1>2, <1>3 DEF TypeOK, IsEvent
<1>5. TypeOK' /\ LogBounded'
  BY <1>1, <1>2, <1>3 DEF TypeOK, LogBounded
<1>6. \A r \in Replicas : \A i \in 1..Len(batch[r]) :
         /\ batch[r][i][1] \in Partitions
         /\ batch[r][i][2] \in 1..Len(log[batch[r][i][1]])
  <2> SUFFICES ASSUME NEW r \in Replicas, NEW i \in 1..Len(batch[r])
               PROVE  /\ batch[r][i][1] \in Partitions
                      /\ batch[r][i][2] \in 1..Len(log[batch[r][i][1]])
    OBVIOUS
  <2>1. batch[r][i] \in Messages
    BY <1>1, ElementOfSeq DEF TypeOK
  <2>2. IsEvent(batch[r][i][1], batch[r][i][2])
    BY DEF NoLossInv, BatchHoldsEvents
  <2> QED
    BY <2>1, <2>2 DEF Messages, IsEvent
<1>7. BatchHoldsEvents'
  BY <1>2, <1>4, <1>6 DEF NoLossInv, BatchHoldsEvents
<1>8. CommittedIsStored'
  BY <1>1, <1>2, <1>4 DEF NoLossInv, CommittedIsStored, LogBounded, TypeOK, Stored
<1>9. FetchedIsHeld'
  <2> SUFFICES ASSUME NEW q \in Partitions, owner[q] # Nobody,
                      NEW o \in 1..position[q], IsEvent(q, o)'
               PROVE  StoredOrHeld(owner[q], q, o)
    BY <1>2 DEF FetchedIsHeld, StoredOrHeld, Stored, InBatch
  <2>1. o \in 1..Len(log[q])
    BY <1>1 DEF LogBounded, TypeOK
  <2> QED
    BY <2>1, <1>4 DEF NoLossInv, FetchedIsHeld
<1>10. HeldWithPredecessors'
  <2> SUFFICES ASSUME NEW r \in Replicas, NEW q \in Partitions, NEW o \in Offsets,
                      InBatch(r, <<q, o>>), NEW x \in 1..o, IsEvent(q, x)'
               PROVE  StoredOrHeld(r, q, x)
    <3>1. \A r \in Replicas, q \in Partitions, o \in Offsets : InBatch(r, <<q, o>>)' <=> InBatch(r, <<q, o>>)
      BY <1>2 DEF InBatch
    <3>2. \A r \in Replicas, q \in Partitions : \A o : StoredOrHeld(r, q, o)' <=> StoredOrHeld(r, q, o)
      BY <1>2 DEF StoredOrHeld, Stored, InBatch
    <3> QED  BY <3>1, <3>2 DEF HeldWithPredecessors
  <2>1. o \in 1..Len(log[q])
    BY <1>6 DEF InBatch
  <2>2. x \in 1..Len(log[q])
    BY <2>1, <1>1 DEF TypeOK
  <2> QED
    BY <2>2, <1>4 DEF NoLossInv, HeldWithPredecessors
<1>11. CommittingIsStored'
  BY <1>2 DEF NoLossInv, CommittingIsStored, InBatch
<1> QED
  BY <1>5, <1>7, <1>8, <1>9, <1>10, <1>11 DEF NoLossInv

\* A new generation starts every partition at the committed offset, up to
\* which every event is stored; what replicas hold is theirs as before.
LEMMA AssignNoLoss ==
    ASSUME NoLossInv, NEW assignment \in [Partitions -> Replicas], Assign(assignment),
           faults' \in 0..MaxFaults
    PROVE  NoLossInv'
<1>1. /\ UNCHANGED <<log, committed, batch, control, rows>>
      /\ owner' = assignment /\ position' = committed
  BY DEF Assign
<1>2. TypeOK'
  BY <1>1 DEF NoLossInv, TypeOK
<1>3. LogBounded' /\ BatchHoldsEvents' /\ CommittedIsStored'
  BY <1>1 DEF NoLossInv, LogBounded, BatchHoldsEvents, CommittedIsStored, IsEvent, Stored
<1>4. FetchedIsHeld'
  BY <1>1 DEF NoLossInv, FetchedIsHeld, CommittedIsStored, IsEvent, StoredOrHeld, Stored
<1>5. HeldWithPredecessors' /\ CommittingIsStored'
  BY <1>1 DEF NoLossInv, HeldWithPredecessors, CommittingIsStored, IsEvent, StoredOrHeld,
              Stored, InBatch
<1> QED
  BY <1>2, <1>3, <1>4, <1>5 DEF NoLossInv

\* Appending m to a batch makes m held, and takes nothing away.
LEMMA AppendHolds ==
    ASSUME TypeOK, NEW r \in Replicas, NEW m \in Messages,
           batch' = [batch EXCEPT ![r] = Append(batch[r], m)]
    PROVE  /\ batch' \in [Replicas -> Seq(Messages)]
           /\ \A q \in Replicas : \A x : InBatch(q, x)' <=> InBatch(q, x) \/ (q = r /\ x = m)
<1>1. batch[r] \in Seq(Messages)
  BY DEF TypeOK
<1>2. batch' \in [Replicas -> Seq(Messages)]
  BY <1>1 DEF TypeOK
<1>3. ASSUME NEW q \in Replicas, q # r, NEW x PROVE InBatch(q, x)' <=> InBatch(q, x)
  BY <1>3 DEF TypeOK, InBatch
<1>4. batch'[r] = Append(batch[r], m)
  BY DEF TypeOK
<1>5. ASSUME NEW x PROVE InBatch(r, x)' <=> InBatch(r, x) \/ x = m
  <2>1. /\ Len(batch'[r]) = Len(batch[r]) + 1 /\ Len(batch[r]) \in Nat
        /\ batch'[r][Len(batch[r]) + 1] = m
        /\ \A i \in 1..Len(batch[r]) : batch'[r][i] = batch[r][i]
    BY <1>1, <1>4
  <2>2. \A i \in 1..Len(batch'[r]) : i \in 1..Len(batch[r]) \/ i = Len(batch[r]) + 1
    BY <2>1
  <2>3. 1..Len(batch[r]) \subseteq 1..Len(batch'[r])
        /\ Len(batch[r]) + 1 \in 1..Len(batch'[r])
    BY <2>1
  <2> QED
    BY <2>1, <2>2, <2>3 DEF InBatch
<1> QED
  BY <1>2, <1>3, <1>5

\* A fetched event is held by the owner, next to all the events before it.
LEMMA FetchNoLoss ==
    ASSUME NoLossInv, NEW r \in Replicas, NEW p \in Partitions, Fetch(r, p)
    PROVE  NoLossInv'
<1> USE ConstantsAssumption
<1>1. TypeOK /\ LogBounded
  BY DEF NoLossInv
<1> DEFINE next == position[p] + 1
<1>2. /\ UNCHANGED <<log, committed, owner, rows, faults>>
      /\ owner[p] = r /\ r # Nobody /\ position[p] \in Nat
      /\ next \in 1..Len(log[p]) /\ next \in Offsets
      /\ position' = [position EXCEPT ![p] = next]
  BY <1>1 DEF Fetch, TypeOK, LogBounded, Offsets
<1>3. \A q, o : IsEvent(q, o)' <=> IsEvent(q, o)
  BY <1>2 DEF IsEvent
<1>4. position' \in [Partitions -> 0..MaxLog] /\ LogBounded'
  BY <1>1, <1>2 DEF TypeOK, LogBounded, Offsets
<1>5. CommittedIsStored'
  BY <1>2, <1>3 DEF NoLossInv, CommittedIsStored, Stored
<1>6. CASE ~ IsEvent(p, next)
  <2>1. batch' = batch /\ control' = control
    BY <1>6 DEF Fetch
  <2>2. TypeOK' /\ BatchHoldsEvents' /\ CommittingIsStored'
    BY <2>1, <1>1, <1>2, <1>3, <1>4 DEF TypeOK, NoLossInv, BatchHoldsEvents, CommittingIsStored, InBatch
  <2>3. HeldWithPredecessors'
    <3>1. \A q, x : InBatch(q, x)' <=> InBatch(q, x)
      BY <2>1 DEF InBatch
    <3>2. \A q, x, o : StoredOrHeld(q, x, o)' <=> StoredOrHeld(q, x, o)
      BY <1>2, <3>1 DEF StoredOrHeld, Stored
    <3> QED
      BY <1>3, <3>1, <3>2 DEF NoLossInv, HeldWithPredecessors
  <2>4. FetchedIsHeld'
    <3> SUFFICES ASSUME NEW q \in Partitions, owner[q] # Nobody,
                        NEW o \in 1..position'[q], IsEvent(q, o)
                 PROVE  StoredOrHeld(owner[q], q, o)
      BY <1>2, <1>3, <2>1 DEF FetchedIsHeld, StoredOrHeld, Stored, InBatch
    <3>1. o \in 1..position[q]
      BY <1>1, <1>2, <1>6 DEF TypeOK
    <3> QED
      BY <3>1 DEF NoLossInv, FetchedIsHeld
  <2> QED
    BY <2>2, <2>3, <2>4, <1>4, <1>5 DEF NoLossInv
<1>7. CASE IsEvent(p, next)
  <2> DEFINE m == <<p, next>>
  <2>1. m \in Messages /\ batch' = [batch EXCEPT ![r] = Append(batch[r], m)]
    BY <1>2, <1>7 DEF Fetch, Messages
  <2>2. /\ batch' \in [Replicas -> Seq(Messages)]
        /\ \A q \in Replicas : \A x : InBatch(q, x)' <=> InBatch(q, x) \/ (q = r /\ x = m)
    BY <1>1, <2>1, AppendHolds
  <2>3. /\ control[r] = "loop"
        /\ control' = [control EXCEPT ![r] =
                          IF Len(batch[r]) + 1 >= BatchSize THEN "flush" ELSE "loop"]
    BY <1>7 DEF Fetch
  <2>4. control' \in [Replicas -> Controls] /\ control'[r] # "commit"
        /\ \A q \in Replicas : q # r => control'[q] = control[q]
    BY <1>1, <2>3 DEF TypeOK, Controls
  <2>5. TypeOK'
    BY <1>1, <1>2, <1>4, <2>2, <2>4 DEF TypeOK
  <2>6. CommittingIsStored'
    BY <1>2, <2>2, <2>4 DEF NoLossInv, CommittingIsStored
  <2>7. BatchHoldsEvents'
    <3> SUFFICES ASSUME NEW q \in Replicas, NEW x, InBatch(q, x)'
                 PROVE  IsEvent(x[1], x[2])
      BY <1>3 DEF BatchHoldsEvents, InBatch
    <3>1. CASE InBatch(q, x)
      BY <3>1 DEF InBatch, NoLossInv, BatchHoldsEvents
    <3>2. CASE x = m
      BY <3>2, <1>7
    <3> QED
      BY <3>1, <3>2, <2>2
  <2>8. \A q \in Replicas, x \in Partitions : \A o : StoredOrHeld(q, x, o) => StoredOrHeld(q, x, o)'
    BY <1>2, <2>2 DEF StoredOrHeld, Stored
  <2>9. FetchedIsHeld'
    <3> SUFFICES ASSUME NEW q \in Partitions, owner[q] # Nobody,
                        NEW o \in 1..position'[q], IsEvent(q, o)
                 PROVE  StoredOrHeld(owner[q], q, o)'
      BY <1>2, <1>3 DEF FetchedIsHeld, StoredOrHeld
    <3>1. owner[q] \in Replicas
      BY <1>1 DEF TypeOK
    <3>2. CASE o \in 1..position[q]
      <4>1. StoredOrHeld(owner[q], q, o)
        BY <3>2 DEF NoLossInv, FetchedIsHeld
      <4> QED
        BY <4>1, <3>1, <1>2, <2>2 DEF StoredOrHeld, Stored
    <3>3. CASE q = p /\ o = next
      BY <3>3, <1>2, <2>2 DEF StoredOrHeld
    <3> QED
      BY <3>2, <3>3, <1>1, <1>2 DEF TypeOK
  <2>10. HeldWithPredecessors'
    <3> SUFFICES ASSUME NEW q \in Replicas, NEW x \in Partitions, NEW o \in Offsets,
                        InBatch(q, <<x, o>>)', NEW y \in 1..o, IsEvent(x, y)
                 PROVE  StoredOrHeld(q, x, y)'
      BY <1>3 DEF HeldWithPredecessors
    <3>1. CASE InBatch(q, <<x, o>>)
      BY <3>1, <2>8 DEF NoLossInv, HeldWithPredecessors
    <3>2. CASE q = r /\ x = p /\ o = next
      <4>1. y \in 1..position[p] \/ y = next
        BY <3>2, <1>2 DEF Offsets
      <4>2. y \in 1..position[p] => StoredOrHeld(r, p, y)
        BY <3>2, <1>2 DEF NoLossInv, FetchedIsHeld
      <4>3. y = next => StoredOrHeld(r, p, y)'
        BY <2>2 DEF StoredOrHeld
      <4> QED
        BY <3>2, <4>1, <4>2, <4>3, <2>8
    <3> QED
      BY <3>1, <3>2, <2>2
  <2> QED
    BY <2>5, <2>6, <2>7, <2>9, <2>10, <1>4, <1>5 DEF NoLossInv
<1> QED
  BY <1>6, <1>7

\* More rows leave every stored event stored.  A replica goes on to commit
\* only when what it holds is stored.
LEMMA InsertNoLoss ==
    ASSUME NoLossInv, NEW r \in Replicas, NEW next \in Controls,
           rows' = rows \/ rows' = Inserted(r), next = "commit" => rows' = Inserted(r),
           control' = [control EXCEPT ![r] = next],
           UNCHANGED <<log, committed, owner, position, batch>>, faults' \in 0..MaxFaults
    PROVE  NoLossInv'
<1>1. TypeOK
  BY DEF NoLossInv
<1>2. rows' \in [Messages -> Nat] /\ \A m \in Messages : rows'[m] >= rows[m]
  BY <1>1, InsertedCounts DEF TypeOK
<1>3. control' \in [Replicas -> Controls]
      /\ \A q \in Replicas : q # r => control'[q] = control[q]
      /\ control'[r] = next
  BY <1>1 DEF TypeOK
<1>4. TypeOK' /\ LogBounded' /\ BatchHoldsEvents'
  BY <1>1, <1>2, <1>3 DEF NoLossInv, TypeOK, LogBounded, BatchHoldsEvents, IsEvent
<1>5. /\ \A q, o : IsEvent(q, o)' <=> IsEvent(q, o)
      /\ \A q, x : InBatch(q, x)' <=> InBatch(q, x)
  BY DEF IsEvent, InBatch
<1>6. \A p \in Partitions, o \in Offsets : Stored(p, o) => Stored(p, o)'
  BY <1>1, <1>2 DEF TypeOK, Stored, Messages
<1>7. \A p \in Partitions : /\ committed[p] \in 0..MaxLog /\ position[p] \in 0..MaxLog
                             /\ 1..committed[p] \subseteq Offsets
                             /\ 1..position[p] \subseteq Offsets
  BY <1>1, ConstantsAssumption DEF TypeOK, Offsets
<1>8. CommittedIsStored'
  BY <1>5, <1>6, <1>7 DEF NoLossInv, CommittedIsStored
<1>9. \A q \in Replicas, p \in Partitions, o \in Offsets :
         StoredOrHeld(q, p, o) => StoredOrHeld(q, p, o)'
  BY <1>5, <1>6 DEF StoredOrHeld
<1>10. FetchedIsHeld'
  <2> SUFFICES ASSUME NEW p \in Partitions, owner[p] # Nobody,
                      NEW o \in 1..position[p], IsEvent(p, o)
               PROVE  StoredOrHeld(owner[p], p, o)'
    BY <1>5 DEF FetchedIsHeld
  <2>1. StoredOrHeld(owner[p], p, o)
    BY DEF NoLossInv, FetchedIsHeld
  <2>2. owner[p] \in Replicas /\ o \in Offsets
    BY <1>1, <1>7 DEF TypeOK
  <2> QED
    BY <2>1, <2>2, <1>5, <1>6 DEF StoredOrHeld
<1>11. HeldWithPredecessors'
  <2> SUFFICES ASSUME NEW q \in Replicas, NEW p \in Partitions, NEW o \in Offsets,
                      InBatch(q, <<p, o>>), NEW x \in 1..o, IsEvent(p, x)
               PROVE  StoredOrHeld(q, p, x)'
    BY <1>5 DEF HeldWithPredecessors
  <2>1. x \in Offsets
    BY ConstantsAssumption DEF Offsets
  <2>2. StoredOrHeld(q, p, x)
    BY DEF NoLossInv, HeldWithPredecessors
  <2> QED
    BY <2>1, <2>2, <1>9
<1>12. CommittingIsStored'
  <2> SUFFICES ASSUME NEW q \in Replicas, control'[q] = "commit",
                      NEW m \in Messages, InBatch(q, m)
               PROVE  rows'[m] > 0
    BY <1>5 DEF CommittingIsStored
  <2>1. CASE q = r
    BY <2>1, <1>1, <1>3, InsertedCounts
  <2>2. CASE q # r
    <3>1. rows[m] > 0
      BY <2>2, <1>3 DEF NoLossInv, CommittingIsStored
    <3> QED
      BY <3>1, <1>1, <1>2 DEF TypeOK
  <2> QED
    BY <2>1, <2>2
<1> QED
  BY <1>4, <1>8, <1>10, <1>11, <1>12 DEF NoLossInv

\* What CommitTo acknowledges is stored: for the last message a replica holds
\* of a partition, every event before it is stored or held, and what the
\* replica holds is stored by now.
LEMMA CommitIsStored ==
    ASSUME NoLossInv, NEW r \in Replicas, control[r] = "commit"
    PROVE  /\ CommitTo(r) \in [Partitions -> 0..MaxLog]
           /\ \A p \in Partitions :
                 /\ CommitTo(r)[p] <= Len(log[p])
                 /\ \A o \in 1..CommitTo(r)[p] : IsEvent(p, o) => Stored(p, o)
<1> SUFFICES ASSUME NEW p \in Partitions
             PROVE  /\ CommittedBy(r, p) \in 0..MaxLog
                    /\ CommittedBy(r, p) <= Len(log[p])
                    /\ \A o \in 1..CommittedBy(r, p) : IsEvent(p, o) => Stored(p, o)
  BY DEF CommitTo
<1>1. TypeOK /\ LogBounded
  BY DEF NoLossInv
<1>2. CASE CommittedBy(r, p) = committed[p]
  BY <1>1, <1>2 DEF TypeOK, LogBounded, NoLossInv, CommittedIsStored
<1>3. CASE CommittedBy(r, p) \in Offsets /\ InBatch(r, <<p, CommittedBy(r, p)>>)
  <2> DEFINE last == CommittedBy(r, p)
  <2>1. IsEvent(p, last)
    BY <1>3 DEF InBatch, NoLossInv, BatchHoldsEvents
  <2>2. last \in 0..MaxLog /\ last <= Len(log[p])
    BY <1>1, <1>3, <2>1, ConstantsAssumption DEF IsEvent, Offsets, TypeOK
  <2>3. ASSUME NEW o \in 1..last, IsEvent(p, o) PROVE Stored(p, o)
    <3>1. StoredOrHeld(r, p, o)
      BY <1>3, <2>3 DEF NoLossInv, HeldWithPredecessors
    <3>2. <<p, o>> \in Messages
      BY <2>2, ConstantsAssumption DEF Messages, Offsets
    <3> QED
      BY <3>1, <3>2 DEF StoredOrHeld, Stored, NoLossInv, CommittingIsStored
  <2> QED
    BY <2>2, <2>3
<1> QED
  BY <1>1, <1>2, <1>3, CommittedByIsLast

\* Committing what is stored, and clearing the batch or keeping it, loses
\* nothing: what is cleared is stored.
LEMMA CommitNoLoss ==
    ASSUME NoLossInv, NEW r \in Replicas, control[r] = "commit",
           committed' = committed \/ committed' = CommitTo(r),
           batch' = batch \/ batch' = [batch EXCEPT ![r] = <<>>],
           control' = [control EXCEPT ![r] = "loop"],
           UNCHANGED <<log, owner, position, rows>>, faults' \in 0..MaxFaults
    PROVE  NoLossInv'
<1>1. TypeOK /\ LogBounded
  BY DEF NoLossInv
<1>2. /\ committed' \in [Partitions -> 0..MaxLog]
      /\ \A p \in Partitions : committed'[p] <= Len(log[p])
      /\ \A p \in Partitions : \A o \in 1..committed'[p] : IsEvent(p, o) => Stored(p, o)
  BY <1>1, CommitIsStored DEF TypeOK, LogBounded, NoLossInv, CommittedIsStored
<1>3. /\ batch' \in [Replicas -> Seq(Messages)]
      /\ \A q \in Replicas : batch'[q] = batch[q] \/ (q = r /\ batch'[q] = <<>>)
  <2>1. batch \in [Replicas -> Seq(Messages)] /\ <<>> \in Seq(Messages)
    BY <1>1 DEF TypeOK
  <2>2. CASE batch' = batch
    BY <2>1, <2>2
  <2>3. CASE batch' = [batch EXCEPT ![r] = <<>>]
    BY <2>1, <2>3
  <2> QED
    BY <2>2, <2>3
<1>4. control' \in [Replicas -> Controls] /\ control'[r] = "loop"
      /\ \A q \in Replicas : q # r => control'[q] = control[q]
  BY <1>1 DEF TypeOK, Controls
<1>5. /\ \A q, o : IsEvent(q, o)' <=> IsEvent(q, o)
      /\ \A q, o : Stored(q, o)' <=> Stored(q, o)
  BY DEF IsEvent, Stored
<1>6. \A q \in Replicas : \A x : InBatch(q, x)' => InBatch(q, x)
  BY <1>3 DEF InBatch
<1>7. TypeOK' /\ LogBounded' /\ CommittedIsStored'
  BY <1>1, <1>2, <1>3, <1>4, <1>5 DEF TypeOK, LogBounded, CommittedIsStored
<1>8. BatchHoldsEvents'
  BY <1>3, <1>5 DEF NoLossInv, BatchHoldsEvents
<1>9. \A q \in Replicas, p \in Partitions, o \in Offsets :
         StoredOrHeld(q, p, o) => StoredOrHeld(q, p, o)'
  <2> SUFFICES ASSUME NEW q \in Replicas, NEW p \in Partitions, NEW o \in Offsets,
                      InBatch(q, <<p, o>>)
               PROVE  Stored(p, o) \/ InBatch(q, <<p, o>>)'
    BY <1>5 DEF StoredOrHeld
  <2>1. CASE batch'[q] = batch[q]
    BY <2>1 DEF InBatch
  <2>2. CASE q = r
    BY <2>2 DEF NoLossInv, CommittingIsStored, Stored, Messages
  <2> QED
    BY <2>1, <2>2, <1>3
<1>10. FetchedIsHeld'
  <2> SUFFICES ASSUME NEW p \in Partitions, owner[p] # Nobody,
                      NEW o \in 1..position[p], IsEvent(p, o)
               PROVE  StoredOrHeld(owner[p], p, o)'
    BY <1>5 DEF FetchedIsHeld
  <2>1. PICK q \in Replicas : q = owner[p]
    BY <1>1 DEF TypeOK
  <2>2. StoredOrHeld(q, p, o)
    BY <2>1 DEF NoLossInv, FetchedIsHeld
  <2>3. o \in Offsets
    BY <1>1, ConstantsAssumption DEF TypeOK, Offsets
  <2>4. StoredOrHeld(q, p, o)'
    BY <2>2, <2>3, <1>9
  <2> QED
    BY <2>1, <2>4 DEF StoredOrHeld
<1>11. HeldWithPredecessors'
  <2> SUFFICES ASSUME NEW q \in Replicas, NEW p \in Partitions, NEW o \in Offsets,
                      InBatch(q, <<p, o>>), NEW x \in 1..o, IsEvent(p, x)
               PROVE  StoredOrHeld(q, p, x)'
    BY <1>5, <1>6 DEF HeldWithPredecessors
  <2>1. x \in Offsets
    BY ConstantsAssumption DEF Offsets
  <2>2. StoredOrHeld(q, p, x)
    BY DEF NoLossInv, HeldWithPredecessors
  <2> QED
    BY <2>1, <2>2, <1>9
<1>12. CommittingIsStored'
  BY <1>4, <1>6 DEF NoLossInv, CommittingIsStored
<1> QED
  BY <1>7, <1>8, <1>10, <1>11, <1>12 DEF NoLossInv

\* A crashed replica forgets its batch and owns nothing.
LEMMA CrashNoLoss ==
    ASSUME NoLossInv, NEW r \in Replicas, Crash(r)
    PROVE  NoLossInv'
<1> USE ConstantsAssumption
<1>1. TypeOK /\ LogBounded
  BY DEF NoLossInv
<1>2. /\ UNCHANGED <<log, committed, position, rows>>
      /\ faults' \in 0..MaxFaults
      /\ owner' \in [Partitions -> Replicas \cup {Nobody}]
      /\ \A p \in Partitions : owner'[p] # Nobody => owner'[p] = owner[p] /\ owner'[p] # r
  BY <1>1 DEF Crash, Fault, TypeOK
<1>3. /\ batch' \in [Replicas -> Seq(Messages)]
      /\ batch'[r] = <<>>
      /\ \A q \in Replicas : q # r => batch'[q] = batch[q]
  BY <1>1 DEF Crash, TypeOK
<1>4. control' \in [Replicas -> Controls] /\ control'[r] = "loop"
      /\ \A q \in Replicas : q # r => control'[q] = control[q]
  BY <1>1 DEF Crash, TypeOK, Controls
<1>5. \A q, o : IsEvent(q, o)' <=> IsEvent(q, o)
  BY <1>2 DEF IsEvent
<1>6. TypeOK' /\ LogBounded' /\ CommittedIsStored'
  BY <1>1, <1>2, <1>3, <1>4, <1>5
     DEF TypeOK, LogBounded, NoLossInv, CommittedIsStored, Stored
<1>7. BatchHoldsEvents'
  BY <1>3, <1>5 DEF NoLossInv, BatchHoldsEvents
<1>8. \A q \in Replicas : \A x : q # r => (InBatch(q, x)' <=> InBatch(q, x))
  BY <1>3 DEF InBatch
<1>9. \A x : ~ InBatch(r, x)'
  BY <1>3 DEF InBatch
<1>10. \A q \in Replicas : \A p, o : q # r => (StoredOrHeld(q, p, o)' <=> StoredOrHeld(q, p, o))
  BY <1>2, <1>8 DEF StoredOrHeld, Stored
<1>11. FetchedIsHeld'
  <2> SUFFICES ASSUME NEW p \in Partitions, owner'[p] # Nobody,
                      NEW o \in 1..position[p], IsEvent(p, o)
               PROVE  \E q \in Replicas : q = owner'[p] /\ StoredOrHeld(q, p, o)'
    BY <1>2, <1>5 DEF FetchedIsHeld, StoredOrHeld, Stored, InBatch
  <2>1. StoredOrHeld(owner[p], p, o) /\ owner[p] \in Replicas /\ owner'[p] = owner[p]
    BY <1>1, <1>2 DEF NoLossInv, FetchedIsHeld, TypeOK
  <2> QED
    BY <2>1, <1>2, <1>10
<1>12. HeldWithPredecessors'
  BY <1>5, <1>8, <1>9, <1>10 DEF NoLossInv, HeldWithPredecessors
<1>13. CommittingIsStored'
  BY <1>2, <1>4, <1>8, <1>9 DEF NoLossInv, CommittingIsStored
<1> QED
  BY <1>6, <1>7, <1>11, <1>12, <1>13 DEF NoLossInv

-----------------------------------------------------------------------------
LEMMA StepNoLoss == NoLossInv /\ [Next]_vars => NoLossInv'
<1> SUFFICES ASSUME NoLossInv, [Next]_vars PROVE NoLossInv'
  OBVIOUS
<1>1. ASSUME NEW p \in Partitions, NEW kind \in Kinds, Produce(p, kind) PROVE NoLossInv'
  BY <1>1, ProduceNoLoss
<1>2. CASE JoinGroup
  BY <1>2, AssignNoLoss DEF JoinGroup, NoLossInv, TypeOK
<1>3. CASE Rebalance
  BY <1>3, AssignNoLoss, ConstantsAssumption DEF Rebalance, Fault, NoLossInv, TypeOK
<1>4. ASSUME NEW r \in Replicas, NEW p \in Partitions, Fetch(r, p) PROVE NoLossInv'
  BY <1>4, FetchNoLoss
<1>5. ASSUME NEW r \in Replicas, FlushOK(r) PROVE NoLossInv'
  <2>1. faults' \in 0..MaxFaults /\ "commit" \in Controls
    BY <1>5 DEF FlushOK, Controls, NoLossInv, TypeOK
  <2>2. /\ rows' = Inserted(r)
        /\ control' = [control EXCEPT ![r] = "commit"]
        /\ UNCHANGED <<log, committed, owner, position, batch>>
    BY <1>5 DEF FlushOK
  <2> QED
    BY <2>1, <2>2, InsertNoLoss
<1>6. ASSUME NEW r \in Replicas, FlushError(r) PROVE NoLossInv'
  <2>1. faults' \in 0..MaxFaults /\ "loop" \in Controls
    BY <1>6, ConstantsAssumption DEF FlushError, Fault, Controls, NoLossInv, TypeOK
  <2>2. /\ rows' = rows \/ rows' = Inserted(r)
        /\ control' = [control EXCEPT ![r] = "loop"]
        /\ UNCHANGED <<log, committed, owner, position, batch>>
    BY <1>6 DEF FlushError
  <2> QED
    BY <2>1, <2>2, InsertNoLoss
<1>7. ASSUME NEW r \in Replicas, CommitOK(r) PROVE NoLossInv'
  <2>1. faults' \in 0..MaxFaults
    BY <1>7 DEF CommitOK, NoLossInv, TypeOK
  <2>2. /\ control[r] = "commit" /\ control' = [control EXCEPT ![r] = "loop"]
        /\ committed' = CommitTo(r)
        /\ batch' = [batch EXCEPT ![r] = <<>>]
        /\ UNCHANGED <<log, owner, position, rows>>
    BY <1>7 DEF CommitOK
  <2> QED
    BY <2>1, <2>2, CommitNoLoss
<1>8. ASSUME NEW r \in Replicas, CommitError(r) PROVE NoLossInv'
  <2>1. faults' \in 0..MaxFaults
    BY <1>8, ConstantsAssumption DEF CommitError, Fault, NoLossInv, TypeOK
  <2>2. /\ control[r] = "commit" /\ control' = [control EXCEPT ![r] = "loop"]
        /\ committed' = committed \/ committed' = CommitTo(r)
        /\ UNCHANGED <<log, owner, position, batch, rows>>
    BY <1>8 DEF CommitError
  <2> QED
    BY <2>1, <2>2, CommitNoLoss
<1>9. ASSUME NEW r \in Replicas, Crash(r) PROVE NoLossInv'
  BY <1>9, CrashNoLoss
<1>10. ASSUME NEW r \in Replicas, FlushRefused(r) PROVE NoLossInv'
  <2>1. faults' \in 0..MaxFaults /\ "loop" \in Controls
    BY <1>10 DEF FlushRefused, Controls, NoLossInv, TypeOK
  <2>2. /\ rows' = rows
        /\ control' = [control EXCEPT ![r] = "loop"]
        /\ UNCHANGED <<log, committed, owner, position, batch>>
    BY <1>10 DEF FlushRefused
  <2> QED
    BY <2>1, <2>2, InsertNoLoss
<1>11. CASE UNCHANGED vars
  <2>1. \A r, m : InBatch(r, m)' <=> InBatch(r, m)
    BY <1>11 DEF vars, InBatch
  <2> QED
    BY <1>11, <2>1 DEF vars, NoLossInv, TypeOK, LogBounded, BatchHoldsEvents, CommittedIsStored,
                       FetchedIsHeld, HeldWithPredecessors, CommittingIsStored, IsEvent,
                       StoredOrHeld, Stored
<1> QED
  BY <1>1, <1>2, <1>3, <1>4, <1>5, <1>6, <1>7, <1>8, <1>9, <1>10, <1>11 DEF Next

\* The inductive invariant holds in every state: through crashes, failed
\* flushes and commits, and rebalances (the loop of main.go:73-104).
THEOREM NoLoss == Spec => []NoLossInv
<1> QED
  BY InitNoLoss, StepNoLoss, PTL DEF Spec

\* Every variable keeps its type, whatever the bounds.
THEOREM TypeCorrect == Spec => []TypeOK
<1>1. NoLossInv => TypeOK
  BY DEF NoLossInv
<1> QED
  BY <1>1, NoLoss, PTL

\* No event below the group's committed offset is missing from order_metrics.
THEOREM CommittedEventsAreStored == Spec => []CommittedIsStored
<1>1. NoLossInv => CommittedIsStored
  BY DEF NoLossInv
<1> QED
  BY <1>1, NoLoss, PTL

-----------------------------------------------------------------------------
(* Events whose rows the database refuses *)

\* Rows are those of events in the topic which the database does not refuse.
RowsAreStorable ==
    \A m \in Messages : rows[m] > 0 => IsEvent(m[1], m[2]) /\ ~ Refused(m[1], m[2])

\* What a replica adds to the table it holds.
LEMMA StepRows ==
    NoLossInv /\ RowsAreStorable /\ [Next]_vars => RowsAreStorable'
<1> SUFFICES ASSUME NoLossInv, RowsAreStorable, [Next]_vars, NEW m \in Messages, rows'[m] > 0
             PROVE  IsEvent(m[1], m[2])' /\ ~ Refused(m[1], m[2])'
  BY DEF RowsAreStorable
<1>1. TypeOK /\ m[1] \in Partitions
  BY DEF NoLossInv, Messages
<1>2. ASSUME NEW p \in Partitions, NEW kind \in Kinds, Produce(p, kind)
      PROVE  IsEvent(m[1], m[2])' /\ ~ Refused(m[1], m[2])'
  <2>1. /\ rows' = rows /\ log[p] \in Seq(Kinds)
        /\ log' = [log EXCEPT ![p] = Append(log[p], kind)]
    BY <1>1, <1>2 DEF Produce, TypeOK
  <2>2. IsEvent(m[1], m[2]) /\ ~ Refused(m[1], m[2])
    BY <2>1 DEF RowsAreStorable
  <2> QED
    BY <1>1, <2>1, <2>2 DEF IsEvent, Refused, TypeOK
<1>3. ASSUME NEW r \in Replicas, FlushOK(r) \/ FlushError(r)
      PROVE  IsEvent(m[1], m[2])' /\ ~ Refused(m[1], m[2])'
  <2>1. log' = log /\ (rows' = rows \/ (Storable(r) /\ rows' = Inserted(r)))
    BY <1>3 DEF FlushOK, FlushError
  <2>2. CASE rows' = rows
    BY <2>1, <2>2 DEF RowsAreStorable, IsEvent, Refused
  <2>3. CASE Storable(r) /\ rows' = Inserted(r)
    <3>1. rows[m] > 0 \/ InBatch(r, m)
      BY <2>3, <1>1, InsertedCounts DEF TypeOK
    <3>2. InBatch(r, m) => IsEvent(m[1], m[2]) /\ ~ Refused(m[1], m[2])
      BY <2>3 DEF InBatch, NoLossInv, BatchHoldsEvents, Storable
    <3> QED
      BY <3>1, <3>2, <2>1 DEF RowsAreStorable, IsEvent, Refused
  <2> QED
    BY <2>1, <2>2, <2>3
<1>4. ASSUME UNCHANGED <<log, rows>>
      PROVE  IsEvent(m[1], m[2])' /\ ~ Refused(m[1], m[2])'
  BY <1>4 DEF RowsAreStorable, IsEvent, Refused
<1>5. CASE \/ JoinGroup \/ Rebalance \/ UNCHANGED vars
           \/ \E r \in Replicas : \/ FlushRefused(r) \/ CommitOK(r) \/ CommitError(r)
                                  \/ Crash(r) \/ \E p \in Partitions : Fetch(r, p)
  BY <1>4, <1>5 DEF JoinGroup, Rebalance, Assign, FlushRefused, CommitOK, CommitError, Crash,
                    Fetch, vars
<1> QED
  BY <1>2, <1>3, <1>5 DEF Next

\* The offset of a partition never passes an event whose row is refused: what
\* is below it has a row (main.go:59-62).
THEOREM RefusedEventsBlock == Spec => []RefusedBlocks
<1>1. Init => RowsAreStorable
  BY DEF Init, RowsAreStorable
<1>2. NoLossInv /\ RowsAreStorable => RefusedBlocks
  <2> SUFFICES ASSUME NoLossInv, RowsAreStorable, NEW p \in Partitions, NEW o \in Offsets,
                      Refused(p, o)
               PROVE  committed[p] < o /\ rows[<<p, o>>] = 0
    BY DEF RefusedBlocks
  <2>1. /\ <<p, o>> \in Messages /\ <<p, o>>[1] = p /\ <<p, o>>[2] = o
        /\ TypeOK /\ committed[p] \in Nat /\ o \in Nat /\ o >= 1
    <3>1. <<p, o>> \in Messages /\ o \in Nat /\ o >= 1
      BY ConstantsAssumption DEF Messages, Offsets
    <3>2. TypeOK /\ committed[p] \in Nat
      BY ConstantsAssumption DEF NoLossInv, TypeOK
    <3> QED
      BY <3>1, <3>2
  <2>2. rows[<<p, o>>] = 0
    <3>1. ~ (rows[<<p, o>>] > 0)
      BY <2>1 DEF RowsAreStorable
    <3>2. rows[<<p, o>>] \in Nat
      BY <2>1 DEF TypeOK
    <3> QED
      BY <3>1, <3>2
  <2>3. ~ (o \in 1..committed[p])
    BY <2>2 DEF NoLossInv, CommittedIsStored, IsEvent, Refused, Stored
  <2> QED
    BY <2>1, <2>2, <2>3
<1> QED
  BY <1>1, <1>2, NoLoss, StepRows, PTL DEF Spec

-----------------------------------------------------------------------------
(* What a first crash makes the group read again *)

LEMMA InitReread == Init => FullyHeld
<1> SUFFICES ASSUME Init PROVE FullyHeld
  OBVIOUS
<1>1. \A r \in Replicas : Len(batch[r]) = 0
  BY DEF Init
<1>2. \A r \in Replicas : \A m : ~ InBatch(r, m)
  BY <1>1 DEF InBatch
<1>3. \A r \in Replicas : Uncommitted(r) = {}
  BY ConstantsAssumption DEF Init, Uncommitted, Messages
<1> QED
  BY <1>1, <1>2, <1>3, ConstantsAssumption DEF Init, FullyHeld

\* A new message lies beyond everything a replica has fetched.
LEMMA ProduceReread ==
    ASSUME NoLossInv, FullyHeld, NEW p \in Partitions, NEW kind \in Kinds, Produce(p, kind)
    PROVE  FullyHeld'
<1>1. TypeOK /\ LogBounded
  BY DEF NoLossInv
<1>2. /\ UNCHANGED <<committed, owner, position, batch, control, rows, faults>>
      /\ log' = [log EXCEPT ![p] = Append(log[p], kind)]
  BY DEF Produce
<1>3. \A q \in Partitions : \A o \in 1..Len(log[q]) : IsEvent(q, o)' <=> IsEvent(q, o)
  BY <1>1, <1>2 DEF TypeOK, IsEvent
<1>4. \A r, m : InBatch(r, m)' <=> InBatch(r, m)
  BY <1>2 DEF InBatch
<1>5. ASSUME NEW r \in Replicas, NEW m \in Uncommitted(r)' PROVE m \in Uncommitted(r)
  <2>1. m \in Messages /\ m[1] \in Partitions /\ m[2] \in 1..MaxLog
    BY <1>5 DEF Uncommitted, Messages, Offsets
  <2>2. /\ owner[m[1]] = r /\ IsEvent(m[1], m[2])'
        /\ committed[m[1]] < m[2] /\ m[2] <= position[m[1]]
    BY <1>5, <1>2 DEF Uncommitted
  <2>3. m[2] \in 1..Len(log[m[1]])
    BY <2>1, <2>2, <1>1 DEF LogBounded, TypeOK
  <2> QED
    BY <2>1, <2>2, <2>3, <1>3 DEF Uncommitted
<1> QED
  BY <1>2, <1>4, <1>5 DEF FullyHeld

\* At first nobody holds anything, and everybody starts where the offsets are.
LEMMA JoinReread ==
    ASSUME NoLossInv, FullyHeld, JoinGroup
    PROVE  FullyHeld'
<1>1. TypeOK
  BY DEF NoLossInv
<1>2. PICK assignment \in [Partitions -> Replicas] :
         /\ owner' = assignment /\ position' = committed
         /\ UNCHANGED <<log, committed, batch, control, rows>>
  BY DEF JoinGroup, Assign
<1>3. \A p \in Partitions : owner[p] = Nobody /\ owner'[p] # Nobody
  BY <1>2, ConstantsAssumption DEF JoinGroup, FullyHeld
<1>4. \A r \in Replicas, p \in Partitions, o \in Offsets : ~ InBatch(r, <<p, o>>)'
  BY <1>2, <1>3, ConstantsAssumption DEF FullyHeld, InBatch
<1>5. ASSUME NEW r \in Replicas, NEW m \in Uncommitted(r)' PROVE FALSE
  <2>1. m[1] \in Partitions /\ m[2] \in 1..MaxLog
    BY <1>5 DEF Uncommitted, Messages, Offsets
  <2>2. committed[m[1]] < m[2] /\ m[2] <= committed[m[1]]
    BY <1>5, <1>2 DEF Uncommitted
  <2> QED
    BY <2>1, <2>2, <1>1, ConstantsAssumption DEF TypeOK
<1>6. \A p \in Partitions : committed'[p] <= position'[p]
  BY <1>1, <1>2 DEF TypeOK
<1> QED
  BY <1>2, <1>3, <1>4, <1>5, <1>6 DEF FullyHeld

\* What is fetched joins the batch, and a batch that is full is not added to.
LEMMA FetchReread ==
    ASSUME NoLossInv, FullyHeld, NEW r \in Replicas, NEW p \in Partitions, Fetch(r, p)
    PROVE  FullyHeld'
<1> USE ConstantsAssumption
<1>1. TypeOK /\ LogBounded
  BY DEF NoLossInv
<1> DEFINE next == position[p] + 1
<1>2. /\ UNCHANGED <<log, committed, owner, rows, faults>>
      /\ control[r] = "loop" /\ owner[p] = r /\ r # Nobody
      /\ position[p] \in Nat /\ committed[p] \in Nat /\ next \in Offsets
      /\ position' = [position EXCEPT ![p] = next]
  BY <1>1 DEF Fetch, TypeOK, LogBounded, Offsets
<1>3. \A q, o : IsEvent(q, o)' <=> IsEvent(q, o)
  BY <1>2 DEF IsEvent
<1>4. \A q \in Partitions : /\ position'[q] = IF q = p THEN next ELSE position[q]
                            /\ position[q] \in Nat /\ committed[q] \in Nat
  BY <1>1, <1>2 DEF TypeOK
<1>5. \A q \in Partitions : owner'[q] # Nobody => committed'[q] <= position'[q]
  BY <1>2, <1>4 DEF FullyHeld
<1>6. ASSUME NEW q \in Replicas, NEW m \in Uncommitted(q)'
      PROVE  m \in Uncommitted(q) \/ (q = r /\ m = <<p, next>> /\ IsEvent(p, next))
  <2>1. m \in Messages /\ m[1] \in Partitions /\ m[2] \in 1..MaxLog /\ m = <<m[1], m[2]>>
    BY <1>6 DEF Uncommitted, Messages, Offsets
  <2>2. /\ owner[m[1]] = q /\ IsEvent(m[1], m[2])
        /\ committed[m[1]] < m[2] /\ m[2] <= position'[m[1]]
    BY <1>6, <1>2, <1>3 DEF Uncommitted
  <2>3. CASE m[2] <= position[m[1]]
    BY <2>1, <2>2, <2>3 DEF Uncommitted
  <2>4. CASE ~ (m[2] <= position[m[1]])
    <3>1. m[1] = p /\ m[2] = next
      BY <2>1, <2>2, <2>4, <1>4
    <3> QED
      BY <3>1, <2>1, <2>2, <1>2
  <2> QED
    BY <2>3, <2>4
<1>7. CASE ~ IsEvent(p, next)
  <2>1. batch' = batch /\ control' = control
    BY <1>7 DEF Fetch
  <2>2. \A q, m : InBatch(q, m)' <=> InBatch(q, m)
    BY <2>1 DEF InBatch
  <2>3. \A q \in Replicas : \A m \in Uncommitted(q)' : InBatch(q, m)'
    BY <2>2, <1>6, <1>7 DEF FullyHeld
  <2>4. \A q \in Replicas, x \in Partitions, o \in Offsets :
           InBatch(q, <<x, o>>)' => owner'[x] = q /\ o \in (committed'[x] + 1)..position'[x]
    BY <2>2, <1>2, <1>4 DEF FullyHeld, Offsets
  <2> QED
    BY <2>1, <2>3, <2>4, <1>2, <1>5 DEF FullyHeld
<1>8. CASE IsEvent(p, next)
  <2> DEFINE m == <<p, next>>
  <2>1. /\ m \in Messages /\ batch' = [batch EXCEPT ![r] = Append(batch[r], m)]
        /\ control' = [control EXCEPT ![r] =
                          IF Len(batch[r]) + 1 >= BatchSize THEN "flush" ELSE "loop"]
    BY <1>2, <1>8 DEF Fetch, Messages
  <2>2. \A q \in Replicas : \A x : InBatch(q, x)' <=> InBatch(q, x) \/ (q = r /\ x = m)
    BY <1>1, <2>1, AppendHolds
  <2>3. ASSUME NEW q \in Replicas
        PROVE  Len(batch'[q]) <= BatchSize /\ (control'[q] = "loop" => Len(batch'[q]) < BatchSize)
    <3>1. CASE q # r
      BY <3>1, <2>1, <1>1 DEF FullyHeld, TypeOK
    <3>2. CASE q = r
      <4>1. batch[r] \in Seq(Messages) /\ Len(batch[r]) < BatchSize
        BY <1>1, <1>2 DEF FullyHeld, TypeOK
      <4>2. batch'[r] = Append(batch[r], m)
            /\ control'[r] = IF Len(batch[r]) + 1 >= BatchSize THEN "flush" ELSE "loop"
        BY <2>1, <1>1 DEF TypeOK
      <4>3. Len(batch'[r]) = Len(batch[r]) + 1 /\ Len(batch[r]) \in Nat
        BY <4>1, <4>2, <2>1
      <4> QED
        BY <3>2, <4>1, <4>2, <4>3
    <3> QED
      BY <3>1, <3>2
  <2>4. \A q \in Replicas : \A x \in Uncommitted(q)' : InBatch(q, x)'
    BY <2>2, <1>6 DEF FullyHeld
  <2>5. ASSUME NEW q \in Replicas, NEW x \in Partitions, NEW o \in Offsets, InBatch(q, <<x, o>>)'
        PROVE  owner'[x] = q /\ o \in (committed'[x] + 1)..position'[x]
    <3>1. CASE InBatch(q, <<x, o>>)
      BY <3>1, <1>2, <1>4 DEF FullyHeld, Offsets
    <3>2. CASE q = r /\ x = p /\ o = next
      <4>1. committed[p] <= position[p]
        BY <1>2 DEF FullyHeld
      <4> QED
        BY <4>1, <3>2, <1>2, <1>4
    <3> QED
      BY <3>1, <3>2, <2>2, <2>5
  <2> QED
    BY <2>3, <2>4, <2>5, <1>2, <1>5 DEF FullyHeld
<1> QED
  BY <1>7, <1>8

\* An insert changes neither batches nor offsets.
LEMMA FlushReread ==
    ASSUME NoLossInv, FullyHeld, NEW r \in Replicas, FlushOK(r)
    PROVE  FullyHeld'
<1>1. /\ UNCHANGED <<log, committed, owner, position, batch>>
      /\ control' = [control EXCEPT ![r] = "commit"] /\ control \in [Replicas -> Controls]
  BY DEF FlushOK, NoLossInv, TypeOK
<1>2. \A q \in Replicas : control'[q] = "loop" => control[q] = "loop"
  BY <1>1
<1>3. \A q, m : InBatch(q, m)' <=> InBatch(q, m)
  BY <1>1 DEF InBatch
<1>4. \A q : Uncommitted(q)' = Uncommitted(q)
  BY <1>1 DEF Uncommitted, IsEvent
<1> QED
  BY <1>1, <1>2, <1>3, <1>4 DEF FullyHeld

\* The offsets move up to the last event held, and no others were fetched.
LEMMA CommitReread ==
    ASSUME NoLossInv, FullyHeld, NEW r \in Replicas, CommitOK(r)
    PROVE  FullyHeld'
<1> USE ConstantsAssumption
<1>1. TypeOK
  BY DEF NoLossInv
<1>2. /\ committed' = CommitTo(r) /\ batch' = [batch EXCEPT ![r] = <<>>]
      /\ control' = [control EXCEPT ![r] = "loop"]
      /\ UNCHANGED <<log, owner, position>>
  BY DEF CommitOK
<1>3. ASSUME NEW p \in Partitions
      PROVE  /\ committed[p] \in Nat /\ committed'[p] \in Nat /\ position[p] \in Nat
             /\ committed'[p] >= committed[p]
             /\ owner[p] # r => committed'[p] = committed[p]
             /\ owner[p] # Nobody => committed'[p] <= position[p]
             /\ \A o \in Offsets : InBatch(r, <<p, o>>) => o <= committed'[p]
  <2> DEFINE pending == {o \in Offsets : InBatch(r, <<p, o>>)}
  <2>1. committed'[p] = CommittedBy(r, p) /\ committed[p] \in Nat /\ position[p] \in Nat
    BY <1>1, <1>2 DEF CommitTo, TypeOK
  <2>2. CASE pending = {}
    BY <2>1, <2>2 DEF CommittedBy, FullyHeld
  <2>3. CASE pending # {}
    <3>1. \E o \in pending : \A q \in pending : q <= o
      BY <2>3, BoundedMaximum DEF Offsets
    <3>2. committed'[p] = CHOOSE o \in pending : \A q \in pending : q <= o
      BY <2>1, <2>3 DEF CommittedBy
    <3>3. committed'[p] \in pending /\ \A q \in pending : q <= committed'[p]
      BY <3>1, <3>2
    <3>4. owner[p] = r /\ committed'[p] \in (committed[p] + 1)..position[p]
      BY <3>3 DEF FullyHeld
    <3>5. committed'[p] \in Nat
      BY <3>3 DEF Offsets
    <3> QED
      BY <3>3, <3>4, <3>5, <2>1
  <2> QED
    BY <2>2, <2>3
<1>4. \A q \in Replicas : /\ batch'[q] = IF q = r THEN <<>> ELSE batch[q]
                          /\ control'[q] = IF q = r THEN "loop" ELSE control[q]
  BY <1>1, <1>2 DEF TypeOK
<1>5. \A q \in Replicas : \A m : InBatch(q, m)' <=> InBatch(q, m) /\ q # r
  BY <1>4 DEF InBatch
<1>6. \A q \in Replicas : Len(batch'[q]) <= BatchSize
                          /\ (control'[q] = "loop" => Len(batch'[q]) < BatchSize)
  BY <1>4 DEF FullyHeld
<1>7. ASSUME NEW q \in Replicas, NEW m \in Uncommitted(q)' PROVE InBatch(q, m)'
  <2>1. m \in Messages /\ m[1] \in Partitions /\ m[2] \in Offsets /\ m = <<m[1], m[2]>>
    BY <1>7 DEF Uncommitted, Messages, Offsets
  <2>2. /\ owner[m[1]] = q /\ IsEvent(m[1], m[2])
        /\ committed'[m[1]] < m[2] /\ m[2] <= position[m[1]]
    BY <1>7, <1>2 DEF Uncommitted, IsEvent
  <2>3. committed[m[1]] < m[2]
    BY <2>1, <2>2, <1>3 DEF Offsets
  <2>4. InBatch(q, m)
    BY <2>1, <2>2, <2>3 DEF Uncommitted, FullyHeld
  <2>5. q # r
    BY <2>1, <2>2, <2>4, <1>3 DEF Offsets
  <2> QED
    BY <2>4, <2>5, <1>5
<1>8. ASSUME NEW q \in Replicas, NEW p \in Partitions, NEW o \in Offsets, InBatch(q, <<p, o>>)'
      PROVE  owner'[p] = q /\ o \in (committed'[p] + 1)..position'[p]
  <2>1. q # r /\ owner[p] = q /\ o \in (committed[p] + 1)..position[p]
    BY <1>5, <1>8 DEF FullyHeld
  <2> QED
    BY <2>1, <1>2, <1>3
<1> QED
  BY <1>2, <1>3, <1>6, <1>7, <1>8 DEF FullyHeld

\* The topic is never shortened.
LEMMA RefusedStay ==
    ASSUME NoLossInv, [Next]_vars, NoneRefused'
    PROVE  NoneRefused
<1> SUFFICES ASSUME NEW p \in Partitions, NEW o \in Offsets, Refused(p, o)
             PROVE  Refused(p, o)'
  BY DEF NoneRefused
<1>1. CASE log' = log
  BY <1>1 DEF Refused
<1>2. ASSUME NEW q \in Partitions, NEW kind \in Kinds, Produce(q, kind) PROVE Refused(p, o)'
  <2>1. log[q] \in Seq(Kinds) /\ log \in [Partitions -> Seq(Kinds)]
        /\ log' = [log EXCEPT ![q] = Append(log[q], kind)]
    BY <1>2 DEF Produce, NoLossInv, TypeOK
  <2> QED
    BY <2>1 DEF Refused
<1> QED
  BY <1>1, <1>2 DEF Next, JoinGroup, Rebalance, Assign, Fetch, FlushOK, FlushError, FlushRefused,
                    CommitOK, CommitError, Crash, vars

LEMMA StepReread ==
    NoLossInv /\ RereadInv /\ [Next]_vars => RereadInv'
<1> SUFFICES ASSUME NoLossInv, RereadInv, [Next]_vars, faults' = 0, NoneRefused'
             PROVE  FullyHeld'
  BY DEF RereadInv
<1>1. ~ Fault
  BY DEF Fault, NoLossInv, TypeOK
<1>4. NoneRefused
  BY RefusedStay
<1>5. \A r \in Replicas : Storable(r)
  BY <1>4 DEF Storable, NoneRefused, Messages
<1>2. CASE UNCHANGED vars
  <2>1. \A q, m : InBatch(q, m)' <=> InBatch(q, m)
    BY <1>2 DEF vars, InBatch
  <2>2. \A q : Uncommitted(q)' = Uncommitted(q)
    BY <1>2 DEF vars, Uncommitted, IsEvent
  <2>3. FullyHeld
    BY <1>2, <1>4 DEF vars, RereadInv
  <2> QED
    BY <2>1, <2>2, <2>3, <1>2 DEF vars, FullyHeld
<1>3. CASE Next
  <2>1. \/ \E p \in Partitions, kind \in Kinds : Produce(p, kind)
        \/ JoinGroup
        \/ \E r \in Replicas, p \in Partitions : Fetch(r, p)
        \/ \E r \in Replicas : FlushOK(r)
        \/ \E r \in Replicas : CommitOK(r)
    BY <1>1, <1>3, <1>5 DEF Next, Rebalance, FlushError, FlushRefused, CommitError, Crash
  <2>2. faults = 0
    BY <2>1 DEF Produce, JoinGroup, Fetch, FlushOK, CommitOK
  <2>3. FullyHeld
    BY <2>2, <1>4 DEF RereadInv
  <2> QED
    BY <2>1, <2>3, ProduceReread, JoinReread, FetchReread, FlushReread, CommitReread
<1> QED
  BY <1>2, <1>3

\* What all of a replica's uncommitted events amount to, when it holds them.
LEMMA HeldAreCounted ==
    ASSUME TypeOK, NEW r \in Replicas, \A m \in Uncommitted(r) : InBatch(r, m)
    PROVE  /\ Cardinality(Uncommitted(r)) \in Nat
           /\ Cardinality(Uncommitted(r)) <= Len(batch[r])
<1> DEFINE places == 1..Len(batch[r])
           held == {batch[r][i] : i \in places}
<1>1. batch[r] \in [places -> Messages] /\ Len(batch[r]) \in Nat
  BY DEF TypeOK
<1>2. IsFiniteSet(places) /\ Cardinality(places) = Len(batch[r])
  <2>1. ASSUME NEW n \in Nat PROVE IsFiniteSet(1..n) /\ Cardinality(1..n) = n
    <3>1. 1 \in Int /\ n \in Int
      OBVIOUS
    <3>2. IsFiniteSet(1..n) /\ Cardinality(1..n) = IF 1 > n THEN 0 ELSE n - 1 + 1
      BY ONLY <3>1, FS_Interval
    <3> QED
      BY <3>2
  <2> QED
    BY <1>1, <2>1
<1>3. batch[r] \in Surjection(places, held)
  BY <1>1 DEF Surjection
<1>4. IsFiniteSet(held) /\ Cardinality(held) <= Cardinality(places)
  BY <1>2, <1>3, FS_Surjection
<1>5. Uncommitted(r) \in SUBSET held
  BY DEF InBatch
<1>6. IsFiniteSet(Uncommitted(r)) /\ Cardinality(Uncommitted(r)) <= Cardinality(held)
  BY <1>4, <1>5, FS_Subset
<1>7. Cardinality(held) \in Nat /\ Cardinality(Uncommitted(r)) \in Nat
  BY <1>4, <1>6, FS_CardinalityType
<1> QED
  BY <1>1, <1>2, <1>4, <1>6, <1>7

\* As long as nothing failed, a crash makes the group read no more than one
\* batch again (main.go:94-102): a replica holds all it has not committed.
THEOREM FirstCrashRereadsLittle == Spec => []FirstCrashRereadsABatch
<1>1. Init => RereadInv
  BY InitReread DEF RereadInv
<1>2. NoLossInv /\ RereadInv => FirstCrashRereadsABatch
  <2> SUFFICES ASSUME NoLossInv, RereadInv, faults = 0, NoneRefused, NEW r \in Replicas
               PROVE  Cardinality(Uncommitted(r)) <= BatchSize
    BY DEF FirstCrashRereadsABatch
  <2>1. TypeOK /\ Len(batch[r]) <= BatchSize /\ \A m \in Uncommitted(r) : InBatch(r, m)
    BY DEF NoLossInv, RereadInv, FullyHeld
  <2>2. /\ Cardinality(Uncommitted(r)) \in Nat /\ Len(batch[r]) \in Nat
        /\ Cardinality(Uncommitted(r)) <= Len(batch[r])
    BY <2>1, HeldAreCounted DEF TypeOK
  <2> QED
    BY <2>1, <2>2, ConstantsAssumption
<1> QED
  BY <1>1, <1>2, NoLoss, StepReread, PTL DEF Spec

-----------------------------------------------------------------------------
LEMMA InitImplements == Init => AtLeastOnce!Init
BY DEF Init, AtLeastOnce!Init, AtLeastOnce!Messages, Messages, Offsets

\* Every step of the replicas is a step of Ingestion or changes none of the
\* topic, the offsets and the table.
LEMMA StepImplements ==
    NoLossInv /\ [Next]_vars => [AtLeastOnce!Next]_<<log, committed, rows>>
<1> SUFFICES ASSUME NoLossInv, [Next]_vars
             PROVE  AtLeastOnce!Next \/ UNCHANGED <<log, committed, rows>>
  OBVIOUS
<1>1. TypeOK
  BY DEF NoLossInv
<1>2. ASSUME NEW p \in Partitions, NEW kind \in Kinds, Produce(p, kind)
      PROVE  AtLeastOnce!Next
  BY <1>2 DEF Produce, Kinds, AtLeastOnce!Next, AtLeastOnce!Produce
<1>3. ASSUME NEW r \in Replicas, Storable(r), rows' = Inserted(r), UNCHANGED <<log, committed>>
      PROVE  AtLeastOnce!Next
  <2>1. Inserted(r) \in [Messages -> Nat]
        /\ \A m \in Messages : Inserted(r)[m] >= rows[m] /\ rows[m] \in Nat
                               /\ (Inserted(r)[m] > rows[m] => InBatch(r, m))
    BY <1>1, InsertedCounts DEF TypeOK
  <2>2. \A m \in Messages : InBatch(r, m) => AtLeastOnce!Storable(m[1], m[2])
    BY <1>3 DEF NoLossInv, BatchHoldsEvents, InBatch, IsEvent, Refused, Storable, AtLeastOnce!Storable
  <2>3. AtLeastOnce!Messages = Messages
    BY DEF AtLeastOnce!Messages, Messages, Offsets
  <2>4. \A m \in Messages : \/ rows'[m] = rows[m]
                            \/ rows'[m] > rows[m] /\ AtLeastOnce!Storable(m[1], m[2])
    BY <1>3, <2>1, <2>2
  <2> QED
    BY <1>3, <2>1, <2>3, <2>4 DEF AtLeastOnce!Next, AtLeastOnce!Insert
<1>4. ASSUME NEW r \in Replicas, control[r] = "commit", committed' = CommitTo(r),
             UNCHANGED <<log, rows>>
      PROVE  AtLeastOnce!Next
  BY <1>4, CommitIsStored
     DEF AtLeastOnce!Next, AtLeastOnce!Acknowledge, AtLeastOnce!IsEvent, IsEvent, Stored
<1>5. ASSUME NEW r \in Replicas, FlushOK(r) \/ FlushError(r)
      PROVE  AtLeastOnce!Next \/ UNCHANGED <<log, committed, rows>>
  BY <1>3, <1>5 DEF FlushOK, FlushError
<1>6. ASSUME NEW r \in Replicas, CommitOK(r) \/ CommitError(r)
      PROVE  AtLeastOnce!Next \/ UNCHANGED <<log, committed, rows>>
  BY <1>4, <1>6 DEF CommitOK, CommitError
<1>7. CASE \/ JoinGroup \/ Rebalance \/ UNCHANGED vars
           \/ \E r \in Replicas : \/ FlushRefused(r) \/ Crash(r)
                                  \/ \E p \in Partitions : Fetch(r, p)
  BY <1>7 DEF JoinGroup, Rebalance, Assign, FlushRefused, Crash, Fetch, vars
<1> QED
  BY <1>2, <1>5, <1>6, <1>7 DEF Next

\* The replicas implement at-least-once ingestion, for any number of them.
THEOREM ImplementsIngestionSpec == Spec => ImplementsIngestion
<1> QED
  BY NoLoss, InitImplements, StepImplements, PTL DEF Spec, ImplementsIngestion, AtLeastOnce!Spec
=============================================================================
