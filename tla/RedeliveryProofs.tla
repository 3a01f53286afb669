-------------------------- MODULE RedeliveryProofs --------------------------
(***************************************************************************)
(* Proofs about how often Telemetry stores an event, for any replicas,     *)
(* partitions and batch size and any number of faults: every fault at most *)
(* doubles the rows of an event.                                           *)
(***************************************************************************)
EXTENDS TelemetryProofs

\* Sets without a common element are counted together.
LEMMA DisjointCounts ==
    ASSUME NEW S, IsFiniteSet(S), NEW T, IsFiniteSet(T), S \cap T = {}
    PROVE  /\ IsFiniteSet(S \cup T)
           /\ Cardinality(S) \in Nat /\ Cardinality(T) \in Nat
           /\ Cardinality(S \cup T) = Cardinality(S) + Cardinality(T)
<1>1. /\ IsFiniteSet(S \cup T)
      /\ Cardinality(S \cup T) = Cardinality(S) + Cardinality(T) - Cardinality(S \cap T)
  BY FS_Union
<1>2. Cardinality(S \cap T) = 0 /\ Cardinality(S) \in Nat /\ Cardinality(T) \in Nat
  BY FS_EmptySet, FS_CardinalityType
<1> QED
  BY <1>1, <1>2

\* What every fault may do: the subsets of 1..(n+1) are those of 1..n, and
\* those with n+1 in them.
LEMMA PowerDoubles ==
    ASSUME NEW n \in Nat
    PROVE  2^n \in Nat /\ 2^n >= 1 /\ 2^(n + 1) = 2 * 2^n
<1> DEFINE S == 1..n
           A == SUBSET S
           B == {T \cup {n + 1} : T \in A}
<1>1. IsFiniteSet(S) /\ Cardinality(S) = n
  BY FS_Interval
<1>2. n + 1 \notin S /\ 1..(n + 1) = S \cup {n + 1}
  OBVIOUS
<1>3. IsFiniteSet(1..(n + 1)) /\ Cardinality(1..(n + 1)) = n + 1
  <2>1. IsFiniteSet(S \cup {n + 1}) /\ Cardinality(S \cup {n + 1}) = Cardinality(S) + 1
    BY ONLY <1>1, <1>2, FS_AddElement
  <2> QED
    BY <1>1, <1>2, <2>1
<1> HIDE DEF S
<1>4. IsFiniteSet(A) /\ Cardinality(A) = 2^n
  BY <1>1, FS_SUBSET
<1>5. Cardinality(SUBSET (1..(n + 1))) = 2^(n + 1)
  BY <1>3, FS_SUBSET
<1>6. ExistsBijection(A, B)
  <2> DEFINE f == [T \in A |-> T \cup {n + 1}]
  <2>1. f \in Bijection(A, B)
    <3>1. f \in [A -> B] /\ \A b \in B : \E T \in A : f[T] = b
      OBVIOUS
    <3>2. ASSUME NEW T \in A, NEW U \in A, f[T] = f[U] PROVE T = U
      <4>1. T \cup {n + 1} = U \cup {n + 1}
        BY <3>2
      <4> QED
        BY <4>1, <1>2
    <3> QED
      BY <3>1, <3>2 DEF Bijection, Injection, Surjection, IsInjective
  <2> QED
    BY <2>1 DEF ExistsBijection
<1>7. IsFiniteSet(B) /\ Cardinality(B) = Cardinality(A)
  BY <1>4, <1>6, FS_Bijection
<1>8. A \cap B = {}
  BY <1>2
<1>9. SUBSET (1..(n + 1)) = A \cup B
  <2>1. ASSUME NEW T \in SUBSET (1..(n + 1)), n + 1 \in T PROVE T \in B
    <3>1. T \ {n + 1} \in A /\ T = (T \ {n + 1}) \cup {n + 1}
      BY <2>1, <1>2
    <3> QED
      BY <3>1
  <2>2. ASSUME NEW T \in SUBSET (1..(n + 1)), n + 1 \notin T PROVE T \in A
    BY <2>2, <1>2
  <2>3. A \subseteq SUBSET (1..(n + 1)) /\ B \subseteq SUBSET (1..(n + 1))
    BY <1>2
  <2> QED
    BY <2>1, <2>2, <2>3
<1>10. Cardinality(A \cup B) = Cardinality(A) + Cardinality(B)
  BY <1>4, <1>7, <1>8, DisjointCounts
<1>11. Cardinality(A) \in Nat /\ Cardinality(A) # 0
  <2>1. {} \in A
    OBVIOUS
  <2> QED
    BY <2>1, <1>4, FS_CardinalityType, FS_EmptySet
<1> DEFINE low == Cardinality(A)
           double == Cardinality(SUBSET (1..(n + 1)))
<1>12. low \in Nat /\ low # 0 /\ double = low + low
  BY <1>7, <1>9, <1>10, <1>11
<1>13. 2^n = low /\ 2^(n + 1) = double
  BY <1>4, <1>5
<1> HIDE DEF low, double
<1> QED
  BY ONLY <1>12, <1>13, 0 \in Nat, 1 \in Nat, 2 \in Nat

\* Either way a fault raises the expectation, the bound rises with it.
LEMMA FaultsPay ==
    ASSUME NEW f \in Nat, NEW x \in Nat, NEW y \in Nat, x <= 2^f,
           y <= x + 1 \/ y <= x + x
    PROVE  y <= 2^(f + 1)
<1> DEFINE bound == 2^f
           double == 2^(f + 1)
<1>1. bound \in Nat /\ bound >= 1 /\ double = 2 * bound /\ x <= bound
  BY PowerDoubles
<1> HIDE DEF bound, double
<1>2. y <= double
  BY <1>1
<1> QED
  BY <1>2 DEF double

-----------------------------------------------------------------------------
\* The places of a message in a batch are finitely many, and are as many when
\* they are named together with the replica.
LEMMA OccurrencesAreCounted ==
    ASSUME NEW s \in Seq(Messages), NEW m, NEW r
    PROVE  /\ IsFiniteSet(Occurrences(s, m)) /\ Cardinality(Occurrences(s, m)) \in Nat
           /\ IsFiniteSet({r} \X Occurrences(s, m))
           /\ Cardinality({r} \X Occurrences(s, m)) = Cardinality(Occurrences(s, m))
<1> DEFINE places == Occurrences(s, m)
<1>1. Len(s) \in Int /\ 1 \in Int
  OBVIOUS
<1>2. IsFiniteSet(1..Len(s))
  BY <1>1, FS_Interval
<1>3. places \in SUBSET (1..Len(s))
  BY DEF Occurrences
<1>4. IsFiniteSet(places)
  BY <1>2, <1>3, FS_Subset
<1>5. Cardinality(places) \in Nat
  BY <1>4, FS_CardinalityType
<1>6. IsFiniteSet({r}) /\ Cardinality({r}) = 1
  BY FS_Singleton
<1> HIDE DEF places
<1>7. IsFiniteSet({r} \X places) /\ Cardinality({r} \X places) = 1 * Cardinality(places)
  BY <1>4, <1>6, FS_Product
<1>8. Cardinality({r} \X places) = Cardinality(places)
  BY <1>5, <1>7
<1> QED
  BY <1>4, <1>5, <1>7, <1>8 DEF places

\* The parts of an expectation are numbers.
LEMMA ExpectedType ==
    ASSUME TypeOK, NEW m \in Messages, IsFiniteSet(Awaiting(m))
    PROVE  /\ rows[m] \in Nat /\ Cardinality(Awaiting(m)) \in Nat /\ Expected(m) \in Nat
           /\ One(Unread(m)) \in {0, 1} /\ One(Unassigned) \in {0, 1}
<1>1. rows[m] \in Nat
  BY DEF TypeOK
<1>2. Cardinality(Awaiting(m)) \in Nat
  BY FS_CardinalityType
<1>3. One(Unread(m)) \in {0, 1} /\ One(Unassigned) \in {0, 1}
  BY DEF One
<1> QED
  BY <1>1, <1>2, <1>3 DEF Expected

LEMMA ExpectedTypeNext ==
    ASSUME TypeOK', NEW m \in Messages, IsFiniteSet(Awaiting(m))'
    PROVE  /\ rows'[m] \in Nat /\ Cardinality(Awaiting(m)') \in Nat /\ Expected(m)' \in Nat
           /\ One(Unread(m))' \in {0, 1} /\ One(Unassigned)' \in {0, 1}
           /\ Expected(m)' = rows'[m] + Cardinality(Awaiting(m)') + One(Unread(m))' + One(Unassigned)'
<1>1. rows'[m] \in Nat
  BY DEF TypeOK
<1>2. Cardinality(Awaiting(m)') \in Nat
  BY FS_CardinalityType
<1>3. One(Unread(m))' \in {0, 1} /\ One(Unassigned)' \in {0, 1}
  BY DEF One
<1> QED
  BY <1>1, <1>2, <1>3 DEF Expected

\* A step keeps CopiesInv if it raises no expectation without a fault, and
\* with one by one or to the double.
LEMMA ExpectationsKept ==
    ASSUME TypeOK, TypeOK', CopiesInv,
           \A m \in Messages :
              /\ IsFiniteSet(Awaiting(m))'
              /\ \/ faults' = faults /\ Expected(m)' <= Expected(m)
                 \/ /\ faults' = faults + 1
                    /\ \/ Expected(m)' <= Expected(m) + 1
                       \/ Expected(m)' <= Expected(m) + Expected(m),
           \A r \in Replicas : control'[r] = "commit" =>
              \A m \in Messages : Cardinality(Occurrences(batch'[r], m)) <= rows'[m]
    PROVE  CopiesInv'
<1> SUFFICES ASSUME NEW m \in Messages PROVE Expected(m)' <= 2^faults'
  BY DEF CopiesInv, Occurrences
<1>1. Expected(m) \in Nat /\ Expected(m)' \in Nat /\ Expected(m) <= 2^faults /\ faults \in Nat
  BY ExpectedType, ExpectedTypeNext DEF CopiesInv, TypeOK
<1>2. CASE faults' = faults /\ Expected(m)' <= Expected(m)
  <2>1. 2^faults \in Nat
    BY <1>1, PowerDoubles
  <2> QED
    BY <1>1, <1>2, <2>1
<1>3. CASE /\ faults' = faults + 1
           /\ Expected(m)' <= Expected(m) + 1 \/ Expected(m)' <= Expected(m) + Expected(m)
  BY <1>1, <1>3, FaultsPay
<1> QED
  BY <1>2, <1>3

-----------------------------------------------------------------------------
LEMMA InitCopies == Init => CopiesInv
<1> SUFFICES ASSUME Init PROVE CopiesInv
  OBVIOUS
<1>1. \A r \in Replicas : Len(batch[r]) = 0 /\ control[r] = "loop"
  BY DEF Init
<1>2. \A r \in Replicas : \A m : Occurrences(batch[r], m) = {}
  BY <1>1 DEF Occurrences
<1>3. ASSUME NEW m \in Messages
      PROVE  IsFiniteSet(Awaiting(m)) /\ Expected(m) <= 2^faults
  <2>1. Awaiting(m) = {}
    BY <1>2 DEF Awaiting
  <2>2. IsFiniteSet(Awaiting(m)) /\ Cardinality(Awaiting(m)) = 0
    BY <2>1, FS_EmptySet
  <2>3. rows[m] = 0 /\ ~ Unread(m) /\ faults = 0
    BY DEF Init, Unread, Messages
  <2>4. Expected(m) <= 1
    BY <2>2, <2>3 DEF Expected, One
  <2>5. 2^faults = 1
    BY <2>3
  <2> QED
    BY <2>2, <2>4, <2>5
<1> QED
  BY <1>1, <1>3 DEF CopiesInv

\* Steps that store nothing and leave the batches alone: the topic grows, the
\* group is assigned anew, a flush finds its batch refused or fails.
LEMMA NothingStoredCopies ==
    ASSUME TypeOK, TypeOK', CopiesInv, UNCHANGED <<rows, batch>>,
           \A r \in Replicas : control'[r] = "commit" <=> control[r] = "commit",
           \/ UNCHANGED <<owner, position, faults>>
           \/ Unassigned /\ ~ Unassigned' /\ faults' = faults
           \/ UNCHANGED <<owner, position>> /\ faults' = faults + 1
           \/ ~ Unassigned' /\ faults' = faults + 1
    PROVE  CopiesInv'
<1>1. \A m : Awaiting(m)' = Awaiting(m)
  BY DEF Awaiting, Occurrences
<1>2. ASSUME NEW m \in Messages
      PROVE  /\ IsFiniteSet(Awaiting(m))'
             /\ \/ faults' = faults /\ Expected(m)' <= Expected(m)
                \/ faults' = faults + 1 /\ Expected(m)' <= Expected(m) + 1
  <2>1. IsFiniteSet(Awaiting(m)) /\ IsFiniteSet(Awaiting(m))'
    BY <1>1 DEF CopiesInv
  <2>2. /\ rows[m] \in Nat /\ Cardinality(Awaiting(m)) \in Nat
        /\ One(Unread(m)) \in {0, 1} /\ One(Unassigned) \in {0, 1}
        /\ One(Unread(m))' \in {0, 1} /\ One(Unassigned)' \in {0, 1}
    BY <2>1, ExpectedType, ExpectedTypeNext
  <2>3. /\ Expected(m) = rows[m] + Cardinality(Awaiting(m)) + One(Unread(m)) + One(Unassigned)
        /\ Expected(m)' = rows[m] + Cardinality(Awaiting(m)) + One(Unread(m))' + One(Unassigned)'
    BY <1>1 DEF Expected
  <2>4. UNCHANGED <<owner, position>> =>
           One(Unread(m))' = One(Unread(m)) /\ One(Unassigned)' = One(Unassigned)
    BY DEF Unread, Unassigned
  <2>5. ~ Unassigned' => One(Unassigned)' = 0
    BY DEF One
  <2>6. Unassigned => One(Unassigned) = 1
    BY DEF One
  <2> QED
    BY <2>1, <2>2, <2>3, <2>4, <2>5, <2>6
<1>3. \A r \in Replicas : control'[r] = "commit" =>
         \A m \in Messages : Cardinality(Occurrences(batch'[r], m)) <= rows'[m]
  BY DEF CopiesInv
<1> QED
  BY <1>2, <1>3, ExpectationsKept

\* An event fetched is no longer unread, and has one more place in a batch.
LEMMA FetchCopies ==
    ASSUME NoLossInv, TypeOK', CopiesInv, NEW r \in Replicas, NEW p \in Partitions, Fetch(r, p)
    PROVE  CopiesInv'
<1> USE ConstantsAssumption
<1> DEFINE next == position[p] + 1
           m == <<p, next>>
<1>1. TypeOK /\ LogBounded
  BY DEF NoLossInv
<1>2. /\ UNCHANGED <<owner, rows, faults>>
      /\ owner[p] = r /\ r # Nobody /\ position[p] \in Nat
      /\ position' = [position EXCEPT ![p] = next]
      /\ control[r] = "loop"
  BY <1>1 DEF Fetch, TypeOK
<1>3. One(Unassigned)' = One(Unassigned)
  BY <1>2 DEF Unassigned
<1>4. ASSUME NEW x \in Messages
      PROVE  /\ x = m => One(Unread(x)) = 1 /\ One(Unread(x))' = 0
             /\ One(Unread(x))' = 0 \/ One(Unread(x))' = One(Unread(x))
  <2>1. x = m => Unread(x) /\ ~ Unread(x)'
    BY <1>1, <1>2 DEF Unread, TypeOK
  <2>2. Unread(x)' => Unread(x)
    <3>1. x[1] \in Partitions /\ x[2] \in Nat
      BY DEF Messages, Offsets
    <3>2. position'[x[1]] \in Nat /\ position[x[1]] \in Nat /\ position[x[1]] <= position'[x[1]]
      <4>1. CASE x[1] = p
        BY <1>1, <1>2, <4>1 DEF TypeOK
      <4>2. CASE x[1] # p
        BY <1>1, <1>2, <3>1, <4>2 DEF TypeOK
      <4> QED
        BY <4>1, <4>2
    <3> QED
      BY <1>2, <3>1, <3>2 DEF Unread
  <2> QED
    BY <2>1, <2>2 DEF One
<1>5. CASE ~ IsEvent(p, next)
  <2>1. batch' = batch /\ control' = control
    BY <1>5 DEF Fetch
  <2>2. ASSUME NEW x \in Messages
        PROVE  IsFiniteSet(Awaiting(x))' /\ Expected(x)' <= Expected(x)
    <3>1. Awaiting(x)' = Awaiting(x) /\ IsFiniteSet(Awaiting(x))
      BY <2>1 DEF Awaiting, CopiesInv
    <3>2. /\ rows[x] \in Nat /\ Cardinality(Awaiting(x)) \in Nat
          /\ One(Unread(x)) \in {0, 1} /\ One(Unassigned) \in {0, 1}
      BY <1>1, <3>1, ExpectedType
    <3> QED
      BY <1>2, <1>3, <1>4, <3>1, <3>2 DEF Expected
  <2>3. \A q \in Replicas : control'[q] = "commit" =>
           \A x \in Messages : Cardinality(Occurrences(batch'[q], x)) <= rows'[x]
    BY <1>2, <2>1 DEF CopiesInv
  <2> QED
    BY <1>1, <1>2, <2>2, <2>3, ExpectationsKept
<1>6. CASE IsEvent(p, next)
  <2> DEFINE last == Len(batch[r]) + 1
  <2> m \in Messages
    BY <1>2, <1>6, <1>1 DEF IsEvent, LogBounded, TypeOK, Messages, Offsets
  <2>1. /\ batch' = [batch EXCEPT ![r] = Append(batch[r], m)]
        /\ control' = [control EXCEPT ![r] = IF last >= BatchSize THEN "flush" ELSE "loop"]
    BY <1>6 DEF Fetch
  <2>2. /\ control'[r] # "commit"
        /\ \A q \in Replicas \ {r} : control'[q] = control[q] /\ batch'[q] = batch[q]
    BY <1>1, <2>1 DEF TypeOK
  <2>3. \A x : Occurrences(batch'[r], x) =
                  Occurrences(batch[r], x) \cup (IF x = m THEN {last} ELSE {})
    <3>1. batch[r] \in Seq(Messages) /\ batch'[r] = Append(batch[r], m)
      BY <1>1, <2>1 DEF TypeOK
    <3>2. /\ Len(batch[r]) \in Nat /\ Len(batch'[r]) = last /\ batch'[r][last] = m
          /\ \A i \in 1..Len(batch[r]) : batch'[r][i] = batch[r][i]
      BY <3>1
    <3>3. 1..last = 1..Len(batch[r]) \cup {last}
      BY <3>2
    <3> QED
      BY <3>2, <3>3 DEF Occurrences
  <2>4. ASSUME NEW x \in Messages
        PROVE  IsFiniteSet(Awaiting(x))' /\ Expected(x)' <= Expected(x)
    <3>1. IsFiniteSet(Awaiting(x))
      BY DEF CopiesInv
    <3>2. /\ rows[x] \in Nat /\ Cardinality(Awaiting(x)) \in Nat
          /\ One(Unread(x)) \in {0, 1} /\ One(Unassigned) \in {0, 1}
      BY <1>1, <3>1, ExpectedType
    <3>3. Awaiting(x)' = Awaiting(x) \cup (IF x = m THEN {<<r, last>>} ELSE {})
      BY <1>2, <2>2, <2>3 DEF Awaiting
    <3>4. CASE x = m
      <4>1. Awaiting(x)' = Awaiting(x) \cup {<<r, last>>}
        BY <3>3, <3>4
      <4>2. /\ IsFiniteSet(Awaiting(x)')
            /\ \/ Cardinality(Awaiting(x)') = Cardinality(Awaiting(x))
               \/ Cardinality(Awaiting(x)') = Cardinality(Awaiting(x)) + 1
        BY ONLY <3>1, <4>1, FS_AddElement
      <4> QED
        BY <1>2, <1>3, <1>4, <3>2, <3>4, <4>2 DEF Expected
    <3>5. CASE x # m
      <4>1. Awaiting(x)' = Awaiting(x)
        BY <3>3, <3>5
      <4> QED
        BY <1>2, <1>3, <1>4, <3>1, <3>2, <4>1 DEF Expected
    <3> QED
      BY <3>4, <3>5
  <2>5. \A q \in Replicas : control'[q] = "commit" =>
           \A x \in Messages : Cardinality(Occurrences(batch'[q], x)) <= rows'[x]
    BY <1>2, <2>2 DEF CopiesInv
  <2> QED
    BY <1>1, <1>2, <2>4, <2>5, ExpectationsKept
<1> QED
  BY <1>5, <1>6

\* A transaction stores what is in the batch: where places of m were awaited,
\* there are rows now, or places of m awaited still if the answer was lost.
LEMMA InsertCopies ==
    ASSUME TypeOK, TypeOK', CopiesInv, NEW r \in Replicas, Flushing(r),
           rows' = Inserted(r), UNCHANGED <<owner, position, batch>>,
           \/ control' = [control EXCEPT ![r] = "commit"] /\ faults' = faults
           \/ control' = [control EXCEPT ![r] = "loop"] /\ faults' = faults + 1
    PROVE  CopiesInv'
<1> DEFINE places(m) == Occurrences(batch[r], m)
           here(m) == {r} \X places(m)
<1>1. control[r] # "commit" /\ batch[r] \in Seq(Messages)
  BY DEF Flushing, TypeOK
<1>2. \A q \in Replicas \ {r} : control'[q] = control[q]
  BY DEF TypeOK
<1>3. \A m \in Messages :
         rows'[m] = rows[m] + Cardinality(places(m)) /\ rows[m] \in Nat /\ Cardinality(places(m)) \in Nat
  BY <1>1, OccurrencesAreCounted DEF Inserted, TypeOK
<1>4. ASSUME NEW m \in Messages
      PROVE  /\ IsFiniteSet(Awaiting(m))'
             /\ \/ faults' = faults /\ Expected(m)' <= Expected(m)
                \/ faults' = faults + 1 /\ Expected(m)' <= Expected(m) + Expected(m)
  <2>1. IsFiniteSet(Awaiting(m))
    BY DEF CopiesInv
  <2>2. /\ rows[m] \in Nat /\ Cardinality(Awaiting(m)) \in Nat
        /\ One(Unread(m)) \in {0, 1} /\ One(Unassigned) \in {0, 1}
    BY <2>1, ExpectedType
  <2>3. One(Unread(m))' = One(Unread(m)) /\ One(Unassigned)' = One(Unassigned)
    BY DEF Unread, Unassigned
  <2>4. here(m) \in SUBSET Awaiting(m)
    BY <1>1 DEF Awaiting
  <2>5. IsFiniteSet(here(m)) /\ Cardinality(here(m)) = Cardinality(places(m))
    BY <1>1, OccurrencesAreCounted
  <2> HIDE DEF here
  <2>6. Cardinality(here(m)) <= Cardinality(Awaiting(m))
    BY <2>1, <2>4, FS_Subset
  <2>7. CASE control' = [control EXCEPT ![r] = "commit"] /\ faults' = faults
    <3>1. Awaiting(m)' = Awaiting(m) \ here(m)
      <4>1. control'[r] = "commit"
        BY <2>7 DEF TypeOK
      <4> QED
        BY <1>2, <4>1 DEF Awaiting, here
    <3>2. Awaiting(m) \cap here(m) = here(m)
      BY <2>4
    <3>3. /\ IsFiniteSet(Awaiting(m) \ here(m))
          /\ Cardinality(Awaiting(m) \ here(m)) = Cardinality(Awaiting(m)) - Cardinality(here(m))
      <4>1. Cardinality(Awaiting(m) \ here(m))
               = Cardinality(Awaiting(m)) - Cardinality(Awaiting(m) \cap here(m))
        BY ONLY <2>1, FS_Difference
      <4>2. IsFiniteSet(Awaiting(m) \ here(m))
        BY ONLY <2>1, FS_Difference
      <4> QED
        BY <3>2, <4>1, <4>2
    <3> QED
      BY <1>3, <2>2, <2>3, <2>5, <2>7, <3>1, <3>3 DEF Expected
  <2>8. CASE control' = [control EXCEPT ![r] = "loop"] /\ faults' = faults + 1
    <3>1. Awaiting(m)' = Awaiting(m)
      <4>1. control'[r] = "loop"
        BY <2>8 DEF TypeOK
      <4> QED
        BY <1>1, <1>2, <4>1 DEF Awaiting
    <3> QED
      BY <1>3, <2>1, <2>2, <2>3, <2>5, <2>6, <2>8, <3>1 DEF Expected
  <2> QED
    BY <2>7, <2>8
<1>5. ASSUME NEW q \in Replicas, control'[q] = "commit", NEW m \in Messages
      PROVE  Cardinality(Occurrences(batch'[q], m)) <= rows'[m]
  <2>1. CASE q = r
    BY <1>3, <2>1
  <2>2. CASE q # r
    <3>1. Cardinality(Occurrences(batch[q], m)) <= rows[m]
      BY <1>2, <1>5, <2>2 DEF CopiesInv
    <3>2. Cardinality(Occurrences(batch[q], m)) \in Nat
      BY OccurrencesAreCounted DEF TypeOK
    <3> QED
      BY <1>3, <3>1, <3>2
  <2> QED
    BY <2>1, <2>2
<1> QED
  BY <1>4, <1>5, ExpectationsKept

\* A batch whose offsets are committed is no longer awaited by anybody; one
\* whose commit failed is awaited again, and its rows are there to pay for it.
LEMMA CommitOKCopies ==
    ASSUME TypeOK, TypeOK', CopiesInv, NEW r \in Replicas, CommitOK(r)
    PROVE  CopiesInv'
<1>1. /\ control[r] = "commit" /\ UNCHANGED <<owner, position, rows, faults>>
      /\ control'[r] = "loop" /\ batch'[r] = <<>>
      /\ \A q \in Replicas \ {r} : control'[q] = control[q] /\ batch'[q] = batch[q]
  BY DEF CommitOK, TypeOK
<1>2. ASSUME NEW m PROVE Awaiting(m)' = Awaiting(m)
  <2>1. Occurrences(batch'[r], m) = {}
    BY <1>1 DEF Occurrences
  <2> QED
    BY <1>1, <2>1 DEF Awaiting
<1>3. ASSUME NEW m \in Messages
      PROVE  IsFiniteSet(Awaiting(m))' /\ Expected(m)' <= Expected(m)
  <2>1. IsFiniteSet(Awaiting(m))
    BY DEF CopiesInv
  <2>2. Expected(m) \in Nat
    BY <2>1, ExpectedType
  <2>3. Expected(m)' = Expected(m)
    BY <1>1, <1>2 DEF Expected, Unread, Unassigned
  <2> QED
    BY <1>2, <2>1, <2>2, <2>3
<1>4. \A q \in Replicas : control'[q] = "commit" =>
         \A m \in Messages : Cardinality(Occurrences(batch'[q], m)) <= rows'[m]
  BY <1>1 DEF CopiesInv
<1> QED
  BY <1>1, <1>3, <1>4, ExpectationsKept

LEMMA CommitErrorCopies ==
    ASSUME TypeOK, TypeOK', CopiesInv, NEW r \in Replicas, CommitError(r)
    PROVE  CopiesInv'
<1> DEFINE places(m) == Occurrences(batch[r], m)
           here(m) == {r} \X places(m)
<1>1. /\ control[r] = "commit" /\ UNCHANGED <<owner, position, batch, rows>>
      /\ faults' = faults + 1 /\ control'[r] = "loop"
      /\ \A q \in Replicas \ {r} : control'[q] = control[q]
  BY DEF CommitError, Fault, TypeOK
<1>2. ASSUME NEW m \in Messages
      PROVE  IsFiniteSet(Awaiting(m))' /\ Expected(m)' <= Expected(m) + Expected(m)
  <2>1. IsFiniteSet(Awaiting(m))
    BY DEF CopiesInv
  <2>2. /\ rows[m] \in Nat /\ Cardinality(Awaiting(m)) \in Nat
        /\ One(Unread(m)) \in {0, 1} /\ One(Unassigned) \in {0, 1}
    BY <2>1, ExpectedType
  <2>3. One(Unread(m))' = One(Unread(m)) /\ One(Unassigned)' = One(Unassigned)
    BY <1>1 DEF Unread, Unassigned
  <2>4. /\ IsFiniteSet(here(m)) /\ Cardinality(here(m)) = Cardinality(places(m))
        /\ Cardinality(here(m)) \in Nat
    BY OccurrencesAreCounted DEF TypeOK
  <2>5. Cardinality(here(m)) <= rows[m]
    BY <1>1, <2>4 DEF CopiesInv
  <2>6. Awaiting(m)' = Awaiting(m) \cup here(m) /\ Awaiting(m) \cap here(m) = {}
    BY <1>1 DEF Awaiting
  <2> HIDE DEF here
  <2>7. /\ IsFiniteSet(Awaiting(m)')
        /\ Cardinality(Awaiting(m)') = Cardinality(Awaiting(m)) + Cardinality(here(m))
    BY <2>1, <2>4, <2>6, DisjointCounts
  <2> QED
    BY <1>1, <2>2, <2>3, <2>4, <2>5, <2>7 DEF Expected
<1>3. \A q \in Replicas : control'[q] = "commit" =>
         \A m \in Messages : Cardinality(Occurrences(batch'[q], m)) <= rows'[m]
  BY <1>1 DEF CopiesInv
<1> QED
  BY <1>1, <1>2, <1>3, ExpectationsKept

\* A crash forgets a batch and leaves partitions to a generation to come.
LEMMA CrashCopies ==
    ASSUME TypeOK, TypeOK', CopiesInv, NEW r \in Replicas, Crash(r)
    PROVE  CopiesInv'
<1>1. /\ UNCHANGED <<position, rows>> /\ faults' = faults + 1
      /\ owner' = [p \in Partitions |-> IF owner[p] = r THEN Nobody ELSE owner[p]]
      /\ control'[r] = "loop" /\ batch'[r] = <<>>
      /\ \A q \in Replicas \ {r} : control'[q] = control[q] /\ batch'[q] = batch[q]
  BY DEF Crash, Fault, TypeOK
<1>2. ASSUME NEW m \in Messages
      PROVE  IsFiniteSet(Awaiting(m))' /\ Expected(m)' <= Expected(m) + 1
  <2>1. IsFiniteSet(Awaiting(m))
    BY DEF CopiesInv
  <2>2. /\ rows[m] \in Nat /\ Cardinality(Awaiting(m)) \in Nat
        /\ One(Unread(m)) \in {0, 1} /\ One(Unassigned) \in {0, 1} /\ One(Unassigned)' \in {0, 1}
    BY <2>1, ExpectedType DEF One
  <2>3. One(Unread(m))' <= One(Unread(m))
    <3>1. m[1] \in Partitions
      BY DEF Messages
    <3> QED
      BY <1>1, <3>1 DEF Unread, One
  <2>4. Awaiting(m)' \in SUBSET Awaiting(m)
    <3>1. Occurrences(batch'[r], m) = {}
      BY <1>1 DEF Occurrences
    <3> QED
      BY <1>1, <3>1 DEF Awaiting
  <2>5. /\ IsFiniteSet(Awaiting(m)') /\ Cardinality(Awaiting(m)') <= Cardinality(Awaiting(m))
        /\ Cardinality(Awaiting(m)') \in Nat
    BY <2>1, <2>4, FS_Subset, FS_CardinalityType
  <2>6. One(Unread(m))' \in {0, 1}
    BY DEF One
  <2> QED
    BY <1>1, <2>2, <2>3, <2>5, <2>6 DEF Expected
<1>3. \A q \in Replicas : control'[q] = "commit" =>
         \A m \in Messages : Cardinality(Occurrences(batch'[q], m)) <= rows'[m]
  BY <1>1 DEF CopiesInv
<1> QED
  BY <1>1, <1>2, <1>3, ExpectationsKept

LEMMA StepCopies ==
    ASSUME NoLossInv, NoLossInv', CopiesInv, [Next]_vars
    PROVE  CopiesInv'
<1> USE DEF NoLossInv
<1>1. ASSUME NEW p \in Partitions, NEW kind \in Kinds, Produce(p, kind) PROVE CopiesInv'
  BY <1>1, NothingStoredCopies DEF Produce
<1>2. CASE JoinGroup
  <2>1. PICK assignment \in [Partitions -> Replicas] : Assign(assignment)
    BY <1>2 DEF JoinGroup
  <2>2. Unassigned /\ faults' = faults
    BY <1>2 DEF JoinGroup, Unassigned
  <2>3. UNCHANGED <<rows, batch, control>> /\ ~ Unassigned'
    BY <2>1, ConstantsAssumption DEF Assign, Unassigned
  <2> QED
    BY <2>2, <2>3, NothingStoredCopies
<1>3. CASE Rebalance
  <2>1. PICK assignment \in [Partitions -> Replicas] : Assign(assignment)
    BY <1>3 DEF Rebalance
  <2>2. UNCHANGED <<rows, batch, control>> /\ ~ Unassigned'
    BY <2>1, ConstantsAssumption DEF Assign, Unassigned
  <2>3. faults' = faults + 1
    BY <1>3 DEF Rebalance, Fault
  <2> QED
    BY <2>2, <2>3, NothingStoredCopies
<1>4. ASSUME NEW r \in Replicas, NEW p \in Partitions, Fetch(r, p) PROVE CopiesInv'
  BY <1>4, FetchCopies
<1>5. ASSUME NEW r \in Replicas, FlushOK(r) PROVE CopiesInv'
  BY <1>5, InsertCopies DEF FlushOK
<1>6. ASSUME NEW r \in Replicas, FlushError(r) PROVE CopiesInv'
  <2>1. /\ Flushing(r) /\ faults' = faults + 1
        /\ control' = [control EXCEPT ![r] = "loop"]
        /\ UNCHANGED <<owner, position, batch>>
    BY <1>6 DEF FlushError, Fault
  <2>2. CASE rows' = rows
    <3>1. \A q \in Replicas : control'[q] = "commit" <=> control[q] = "commit"
      BY <2>1 DEF TypeOK, Flushing
    <3> QED
      BY <2>1, <2>2, <3>1, NothingStoredCopies
  <2>3. CASE rows' = Inserted(r)
    BY <2>1, <2>3, InsertCopies
  <2> QED
    BY <1>6, <2>2, <2>3 DEF FlushError
<1>7. ASSUME NEW r \in Replicas, FlushRefused(r) PROVE CopiesInv'
  <2>1. \A q \in Replicas : control'[q] = "commit" <=> control[q] = "commit"
    BY <1>7 DEF FlushRefused, TypeOK, Flushing
  <2> QED
    BY <1>7, <2>1, NothingStoredCopies DEF FlushRefused
<1>8. ASSUME NEW r \in Replicas, CommitOK(r) PROVE CopiesInv'
  BY <1>8, CommitOKCopies
<1>9. ASSUME NEW r \in Replicas, CommitError(r) PROVE CopiesInv'
  BY <1>9, CommitErrorCopies
<1>10. ASSUME NEW r \in Replicas, Crash(r) PROVE CopiesInv'
  BY <1>10, CrashCopies
<1>11. CASE UNCHANGED vars
  BY <1>11, NothingStoredCopies DEF vars
<1> QED
  BY <1>1, <1>2, <1>3, <1>4, <1>5, <1>6, <1>7, <1>8, <1>9, <1>10, <1>11 DEF Next

\* What is stored of an event, and what may still be stored again by those who
\* hold it or will read it again, doubles with a fault at most (main.go:55-69).
THEOREM CopiesAreExpected == Spec => []CopiesInv
<1>1. NoLossInv /\ NoLossInv' /\ CopiesInv /\ [Next]_vars => CopiesInv'
  BY StepCopies
<1> QED
  BY <1>1, InitCopies, NoLoss, PTL DEF Spec

\* One fault at most doubles the rows of an event, and without faults every
\* event has at most one row: batch and pending are cleared together, and only
\* after the offsets of all they hold were committed (main.go:64-68).
THEOREM FaultsDoubleCopies == Spec => []CopiesBounded
<1>1. NoLossInv /\ CopiesInv => CopiesBounded
  <2> SUFFICES ASSUME NoLossInv, CopiesInv, NEW m \in Messages PROVE rows[m] <= 2^faults
    BY DEF CopiesBounded
  <2>1. IsFiniteSet(Awaiting(m)) /\ Expected(m) <= 2^faults /\ TypeOK
    BY DEF CopiesInv, NoLossInv
  <2>2. /\ rows[m] \in Nat /\ Cardinality(Awaiting(m)) \in Nat /\ Expected(m) \in Nat
        /\ One(Unread(m)) \in {0, 1} /\ One(Unassigned) \in {0, 1}
    BY <2>1, ExpectedType
  <2>3. rows[m] <= Expected(m)
    BY <2>2 DEF Expected
  <2>4. 2^faults \in Nat
    BY <2>1, PowerDoubles DEF TypeOK
  <2> QED
    BY <2>1, <2>2, <2>3, <2>4
<1> QED
  BY <1>1, NoLoss, CopiesAreExpected, PTL

-----------------------------------------------------------------------------
\* A step without a fault hands out partitions only while nobody has any, and
\* then nobody holds a message.
LEMMA StepHeldByOwner ==
    ASSUME TypeOK, HeldByOwner, [Next]_vars, faults' = faults
    PROVE  HeldByOwner'
<1> USE ConstantsAssumption
<1>1. CASE UNCHANGED <<owner, batch>>
  BY <1>1 DEF HeldByOwner, InBatch
<1>2. CASE JoinGroup
  <2>1. /\ \E p \in Partitions : owner[p] = Nobody
        /\ \A p \in Partitions : owner'[p] # Nobody
        /\ batch' = batch
    BY <1>2 DEF JoinGroup, Assign
  <2>2. \A p \in Partitions : owner[p] = Nobody
    BY <2>1 DEF HeldByOwner
  <2>3. \A r \in Replicas, m \in Messages : ~ InBatch(r, m)
    BY <2>2 DEF HeldByOwner, Messages
  <2> QED
    BY <2>1, <2>3 DEF HeldByOwner, InBatch
<1>3. ASSUME NEW r \in Replicas, NEW p \in Partitions, Fetch(r, p) PROVE HeldByOwner'
  <2>1. owner' = owner /\ owner[p] = r
    BY <1>3 DEF Fetch
  <2>2. CASE batch' = batch
    BY <1>1, <2>1, <2>2
  <2>3. CASE batch' # batch
    <3> DEFINE m == <<p, position[p] + 1>>
    <3>1. batch' = [batch EXCEPT ![r] = Append(batch[r], m)]
      BY <1>3, <2>3 DEF Fetch
    <3>2. ASSUME NEW q \in Replicas, NEW x \in Messages, InBatch(q, x)'
          PROVE  InBatch(q, x) \/ (q = r /\ x[1] = p)
      <4>1. CASE q = r
        <5>1. batch[r] \in Seq(Messages) /\ batch'[r] = Append(batch[r], m)
          BY <3>1 DEF TypeOK
        <5>2. PICK i \in 1..Len(batch'[r]) : batch'[r][i] = x
          BY <3>2, <4>1 DEF InBatch
        <5>3. (i \in 1..Len(batch[r]) /\ batch[r][i] = x) \/ x = m
          BY <5>1, <5>2
        <5> QED
          BY <4>1, <5>3 DEF InBatch
      <4>2. CASE q # r
        BY <3>1, <3>2, <4>2 DEF InBatch, TypeOK
      <4> QED
        BY <4>1, <4>2
    <3> QED
      BY <2>1, <3>2 DEF HeldByOwner
  <2> QED
    BY <2>2, <2>3
<1>4. ASSUME NEW r \in Replicas, CommitOK(r) PROVE HeldByOwner'
  <2>1. owner' = owner /\ batch'[r] = <<>> /\ \A q \in Replicas \ {r} : batch'[q] = batch[q]
    BY <1>4 DEF CommitOK, TypeOK
  <2>2. \A q \in Replicas, m \in Messages : InBatch(q, m)' => InBatch(q, m)
    BY <2>1 DEF InBatch
  <2> QED
    BY <2>1, <2>2 DEF HeldByOwner
<1>5. ~ Fault
  BY DEF Fault, TypeOK
<1> QED
  BY <1>1, <1>2, <1>3, <1>4, <1>5
     DEF Next, vars, Produce, Rebalance, FlushOK, FlushError, FlushRefused, CommitError, Crash

\* Until something fails "multiple Telemetry pods" do "consume messages
\* concurrently without overlapping" (ARCHITECTURE.md:77): what telemetry_overlap
\* shows takes a crash, a rebalance or a failed call.
THEOREM OverlapTakesAFault == Spec => [](faults = 0 => NoOverlap)
<1> DEFINE SoFar == faults = 0 => HeldByOwner
<1>1. Init => SoFar
  <2> SUFFICES ASSUME Init PROVE HeldByOwner
    OBVIOUS
  <2>1. \A r \in Replicas : Len(batch[r]) = 0
    BY DEF Init
  <2> QED
    BY <2>1 DEF Init, HeldByOwner, InBatch
<1>2. TypeOK /\ SoFar /\ [Next]_vars => SoFar'
  <2> SUFFICES ASSUME TypeOK, SoFar, [Next]_vars, faults' = 0 PROVE HeldByOwner'
    OBVIOUS
  <2>1. faults' = faults
    <3>1. faults \in Nat /\ faults' \in {faults, faults + 1}
      BY DEF Next, vars, Produce, JoinGroup, Rebalance, Fetch, FlushOK, FlushError, FlushRefused,
             CommitOK, CommitError, Crash, Fault, TypeOK
    <3> QED
      BY <3>1
  <2> QED
    BY <2>1, StepHeldByOwner
<1>3. SoFar => (faults = 0 => NoOverlap)
  BY DEF HeldByOwner, NoOverlap
<1> HIDE DEF SoFar
<1> QED
  BY <1>1, <1>2, <1>3, TypeCorrect, PTL DEF Spec
=============================================================================
