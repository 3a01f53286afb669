--------------------------- MODULE ScoringProofs ---------------------------
(***************************************************************************)
(* For any replicas, periods and faults: if scoring takes less time than   *)
(* the lock lives, one replica scores at a time and boards never go back.  *)
(***************************************************************************)
EXTENDS Scoring, TLAPS

LEMMA InitOneScorer == Init => OneScorerInv
<1> SUFFICES ASSUME Init PROVE OneScorerInv
  OBVIOUS
<1> USE ConstantsAssumption DEF Init
<1>1. table \in Tables /\ table.version = 0 /\ 0 \in 0..MaxVersion
  BY DEF Tables
<1>2. TypeOK
  BY <1>1 DEF TypeOK, MaxAge
<1>3. LeaderHasTime /\ OneScorer /\ BoardIsOld
  BY <1>1 DEF LeaderHasTime, OneScorer, BoardIsOld, Scoring
<1> QED
  BY <1>2, <1>3 DEF OneScorerInv

\* Leaving the scoring, with whatever board not newer than what was read.
LEMMA FinishOneScorer ==
    ASSUME OneScorerInv, NEW r \in Replicas, Finish(r),
           UNCHANGED <<table, ttl, snapshot, age>>,
           due' \in [Replicas -> BOOLEAN], untilTick' \in [Replicas -> 1..Period],
           faults' \in 0..MaxFaults,
           \/ board' = board
           \/ /\ pc[r] = "rank"
              /\ \E whole \in BOOLEAN : board' = Board(r, whole)
    PROVE  OneScorerInv' /\ board'.version >= board.version
<1> USE ConstantsAssumption
<1>1. TypeOK /\ LeaderHasTime /\ OneScorer /\ BoardIsOld
  BY DEF OneScorerInv
<1>2. /\ pc' \in [Replicas -> {"wait", "leader", "rank"}]
      /\ busy' \in [Replicas -> 0..MaxScoring]
      /\ pc'[r] = "wait" /\ busy'[r] = 0
      /\ \A q \in Replicas : q # r => pc'[q] = pc[q] /\ busy'[q] = busy[q]
  BY <1>1 DEF Finish, TypeOK
<1>3. /\ board' \in [version : 0..MaxVersion, whole : BOOLEAN]
      /\ board'.version >= board.version
      /\ board'.version <= table.version
  BY <1>1 DEF TypeOK, BoardIsOld, Board, Tables
<1>4. TypeOK'
  BY <1>1, <1>2, <1>3 DEF TypeOK
<1>5. LeaderHasTime' /\ OneScorer'
  BY <1>1, <1>2 DEF LeaderHasTime, OneScorer, Scoring
<1>6. BoardIsOld'
  <2> SUFFICES ASSUME NEW q \in Replicas, pc'[q] = "rank"
               PROVE  board'.version <= snapshot[q].version /\ snapshot[q].version <= table.version
    BY <1>3 DEF BoardIsOld
  <2>1. q # r /\ pc[q] = "rank"
    BY <1>2
  <2>2. pc[r] # "rank"
    BY <2>1, <1>1 DEF OneScorer, Scoring
  <2> QED
    BY <2>1, <2>2, <1>1 DEF BoardIsOld
<1> QED
  BY <1>3, <1>4, <1>5, <1>6 DEF OneScorerInv

LEMMA StepOneScorer ==
    ASSUME MaxScoring < TTL, OneScorerInv, [Next]_vars
    PROVE  OneScorerInv' /\ board'.version >= board.version
<1> USE ConstantsAssumption
<1>1. TypeOK /\ LeaderHasTime /\ OneScorer /\ BoardIsOld
  BY DEF OneScorerInv
<1>2. board.version \in Nat /\ board.version >= board.version
  BY <1>1 DEF TypeOK
<1>3. CASE TableChanges
  <2>1. table' \in Tables /\ table'.version = table.version + 1
        /\ UNCHANGED <<ttl, untilTick, due, pc, busy, snapshot, board, age, faults>>
    BY <1>1, <1>3 DEF TableChanges, Tables, TypeOK
  <2>2. TypeOK' /\ LeaderHasTime' /\ OneScorer'
    BY <1>1, <2>1 DEF TypeOK, LeaderHasTime, OneScorer, Scoring
  <2>3. BoardIsOld'
    BY <1>1, <2>1 DEF BoardIsOld, TypeOK, Tables
  <2> QED
    BY <1>2, <2>1, <2>2, <2>3 DEF OneScorerInv
<1>4. CASE Elapse
  <2>1. /\ UNCHANGED <<table, pc, snapshot, board, faults>>
        /\ \A r \in Replicas : Scoring(r) => busy[r] < MaxScoring
        /\ ttl' = IF ttl > 0 THEN ttl - 1 ELSE 0
        /\ busy' = [r \in Replicas |-> IF Scoring(r) THEN busy[r] + 1 ELSE 0]
    BY <1>4 DEF Elapse, Idle, Scoring
  <2>2. due' \in [Replicas -> BOOLEAN] /\ untilTick' \in [Replicas -> 1..Period]
        /\ age' \in 0..MaxAge
    BY <1>1, <1>4 DEF Elapse, TypeOK, MaxAge
  <2>3. busy' \in [Replicas -> 0..MaxScoring] /\ ttl' \in 0..TTL
    BY <1>1, <2>1 DEF TypeOK
  <2>4. TypeOK'
    BY <1>1, <2>1, <2>2, <2>3 DEF TypeOK
  <2>5. LeaderHasTime'
    <3> SUFFICES ASSUME NEW r \in Replicas
                 PROVE  IF Scoring(r) THEN ttl' + busy'[r] = TTL ELSE busy'[r] = 0
      BY <2>1 DEF LeaderHasTime, Scoring
    <3>1. CASE Scoring(r)
      <4>1. ttl + busy[r] = TTL /\ busy[r] < MaxScoring /\ busy[r] \in Nat /\ ttl \in Nat
        BY <3>1, <1>1, <2>1 DEF LeaderHasTime, TypeOK
      <4>2. ttl > 0
        BY <4>1
      <4> QED
        BY <3>1, <4>1, <4>2, <2>1
    <3>2. CASE ~ Scoring(r)
      BY <3>2, <2>1
    <3> QED
      BY <3>1, <3>2
  <2>6. OneScorer' /\ BoardIsOld'
    BY <1>1, <2>1 DEF OneScorer, Scoring, BoardIsOld
  <2> QED
    BY <1>2, <2>1, <2>4, <2>5, <2>6 DEF OneScorerInv
<1>5. ASSUME NEW r \in Replicas, Acquire(r)
      PROVE  OneScorerInv' /\ board'.version >= board.version
  <2>1. /\ UNCHANGED <<table, untilTick, busy, snapshot, board, age, faults>>
        /\ ~ Scoring(r) /\ ttl = 0 /\ ttl' = TTL
        /\ due' \in [Replicas -> BOOLEAN]
        /\ pc' = [pc EXCEPT ![r] = "leader"]
    BY <1>1, <1>5 DEF Acquire, Ticks, Idle, Scoring, TypeOK
  <2>2. \A q \in Replicas : ~ Scoring(q)
    BY <1>1, <2>1 DEF LeaderHasTime, TypeOK
  <2>3. \A q \in Replicas : (Scoring(q)' <=> q = r) /\ pc'[q] # "rank"
    BY <1>1, <2>1, <2>2 DEF TypeOK, Scoring
  <2>4. TypeOK' /\ OneScorer'
    BY <1>1, <2>1, <2>3 DEF TypeOK, OneScorer
  <2>5. LeaderHasTime' /\ BoardIsOld'
    BY <1>1, <2>1, <2>2, <2>3 DEF LeaderHasTime, BoardIsOld, TypeOK
  <2> QED
    BY <1>2, <2>1, <2>4, <2>5 DEF OneScorerInv
<1>6. ASSUME NEW r \in Replicas, Skip(r) \/ LockError(r)
      PROVE  OneScorerInv' /\ board'.version >= board.version
  <2>1. /\ UNCHANGED <<table, untilTick, pc, busy, snapshot, board, age>>
        /\ due' \in [Replicas -> BOOLEAN]
        /\ faults' \in 0..MaxFaults
        /\ ttl' = ttl \/ (ttl = 0 /\ ttl' = TTL)
    <3>1. CASE Skip(r)
      BY <1>1, <3>1 DEF Skip, Ticks, TypeOK
    <3>2. CASE LockError(r)
      <4>1. faults' \in 0..MaxFaults
        BY <1>1, <3>2 DEF LockError, Fault, TypeOK
      <4>2. due' \in [Replicas -> BOOLEAN]
        BY <1>1, <3>2 DEF LockError, Ticks, TypeOK
      <4> QED
        BY <3>2, <4>1, <4>2 DEF LockError
    <3> QED
      BY <1>6, <3>1, <3>2
  <2>2. ttl = 0 => \A q \in Replicas : ~ Scoring(q)
    BY <1>1 DEF LeaderHasTime, TypeOK
  <2>3. TypeOK' /\ OneScorer' /\ BoardIsOld'
    BY <1>1, <2>1 DEF TypeOK, OneScorer, BoardIsOld, Scoring
  <2>4. LeaderHasTime'
    BY <1>1, <2>1, <2>2 DEF LeaderHasTime, Scoring
  <2> QED
    BY <1>2, <2>1, <2>3, <2>4 DEF OneScorerInv
<1>7. ASSUME NEW r \in Replicas, Query(r)
      PROVE  OneScorerInv' /\ board'.version >= board.version
  <2>1. /\ UNCHANGED <<table, ttl, untilTick, due, busy, board, faults>>
        /\ pc[r] = "leader" /\ pc' = [pc EXCEPT ![r] = "rank"]
        /\ snapshot' = [snapshot EXCEPT ![r] = table]
        /\ age' = 0
    BY <1>7 DEF Query
  <2>2. \A q \in Replicas : Scoring(q)' <=> Scoring(q)
    BY <1>1, <2>1 DEF TypeOK, Scoring
  <2>3. TypeOK'
    BY <1>1, <2>1 DEF TypeOK, MaxAge
  <2>4. LeaderHasTime' /\ OneScorer'
    BY <1>1, <2>1, <2>2 DEF LeaderHasTime, OneScorer
  <2>5. BoardIsOld'
    BY <1>1, <2>1 DEF BoardIsOld, TypeOK, Tables
  <2> QED
    BY <1>2, <2>1, <2>3, <2>4, <2>5 DEF OneScorerInv
<1>8. ASSUME NEW r \in Replicas, QueryError(r) \/ Publish(r) \/ PublishError(r)
      PROVE  OneScorerInv' /\ board'.version >= board.version
  <2>1. /\ Finish(r)
        /\ UNCHANGED <<table, ttl, untilTick, due, snapshot, age>>
        /\ faults' \in 0..MaxFaults
        /\ \/ board' = board
           \/ pc[r] = "rank" /\ \E whole \in BOOLEAN : board' = Board(r, whole)
    <3>1. CASE QueryError(r)
      BY <1>1, <3>1 DEF QueryError, Fault, TypeOK
    <3>2. CASE Publish(r)
      BY <1>1, <3>2 DEF Publish, TypeOK
    <3>3. CASE PublishError(r)
      <4>1. faults' \in 0..MaxFaults
        BY <1>1, <3>3 DEF PublishError, Fault, TypeOK
      <4>2. \/ board' = board
            \/ board' = Board(r, TRUE)
            \/ board' = Board(r, FALSE)
        BY <3>3 DEF PublishError
      <4> QED
        BY <3>3, <4>1, <4>2 DEF PublishError
    <3> QED
      BY <1>8, <3>1, <3>2, <3>3
  <2>2. due' \in [Replicas -> BOOLEAN] /\ untilTick' \in [Replicas -> 1..Period]
    BY <1>1, <2>1 DEF TypeOK
  <2> QED
    BY <2>1, <2>2, FinishOneScorer
<1>9. ASSUME NEW r \in Replicas, Crash(r)
      PROVE  OneScorerInv' /\ board'.version >= board.version
  <2>1. /\ Finish(r)
        /\ UNCHANGED <<table, ttl, snapshot, board, age>>
        /\ faults' \in 0..MaxFaults
        /\ due' \in [Replicas -> BOOLEAN] /\ untilTick' \in [Replicas -> 1..Period]
    BY <1>1, <1>9 DEF Crash, Fault, TypeOK
  <2> QED
    BY <2>1, FinishOneScorer
<1>10. CASE UNCHANGED vars
  BY <1>1, <1>2, <1>10 DEF vars, OneScorerInv, TypeOK, LeaderHasTime, OneScorer, BoardIsOld, Scoring
<1> QED
  BY <1>3, <1>4, <1>5, <1>6, <1>7, <1>8, <1>9, <1>10 DEF Next

\* The inductive invariant: the time a leader has used and the time its lock
\* has left add up to the expiry, whatever fails.
THEOREM ScoringIsConsistent ==
    ASSUME MaxScoring < TTL
    PROVE  Spec => []OneScorerInv
<1>1. Init => OneScorerInv
  BY InitOneScorer
<1>2. OneScorerInv /\ [Next]_vars => OneScorerInv'
  BY StepOneScorer
<1> QED
  BY <1>1, <1>2, PTL DEF Spec

\* If every scoring ends before the lock expires, no two replicas score at
\* once, through crashes, failed calls and lost answers of Redis.
THEOREM OnlyOneScorer ==
    ASSUME MaxScoring < TTL
    PROVE  Spec => []OneScorer
<1>1. Init => OneScorerInv
  BY InitOneScorer
<1>2. OneScorerInv /\ [Next]_vars => OneScorerInv'
  BY StepOneScorer
<1>3. OneScorerInv => OneScorer
  BY DEF OneScorerInv
<1> QED
  BY <1>1, <1>2, <1>3, PTL DEF Spec

\* Under the same condition the boards published never go back to an earlier
\* state of the table, whichever replica publishes them.
THEOREM BoardsNeverGoBack ==
    ASSUME MaxScoring < TTL
    PROVE  Spec => BoardsMoveForward
<1>1. Init => OneScorerInv
  BY InitOneScorer
<1>2. OneScorerInv /\ [Next]_vars => OneScorerInv'
  BY StepOneScorer
<1>3. OneScorerInv /\ [Next]_vars => [board'.version >= board.version]_vars
  BY StepOneScorer
<1> QED
  BY <1>1, <1>2, <1>3, PTL DEF Spec, BoardsMoveForward

-----------------------------------------------------------------------------
\* Without faults time, locks and ticks keep the age of the last query bounded.
LEMMA StepReading ==
    ASSUME MaxScoring < TTL, OneScorerInv, ReadingInv, [Next]_vars
    PROVE  ReadingInv'
<1> SUFFICES ASSUME faults' = 0 PROVE ReadingInv'
  BY DEF ReadingInv
<1> USE ConstantsAssumption
<1>1. /\ TypeOK /\ LeaderHasTime /\ OneScorer
      /\ MaxAge \in Nat /\ age \in Nat /\ ttl \in 0..TTL /\ faults \in Nat
      /\ \A r \in Replicas : /\ untilTick[r] \in 1..Period /\ busy[r] \in 0..MaxScoring
                              /\ due[r] \in BOOLEAN
  BY DEF OneScorerInv, TypeOK, MaxAge
<1>2. ttl = 0 => \A r \in Replicas : Idle(r)
  BY <1>1 DEF LeaderHasTime, Scoring, Idle
<1>3. CASE Elapse
  <2>1. faults = 0 /\ pc' = pc /\ age' <= age + 1 /\ age' \in Nat
    BY <1>1, <1>3 DEF Elapse
  <2>2. ASSUME NEW r \in Replicas, pc[r] = "leader"
        PROVE  age' <= TTL + Period + busy'[r]
    BY <1>1, <1>3, <2>1, <2>2 DEF Elapse, Idle, ReadingInv
  <2>3. ASSUME \A r \in Replicas : pc[r] # "leader", ttl' > 0
        PROVE  age' + ttl' <= TTL
    BY <1>1, <1>3, <2>1, <2>3 DEF Elapse, ReadingInv
  <2>4. ASSUME \A r \in Replicas : pc[r] # "leader", ttl' = 0, NEW r \in Replicas
        PROVE  age' + (IF due'[r] THEN 0 ELSE untilTick'[r]) <= TTL + Period
    <3>1. /\ due'[r] = (due[r] \/ untilTick[r] = 1)
          /\ untilTick'[r] = IF untilTick[r] = 1 THEN Period ELSE untilTick[r] - 1
      BY <1>3 DEF Elapse
    <3>2. CASE ttl > 0
      <4>1. age + ttl <= TTL
        BY <2>1, <2>4, <3>2 DEF ReadingInv
      <4> QED
        BY <1>1, <2>1, <3>1, <3>2, <4>1
    <3>3. CASE ttl = 0
      <4>1. ~ due[r]
        BY <1>2, <1>3, <3>3 DEF Elapse
      <4>2. age + untilTick[r] <= TTL + Period
        BY <2>1, <2>4, <3>3, <4>1 DEF ReadingInv
      <4>3. CASE untilTick[r] = 1
        <5>1. due'[r]
          BY <3>1, <4>3
        <5>2. age + 1 <= TTL + Period
          BY <4>2, <4>3
        <5>3. age' <= TTL + Period
          BY <1>1, <2>1, <5>2
        <5>4. (IF due'[r] THEN 0 ELSE untilTick'[r]) = 0
          BY <5>1
        <5> QED
          BY <2>1, <5>3, <5>4
      <4>4. CASE untilTick[r] # 1
        <5>1. ~ due'[r] /\ untilTick'[r] = untilTick[r] - 1
          BY <3>1, <4>1, <4>4
        <5> QED
          BY <1>1, <2>1, <4>2, <5>1
      <4> QED
        BY <4>3, <4>4
    <3> QED
      BY <1>1, <3>2, <3>3
  <2>5. ttl' \in Nat
    BY <1>1, <1>3 DEF Elapse
  <2>6. (\A r \in Replicas : pc'[r] # "leader") =>
           IF ttl' > 0 THEN age' + ttl' <= TTL
           ELSE \A r \in Replicas : age' + (IF due'[r] THEN 0 ELSE untilTick'[r]) <= TTL + Period
    <3> SUFFICES ASSUME \A r \in Replicas : pc[r] # "leader"
                 PROVE  IF ttl' > 0 THEN age' + ttl' <= TTL
                        ELSE \A r \in Replicas :
                                age' + (IF due'[r] THEN 0 ELSE untilTick'[r]) <= TTL + Period
      BY <2>1
    <3>1. CASE ttl' > 0
      BY <2>3, <3>1
    <3>2. CASE ttl' = 0
      BY <2>4, <3>2
    <3> QED
      BY <2>5, <3>1, <3>2
  <2>7. \A r \in Replicas : pc'[r] = "leader" => age' <= TTL + Period + busy'[r]
    BY <2>1, <2>2
  <2> QED
    BY <2>6, <2>7 DEF ReadingInv
<1>4. ASSUME NEW r \in Replicas, Acquire(r) PROVE ReadingInv'
  <2>1. /\ ttl = 0 /\ faults = 0 /\ due[r] /\ \A q \in Replicas : pc[q] # "leader"
        /\ pc' = [pc EXCEPT ![r] = "leader"] /\ age' = age /\ busy' = busy
    BY <1>1, <1>2, <1>4 DEF Acquire, Ticks, Idle
  <2>2. age <= TTL + Period
    BY <1>1, <2>1 DEF ReadingInv
  <2>3. pc'[r] = "leader"
    BY <1>1, <2>1 DEF TypeOK
  <2>4. \A q \in Replicas : pc'[q] = "leader" => age' <= TTL + Period + busy'[q]
    BY <1>1, <2>1, <2>2
  <2> QED
    BY <2>3, <2>4 DEF ReadingInv
<1>5. ASSUME NEW r \in Replicas, Skip(r) PROVE ReadingInv'
  BY <1>1, <1>5 DEF Skip, Ticks, ReadingInv
<1>6. ASSUME NEW r \in Replicas, Query(r) PROVE ReadingInv'
  <2>1. \A q \in Replicas : pc'[q] # "leader"
    BY <1>1, <1>6 DEF Query, OneScorer, Scoring, TypeOK
  <2>2. ttl' = ttl /\ ttl > 0 /\ age' = 0
    BY <1>1, <1>2, <1>6 DEF Query, Idle
  <2> QED
    BY <1>1, <2>1, <2>2 DEF ReadingInv
<1>7. ASSUME NEW r \in Replicas, Publish(r) PROVE ReadingInv'
  <2>1. \A q \in Replicas : pc[q] # "leader" /\ pc'[q] # "leader"
    BY <1>1, <1>7 DEF Publish, Finish, OneScorer, Scoring, TypeOK
  <2>2. UNCHANGED <<ttl, age, due, untilTick, faults>>
    BY <1>7 DEF Publish
  <2> QED
    BY <1>1, <2>1, <2>2 DEF ReadingInv
<1>8. CASE TableChanges \/ UNCHANGED vars
  BY <1>8 DEF TableChanges, vars, ReadingInv
<1>9. ASSUME NEW r \in Replicas, LockError(r) \/ QueryError(r) \/ PublishError(r) \/ Crash(r)
      PROVE  FALSE
  <2>1. faults' = faults + 1
    BY <1>9 DEF LockError, QueryError, PublishError, Crash, Fault
  <2> QED
    BY <1>1, <2>1
<1> QED
  BY <1>3, <1>4, <1>5, <1>6, <1>7, <1>8, <1>9 DEF Next

\* Until something fails, the table is read at least every TTL, a tick and a
\* scoring, for any replicas and phases of their clocks.
THEOREM TableIsReadInTime ==
    ASSUME MaxScoring < TTL
    PROVE  Spec => []ReadInTime
<1> USE ConstantsAssumption
<1>1. Init => OneScorerInv /\ ReadingInv
  <2>1. Init => ReadingInv
    BY DEF Init, ReadingInv
  <2> QED
    BY <2>1, InitOneScorer
<1>2. OneScorerInv /\ ReadingInv /\ [Next]_vars => OneScorerInv' /\ ReadingInv'
  BY StepOneScorer, StepReading
<1>3. OneScorerInv /\ ReadingInv => ReadInTime
  <2> SUFFICES ASSUME OneScorerInv, ReadingInv, faults = 0
               PROVE  age <= TTL + Period + MaxScoring
    BY DEF ReadInTime
  <2>1. /\ age \in Nat /\ ttl \in 0..TTL
        /\ \A r \in Replicas : untilTick[r] \in 1..Period /\ busy[r] \in 0..MaxScoring
    BY DEF OneScorerInv, TypeOK, MaxAge
  <2>2. CASE \E r \in Replicas : pc[r] = "leader"
    BY <2>1, <2>2 DEF ReadingInv
  <2>3. CASE \A r \in Replicas : pc[r] # "leader"
    BY <2>1, <2>3 DEF ReadingInv
  <2> QED
    BY <2>2, <2>3
<1> QED
  BY <1>1, <1>2, <1>3, PTL DEF Spec

-----------------------------------------------------------------------------
\* With one scorer at a time the round under way is its round.
LEMMA RoundOf ==
    ASSUME OneScorer
    PROVE  /\ \A r \in Replicas : pc[r] = "rank" => Stage = "read" /\ Rows = snapshot[r]
           /\ \A r \in Replicas : pc[r] = "leader" => Stage = "begun" /\ Rows = Engine!NoRows
           /\ (\A r \in Replicas : pc[r] = "wait") => Stage = "idle" /\ Rows = Engine!NoRows
<1>1. ASSUME NEW r \in Replicas, pc[r] = "rank" PROVE Stage = "read" /\ Rows = snapshot[r]
  <2>1. (CHOOSE q \in Replicas : Reading(q)) = r
    BY <1>1 DEF OneScorer, Scoring, Reading
  <2> QED
    BY <1>1, <2>1 DEF Stage, Rows, Reading
<1>2. ASSUME NEW r \in Replicas, pc[r] = "leader" PROVE ~ \E q \in Replicas : Reading(q)
  BY <1>2 DEF OneScorer, Scoring, Reading
<1> QED
  BY <1>1, <1>2 DEF Stage, Rows, Reading, Scoring, Engine!NoRows

LEMMA RoundOfNext ==
    ASSUME OneScorer'
    PROVE  /\ \A r \in Replicas : pc'[r] = "rank" => Stage' = "read" /\ Rows' = snapshot'[r]
           /\ \A r \in Replicas : pc'[r] = "leader" => Stage' = "begun" /\ Rows' = Engine!NoRows
           /\ (\A r \in Replicas : pc'[r] = "wait") => Stage' = "idle" /\ Rows' = Engine!NoRows
<1>1. ASSUME NEW r \in Replicas, pc'[r] = "rank" PROVE Stage' = "read" /\ Rows' = snapshot'[r]
  <2>1. (CHOOSE q \in Replicas : Reading(q)') = r
    BY <1>1 DEF OneScorer, Scoring, Reading
  <2> QED
    BY <1>1, <2>1 DEF Stage, Rows, Reading
<1>2. ASSUME NEW r \in Replicas, pc'[r] = "leader" PROVE ~ \E q \in Replicas : Reading(q)'
  BY <1>2 DEF OneScorer, Scoring, Reading
<1> QED
  BY <1>1, <1>2 DEF Stage, Rows, Reading, Scoring, Engine!NoRows

\* The replica that scores ends its round, with or without a board.
LEMMA FinishIsEnd ==
    ASSUME TypeOK, OneScorer, OneScorer', NEW r \in Replicas, Scoring(r), Finish(r)
    PROVE  Stage # "idle" /\ Engine!End
<1>1. \A q \in Replicas : q # r => pc[q] = "wait"
  BY DEF OneScorer, Scoring
<1>2. \A q \in Replicas : pc'[q] = "wait"
  BY <1>1 DEF Finish, TypeOK
<1>3. pc[r] \in {"leader", "rank"}
  BY DEF Scoring, TypeOK
<1> QED
  BY <1>2, <1>3, RoundOf, RoundOfNext DEF Engine!End

LEMMA InitImplements == Init => Engine!Init
<1> SUFFICES ASSUME Init PROVE Engine!Init
  OBVIOUS
<1>1. \A r \in Replicas : pc[r] = "wait"
  BY DEF Init
<1>2. Stage = "idle" /\ Rows = Engine!NoRows
  BY <1>1 DEF Stage, Rows, Reading, Scoring, Engine!NoRows
<1> QED
  BY <1>2 DEF Init, Engine!Init

LEMMA StepImplements ==
    ASSUME MaxScoring < TTL, OneScorerInv, OneScorerInv', [Next]_vars
    PROVE  [Engine!Next]_<<table, Stage, Rows, board>>
<1>1. TypeOK /\ OneScorer /\ LeaderHasTime /\ TypeOK' /\ OneScorer'
  BY DEF OneScorerInv
<1>2. ASSUME UNCHANGED <<pc, snapshot>> PROVE UNCHANGED <<Stage, Rows>>
  BY <1>2 DEF Stage, Rows, Reading, Scoring
<1>3. CASE TableChanges
  BY <1>2, <1>3 DEF TableChanges, Engine!TableChanges, Engine!Next
<1>4. CASE Elapse
  BY <1>2, <1>4 DEF Elapse
<1>5. ASSUME NEW r \in Replicas, Acquire(r) PROVE Engine!Begin
  <2>1. \A q \in Replicas : pc[q] = "wait"
    <3>1. ASSUME NEW q \in Replicas, Scoring(q) PROVE FALSE
      <4>1. ttl = 0 /\ busy[q] \in 0..MaxScoring /\ ttl + busy[q] = TTL
        BY <1>1, <1>5, <3>1 DEF Acquire, LeaderHasTime, TypeOK
      <4> QED
        BY <4>1, ConstantsAssumption
    <3> QED
      BY <3>1 DEF Scoring
  <2>2. pc'[r] = "leader" /\ UNCHANGED <<table, board>>
    BY <1>1, <1>5 DEF Acquire, TypeOK
  <2> QED
    BY <1>1, <2>1, <2>2, RoundOf, RoundOfNext DEF Engine!Begin
<1>6. ASSUME NEW r \in Replicas, Skip(r) \/ LockError(r)
      PROVE  UNCHANGED <<table, Stage, Rows, board>>
  BY <1>2, <1>6 DEF Skip, LockError
<1>7. ASSUME NEW r \in Replicas, Query(r) PROVE Engine!Read
  <2>1. /\ pc[r] = "leader" /\ pc'[r] = "rank" /\ snapshot'[r] = table
        /\ UNCHANGED <<table, board>>
    BY <1>1, <1>7 DEF Query, TypeOK
  <2> QED
    BY <1>1, <2>1, RoundOf, RoundOfNext DEF Engine!Read
<1>8. ASSUME NEW r \in Replicas, QueryError(r) PROVE Engine!GiveUp
  BY <1>1, <1>8, FinishIsEnd DEF QueryError, Scoring, Engine!GiveUp
<1>9. ASSUME NEW r \in Replicas, Publish(r) \/ PublishError(r)
      PROVE  Engine!Show \/ Engine!GiveUp
  <2>1. pc[r] = "rank" /\ Finish(r) /\ UNCHANGED <<table, snapshot>>
    BY <1>9 DEF Publish, PublishError
  <2>2. Stage # "idle" /\ Engine!End
    BY <1>1, <2>1, FinishIsEnd DEF Scoring
  <2>3. Stage = "read" /\ Rows = snapshot[r]
    BY <1>1, <2>1, RoundOf
  <2>4. CASE board' = board
    BY <2>1, <2>2, <2>4 DEF Engine!GiveUp
  <2>5. CASE board' # board
    <3>1. ~ snapshot[r].empty /\ \E whole \in BOOLEAN : board' = Board(r, whole)
      BY <1>9, <2>5 DEF Publish, PublishError
    <3> QED
      BY <2>1, <2>2, <2>3, <3>1 DEF Engine!Show, Board
  <2> QED
    BY <2>4, <2>5
<1>10. ASSUME NEW r \in Replicas, Crash(r)
       PROVE  Engine!GiveUp \/ UNCHANGED <<table, Stage, Rows, board>>
  <2>1. CASE Scoring(r)
    BY <1>1, <1>10, <2>1, FinishIsEnd DEF Crash, Engine!GiveUp
  <2>2. CASE ~ Scoring(r)
    <3>1. pc' = pc /\ UNCHANGED <<table, snapshot, board>>
      BY <1>1, <1>10, <2>2 DEF Crash, Finish, Scoring, TypeOK
    <3> QED
      BY <1>2, <3>1
  <2> QED
    BY <2>1, <2>2
<1>11. CASE UNCHANGED vars
  BY <1>2, <1>11 DEF vars
<1> QED
  BY <1>3, <1>4, <1>5, <1>6, <1>7, <1>8, <1>9, <1>10, <1>11 DEF Next, Engine!Next

\* However many replicas there are, whichever of them lead, fail and die, they
\* score like one process: one round at a time, a board shows the table as its
\* own round read it (scoring.go:66-145).
THEOREM ReplicasAreOneScorer ==
    ASSUME MaxScoring < TTL
    PROVE  Spec => ImplementsSingleScorer
<1>1. OneScorerInv /\ OneScorerInv' /\ [Next]_vars => [Engine!Next]_<<table, Stage, Rows, board>>
  BY StepImplements
<1>2. Spec => []OneScorerInv
  BY ScoringIsConsistent
<1> QED
  BY <1>1, <1>2, InitImplements, PTL DEF Spec, ImplementsSingleScorer, Engine!Spec

-----------------------------------------------------------------------------
LEMMA TypesAreKept == TypeOK /\ [Next]_vars => TypeOK'
<1> SUFFICES ASSUME TypeOK, [Next]_vars PROVE TypeOK'
  OBVIOUS
<1> USE ConstantsAssumption
<1>1. CASE TableChanges
  <2>1. table' \in Tables
    BY <1>1 DEF TypeOK, TableChanges, Tables
  <2> QED
    BY <1>1, <2>1 DEF TypeOK, TableChanges
<1>2. CASE Elapse
  <2>1. /\ ttl' \in 0..TTL /\ age' \in 0..MaxAge
        /\ untilTick' \in [Replicas -> 1..Period] /\ due' \in [Replicas -> BOOLEAN]
    BY <1>2 DEF TypeOK, Elapse, MaxAge
  <2>2. \A r \in Replicas : busy'[r] \in 0..MaxScoring
    <3> SUFFICES ASSUME NEW r \in Replicas PROVE busy'[r] \in 0..MaxScoring
      OBVIOUS
    <3>1. busy[r] \in 0..MaxScoring /\ (Idle(r) \/ busy[r] < MaxScoring)
      BY <1>2 DEF TypeOK, Elapse
    <3>2. busy'[r] = IF Idle(r) THEN 0 ELSE busy[r] + 1
      BY <1>2 DEF Elapse
    <3> QED
      BY <3>1, <3>2
  <2>3. busy' \in [Replicas -> 0..MaxScoring]
    BY <1>2, <2>2 DEF Elapse
  <2> QED
    BY <1>2, <2>1, <2>3 DEF TypeOK, Elapse
<1>3. ASSUME NEW r \in Replicas, Acquire(r) \/ Skip(r) \/ LockError(r) PROVE TypeOK'
  <2>1. /\ UNCHANGED <<table, untilTick, busy, snapshot, board, age>>
        /\ due' = [due EXCEPT ![r] = FALSE]
        /\ pc' = pc \/ pc' = [pc EXCEPT ![r] = "leader"]
        /\ ttl' \in {ttl, TTL} /\ faults' \in {faults, faults + 1}
        /\ faults' = faults \/ faults < MaxFaults
    BY <1>3 DEF Acquire, Skip, LockError, Ticks, Fault
  <2>2. ttl' \in 0..TTL /\ faults' \in 0..MaxFaults
    BY <2>1 DEF TypeOK
  <2>3. pc' \in [Replicas -> {"wait", "leader", "rank"}] /\ due' \in [Replicas -> BOOLEAN]
    BY <2>1 DEF TypeOK
  <2> QED
    BY <2>1, <2>2, <2>3 DEF TypeOK
<1>4. ASSUME NEW r \in Replicas, Query(r) PROVE TypeOK'
  BY <1>4 DEF TypeOK, Query, MaxAge
<1>5. ASSUME NEW r \in Replicas, Finish(r), UNCHANGED <<table, ttl, snapshot, age>>,
             board' \in [version : 0..MaxVersion, whole : BOOLEAN],
             untilTick' \in [Replicas -> 1..Period], due' \in [Replicas -> BOOLEAN],
             Fault \/ faults' = faults
      PROVE  TypeOK'
  <2>1. /\ pc' \in [Replicas -> {"wait", "leader", "rank"}]
        /\ busy' \in [Replicas -> 0..MaxScoring]
    BY <1>5 DEF TypeOK, Finish
  <2>2. faults' \in 0..MaxFaults
    BY <1>5 DEF TypeOK, Fault
  <2> QED
    BY <1>5, <2>1, <2>2 DEF TypeOK
<1>6. ASSUME NEW r \in Replicas, QueryError(r) \/ Publish(r) \/ PublishError(r) PROVE TypeOK'
  <2>1. Board(r, TRUE) \in [version : 0..MaxVersion, whole : BOOLEAN]
        /\ Board(r, FALSE) \in [version : 0..MaxVersion, whole : BOOLEAN]
    BY DEF TypeOK, Board, Tables
  <2>2. board' \in {board, Board(r, TRUE), Board(r, FALSE)}
    BY <1>6 DEF QueryError, Publish, PublishError
  <2>3. board' \in [version : 0..MaxVersion, whole : BOOLEAN]
    BY <2>1, <2>2 DEF TypeOK
  <2> QED
    BY <1>5, <1>6, <2>3 DEF TypeOK, QueryError, Publish, PublishError
<1>8. ASSUME NEW r \in Replicas, Crash(r) PROVE TypeOK'
  <2>1. untilTick' \in [Replicas -> 1..Period] /\ due' \in [Replicas -> BOOLEAN]
    BY <1>8 DEF TypeOK, Crash
  <2> QED
    BY <1>5, <1>8, <2>1 DEF TypeOK, Crash
<1>7. CASE UNCHANGED vars
  BY <1>7 DEF TypeOK, vars
<1> QED
  BY <1>1, <1>2, <1>3, <1>4, <1>6, <1>7, <1>8 DEF Next

\* A lock that is free or was set again has outlived those who took it before.
LEMMA StepApart ==
    ASSUME TypeOK, TypeOK', LeadersAreApart, [Next]_vars
    PROVE  LeadersAreApart'
<1> USE ConstantsAssumption
<1>1. ASSUME UNCHANGED <<pc, busy>>, ttl' >= ttl PROVE LeadersAreApart'
  BY <1>1 DEF LeadersAreApart, Scoring, TypeOK
<1>2. CASE Elapse
  <2>1. pc' = pc /\ ttl' \in Nat /\ ttl' >= ttl - 1 /\ ttl \in Nat
    BY <1>2 DEF Elapse, TypeOK
  <2>2. \A r \in Replicas : /\ busy[r] \in Nat /\ busy'[r] \in Nat
                            /\ busy'[r] = IF Scoring(r) THEN busy[r] + 1 ELSE 0
    BY <1>2 DEF Elapse, TypeOK, Idle, Scoring
  <2>3. ASSUME NEW r \in Replicas
        PROVE  IF Scoring(r) THEN ttl' + busy'[r] >= TTL ELSE busy'[r] = 0
    BY <2>1, <2>2 DEF LeadersAreApart
  <2>4. ASSUME NEW r \in Replicas, NEW q \in Replicas, Scoring(r), Scoring(q), r # q
        PROVE  busy'[r] >= busy'[q] + TTL \/ busy'[q] >= busy'[r] + TTL
    <3>1. busy[r] >= busy[q] + TTL \/ busy[q] >= busy[r] + TTL
      BY <2>4 DEF LeadersAreApart
    <3> QED
      BY <2>2, <2>4, <3>1
  <2> QED
    BY <2>1, <2>3, <2>4 DEF LeadersAreApart, Scoring
<1>3. ASSUME NEW r \in Replicas, Acquire(r) PROVE LeadersAreApart'
  <2>1. /\ ttl = 0 /\ ttl' = TTL /\ busy' = busy /\ ~ Scoring(r)
        /\ \A q \in Replicas : q # r => pc'[q] = pc[q]
    BY <1>3 DEF Acquire, Ticks, Idle, Scoring, TypeOK
  <2>2. busy[r] = 0
    BY <2>1 DEF LeadersAreApart
  <2>3. \A q \in Replicas : busy[q] \in Nat
    BY DEF TypeOK
  <2>4. \A q \in Replicas : q # r /\ Scoring(q) => busy[q] >= TTL
    BY <2>1, <2>3 DEF LeadersAreApart
  <2>5. ASSUME NEW q \in Replicas
        PROVE  IF Scoring(q)' THEN ttl' + busy'[q] >= TTL ELSE busy'[q] = 0
    <3>1. CASE q = r
      BY <2>1, <2>2, <3>1
    <3>2. CASE q # r
      BY <2>1, <2>3, <3>2 DEF LeadersAreApart, Scoring
    <3> QED
      BY <3>1, <3>2
  <2>6. ASSUME NEW q \in Replicas, NEW x \in Replicas, Scoring(q)', Scoring(x)', q # x
        PROVE  busy[q] >= busy[x] + TTL \/ busy[x] >= busy[q] + TTL
    <3>1. CASE q = r
      BY <2>1, <2>2, <2>3, <2>4, <2>6, <3>1 DEF Scoring
    <3>2. CASE x = r
      BY <2>1, <2>2, <2>3, <2>4, <2>6, <3>2 DEF Scoring
    <3>3. CASE q # r /\ x # r
      BY <2>1, <2>6, <3>3 DEF LeadersAreApart, Scoring
    <3> QED
      BY <3>1, <3>2, <3>3
  <2> QED
    BY <2>1, <2>5, <2>6 DEF LeadersAreApart
<1>4. ASSUME NEW r \in Replicas, Query(r) PROVE LeadersAreApart'
  <2>1. /\ ttl' = ttl /\ busy' = busy /\ pc[r] = "leader" /\ pc'[r] = "rank"
        /\ \A q \in Replicas : q # r => pc'[q] = pc[q]
    BY <1>4 DEF Query, TypeOK
  <2>2. \A q \in Replicas : Scoring(q)' <=> Scoring(q)
    BY <2>1 DEF Scoring
  <2> QED
    BY <2>1, <2>2 DEF LeadersAreApart
<1>5. ASSUME NEW r \in Replicas, Finish(r), ttl' = ttl PROVE LeadersAreApart'
  <2>1. /\ ~ Scoring(r)' /\ busy'[r] = 0
        /\ \A q \in Replicas : q # r => pc'[q] = pc[q] /\ busy'[q] = busy[q]
    BY <1>5 DEF Finish, Scoring, TypeOK
  <2>2. \A q \in Replicas : q # r => (Scoring(q)' <=> Scoring(q))
    BY <2>1 DEF Scoring
  <2> QED
    BY <1>5, <2>1, <2>2 DEF LeadersAreApart
<1>6. ASSUME NEW r \in Replicas, Skip(r) \/ LockError(r) PROVE LeadersAreApart'
  BY <1>1, <1>6 DEF Skip, LockError, TypeOK
<1>7. CASE TableChanges \/ UNCHANGED vars
  BY <1>1, <1>7 DEF TableChanges, vars, TypeOK
<1> QED
  BY <1>2, <1>3, <1>4, <1>5, <1>6, <1>7
     DEF Next, QueryError, Publish, PublishError, Crash

\* With no assumption about the database: two replicas may score at once only
\* if one took the lock a whole expiry before the other (scoring.go:70-78).
THEOREM LeadersTakeTurns == Spec => [](TypeOK /\ LeadersAreApart)
<1>1. Init => TypeOK /\ LeadersAreApart
  <2> SUFFICES ASSUME Init PROVE TypeOK /\ LeadersAreApart
    OBVIOUS
  <2>1. TypeOK
    BY InitOneScorer DEF OneScorerInv
  <2>2. LeadersAreApart
    BY DEF Init, LeadersAreApart, Scoring
  <2> QED
    BY <2>1, <2>2
<1>2. TypeOK /\ LeadersAreApart /\ [Next]_vars => (TypeOK /\ LeadersAreApart)'
  BY TypesAreKept, StepApart
<1> QED
  BY <1>1, <1>2, PTL DEF Spec
=============================================================================
