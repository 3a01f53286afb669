------------------------------ MODULE Scoring ------------------------------
(***************************************************************************)
(* runScoringEngine of cmd/leaderboard/scoring.go on every replica: a tick *)
(* every two seconds, a lock in Redis that expires by itself and is never  *)
(* released, a query, a published board.  Time passes in units of the      *)
(* clock (seconds in the code); the table is a version number, for what    *)
(* matters is which state of it a board shows.  How a score is computed is *)
(* left out.                                                               *)
(***************************************************************************)
EXTENDS Naturals, FiniteSets

CONSTANTS Replicas,
          Period,      \* 2: time between the ticks of a replica
          TTL,         \* 5: expiry of "scorer:leader-lock"
          MaxScoring,  \* longest time from the lock to the published board
          MaxVersion,  \* bound: changes of the table
          MaxFaults    \* bound: crashes and failed calls

\* The code sets no timeout on the query: MaxScoring < TTL is an assumption
\* about the database, made by the configurations that need it.
ASSUME ConstantsAssumption ==
    /\ Replicas # {}
    /\ Period \in Nat \ {0}
    /\ TTL \in Nat \ {0}
    /\ MaxScoring \in Nat
    /\ MaxVersion \in Nat
    /\ MaxFaults \in Nat

VARIABLES
    table,     \* version of order_metrics, and whether the query finds a run in it
    ttl,       \* time the lock has to live; 0 when there is no lock
    untilTick, \* time to the next tick of each replica
    due,       \* whether each replica's ticker channel holds a tick
    pc,        \* "wait", "leader" (has the lock), "rank" (has the rows)
    busy,      \* time since each leader took the lock
    snapshot,  \* the table each leader read
    board,     \* the last message of channel "live-scores"
    age,       \* history: time since the table was last read, capped
    faults

vars == <<table, ttl, untilTick, due, pc, busy, snapshot, board, age, faults>>

Tables == [version : 0..MaxVersion, empty : BOOLEAN]
MaxAge == TTL + Period + MaxScoring + 1

TypeOK ==
    /\ table \in Tables
    /\ ttl \in 0..TTL
    /\ untilTick \in [Replicas -> 1..Period]
    /\ due \in [Replicas -> BOOLEAN]
    /\ pc \in [Replicas -> {"wait", "leader", "rank"}]
    /\ busy \in [Replicas -> 0..MaxScoring]
    /\ snapshot \in [Replicas -> Tables]
    /\ board \in [version : 0..MaxVersion, whole : BOOLEAN]
    /\ age \in 0..MaxAge
    /\ faults \in 0..MaxFaults

\* Replicas start at any phase of the clock.
Init ==
    /\ table = [version |-> 0, empty |-> TRUE]
    /\ ttl = 0
    /\ untilTick \in [Replicas -> 1..Period]
    /\ due = [r \in Replicas |-> FALSE]
    /\ pc = [r \in Replicas |-> "wait"]
    /\ busy = [r \in Replicas |-> 0]
    /\ snapshot = [r \in Replicas |-> table]
    /\ board = [version |-> 0, whole |-> TRUE]
    /\ age = 0
    /\ faults = 0

Fault == faults < MaxFaults /\ faults' = faults + 1

-----------------------------------------------------------------------------
\* Telemetry inserts rows, or rows leave the window of fifteen minutes.
TableChanges ==
    /\ table.version < MaxVersion
    /\ \E empty \in BOOLEAN : table' = [version |-> table.version + 1, empty |-> empty]
    /\ UNCHANGED <<ttl, untilTick, due, pc, busy, snapshot, board, age, faults>>

Idle(r) == pc[r] = "wait"

\* One unit of time.  An idle replica takes a tick at once, and a leader does
\* not need longer than MaxScoring.  A tick is lost when the channel is full.
Elapse ==
    /\ \A r \in Replicas : IF Idle(r) THEN ~ due[r] ELSE busy[r] < MaxScoring
    /\ ttl' = IF ttl > 0 THEN ttl - 1 ELSE 0
    /\ untilTick' = [r \in Replicas |-> IF untilTick[r] = 1 THEN Period ELSE untilTick[r] - 1]
    /\ due' = [r \in Replicas |-> due[r] \/ untilTick[r] = 1]
    /\ busy' = [r \in Replicas |-> IF Idle(r) THEN 0 ELSE busy[r] + 1]
    /\ age' = IF age < MaxAge THEN age + 1 ELSE age
    /\ UNCHANGED <<table, pc, snapshot, board, faults>>

Ticks(r) ==
    /\ Idle(r) /\ due[r]
    /\ due' = [due EXCEPT ![r] = FALSE]

\* Mutant: Set instead of SetNX.
AcquireAlways(r) ==
    /\ Ticks(r)
    /\ ttl' = TTL
    /\ pc' = [pc EXCEPT ![r] = "leader"]
    /\ UNCHANGED <<table, untilTick, busy, snapshot, board, age, faults>>

\* SetNX finds no lock.
Acquire(r) ==
    /\ Ticks(r)
    /\ ttl = 0
    /\ ttl' = TTL
    /\ pc' = [pc EXCEPT ![r] = "leader"]
    /\ UNCHANGED <<table, untilTick, busy, snapshot, board, age, faults>>

\* Mutant: every attempt extends the lock.
SkipAndExtend(r) ==
    /\ Ticks(r)
    /\ ttl > 0
    /\ ttl' = TTL
    /\ UNCHANGED <<table, untilTick, pc, busy, snapshot, board, age, faults>>

\* Another replica, or this one some ticks ago, holds the lock.
Skip(r) ==
    /\ Ticks(r)
    /\ ttl > 0
    /\ UNCHANGED <<table, ttl, untilTick, pc, busy, snapshot, board, age, faults>>

\* Mutant: the error of SetNX is logged, and the tick is not skipped.
LockErrorScores(r) ==
    /\ Ticks(r)
    /\ Fault
    /\ ttl' \in {ttl, IF ttl = 0 THEN TTL ELSE ttl}
    /\ pc' = [pc EXCEPT ![r] = "leader"]
    /\ UNCHANGED <<table, untilTick, busy, snapshot, board, age>>

\* SetNX fails, and Redis may have set the lock all the same.
LockError(r) ==
    /\ Ticks(r)
    /\ Fault
    /\ ttl' \in {ttl, IF ttl = 0 THEN TTL ELSE ttl}
    /\ UNCHANGED <<table, untilTick, pc, busy, snapshot, board, age>>

Query(r) ==
    /\ pc[r] = "leader"
    /\ pc' = [pc EXCEPT ![r] = "rank"]
    /\ snapshot' = [snapshot EXCEPT ![r] = table]
    /\ age' = 0
    /\ UNCHANGED <<table, ttl, untilTick, due, busy, board, faults>>

Finish(r) ==
    /\ pc' = [pc EXCEPT ![r] = "wait"]
    /\ busy' = [busy EXCEPT ![r] = 0]

\* The lock is kept: nobody scores before it expires.
QueryError(r) ==
    /\ pc[r] = "leader"
    /\ Finish(r) /\ Fault
    /\ UNCHANGED <<table, ttl, untilTick, due, snapshot, board, age>>

Board(r, whole) == [version |-> snapshot[r].version, whole |-> whole]

\* Mutant: only the first board is published.
PublishOnce(r) ==
    /\ pc[r] = "rank"
    /\ board' = IF snapshot[r].empty \/ board.version > 0 THEN board ELSE Board(r, TRUE)
    /\ Finish(r)
    /\ UNCHANGED <<table, ttl, untilTick, due, snapshot, age, faults>>

\* The loop over the rows reads them all.  A board without runs is not
\* published.
Publish(r) ==
    /\ pc[r] = "rank"
    /\ board' = IF snapshot[r].empty THEN board ELSE Board(r, TRUE)
    /\ Finish(r)
    /\ UNCHANGED <<table, ttl, untilTick, due, snapshot, age, faults>>

\* rows.Next ends early or a row does not scan: rows.Err() is not looked at,
\* and what was read is published if it is not empty.  Or Publish fails.
PublishError(r) ==
    /\ pc[r] = "rank"
    /\ ~ snapshot[r].empty
    /\ board' \in {board, Board(r, TRUE), Board(r, FALSE)}
    /\ Finish(r) /\ Fault
    /\ UNCHANGED <<table, ttl, untilTick, due, snapshot, age>>

\* The process dies and starts again, at some phase of the clock.
Crash(r) ==
    /\ Finish(r) /\ Fault
    /\ due' = [due EXCEPT ![r] = FALSE]
    /\ \E phase \in 1..Period : untilTick' = [untilTick EXCEPT ![r] = phase]
    /\ UNCHANGED <<table, ttl, snapshot, board, age>>

-----------------------------------------------------------------------------
Next ==
    \/ TableChanges \/ Elapse
    \/ \E r \in Replicas : Acquire(r)
    \/ \E r \in Replicas : Skip(r)
    \/ \E r \in Replicas : LockError(r)
    \/ \E r \in Replicas : Query(r)
    \/ \E r \in Replicas : QueryError(r)
    \/ \E r \in Replicas : Publish(r)
    \/ \E r \in Replicas : PublishError(r)
    \/ \E r \in Replicas : Crash(r)

Spec == Init /\ [][Next]_vars

\* Time passes, and what MaxScoring bounds ends.  Faults end (MaxFaults).
Fairness ==
    /\ WF_vars(Elapse)
    /\ \A r \in Replicas : /\ WF_vars(Acquire(r)) /\ WF_vars(Skip(r))
                           /\ WF_vars(Query(r)) /\ WF_vars(Publish(r))

FairSpec == Spec /\ Fairness

-----------------------------------------------------------------------------
\* Two replicas are never between the lock and the board at once, provided
\* that a leader is done before its lock expires (scoring.go:70-78).
Scoring(r) == pc[r] # "wait"

OneScorer == \A r, q \in Replicas : Scoring(r) /\ Scoring(q) => r = q

\* Why OneScorer holds: a leader's time and its lock's time add up.
LeaderHasTime ==
    \A r \in Replicas : IF Scoring(r) THEN ttl + busy[r] = TTL ELSE busy[r] = 0

\* Why boards do not go back: what the leader read is no older than the board.
BoardIsOld ==
    /\ board.version <= table.version
    /\ \A r \in Replicas : pc[r] = "rank" =>
          board.version <= snapshot[r].version /\ snapshot[r].version <= table.version

\* Without that proviso: however slow the queries are, those who score at once
\* took the lock at least TTL apart (scoring.go:70-78).
LeadersAreApart ==
    /\ \A r \in Replicas : IF Scoring(r) THEN ttl + busy[r] >= TTL ELSE busy[r] = 0
    /\ \A r, q \in Replicas : Scoring(r) /\ Scoring(q) /\ r # q =>
          busy[r] >= busy[q] + TTL \/ busy[q] >= busy[r] + TTL

OneScorerInv == TypeOK /\ LeaderHasTime /\ OneScorer /\ BoardIsOld

\* Boards never go back to an earlier state of the table, whoever scores.
BoardsMoveForward == [][board'.version >= board.version]_vars

\* Until something fails, the table is read at least every TTL and a tick:
\* the lock expires and the next tick of any replica takes it.
ReadInTime == faults = 0 => age <= TTL + Period + MaxScoring

\* Why ReadInTime holds: a lock is taken by a query in the same iteration, and
\* a free one by the next tick of any replica.
ReadingInv ==
    faults = 0 =>
        /\ \A r \in Replicas : pc[r] = "leader" => age <= TTL + Period + busy[r]
        /\ (\A r \in Replicas : pc[r] # "leader") =>
              IF ttl > 0 THEN age + ttl <= TTL
              ELSE \A r \in Replicas : age + (IF due[r] THEN 0 ELSE untilTick[r]) <= TTL + Period

\* When the table stops changing, browsers see it: the last board is of the
\* last version and whole, whichever leaders crashed and whatever partial
\* boards were published on the way.  A table without runs is never shown
\* (scoring.go:129): the board before it stays.
BoardCatchesUp == <>[](table.empty \/ board = [version |-> table.version, whole |-> TRUE])

\* A lock nobody releases does not stop the scoring, not even the lock of a
\* leader that died.
ScoringGoesOn == []<>(age = 0)

\* The replicas together implement one scorer, provided that a leader is done
\* before its lock expires: the round under way is that of the replica between
\* the lock and the board.
Reading(r) == pc[r] = "rank"

Stage == IF \E r \in Replicas : Reading(r) THEN "read"
         ELSE IF \E r \in Replicas : Scoring(r) THEN "begun" ELSE "idle"

Rows == IF \E r \in Replicas : Reading(r)
        THEN snapshot[CHOOSE r \in Replicas : Reading(r)]
        ELSE [version |-> 0, empty |-> TRUE]

Engine == INSTANCE SingleScorer WITH stage <- Stage, rows <- Rows
ImplementsSingleScorer == Engine!Spec

\* scoring.go:69: "Leader election: only one replica scores per tick".
OnlyOneReplicaScores == OneScorer
=============================================================================
