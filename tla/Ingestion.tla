----------------------------- MODULE Ingestion -----------------------------
(***************************************************************************)
(* What the telemetry service promises, whatever its replicas do: rows are *)
(* only added, only for events the topic holds, and the consumer group     *)
(* acknowledges a prefix of a partition only when every event in it has a  *)
(* row; an event whose row the database refuses is never acknowledged.     *)
(* At least once: nothing bounds the copies of a row, and an               *)
(* acknowledgement may be taken back.                                      *)
(***************************************************************************)
EXTENDS Naturals, Sequences

CONSTANTS Partitions, MaxLog

VARIABLES log, acknowledged, rows

Messages == Partitions \X (1..MaxLog)
IsEvent(p, o) == o \in 1..Len(log[p]) /\ log[p][o] \in {"event", "refused"}
Storable(p, o) == o \in 1..Len(log[p]) /\ log[p][o] = "event"

Init ==
    /\ log = [p \in Partitions |-> <<>>]
    /\ acknowledged = [p \in Partitions |-> 0]
    /\ rows = [m \in Messages |-> 0]

\* The topic grows.
Produce ==
    /\ \E p \in Partitions, kind \in {"event", "refused", "malformed"} :
          /\ Len(log[p]) < MaxLog
          /\ log' = [log EXCEPT ![p] = Append(@, kind)]
    /\ UNCHANGED <<acknowledged, rows>>

\* A transaction adds rows, all of events that can be stored.
Insert ==
    /\ rows' \in [Messages -> Nat]
    /\ \A m \in Messages :
          \/ rows'[m] = rows[m]
          \/ rows'[m] > rows[m] /\ Storable(m[1], m[2])
    /\ UNCHANGED <<log, acknowledged>>

\* Offsets are committed, all of prefixes whose events have rows.
Acknowledge ==
    /\ acknowledged' \in [Partitions -> 0..MaxLog]
    /\ \A p \in Partitions :
          /\ acknowledged'[p] <= Len(log[p])
          /\ \A o \in 1..acknowledged'[p] : IsEvent(p, o) => rows[<<p, o>>] > 0
    /\ UNCHANGED <<log, rows>>

Next == Produce \/ Insert \/ Acknowledge

Spec == Init /\ [][Next]_<<log, acknowledged, rows>>
=============================================================================
