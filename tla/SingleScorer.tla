---------------------------- MODULE SingleScorer ----------------------------
(***************************************************************************)
(* What the replicas of the leaderboard promise together: they score like  *)
(* one process.  There is one round at a time; a round reads the table     *)
(* once and shows what it read, all or part of it, or ends with nothing    *)
(* shown; a table without runs is never shown.                             *)
(***************************************************************************)
EXTENDS Naturals

VARIABLES
    table,  \* version of order_metrics, and whether the query finds a run in it
    stage,  \* of the round under way: "idle" if there is none, "begun", "read"
    rows,   \* the table a round has read
    board   \* the last message of channel "live-scores"

NoRows == [version |-> 0, empty |-> TRUE]

Init ==
    /\ table = [version |-> 0, empty |-> TRUE]
    /\ stage = "idle" /\ rows = NoRows
    /\ board = [version |-> 0, whole |-> TRUE]

TableChanges ==
    /\ \E empty \in BOOLEAN : table' = [version |-> table.version + 1, empty |-> empty]
    /\ UNCHANGED <<stage, rows, board>>

Begin ==
    /\ stage = "idle" /\ stage' = "begun"
    /\ UNCHANGED <<table, rows, board>>

Read ==
    /\ stage = "begun" /\ stage' = "read"
    /\ rows' = table
    /\ UNCHANGED <<table, board>>

End == stage' = "idle" /\ rows' = NoRows

Show ==
    /\ stage = "read" /\ ~ rows.empty
    /\ \E whole \in BOOLEAN : board' = [version |-> rows.version, whole |-> whole]
    /\ End
    /\ UNCHANGED table

GiveUp ==
    /\ stage # "idle"
    /\ End
    /\ UNCHANGED <<table, board>>

Next == TableChanges \/ Begin \/ Read \/ Show \/ GiveUp

Spec == Init /\ [][Next]_<<table, stage, rows, board>>
=============================================================================
