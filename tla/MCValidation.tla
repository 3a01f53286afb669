---------------------------- MODULE MCValidation ----------------------------
(* Instances of Validation for TLC. *)
EXTENDS Validation, TLC

Fill(type, side, price, execution, ordered, filled, status) ==
    [type |-> type, side |-> side, price |-> price, execution |-> execution,
     ordered |-> ordered, filled |-> filled, status |-> status]

\* Orders at two prices that rest, are filled in part, and are filled whole.
Limit == {Fill("LIMIT", s, p, IF q[2] = 0 THEN 0 ELSE p, q[1], q[2], "") :
             s \in {"BUY", "SELL"}, p \in 1..2, q \in {<<1, 0>>, <<2, 1>>, <<1, 1>>}}

\* Answers that the early returns of ValidateOrder are about, a fill at a
\* better price than the limit, and a market order.
Odd == {Fill("LIMIT", "BUY", 2, 1, 1, 1, ""), Fill("LIMIT", "BUY", 1, 2, 1, 1, ""),
        Fill("LIMIT", "SELL", 2, 0, 1, 0, "REJECTED"), Fill("LIMIT", "BUY", 2, 2, 1, 2, ""),
        Fill("MARKET", "BUY", 0, 2, 1, 1, "")}

LimitAndOdd == Limit \cup Odd
Symmetry == Permutations(Runs \ TestBots)
Answered == [status : {"cancelled", ""}]
=============================================================================
