------------------------------ MODULE MCBookJob ------------------------------
(* BookJob on one product and a book of three price levels.                *)
EXTENDS BookJob

Buy(price, size) == [side |-> "bid", price |-> price, size |-> size]
Sell(price, size) == [side |-> "ask", price |-> price, size |-> size]

Of(level, size) == [p \in Price |-> IF p = level THEN size ELSE 0]

(* Two connections' snapshots, a one-sided one among them, and deltas that *)
(* change nothing, cross the book, uncross it or delete an absent level,   *)
(* and move the best quotes; with any order of them, deltas also come before  *)
(* their snapshot, or after a later connection's.                          *)
MCMsg ==
    {Snapshot(1, Of(1, 1), Of(3, 1)),
     Snapshot(2, Of(2, 2), Of(3, 1)),
     Snapshot(2, EmptySide, Of(3, 1)),
     Delta(1, <<>>),
     Delta(1, <<Buy(3, 1)>>),
     Delta(1, <<Buy(3, 0), Buy(2, 1)>>),
     Delta(2, <<Buy(2, 0), Buy(1, 1), Sell(2, 1)>>)}

=============================================================================
