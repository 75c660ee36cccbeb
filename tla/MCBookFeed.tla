------------------------------ MODULE MCBookFeed ------------------------------
(* BookFeed on a book of three prices with two bids that come and go.      *)
EXTENDS BookFeed

MCFirstBook == [bids |-> [p \in Price |-> IF p = 1 THEN 1 ELSE 0],
                asks |-> [p \in Price |-> IF p = 3 THEN 1 ELSE 0]]

MCChanges == {[side |-> "bid", price |-> 1, size |-> 0],
              [side |-> "bid", price |-> 2, size |-> 1]}

=============================================================================
