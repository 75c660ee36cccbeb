----------------------------- MODULE MCBarWindows -----------------------------
(* BarWindows with two products in two of three partitions.                *)
EXTENDS BarWindows

CONSTANTS btc, eth

Rec(product, time, stamp) == [product |-> product, time |-> time, stamp |-> stamp]

(* btc's second record is out of order; eth's last one is older than its   *)
(* stamp by more than the watermark allows for, in a second that has       *)
(* another record.                                                         *)
MCLog ==
    << <<Rec(btc, 1, 1), Rec(btc, 0, 0), Rec(btc, 4, 4)>>,
       <<Rec(eth, 1, 1), Rec(eth, 2, 3), Rec(eth, 1, 3)>>,
       <<>> >>

=============================================================================
