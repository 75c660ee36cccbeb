------------------------------ MODULE MCTradeFeed -----------------------------
(* TradeFeed with one product.                                             *)
EXTENDS TradeFeed

CONSTANT btc

MCProduct == {btc}

MCMaxTrade == [p \in MCProduct |-> 3]

=============================================================================
