-------------------------------- MODULE MCGold --------------------------------
(* The gold build and the split of its rows, for two products, one of      *)
(* which starts later and has bars now and then.                           *)
EXTENDS TimeSplit

CONSTANTS btc, eth, scheduled, manual

MCProduct == {btc, eth}

MCBookBar == {btc} \X (0..6) \union {eth} \X {1, 3, 6}
MCTradeBar == {btc} \X {1, 3, 4}

FairGold == GoldSpec /\ GoldFairness

=============================================================================
