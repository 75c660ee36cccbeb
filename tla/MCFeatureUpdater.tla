--------------------------- MODULE MCFeatureUpdater ---------------------------
(* FeatureUpdater with few bars: a minute is two seconds here.             *)
EXTENDS FeatureUpdater

CONSTANTS btc, eth

MCProduct == {btc, eth}

BookBars(product, seconds) == {"bars.book.1s"} \X {product} \X seconds
TradeBars(product, seconds) == {"bars.trade.1s"} \X {product} \X seconds

(* One product's bars with gaps, and a trade of another product, which     *)
(* takes that topic far ahead of the books.                                *)
MCBar ==
    BookBars(btc, {0, 2, 3, 5, 7}) \union TradeBars(btc, {3}) \union TradeBars(eth, {9})

=============================================================================
