------------------------------- MODULE GoldRows -------------------------------
(***************************************************************************)
(* What scripts/gold_features.sql computes for one product, as operators   *)
(* on the seconds it has book bars and trade bars for.  A row of features  *)
(* is the set of seconds each of its aggregates is taken over; the numbers *)
(* follow from the bars.                                                   *)
(***************************************************************************)
EXTENDS Integers, FiniteSets, FiniteSetsExt

CONSTANTS
    Minute,     \* the length of a minute
    Long,       \* the window of rv_60m
    Short       \* the window of the 5-minute aggregates, and of the label

ASSUME GoldAssumption == Minute \in Nat \ {0} /\ Long \in Nat /\ Short \in Nat

(* No second: SQL's NULL.                                                  *)
Never == -1

(* date_trunc('minute', ...).                                              *)
AsOf(second) == second - (second % Minute)

(* bounds: a row needs a full long window and a minute before it, and a    *)
(* complete label window after it; the variant forgets the label.          *)
StartT(bookSeconds) == AsOf(Min(bookSeconds)) + Long + Minute

EndTOfFeatures(bookSeconds) == AsOf(Max(bookSeconds))

EndT(bookSeconds) == AsOf(Max(bookSeconds)) - Short

(* The minutes a product may have a row for.                               *)
FullGrid(bookSeconds) ==
    IF bookSeconds = {} THEN {}
    ELSE {t \in StartT(bookSeconds)..EndT(bookSeconds) : t % Minute = 0}

(* The bars a row is made from: none, and the row is not there (book_agg   *)
(* joins the grid with the bars).                                          *)
Joined(bookSeconds, asOf) == {s \in bookSeconds : asOf - Long < s /\ s <= asOf + Short}

Window(seconds, asOf, length) == seconds \intersect ((asOf - length + 1)..asOf)

(* lag(mid_close) over the product's whole series.                         *)
Lag(bookSeconds, second) ==
    LET before == {s \in bookSeconds : s < second}
    IN  IF before = {} THEN Never ELSE Max(before)

(* book_agg and trade_agg: the bars of the aggregates, and base, the bar   *)
(* the first return of the long window starts from.                        *)
GoldFeatures(bookSeconds, tradeSeconds, asOf) ==
    LET long == Window(bookSeconds, asOf, Long)
    IN  [book   |-> long,
         base   |-> Lag(bookSeconds, IF long = {} THEN asOf ELSE Min(long)),
         recent |-> Window(bookSeconds, asOf, Short),
         trades |-> Window(tradeSeconds, asOf, Short)]

(* label_rv_5m and label_bar_count.                                        *)
Label(bookSeconds, asOf) == {s \in Joined(bookSeconds, asOf) : s > asOf}

=============================================================================
