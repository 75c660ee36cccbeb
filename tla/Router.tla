-------------------------------- MODULE Router --------------------------------
(***************************************************************************)
(* What src/producer/coinbase.py does with the trades of the feed: every   *)
(* match and last_match is stamped with conn_epoch and sent to trades.raw, *)
(* and the trade ids, the heartbeats' last_trade_id among them, are        *)
(* followed to count the trades the feed has lost.                         *)
(*                                                                         *)
(* Of Router.counts only trade_gaps is kept: the others tick once per      *)
(* message.  Book messages are BookFeed's; a subscriptions message changes *)
(* nothing.                                                                *)
(***************************************************************************)
EXTENDS Integers, Sequences, FiniteSets

CONSTANTS
    Product,    \* the product ids of the subscription
    None,       \* Python's None
    MaxDlq,     \* bound: how many messages go to the DLQ
    MaxLost     \* bound: how many records sent to trades.raw never arrive

ASSUME RouterAssumption == None \notin Nat /\ MaxDlq \in Nat /\ MaxLost \in Nat

VARIABLES
    lastTradeId,    \* _last_trade_id: a product's last trade id, None if not in it
    tradeGaps,      \* counts["trade_gaps"]
    tradesRaw,      \* the records in trades.raw
    undelivered,    \* history: the records sent to trades.raw that never arrive
    dlq             \* how many messages are in dlq.malformed

routerVars == <<lastTradeId, tradeGaps, tradesRaw, undelivered, dlq>>

TradeMsg == [type: {"match", "last_match"}, product: Product, tid: Nat]
Heartbeat == [type: {"heartbeat"}, product: Product, tid: Nat]
FeedMsg == TradeMsg \union Heartbeat

(* run is history: which process sent the record.                          *)
TradeRecord ==
    [type: {"match", "last_match"}, product: Product, tid: Nat, epoch: Nat, run: Nat]

RouterTypeOK ==
    /\ lastTradeId \in [Product -> Nat \union {None}]
    /\ tradeGaps \in Nat
    /\ tradesRaw \in Seq(TradeRecord)
    /\ undelivered \subseteq TradeRecord
    /\ dlq \in 0..MaxDlq

(* A new process has a new Router; what it sent before stays in the topic. *)
NewRouter ==
    /\ lastTradeId' = [p \in Product |-> None]
    /\ tradeGaps' = 0
    /\ UNCHANGED <<tradesRaw, undelivered, dlq>>

RouterInit ==
    /\ lastTradeId = [p \in Product |-> None]
    /\ tradeGaps = 0
    /\ tradesRaw = <<>>
    /\ undelivered = {}
    /\ dlq = 0

Seen(product) == lastTradeId[product] # None

(* _track_trade_id: the ids between a product's last trade and this one    *)
(* are missed.  One variant does not count what a reconnect missed, another *)
(* one counts -1 when last_match repeats the last trade.                   *)
MissedByTheFeed(msg) ==
    IF msg.type = "match" /\ Seen(msg.product) /\ msg.tid > lastTradeId[msg.product] + 1
    THEN msg.tid - lastTradeId[msg.product] - 1 ELSE 0

MissedUnguarded(msg) ==
    IF Seen(msg.product) THEN msg.tid - lastTradeId[msg.product] - 1 ELSE 0

Missed(msg) ==
    IF Seen(msg.product) /\ msg.tid > lastTradeId[msg.product] + 1
    THEN msg.tid - lastTradeId[msg.product] - 1 ELSE 0

(* Only an id above the last one (so no last_match after a quiet time)     *)
(* becomes the product's last.                                             *)
Advanced(msg) ==
    IF Seen(msg.product) /\ msg.tid <= lastTradeId[msg.product] THEN lastTradeId
    ELSE [lastTradeId EXCEPT ![msg.product] = msg.tid]

Track(msg) ==
    /\ tradeGaps' = tradeGaps + Missed(msg)
    /\ lastTradeId' = Advanced(msg)

(* sink.send queues the record; that the broker never takes it is logged   *)
(* when it turns out, and changes nothing here.                            *)
Arrives(record) == tradesRaw' = Append(tradesRaw, record) /\ UNCHANGED undelivered

IsLost(record) ==
    /\ Cardinality(undelivered) < MaxLost
    /\ undelivered' = undelivered \union {record}
    /\ UNCHANGED tradesRaw

(* The id is followed before the record is sent, so also if that fails.    *)
RouteTrade(msg, connEpoch, process) ==
    LET record == [type |-> msg.type, product |-> msg.product, tid |-> msg.tid,
                   epoch |-> connEpoch, run |-> process]
    IN  /\ Track(msg)
        /\ Arrives(record) \/ IsLost(record)
        /\ UNCHANGED dlq

(* _check_heartbeat: the exchange has made trades the router never saw.    *)
(* The variant does not notice one that is alone.                          *)
NewsAfterTwo(msg) ==
    IF Seen(msg.product) THEN msg.tid > lastTradeId[msg.product] + 1 ELSE FALSE

News(msg) == IF Seen(msg.product) THEN msg.tid > lastTradeId[msg.product] ELSE FALSE

CheckHeartbeat(msg) ==
    /\ News(msg)
    /\ tradeGaps' = tradeGaps + (msg.tid - lastTradeId[msg.product])
    /\ lastTradeId' = Advanced(msg)
    /\ UNCHANGED <<tradesRaw, undelivered, dlq>>

IgnoreHeartbeat(msg) ==
    /\ ~ News(msg)
    /\ UNCHANGED routerVars

(* _dlq: invalid JSON, no product_id, an error, or a type nobody knows.    *)
Dlq ==
    /\ dlq < MaxDlq
    /\ dlq' = dlq + 1
    /\ UNCHANGED <<lastTradeId, tradeGaps, tradesRaw, undelivered>>

Route(msg, connEpoch, process) ==
    \/ msg.type # "heartbeat" /\ RouteTrade(msg, connEpoch, process)
    \/ msg.type = "heartbeat" /\ (CheckHeartbeat(msg) \/ IgnoreHeartbeat(msg))

=============================================================================
