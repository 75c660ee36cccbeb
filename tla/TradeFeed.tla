------------------------------ MODULE TradeFeed -------------------------------
(***************************************************************************)
(* The way of the trades from the exchange to the 1-second bars: the       *)
(* connection loop (Runner), the router that follows the trade ids         *)
(* (Router), and the filter of the bars job, which keeps matches only.     *)
(*                                                                         *)
(* The exchange is external.  It numbers a product's trades 1, 2, ...; a   *)
(* subscriber is first sent the last trade again, as last_match, and then  *)
(* a match for each trade, though the channel may drop one.  A heartbeat   *)
(* names the last trade whose match, unless dropped, has been sent.  One   *)
(* connection keeps the order.  Heartbeats that would repeat what the      *)
(* router knows, or one still on the wire, are left out.                   *)
(***************************************************************************)
EXTENDS Runner, Router, FiniteSetsExt, SequencesExt

CONSTANT MaxTrade   \* bound: [Product -> Nat], how many trades a product has

ASSUME MaxTradeAssumption ==
    /\ IsFiniteSet(Product)
    /\ MaxTrade \in [Product -> Nat]

VARIABLES
    issued,     \* the exchange's last trade id of each product, 0 before the first
    wire        \* what the exchange sent on this connection, not yet received

tradeVars == <<runnerVars, routerVars, issued, wire>>

TradeFeedTypeOK ==
    /\ RunnerTypeOK
    /\ RouterTypeOK
    /\ issued \in [Product -> Nat]
    /\ \A p \in Product : issued[p] <= MaxTrade[p]
    /\ wire \in Seq(FeedMsg)

TradeInit ==
    /\ RunnerInit
    /\ RouterInit
    /\ issued = [p \in Product |-> 0]
    /\ wire = <<>>

-----------------------------------------------------------------------------
Sent(type, product, tid) == [type |-> type, product |-> product, tid |-> tid]

Listening == phase = "open" /\ ~ quiet

(* The exchange accepts the subscription and repeats each product's last   *)
(* trade, product by product in some order.                                *)
Subscribe ==
    /\ Connect
    /\ \E order \in SetToSeqs({p \in Product : issued[p] > 0}) :
           wire' = [i \in DOMAIN order |-> Sent("last_match", order[i], issued[order[i]])]
    /\ UNCHANGED <<routerVars, issued>>

(* A trade: its match is sent to a live subscriber, or the channel drops it. *)
Trade(product) ==
    /\ issued[product] < MaxTrade[product]
    /\ issued' = [issued EXCEPT ![product] = @ + 1]
    /\ \/ /\ Listening
          /\ wire' = Append(wire, Sent("match", product, issued[product] + 1))
       \/ UNCHANGED wire
    /\ UNCHANGED <<runnerVars, routerVars>>

SendHeartbeat(product) ==
    /\ Listening
    /\ issued[product] > 0
    /\ IF Seen(product) THEN lastTradeId[product] < issued[product] ELSE TRUE
    /\ \A i \in DOMAIN wire : wire[i] # Sent("heartbeat", product, issued[product])
    /\ wire' = Append(wire, Sent("heartbeat", product, issued[product]))
    /\ UNCHANGED <<runnerVars, routerVars, issued>>

(* The loop receives the next message and routes it.                       *)
RouteNext ==
    /\ wire # <<>>
    /\ Receive
    /\ Route(Head(wire), epoch, starts)
    /\ wire' = Tail(wire)
    /\ UNCHANGED issued

(* Sending the trade raises, or a signal cancels the task at the await: the *)
(* loop ends though the router has followed the id, and the record may or  *)
(* may not have been queued.                                               *)
SendFails ==
    /\ wire # <<>>
    /\ ~ quiet
    /\ RouteFails \/ (phase = "open" /\ Cancel)
    /\ Head(wire).type # "heartbeat"
    /\ RouteTrade(Head(wire), epoch, starts)
    /\ wire' = <<>>
    /\ UNCHANGED issued

(* Any other message: it keeps the connection alive, and may be one for    *)
(* the DLQ, where it may never arrive.                                     *)
RouteOther ==
    /\ Receive
    /\ Dlq \/ UNCHANGED routerVars
    /\ UNCHANGED <<issued, wire>>

StartProcess ==
    /\ Start
    /\ NewRouter
    /\ UNCHANGED <<issued, wire>>

(* The loop does anything else; a connection left takes its wire along.    *)
RunLoop ==
    /\ LoopNext
    /\ phase # "stopped"
    /\ wire' = IF phase' = "open" THEN wire ELSE <<>>
    /\ UNCHANGED <<routerVars, issued>>

TradeNext ==
    \/ Subscribe
    \/ \E product \in Product : Trade(product) \/ SendHeartbeat(product)
    \/ RouteNext
    \/ SendFails
    \/ RouteOther
    \/ StartProcess
    \/ RunLoop

TradeSpec == TradeInit /\ [][TradeNext]_tradeVars

-----------------------------------------------------------------------------
(* Where the topic has the records the bars are built from (the view       *)
(* matches_only).                                                          *)
BarsOfAllTrades == DOMAIN tradesRaw

Bars == {i \in DOMAIN tradesRaw : tradesRaw[i].type = "match"}

BarsOf(product) == {i \in Bars : tradesRaw[i].product = product}

(* The trades of this process among the records at these places.           *)
Ids(places) ==
    {<<tradesRaw[i].product, tradesRaw[i].tid>> : i \in {j \in places : tradesRaw[j].run = starts}}

(* Those of the trades in records that were sent by this process.          *)
Lost(records) ==
    {<<r.product, r.tid>> : r \in {u \in records : u.run = starts}}

LostMatches == Lost({u \in undelivered : u.type = "match"})

(* The trades this process received, whether or not they arrived.          *)
Received == Ids(DOMAIN tradesRaw) \union Lost(undelivered)

Tids == UNION {1..MaxTrade[p] : p \in Product}

(* The trades between the first one this process saw of a product and the  *)
(* last one it knows of.                                                   *)
Known ==
    {trade \in Product \X Tids :
        LET p == trade[1]
            t == trade[2]
        IN  /\ Seen(p)
            /\ t <= lastTradeId[p]
            /\ \E first \in 1..t : <<p, first>> \in Received}

(* check_gaps.py: the gaps in a product's sorted ids, and the verdict.      *)
MatchIds(product) == {tradesRaw[i].tid : i \in BarsOf(product)}

Gaps(tids) ==
    {gap \in tids \X tids : gap[2] - gap[1] > 1 /\ \A c \in tids : c <= gap[1] \/ c >= gap[2]}

(* The sum of b - a - 1 over the gaps, which do not overlap, is the number *)
(* of the trades inside them.                                              *)
InGaps ==
    {trade \in Product \X Tids :
        \E gap \in Gaps(MatchIds(trade[1])) : gap[1] < trade[2] /\ trade[2] < gap[2]}

CheckedMissed == Cardinality(InGaps)

CheckPasses ==
    /\ Bars # {}
    /\ \A p \in Product : Gaps(MatchIds(p)) = {}
    /\ dlq = 0

(* The exchange sends heartbeats and takes new connections; the loop       *)
(* receives what arrived.                                                  *)
FeedFairness ==
    /\ \A product \in Product : WF_tradeVars(SendHeartbeat(product))
    /\ WF_tradeVars(RouteNext)
    /\ WF_tradeVars(Subscribe)
    /\ WF_tradeVars(RunLoop /\ Wake)
    /\ WF_tradeVars(RunLoop /\ IdleTimeout)

FairTradeSpec == TradeSpec /\ FeedFairness

(* The bars, which are sums over the matches, count no trade twice: of each *)
(* product they get the trades in order, across connections and processes. *)
BarsCountOnce ==
    \A i, j \in Bars :
        i < j /\ tradesRaw[i].product = tradesRaw[j].product => tradesRaw[i].tid < tradesRaw[j].tid

(* Known trades outside of what check_gaps.py looks at.                    *)
Outside ==
    {trade \in Known :
        \A a, b \in MatchIds(trade[1]) : ~ (a <= trade[2] /\ trade[2] <= b)}

(* Of one product, the bars have each trade between two others.            *)
WithoutGaps(product) ==
    \A i, j \in BarsOf(product) :
        i < j /\ (\A k \in BarsOf(product) : k <= i \/ j <= k)
            => tradesRaw[j].tid = tradesRaw[i].tid + 1

(* Every trade the feed has lost is in trade_gaps: it is at least the      *)
(* number of known trades that were never received, and counts none that   *)
(* was received as a match.  What was received and never arrived is not in *)
(* trade_gaps, but check_gaps.py, which reads the topic afterwards, finds  *)
(* both in its gaps, but for trades before the first match in the topic or *)
(* after the last one.  And once it passes, the bars have each trade       *)
(* between those two, once and in order.                                   *)
GapsBounded ==
    /\ Cardinality(Known \ Received) <= tradeGaps
    /\ tradeGaps <= Cardinality(Known \ (Ids(Bars) \union LostMatches))
    /\ tradeGaps + Cardinality(LostMatches) <= CheckedMissed + Cardinality(Outside)
    /\ CheckPasses => \A p \in Product : WithoutGaps(p)

(* A trade the channel dropped does not stay unnoticed: once the router    *)
(* follows a product, it comes to know of every trade, or its process ends. *)
DropsNoticed ==
    \A p \in Product, t \in Tids :
        (Seen(p) /\ issued[p] >= t) ~>
            IF phase # "stopped" /\ Seen(p) THEN lastTradeId[p] >= t ELSE TRUE

=============================================================================
