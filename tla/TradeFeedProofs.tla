---------------------------- MODULE TradeFeedProofs ----------------------------
(***************************************************************************)
(* Theorems about the way of the trades, for any products, trades, drops,  *)
(* connections and processes: the types, that the bars count no trade      *)
(* twice, and that trade_gaps and check_gaps.py bound what was lost.       *)
(*                                                                         *)
(* Neither property is inductive.  That ids ascend in the topic needs to   *)
(* be known of what is still on the wire (WireAhead).  And trade_gaps is   *)
(* only a number: what makes it a bound is that there are that many trades *)
(* the router took for missed, all of those it knows of that it did not    *)
(* receive, and none that it received as a match (Counted).                *)
(***************************************************************************)
EXTENDS TradeFeed, RunnerProofs, Extremes

(* The trades of a product this process has received, in the topic or not. *)
MyTids(product) ==
    {tradesRaw[i].tid : i \in {j \in DOMAIN tradesRaw :
                                  tradesRaw[j].run = starts /\ tradesRaw[j].product = product}}
        \union {r.tid : r \in {u \in undelivered : u.run = starts /\ u.product = product}}

(* A record has an id the exchange has issued.  Once the router follows    *)
(* the product, which it does from the first record it sends, the ids in   *)
(* the topic are not above the last one it knows of.                       *)
BehindAt(i) ==
    LET r == tradesRaw[i]
    IN  /\ r.tid \in 1..issued[r.product]
        /\ r.run <= starts
        /\ r.run = starts => Seen(r.product)
        /\ Seen(r.product) => r.tid <= lastTradeId[r.product]

RecordsBehind == \A i \in DOMAIN tradesRaw : BehindAt(i)

(* A record of this process that never arrived is of a trade up to the last *)
(* one it knows of; if it was a match, the bars do not have the trade.     *)
LostAt(r) ==
    /\ Seen(r.product)
    /\ r.tid \in 1..lastTradeId[r.product]
    /\ r.type = "match" => r.tid \notin MatchIds(r.product)

LostBehind ==
    \A r \in undelivered : r.run <= starts /\ (r.run = starts => LostAt(r))

(* The last id known is an issued one, and the product has been received.  *)
LastKnown ==
    \A p \in Product :
        Seen(p) => lastTradeId[p] <= issued[p] /\ MyTids(p) # {}

(* What is on the wire is above what the topic has and the router knows,   *)
(* a match properly so; and its ids ascend.                                *)
AheadAt(i) ==
    LET m == wire[i]
    IN  /\ m.tid \in 1..issued[m.product]
        /\ m.type = "match" =>
               /\ Seen(m.product) => lastTradeId[m.product] < m.tid
               /\ \A k \in DOMAIN tradesRaw :
                      tradesRaw[k].product = m.product => tradesRaw[k].tid < m.tid
        /\ m.type = "last_match" =>
               /\ Seen(m.product) => lastTradeId[m.product] <= m.tid
               /\ \A k \in DOMAIN tradesRaw :
                      tradesRaw[k].product = m.product => tradesRaw[k].tid <= m.tid
        /\ \A j \in 1..(i - 1) :
               wire[j].product = m.product =>
                   /\ m.type # "last_match"
                   /\ m.type = "match" => wire[j].tid < m.tid

WireAhead == \A i \in DOMAIN wire : AheadAt(i)

(* The trades the router has counted as missed.                            *)
Counted(missed) ==
    /\ IsFiniteSet(missed)
    /\ Cardinality(missed) = tradeGaps
    /\ missed \subseteq Known
    /\ Known \ Received \subseteq missed
    /\ \A x \in missed : x[2] \notin MatchIds(x[1]) /\ x \notin LostMatches

SomeCounted == \E missed \in SUBSET Known : Counted(missed)

TradeInv ==
    /\ RunnerInv
    /\ TradeFeedTypeOK
    /\ RecordsBehind
    /\ LostBehind
    /\ LastKnown
    /\ WireAhead
    /\ BarsCountOnce
    /\ SomeCounted


-----------------------------------------------------------------------------
(* What the sets of trades hold, whatever the state.                       *)
LEMMA IdsHold ==
    ASSUME NEW places, NEW p, NEW t
    PROVE  <<p, t>> \in Ids(places) <=>
               \E i \in places : /\ tradesRaw[i].run = starts
                                 /\ tradesRaw[i].product = p
                                 /\ tradesRaw[i].tid = t
  BY DEF Ids

LEMMA ReceivedHolds ==
    ASSUME NEW p, NEW t
    PROVE  <<p, t>> \in Received <=> t \in MyTids(p)
  BY DEF Received, Ids, Lost, MyTids

LEMMA LostHolds ==
    ASSUME NEW p, NEW t
    PROVE  <<p, t>> \in LostMatches <=>
               \E r \in undelivered :
                   r.run = starts /\ r.product = p /\ r.tid = t /\ r.type = "match"
  BY DEF LostMatches, Lost

KnownTrade(p, t) ==
    /\ Seen(p)
    /\ t <= lastTradeId[p]
    /\ \E s \in MyTids(p) : s \in 1..t

LEMMA KnownHolds ==
    \A p \in Product, t \in Tids : <<p, t>> \in Known <=> KnownTrade(p, t)
  BY ReceivedHolds DEF Known, KnownTrade

(* The same of the next state.                                             *)
LEMMA KnownPrimed ==
    \A p \in Product, t \in Tids : (<<p, t>> \in Known)' <=> KnownTrade(p, t)'
<1>1. (\A p \in Product, t \in Tids : <<p, t>> \in Known <=> KnownTrade(p, t))'
  BY KnownHolds, PTL
<1> QED BY <1>1


LEMMA ReceivedPrimed ==
    \A p, t : (<<p, t>> \in Received)' <=> t \in MyTids(p)'
  BY DEF Received, Ids, Lost, MyTids

LEMMA LostPrimed ==
    \A p, t : (<<p, t>> \in LostMatches)' <=>
                  (\E r \in undelivered : /\ r.run = starts /\ r.product = p
                                          /\ r.tid = t /\ r.type = "match")'
  BY DEF LostMatches, Lost

LEMMA TidsFinite == Tids \subseteq Nat /\ IsFiniteSet(Tids)
<1> DEFINE range == {1..MaxTrade[p] : p \in Product}
           f == [p \in Product |-> 1..MaxTrade[p]]
<1>1. \A p \in Product : MaxTrade[p] \in Nat
  BY MaxTradeAssumption
<1>2. f \in Surjection(Product, range)
  BY DEF Surjection
<1>3. IsFiniteSet(range)
  BY <1>2, FS_Surjection, MaxTradeAssumption
<1>4. ASSUME NEW S \in range PROVE IsFiniteSet(S)
  <2>1. PICK p \in Product : S = 1..MaxTrade[p]
    OBVIOUS
  <2> QED
    BY <1>1, <2>1, FS_Interval
<1>5. Tids = UNION range
  BY DEF Tids
<1>6. Tids \subseteq Nat
  BY <1>1 DEF Tids
<1> HIDE DEF range
<1>7. IsFiniteSet(UNION range)
  BY <1>3, <1>4, FS_UNION
<1> QED
  BY <1>5, <1>6, <1>7

LEMMA KnownFinite == IsFiniteSet(Known)
<1>1. IsFiniteSet(Product \X Tids)
  BY TidsFinite, FS_Product, MaxTradeAssumption
<1>2. Known \in SUBSET (Product \X Tids)
  BY DEF Known
<1> QED
  BY <1>1, <1>2, FS_Subset

(* What the types say of a record and of a message.                        *)
LEMMA RecordTypes ==
    ASSUME TradeFeedTypeOK, NEW i \in DOMAIN tradesRaw
    PROVE  /\ tradesRaw[i] \in TradeRecord
           /\ tradesRaw[i].product \in Product
           /\ tradesRaw[i].tid \in Nat /\ tradesRaw[i].run \in Nat
<1>1. tradesRaw[i] \in TradeRecord
  BY DEF TradeFeedTypeOK, RouterTypeOK
<1> QED
  BY <1>1 DEF TradeRecord

LEMMA MessageTypes ==
    ASSUME NEW m \in FeedMsg
    PROVE  m.product \in Product /\ m.tid \in Nat /\ m.type \in {"match", "last_match", "heartbeat"}
  BY DEF FeedMsg, TradeMsg, Heartbeat

LEMMA LostTypes ==
    ASSUME TradeFeedTypeOK, NEW r \in undelivered
    PROVE  r \in TradeRecord /\ r.product \in Product /\ r.tid \in Nat /\ r.run \in Nat
<1>1. r \in TradeRecord
  BY DEF TradeFeedTypeOK, RouterTypeOK
<1> QED
  BY <1>1 DEF TradeRecord

(* What was received is between 1 and the last trade known.                *)
LEMMA MineBehind ==
    ASSUME TradeInv, NEW p \in Product, NEW t \in MyTids(p)
    PROVE  Seen(p) /\ lastTradeId[p] \in Nat /\ t \in 1..lastTradeId[p]
<1>1. lastTradeId \in [Product -> Nat \union {None}]
  BY DEF TradeInv, TradeFeedTypeOK, RouterTypeOK
<1>2. \/ \E i \in DOMAIN tradesRaw :
             tradesRaw[i].run = starts /\ tradesRaw[i].product = p /\ tradesRaw[i].tid = t
      \/ \E r \in undelivered : r.run = starts /\ r.product = p /\ r.tid = t
  BY DEF MyTids
<1>3. CASE \E i \in DOMAIN tradesRaw :
               tradesRaw[i].run = starts /\ tradesRaw[i].product = p /\ tradesRaw[i].tid = t
  <2>1. PICK i \in DOMAIN tradesRaw :
               tradesRaw[i].run = starts /\ tradesRaw[i].product = p /\ tradesRaw[i].tid = t
    BY <1>3
  <2>2. Seen(p) /\ t \in 1..issued[p] /\ t <= lastTradeId[p]
    BY <2>1 DEF TradeInv, RecordsBehind, BehindAt
  <2>3. issued[p] \in Nat /\ lastTradeId[p] \in Nat
    BY <1>1, <2>2 DEF TradeInv, TradeFeedTypeOK, Seen
  <2> QED
    BY <2>2, <2>3
<1>4. CASE \E r \in undelivered : r.run = starts /\ r.product = p /\ r.tid = t
  BY <1>1, <1>4 DEF TradeInv, LostBehind, LostAt, Seen
<1> QED
  BY <1>2, <1>3, <1>4

LEMMA FunctionIsSequence ==
    ASSUME NEW n \in Nat, NEW S, NEW f \in [1..n -> S]
    PROVE  f \in Seq(S)
  OBVIOUS

(* The loop does not notice what it carries.                               *)
LEMMA LoopSteps == [TradeNext]_tradeVars => [RunnerNext]_runnerVars
<1> SUFFICES ASSUME [TradeNext]_tradeVars PROVE [RunnerNext]_runnerVars
  OBVIOUS
<1> USE DEF RunnerNext, LoopNext
<1>1. CASE Subscribe
  BY <1>1 DEF Subscribe
<1>2. CASE \E product \in Product : Trade(product) \/ SendHeartbeat(product)
  BY <1>2 DEF Trade, SendHeartbeat
<1>3. CASE RouteNext \/ SendFails \/ RouteOther
  BY <1>3 DEF RouteNext, SendFails, RouteOther
<1>4. CASE StartProcess
  BY <1>4 DEF StartProcess
<1>5. CASE RunLoop
  BY <1>5 DEF RunLoop
<1>6. CASE UNCHANGED tradeVars
  BY <1>6 DEF tradeVars
<1> QED
  BY <1>1, <1>2, <1>3, <1>4, <1>5, <1>6 DEF TradeNext

LEMMA LoopKeeps == RunnerInv /\ [TradeNext]_tradeVars => RunnerInv'
  BY LoopSteps, RunnerStepInv

-----------------------------------------------------------------------------
(* The start.                                                              *)
LEMMA NothingKnown ==
    ASSUME \A p \in Product : ~ Seen(p)
    PROVE  Known = {}
  BY DEF Known

LEMMA TradeInitInv == TradeInit => TradeInv
<1> SUFFICES ASSUME TradeInit PROVE TradeInv
  OBVIOUS
<1>1. RunnerInv
  BY RunnerInitInv DEF TradeInit
<1>2. /\ lastTradeId = [p \in Product |-> None]
      /\ tradeGaps = 0 /\ tradesRaw = <<>> /\ undelivered = {} /\ dlq = 0
      /\ issued = [p \in Product |-> 0] /\ wire = <<>>
  BY DEF TradeInit, RouterInit
<1>3. TradeFeedTypeOK
  BY <1>1, <1>2, RouterAssumption, MaxTradeAssumption DEF TradeFeedTypeOK, RouterTypeOK, RunnerInv
<1>4. \A p \in Product : ~ Seen(p)
  BY <1>2 DEF Seen
<1>5. RecordsBehind /\ LostBehind /\ LastKnown /\ WireAhead /\ BarsCountOnce
  BY <1>2, <1>4 DEF RecordsBehind, LostBehind, LastKnown, WireAhead, BarsCountOnce, Bars
<1>6. Counted({})
  BY <1>2, <1>4, NothingKnown, FS_EmptySet DEF Counted
<1> QED
  BY <1>1, <1>3, <1>5, <1>6 DEF TradeInv, SomeCounted

-----------------------------------------------------------------------------
(* Steps of the exchange and of the loop: they leave the router alone.     *)

(* What is said of the router and the topic is as it was.                  *)
LEMMA CountStays ==
    ASSUME TradeInv, UNCHANGED <<lastTradeId, tradeGaps, tradesRaw, undelivered, starts>>
    PROVE  BarsCountOnce' /\ SomeCounted'
<1>1. BarsCountOnce'
  BY DEF TradeInv, BarsCountOnce, Bars
<1>2. /\ Known' = Known
      /\ Received' = Received /\ LostMatches' = LostMatches
      /\ \A p : MatchIds(p)' = MatchIds(p)
  BY DEF Known, Received, Ids, Lost, LostMatches, Seen, MatchIds, BarsOf, Bars
<1>3. PICK missed \in SUBSET Known : Counted(missed)
  BY DEF TradeInv, SomeCounted
<1>4. Counted(missed)'
  BY <1>2, <1>3 DEF Counted
<1> QED
  BY <1>1, <1>2, <1>3, <1>4 DEF SomeCounted

(* Nor is what is said of records and ids, when the exchange goes on.      *)
LEMMA BehindStays ==
    ASSUME TradeInv, UNCHANGED <<lastTradeId, tradesRaw, undelivered, starts>>, TradeFeedTypeOK',
           \A p \in Product : issued[p] <= issued'[p]
    PROVE  RecordsBehind' /\ LostBehind' /\ LastKnown'
<1>1. \A p \in Product : issued[p] \in Nat /\ issued'[p] \in Nat
  BY DEF TradeInv, TradeFeedTypeOK
<1>2. RecordsBehind'
  BY <1>1, RecordTypes DEF TradeInv, RecordsBehind, BehindAt, Seen
<1>3. \A p \in Product : Seen(p) => lastTradeId[p] \in Nat
  BY DEF TradeInv, TradeFeedTypeOK, RouterTypeOK, Seen
<1>4. LastKnown'
  BY <1>1, <1>3 DEF TradeInv, LastKnown, Seen, MyTids
<1>5. LostBehind'
  BY DEF TradeInv, LostBehind, LostAt, Seen, MatchIds, BarsOf, Bars
<1> QED
  BY <1>2, <1>4, <1>5

(* The loop does something else, or passes a message that is no trade: the *)
(* wire stays or goes.                                                     *)
LEMMA RunLoopKeeps == TradeInv /\ (RunLoop \/ RouteOther) => TradeInv'
<1> SUFFICES ASSUME TradeInv, RunLoop \/ RouteOther PROVE TradeInv'
  OBVIOUS
<1>1. RunnerInv'
  BY LoopKeeps DEF TradeInv, TradeNext
<1>2. /\ UNCHANGED <<lastTradeId, tradeGaps, tradesRaw, undelivered, issued>>
      /\ wire' = wire \/ wire' = <<>>
      /\ dlq' \in 0..MaxDlq
  <2>1. CASE RunLoop
    BY <2>1 DEF RunLoop, routerVars, TradeInv, TradeFeedTypeOK, RouterTypeOK
  <2>2. CASE RouteOther
    BY <2>2, RouterAssumption DEF RouteOther, Dlq, routerVars, TradeInv, TradeFeedTypeOK, RouterTypeOK
  <2> QED
    BY <2>1, <2>2
<1>3. starts' = starts
  <2>1. CASE RouteOther
    BY <2>1 DEF RouteOther, Receive
  <2>2. CASE RunLoop
    BY <2>2 DEF RunLoop, LoopNext, Start, Disconnect, IdleTimeout, BackOff, Wake, RouteFails,
                Cancel, Stop, Leave, GrowStable, FallSilent
  <2> QED
    BY <2>1, <2>2
<1>4. TradeFeedTypeOK'
  <2>1. wire' \in Seq(FeedMsg)
    <3>1. <<>> \in Seq(FeedMsg)
      OBVIOUS
    <3>2. wire \in Seq(FeedMsg)
      BY DEF TradeInv, TradeFeedTypeOK
    <3> QED
      BY <1>2, <3>1, <3>2
  <2>2. RouterTypeOK'
    BY <1>2 DEF TradeInv, TradeFeedTypeOK, RouterTypeOK
  <2> QED
    BY <1>1, <1>2, <2>1, <2>2 DEF TradeInv, TradeFeedTypeOK, RunnerInv
<1>5. WireAhead'
  BY <1>2 DEF TradeInv, WireAhead, AheadAt, Seen
<1> QED
  BY <1>1, <1>2, <1>3, <1>4, <1>5, CountStays, BehindStays
     DEF TradeInv, TradeFeedTypeOK

(* A subscription starts with the last trades the exchange has issued.     *)
LEMMA SubscribeKeeps == TradeInv /\ Subscribe => TradeInv'
<1> SUFFICES ASSUME TradeInv, Subscribe PROVE TradeInv'
  OBVIOUS
<1>1. RunnerInv'
  BY LoopKeeps DEF TradeInv, TradeNext
<1>2. UNCHANGED <<lastTradeId, tradeGaps, tradesRaw, undelivered, dlq, issued, starts>>
  BY DEF Subscribe, Connect, routerVars
<1> DEFINE traded == {p \in Product : issued[p] > 0}
<1>3. PICK order \in SetToSeqs(traded) :
          wire' = [i \in DOMAIN order |-> Sent("last_match", order[i], issued[order[i]])]
  BY DEF Subscribe
<1>4. Cardinality(traded) \in Nat
  BY FS_Subset, FS_CardinalityType, MaxTradeAssumption
<1>5. /\ DOMAIN order = 1..Cardinality(traded)
      /\ \A i \in DOMAIN order : order[i] \in Product /\ issued[order[i]] > 0
      /\ \A i, j \in DOMAIN order : i # j => order[i] # order[j]
  BY <1>3 DEF SetToSeqs
<1>6. \A p \in Product : issued[p] \in Nat
  BY DEF TradeInv, TradeFeedTypeOK
<1>7. \A i \in DOMAIN order : wire'[i] \in FeedMsg
  BY <1>3, <1>5, <1>6 DEF Sent, FeedMsg, TradeMsg
<1>8. wire' \in Seq(FeedMsg) /\ DOMAIN wire' = DOMAIN order
  <2>1. wire' \in [1..Cardinality(traded) -> FeedMsg]
    BY <1>3, <1>5, <1>7
  <2> HIDE DEF traded
  <2>2. wire' \in Seq(FeedMsg)
    BY <1>4, <2>1, FunctionIsSequence
  <2> QED
    BY <1>3, <2>2
<1>9. TradeFeedTypeOK'
  BY <1>1, <1>2, <1>8 DEF TradeInv, TradeFeedTypeOK, RouterTypeOK, RunnerInv
<1>10. WireAhead'
  <2> SUFFICES ASSUME NEW i \in DOMAIN order
               PROVE  /\ wire'[i].tid \in 1..issued[wire'[i].product]
                      /\ wire'[i].type = "last_match"
                      /\ Seen(wire'[i].product) => lastTradeId[wire'[i].product] <= wire'[i].tid
                      /\ \A k \in DOMAIN tradesRaw :
                             tradesRaw[k].product = wire'[i].product =>
                                 tradesRaw[k].tid <= wire'[i].tid
                      /\ \A j \in 1..(i - 1) : wire'[j].product # wire'[i].product
    BY <1>2, <1>8 DEF WireAhead, AheadAt, Seen
  <2>1. wire'[i] = Sent("last_match", order[i], issued[order[i]])
    BY <1>3
  <2>2. order[i] \in Product /\ issued[order[i]] \in Nat /\ issued[order[i]] > 0
    BY <1>5, <1>6
  <2>3. \A k \in DOMAIN tradesRaw : tradesRaw[k].tid \in 1..issued[tradesRaw[k].product]
    BY DEF TradeInv, RecordsBehind, BehindAt
  <2>4. \A k \in DOMAIN tradesRaw :
            tradesRaw[k].product = order[i] => tradesRaw[k].tid <= issued[order[i]]
    BY <2>2, <2>3
  <2>5. \A j \in 1..(i - 1) : wire'[j].product = order[j] /\ order[j] # order[i]
    BY <1>3, <1>5, <1>4 DEF Sent
  <2> QED
    BY <2>1, <2>2, <2>4, <2>5 DEF Sent, TradeInv, LastKnown
<1> QED
  BY <1>1, <1>2, <1>6, <1>9, <1>10, CountStays, BehindStays DEF TradeInv

(* The exchange issues a trade, or sends a heartbeat: what it sends is     *)
(* above everything before it.                                             *)
LEMMA SendKeeps ==
    ASSUME TradeInv, NEW p \in Product, Trade(p) \/ SendHeartbeat(p)
    PROVE  TradeInv'
<1>1. RunnerInv'
  BY LoopKeeps DEF TradeInv, TradeNext
<1>2. UNCHANGED <<lastTradeId, tradeGaps, tradesRaw, undelivered, dlq, starts>>
  BY DEF Trade, SendHeartbeat, routerVars, runnerVars
<1>3. \A q \in Product : issued[q] \in Nat /\ issued[q] <= MaxTrade[q] /\ MaxTrade[q] \in Nat
  BY MaxTradeAssumption DEF TradeInv, TradeFeedTypeOK
<1>4. /\ issued' \in [Product -> Nat]
      /\ \A q \in Product : issued[q] <= issued'[q] /\ issued'[q] <= MaxTrade[q]
  <2>1. issued \in [Product -> Nat]
    BY DEF TradeInv, TradeFeedTypeOK
  <2>2. CASE Trade(p)
    BY <1>3, <2>1, <2>2 DEF Trade
  <2>3. CASE SendHeartbeat(p)
    BY <1>3, <2>1, <2>3 DEF SendHeartbeat
  <2> QED
    BY <2>2, <2>3
<1>5. wire \in Seq(FeedMsg)
  BY DEF TradeInv, TradeFeedTypeOK
<1>6. \/ wire' = wire
      \/ \E type \in {"match", "heartbeat"} :
             /\ wire' = Append(wire, Sent(type, p, issued'[p]))
             /\ issued'[p] > 0
             /\ type = "match" => issued'[p] = issued[p] + 1
  <2>1. issued \in [Product -> Nat]
    BY DEF TradeInv, TradeFeedTypeOK
  <2>2. CASE Trade(p)
    BY <1>3, <2>1, <2>2 DEF Trade
  <2>3. CASE SendHeartbeat(p)
    BY <1>3, <2>3 DEF SendHeartbeat
  <2> QED
    BY <2>2, <2>3
<1>7. wire' \in Seq(FeedMsg)
  <2>1. \A type \in {"match", "heartbeat"} : Sent(type, p, issued'[p]) \in FeedMsg
    BY <1>4 DEF Sent, FeedMsg, TradeMsg, Heartbeat
  <2> QED
    BY <1>5, <1>6, <2>1
<1>8. TradeFeedTypeOK'
  <2>1. RouterTypeOK'
    BY <1>2 DEF TradeInv, TradeFeedTypeOK, RouterTypeOK
  <2> QED
    BY <1>1, <1>4, <1>7, <2>1 DEF TradeFeedTypeOK, RunnerInv
<1>9. \A i \in DOMAIN wire :
          wire[i] \in FeedMsg /\ wire[i].product \in Product /\ wire[i].tid \in Nat
  BY <1>5, MessageTypes
<1>10. \A i \in DOMAIN wire : wire[i].tid \in 1..issued[wire[i].product]
  BY DEF TradeInv, WireAhead, AheadAt
<1>11. WireAhead'
  <2>1. CASE wire' = wire
    BY <1>2, <1>3, <1>4, <1>9, <2>1 DEF TradeInv, WireAhead, AheadAt, Seen
  <2>2. ASSUME NEW type \in {"match", "heartbeat"},
               wire' = Append(wire, Sent(type, p, issued'[p])),
               issued'[p] > 0,
               type = "match" => issued'[p] = issued[p] + 1
        PROVE  WireAhead'
    <3> DEFINE n == Len(wire) + 1
    <3>1. /\ DOMAIN wire' = 1..n /\ n \in Nat
          /\ DOMAIN wire = 1..(n - 1)
          /\ \A i \in 1..(n - 1) : wire'[i] = wire[i]
          /\ wire'[n].type = type /\ wire'[n].product = p /\ wire'[n].tid = issued'[p]
      BY <1>5, <2>2 DEF Sent
    <3> HIDE DEF n
    <3>2. ASSUME NEW i \in 1..(n - 1) PROVE AheadAt(i)'
      <4>1. wire'[i] = wire[i] /\ i \in DOMAIN wire /\ \A j \in 1..(i - 1) : wire'[j] = wire[j]
        BY <3>1
      <4>2. wire[i].tid \in 1..issued'[wire[i].product]
        BY <1>3, <1>4, <1>9, <1>10, <4>1
      <4> QED
        BY <1>2, <4>1, <4>2 DEF TradeInv, WireAhead, AheadAt, Seen
    <3>3. /\ issued'[p] \in 1..issued'[p]
          /\ type = "match" =>
               /\ Seen(p) => lastTradeId[p] < issued'[p]
               /\ \A k \in DOMAIN tradesRaw :
                      tradesRaw[k].product = p => tradesRaw[k].tid < issued'[p]
               /\ \A j \in 1..(n - 1) : wire'[j].product = p => wire'[j].tid < issued'[p]
      <4>1. issued'[p] \in Nat
        BY <1>4
      <4>2. \A k \in DOMAIN tradesRaw :
                tradesRaw[k].product = p => tradesRaw[k].tid \in 1..issued[p]
        BY DEF TradeInv, RecordsBehind, BehindAt
      <4>3. Seen(p) => lastTradeId[p] \in Nat /\ lastTradeId[p] <= issued[p]
        BY DEF TradeInv, LastKnown, TradeFeedTypeOK, RouterTypeOK, Seen
      <4>4. \A j \in 1..(n - 1) : wire'[j].product = p => wire'[j].tid \in 1..issued[p]
        BY <1>10, <3>1
      <4>5. ASSUME type = "match", NEW x \in Nat, x <= issued[p] PROVE x < issued'[p]
        BY <1>3, <2>2, <4>5
      <4>6. issued'[p] \in 1..issued'[p]
        BY <2>2, <4>1
      <4> QED
        BY <4>2, <4>3, <4>4, <4>5, <4>6
    <3>4. ASSUME NEW i \in 1..n PROVE AheadAt(i)'
      <4>1. CASE i \in 1..(n - 1)
        BY <3>2, <4>1
      <4>2. CASE i = n
        BY <1>2, <2>2, <3>1, <3>3, <4>2 DEF AheadAt, Seen
      <4> QED
        BY <3>1, <4>1, <4>2
    <3> QED
      BY <3>1, <3>4 DEF WireAhead
  <2> QED
    BY <1>6, <2>1, <2>2
<1> QED
  BY <1>1, <1>2, <1>4, <1>8, <1>11, CountStays, BehindStays DEF TradeInv

(* A new process knows of no trade, and has lost none.                     *)
LEMMA StartKeeps == TradeInv /\ StartProcess => TradeInv'
<1> SUFFICES ASSUME TradeInv, StartProcess PROVE TradeInv'
  OBVIOUS
<1>1. RunnerInv'
  BY LoopKeeps DEF TradeInv, TradeNext
<1>2. /\ lastTradeId' = [p \in Product |-> None] /\ tradeGaps' = 0
      /\ UNCHANGED <<tradesRaw, undelivered, dlq, issued, wire>>
      /\ starts' = starts + 1 /\ starts \in Nat
  BY DEF StartProcess, Start, NewRouter, TradeInv, RunnerInv, RunnerTypeOK
<1>3. TradeFeedTypeOK'
  <2>1. RouterTypeOK'
    BY <1>2 DEF TradeInv, TradeFeedTypeOK, RouterTypeOK
  <2> QED
    BY <1>1, <1>2, <2>1 DEF TradeInv, TradeFeedTypeOK, RunnerInv
<1>4. \A p \in Product : ~ Seen(p)'
  BY <1>2 DEF Seen
<1>5. RecordsBehind'
  BY <1>2, <1>4, RecordTypes DEF TradeInv, RecordsBehind, BehindAt
<1>6. LastKnown' /\ LostBehind'
  BY <1>2, <1>4, LostTypes DEF LastKnown, LostBehind, TradeInv
<1>7. WireAhead'
  BY <1>2, <1>4, MessageTypes DEF TradeInv, TradeFeedTypeOK, WireAhead, AheadAt
<1>8. BarsCountOnce'
  BY <1>2 DEF TradeInv, BarsCountOnce, Bars
<1>9. SomeCounted'
  <2>1. Known' = {}
    BY <1>4 DEF Known
  <2>2. Counted({})'
    BY <1>2, <2>1, FS_EmptySet DEF Counted
  <2> QED
    BY <2>2 DEF SomeCounted
<1> QED
  BY <1>1, <1>3, <1>5, <1>6, <1>7, <1>8, <1>9 DEF TradeInv

-----------------------------------------------------------------------------
(* The router.  Of the message at the head of the wire:                    *)
LEMMA HeadIs ==
    ASSUME TradeInv, wire # <<>>
    PROVE  /\ Head(wire) \in FeedMsg /\ Head(wire).product \in Product
           /\ AheadAt(1) /\ Head(wire) = wire[1] /\ 1 \in DOMAIN wire
           /\ Tail(wire) \in Seq(FeedMsg)
           /\ \A i \in DOMAIN Tail(wire) :
                  Tail(wire)[i] = wire[i + 1] /\ i + 1 \in DOMAIN wire /\ i \in Nat \ {0}
<1>1. wire \in Seq(FeedMsg)
  BY DEF TradeInv, TradeFeedTypeOK
<1>2. Head(wire) = wire[1] /\ 1 \in DOMAIN wire /\ Head(wire) \in FeedMsg
  BY <1>1
<1>3. Tail(wire) \in Seq(FeedMsg)
  BY <1>1
<1>4. ASSUME NEW i \in DOMAIN Tail(wire)
      PROVE  Tail(wire)[i] = wire[i + 1] /\ i + 1 \in DOMAIN wire /\ i \in Nat \ {0}
  BY <1>1
<1> QED
  BY <1>2, <1>3, <1>4, MessageTypes DEF TradeInv, WireAhead

(* It is routed, and the loop goes on or ends.                             *)
Taken == RouteNext \/ SendFails

LEMMA TakenIs ==
    ASSUME Taken
    PROVE  /\ wire # <<>>
           /\ Route(Head(wire), epoch, starts)
           /\ starts' = starts /\ issued' = issued
           /\ wire' = Tail(wire) \/ wire' = <<>>
<1>1. CASE RouteNext
  BY <1>1 DEF RouteNext, Receive
<1>2. CASE SendFails
  BY <1>2 DEF SendFails, Route, RouteFails, Cancel, Stop, Leave
<1> QED
  BY <1>1, <1>2 DEF Taken

(* What it does: the last id known goes up to the message's, or stays; a   *)
(* trade goes to the topic or is lost on the way there; the ids between    *)
(* are counted as missed.                                                  *)
Passed(m) == lastTradeId' = [lastTradeId EXCEPT ![m.product] = m.tid]

RecordOf(r, m) ==
    r.type = m.type /\ r.product = m.product /\ r.tid = m.tid /\ r.run = starts

Delivered(m) ==
    /\ \E r \in TradeRecord : RecordOf(r, m) /\ tradesRaw' = Append(tradesRaw, r)
    /\ UNCHANGED undelivered

LostOnTheWay(m) ==
    /\ \E r \in TradeRecord : RecordOf(r, m) /\ undelivered' = undelivered \union {r}
    /\ UNCHANGED tradesRaw

Recorded(m) == Delivered(m) \/ LostOnTheWay(m)

FirstTrade(m) ==
    m.type # "heartbeat" /\ ~ Seen(m.product) /\ Passed(m) /\ Recorded(m) /\ tradeGaps' = tradeGaps

LaterTrade(m) ==
    /\ m.type # "heartbeat" /\ Seen(m.product) /\ lastTradeId[m.product] < m.tid
    /\ Passed(m) /\ Recorded(m)
    /\ tradeGaps' = tradeGaps + (m.tid - 1 - lastTradeId[m.product])

RepeatedTrade(m) ==
    /\ m.type = "last_match" /\ Seen(m.product) /\ lastTradeId[m.product] = m.tid
    /\ Recorded(m)
    /\ UNCHANGED <<lastTradeId, tradeGaps>>

NewsOfTrade(m) ==
    /\ m.type = "heartbeat" /\ Seen(m.product) /\ lastTradeId[m.product] < m.tid
    /\ Passed(m)
    /\ tradeGaps' = tradeGaps + (m.tid - lastTradeId[m.product])
    /\ UNCHANGED <<tradesRaw, undelivered>>

NoNews(m) ==
    m.type = "heartbeat" /\ UNCHANGED <<lastTradeId, tradeGaps, tradesRaw, undelivered>>

LEMMA RouterDoes ==
    ASSUME TradeInv, Taken, NEW m, m = Head(wire)
    PROVE  FirstTrade(m) \/ LaterTrade(m) \/ RepeatedTrade(m) \/ NewsOfTrade(m) \/ NoNews(m)
<1> DEFINE p == m.product
<1>1. /\ m \in FeedMsg /\ p \in Product /\ m.tid \in Nat
      /\ m.type \in {"match", "last_match", "heartbeat"}
  BY HeadIs, TakenIs, MessageTypes
<1>2. Seen(p) => lastTradeId[p] \in Nat
  BY <1>1 DEF TradeInv, TradeFeedTypeOK, RouterTypeOK, Seen
<1>3. /\ m.type = "match" => (Seen(p) => lastTradeId[p] < m.tid)
      /\ m.type = "last_match" => (Seen(p) => lastTradeId[p] <= m.tid)
  BY HeadIs, TakenIs DEF AheadAt
<1>4. Route(m, epoch, starts)
  BY TakenIs
<1>5. epoch \in Nat /\ starts \in Nat
  BY DEF TradeInv, RunnerInv, RunnerTypeOK
<1>6. CASE m.type # "heartbeat"
  <2>1. RouteTrade(m, epoch, starts)
    BY <1>4, <1>6 DEF Route
  <2>2. Recorded(m)
    <3> DEFINE r == [type |-> m.type, product |-> m.product, tid |-> m.tid,
                     epoch |-> epoch, run |-> starts]
    <3>1. r \in TradeRecord /\ RecordOf(r, m)
      BY <1>1, <1>5, <1>6 DEF TradeRecord, RecordOf
    <3>2. Arrives(r) \/ IsLost(r)
      BY <2>1 DEF RouteTrade
    <3> QED
      BY <3>1, <3>2 DEF Arrives, IsLost, Recorded, Delivered, LostOnTheWay
  <2>3. tradeGaps' = tradeGaps + Missed(m) /\ lastTradeId' = Advanced(m) /\ tradeGaps \in Nat
    BY <2>1 DEF RouteTrade, Track, TradeInv, TradeFeedTypeOK, RouterTypeOK
  <2>4. CASE ~ Seen(p)
    BY <1>6, <2>2, <2>3, <2>4 DEF FirstTrade, Passed, Missed, Advanced
  <2>5. CASE Seen(p) /\ lastTradeId[p] < m.tid
    <3>1. Missed(m) = m.tid - 1 - lastTradeId[p]
      BY <1>1, <1>2, <2>5 DEF Missed
    <3>2. Passed(m)
      BY <1>1, <1>2, <2>3, <2>5 DEF Passed, Advanced
    <3> QED
      BY <1>6, <2>2, <2>3, <2>5, <3>1, <3>2 DEF LaterTrade
  <2>6. CASE Seen(p) /\ ~ (lastTradeId[p] < m.tid)
    <3>1. m.type = "last_match" /\ lastTradeId[p] = m.tid
      BY <1>1, <1>2, <1>3, <1>6, <2>6
    <3>2. lastTradeId' = lastTradeId /\ tradeGaps' = tradeGaps
      BY <1>1, <2>3, <2>6, <3>1 DEF Missed, Advanced
    <3> QED
      BY <2>2, <2>6, <3>1, <3>2 DEF RepeatedTrade
  <2> QED
    BY <2>4, <2>5, <2>6
<1>7. CASE m.type = "heartbeat"
  <2>1. CheckHeartbeat(m) \/ IgnoreHeartbeat(m)
    BY <1>4, <1>7 DEF Route
  <2>2. CASE CheckHeartbeat(m)
    <3>1. Seen(p) /\ lastTradeId[p] < m.tid
      BY <1>1, <1>2, <2>2 DEF CheckHeartbeat, News
    <3>2. Passed(m)
      BY <1>1, <1>2, <2>2, <3>1 DEF CheckHeartbeat, Passed, Advanced
    <3> QED
      BY <1>7, <2>2, <3>1, <3>2 DEF CheckHeartbeat, NewsOfTrade
  <2>3. CASE IgnoreHeartbeat(m)
    BY <1>7, <2>3 DEF IgnoreHeartbeat, NoNews, routerVars
  <2> QED
    BY <2>1, <2>2, <2>3
<1> QED
  BY <1>6, <1>7

(* The topic with a trade more.                                            *)
LEMMA RecordedAt ==
    ASSUME TradeInv, NEW m, Delivered(m)
    PROVE  LET n == Len(tradesRaw) + 1
           IN  /\ n \in Nat /\ DOMAIN tradesRaw = 1..(n - 1) /\ DOMAIN tradesRaw' = 1..n
               /\ \A i \in 1..(n - 1) : tradesRaw'[i] = tradesRaw[i]
               /\ tradesRaw'[n].type = m.type /\ tradesRaw'[n].product = m.product
               /\ tradesRaw'[n].tid = m.tid /\ tradesRaw'[n].run = starts
               /\ tradesRaw' \in Seq(TradeRecord)
<1>1. tradesRaw \in Seq(TradeRecord)
  BY DEF TradeInv, TradeFeedTypeOK, RouterTypeOK
<1>2. PICK r \in TradeRecord :
          /\ r.type = m.type /\ r.product = m.product /\ r.tid = m.tid /\ r.run = starts
          /\ tradesRaw' = Append(tradesRaw, r)
  BY DEF Delivered, RecordOf
<1> QED
  BY <1>1, <1>2

(* What the router knows then: of the message's product at least its id,   *)
(* unless it does not follow the product; of the others what it knew.      *)
LEMMA RouterKnows ==
    ASSUME TradeInv, Taken, NEW m, m = Head(wire)
    PROVE  /\ starts' = starts /\ issued' = issued /\ (wire' = Tail(wire) \/ wire' = <<>>)
           /\ lastTradeId' \in [Product -> Nat \union {None}] /\ tradeGaps' \in Nat
           /\ \A q \in Product : q # m.product => lastTradeId'[q] = lastTradeId[q]
           /\ Seen(m.product)' =>
                  /\ lastTradeId'[m.product] \in Nat
                  /\ lastTradeId'[m.product] \in {lastTradeId[m.product], m.tid}
                  /\ lastTradeId'[m.product] = m.tid \/ Seen(m.product)
           /\ Seen(m.product) =>
                  lastTradeId'[m.product] \in Nat /\ lastTradeId'[m.product] >= lastTradeId[m.product]
           /\ m.type # "heartbeat" => Seen(m.product)' /\ lastTradeId'[m.product] >= m.tid
           /\ (Recorded(m) /\ m.type # "heartbeat") \/ UNCHANGED <<tradesRaw, undelivered>>
<1> DEFINE p == m.product
<1>1. m \in FeedMsg /\ p \in Product /\ m.tid \in Nat
  BY HeadIs, TakenIs, MessageTypes
<1>2. lastTradeId \in [Product -> Nat \union {None}] /\ tradeGaps \in Nat
  BY DEF TradeInv, TradeFeedTypeOK, RouterTypeOK
<1>3. Seen(p) => lastTradeId[p] \in Nat
  BY <1>1, <1>2 DEF Seen
<1>4. starts' = starts /\ issued' = issued /\ (wire' = Tail(wire) \/ wire' = <<>>)
  BY TakenIs
<1>5. None \notin Nat
  BY RouterAssumption
<1>6. CASE FirstTrade(m)
  BY <1>1, <1>2, <1>4, <1>5, <1>6 DEF FirstTrade, Passed, Seen
<1>7. CASE LaterTrade(m)
  <2>1. tradeGaps' \in Nat
    BY <1>1, <1>2, <1>3, <1>7 DEF LaterTrade
  <2> QED
    BY <1>1, <1>2, <1>3, <1>4, <1>5, <1>7, <2>1 DEF LaterTrade, Passed, Seen
<1>8. CASE RepeatedTrade(m)
  BY <1>1, <1>2, <1>3, <1>4, <1>8 DEF RepeatedTrade, Seen
<1>9. CASE NewsOfTrade(m)
  <2>1. tradeGaps' \in Nat
    BY <1>1, <1>2, <1>3, <1>9 DEF NewsOfTrade
  <2> QED
    BY <1>1, <1>2, <1>3, <1>4, <1>5, <1>9, <2>1 DEF NewsOfTrade, Passed, Seen
<1>10. CASE NoNews(m)
  BY <1>1, <1>2, <1>3, <1>4, <1>10 DEF NoNews, Seen
<1> QED
  BY <1>6, <1>7, <1>8, <1>9, <1>10, RouterDoes

(* What this process has received then: a trade's id more, or what it had.  *)
LEMMA MineGrows ==
    ASSUME TradeInv, Taken, NEW m, m = Head(wire), NEW q \in Product
    PROVE  /\ MyTids(q) \subseteq MyTids(q)'
           /\ Recorded(m) => m.tid \in MyTids(m.product)'
           /\ \A t \in MyTids(q)' :
                  \/ t \in MyTids(q)
                  \/ q = m.product /\ t = m.tid /\ Recorded(m) /\ m.type # "heartbeat"
<1>1. starts' = starts
  BY RouterKnows
<1>2. CASE UNCHANGED <<tradesRaw, undelivered>>
  <2>1. \A p : MyTids(p)' = MyTids(p)
    BY <1>1, <1>2 DEF MyTids
  <2>2. ASSUME Recorded(m) PROVE m.tid \in MyTids(m.product)
    <3>1. CASE Delivered(m)
      BY <1>2, <3>1, RecordedAt
    <3>2. CASE LostOnTheWay(m)
      <4>1. PICK r \in TradeRecord : RecordOf(r, m) /\ r \in undelivered
        BY <1>2, <3>2 DEF LostOnTheWay
      <4> QED
        BY <4>1 DEF RecordOf, MyTids
    <3> QED
      BY <2>2, <3>1, <3>2 DEF Recorded
  <2> QED
    BY <2>1, <2>2
<1>3. CASE Delivered(m) /\ m.type # "heartbeat"
  <2>1. /\ \A i \in DOMAIN tradesRaw : i \in DOMAIN tradesRaw' /\ tradesRaw'[i] = tradesRaw[i]
        /\ \A i \in DOMAIN tradesRaw' :
               \/ i \in DOMAIN tradesRaw
               \/ tradesRaw'[i].product = m.product /\ tradesRaw'[i].tid = m.tid
        /\ \E i \in DOMAIN tradesRaw' :
               /\ tradesRaw'[i].product = m.product /\ tradesRaw'[i].tid = m.tid
               /\ tradesRaw'[i].run = starts
    BY <1>3, RecordedAt
  <2>2. undelivered' = undelivered
    BY <1>3 DEF Delivered
  <2>3. MyTids(q) \subseteq MyTids(q)' /\ m.tid \in MyTids(m.product)'
    BY <1>1, <2>1, <2>2 DEF MyTids
  <2>4. ASSUME NEW t \in MyTids(q)', t \notin MyTids(q) PROVE q = m.product /\ t = m.tid
    BY <1>1, <2>1, <2>2, <2>4 DEF MyTids
  <2> QED
    BY <1>3, <2>3, <2>4 DEF Recorded
<1>4. CASE LostOnTheWay(m) /\ m.type # "heartbeat"
  <2>1. PICK r \in TradeRecord : RecordOf(r, m) /\ undelivered' = undelivered \union {r}
    BY <1>4 DEF LostOnTheWay
  <2>2. tradesRaw' = tradesRaw
    BY <1>4 DEF LostOnTheWay
  <2> QED
    BY <1>1, <1>4, <2>1, <2>2 DEF RecordOf, MyTids, Recorded
<1> QED
  BY <1>2, <1>3, <1>4, RouterKnows DEF Recorded

LEMMA RouteTypes == TradeInv /\ Taken => TradeFeedTypeOK'
<1> SUFFICES ASSUME TradeInv, Taken PROVE TradeFeedTypeOK'
  OBVIOUS
<1>1. PICK m : m = Head(wire)
  OBVIOUS
<1>2. RunnerInv'
  BY LoopKeeps DEF TradeInv, TradeNext, Taken
<1>3. /\ lastTradeId' \in [Product -> Nat \union {None}] /\ tradeGaps' \in Nat
      /\ issued' = issued /\ (wire' = Tail(wire) \/ wire' = <<>>)
      /\ Recorded(m) \/ UNCHANGED <<tradesRaw, undelivered>>
  BY <1>1, RouterKnows
<1>4. tradesRaw' \in Seq(TradeRecord) /\ undelivered' \subseteq TradeRecord
  <2>1. tradesRaw \in Seq(TradeRecord) /\ undelivered \subseteq TradeRecord
    BY DEF TradeInv, TradeFeedTypeOK, RouterTypeOK
  <2>2. CASE Delivered(m)
    BY <2>1, <2>2, RecordedAt DEF Delivered
  <2>3. CASE LostOnTheWay(m)
    BY <2>1, <2>3 DEF LostOnTheWay
  <2> QED
    BY <1>3, <2>1, <2>2, <2>3 DEF Recorded
<1>5. dlq' = dlq
  BY TakenIs DEF Route, RouteTrade, CheckHeartbeat, IgnoreHeartbeat, routerVars
<1>6. wire' \in Seq(FeedMsg)
  <2>1. <<>> \in Seq(FeedMsg)
    OBVIOUS
  <2> QED
    BY <1>3, <2>1, HeadIs, TakenIs
<1> QED
  BY <1>2, <1>3, <1>4, <1>5, <1>6 DEF TradeInv, TradeFeedTypeOK, RouterTypeOK, RunnerInv

LEMMA RouteKeepsBehind == TradeInv /\ Taken => RecordsBehind' /\ LastKnown'
<1> SUFFICES ASSUME TradeInv, Taken PROVE RecordsBehind' /\ LastKnown'
  OBVIOUS
<1>1. PICK m : m = Head(wire)
  OBVIOUS
<1> DEFINE p == m.product
<1>2. /\ m \in FeedMsg /\ p \in Product /\ m.tid \in 1..issued[p]
      /\ \A k \in DOMAIN tradesRaw : tradesRaw[k].product = p =>
             (m.type # "heartbeat" => tradesRaw[k].tid <= m.tid)
  <2>1. AheadAt(1) /\ m = wire[1] /\ m \in FeedMsg /\ p \in Product
    BY <1>1, HeadIs, TakenIs
  <2>2. m.type \in {"match", "last_match", "heartbeat"} /\ m.tid \in Nat
    BY <2>1, MessageTypes
  <2>3. \A k \in DOMAIN tradesRaw : tradesRaw[k].tid \in Nat
    BY RecordTypes DEF TradeInv
  <2> QED
    BY <2>1, <2>2, <2>3 DEF AheadAt
<1>3. /\ starts' = starts /\ issued' = issued
      /\ \A q \in Product : q # p => lastTradeId'[q] = lastTradeId[q]
      /\ Seen(p)' =>
             /\ lastTradeId'[p] \in Nat
             /\ lastTradeId'[p] \in {lastTradeId[p], m.tid}
             /\ lastTradeId'[p] = m.tid \/ Seen(p)
      /\ Seen(p) =>
             lastTradeId'[p] \in Nat /\ lastTradeId'[p] >= lastTradeId[p]
      /\ m.type # "heartbeat" => Seen(p)' /\ lastTradeId'[p] >= m.tid
      /\ (Recorded(m) /\ m.type # "heartbeat") \/ UNCHANGED <<tradesRaw, undelivered>>
  BY <1>1, RouterKnows
<1>4. \A q \in Product : issued[q] \in Nat
  BY DEF TradeInv, TradeFeedTypeOK
<1>5. \A q \in Product : Seen(q) => lastTradeId[q] \in Nat
  BY DEF TradeInv, TradeFeedTypeOK, RouterTypeOK, Seen
<1>6. \A q \in Product : q # p => (Seen(q)' <=> Seen(q))
  BY <1>3 DEF Seen
<1>7. Seen(p) => Seen(p)'
  BY <1>3, RouterAssumption DEF Seen
<1>8. starts \in Nat
  BY DEF TradeInv, RunnerInv, RunnerTypeOK
(* A record that was there.                                                *)
<1>9. ASSUME NEW i \in DOMAIN tradesRaw, tradesRaw'[i] = tradesRaw[i]
      PROVE  BehindAt(i)'
  <2> DEFINE r == tradesRaw[i]
             q == r.product
  <2>1. q \in Product /\ r.tid \in Nat
    BY RecordTypes DEF TradeInv
  <2>2. /\ r.tid \in 1..issued[q] /\ r.run <= starts
        /\ r.run = starts => Seen(q)
        /\ Seen(q) => r.tid <= lastTradeId[q]
    BY DEF TradeInv, RecordsBehind, BehindAt
  <2>3. /\ Seen(q) => lastTradeId'[q] # None
        /\ lastTradeId'[q] # None => r.tid <= lastTradeId'[q]
    <3>1. CASE q # p
      BY <1>3, <2>1, <2>2, <3>1 DEF Seen
    <3>2. CASE q = p /\ Seen(p)
      BY <1>3, <1>5, <1>7, <2>1, <2>2, <3>2 DEF Seen
    <3>3. CASE q = p /\ ~ Seen(p)
      <4>1. lastTradeId'[p] # None => m.type # "heartbeat"
        BY <1>1, <3>3, RouterDoes
           DEF FirstTrade, LaterTrade, RepeatedTrade, NewsOfTrade, NoNews, Seen
      <4>2. lastTradeId'[p] # None => r.tid <= m.tid /\ lastTradeId'[p] >= m.tid
        BY <1>2, <1>3, <3>3, <4>1
      <4>3. lastTradeId'[p] # None => lastTradeId'[p] \in Nat
        BY <1>3 DEF Seen
      <4>4. m.tid \in Nat
        BY <1>2, MessageTypes
      <4> QED
        BY <2>1, <3>3, <4>2, <4>3, <4>4
    <3> QED
      BY <3>1, <3>2, <3>3
  <2> QED
    BY <1>3, <1>9, <2>2, <2>3 DEF BehindAt, Seen
<1>10. RecordsBehind'
  <2>1. CASE tradesRaw' = tradesRaw
    BY <1>9, <2>1 DEF RecordsBehind
  <2>2. CASE Delivered(m) /\ m.type # "heartbeat"
    <3>0. PICK n : n = Len(tradesRaw) + 1
      OBVIOUS
    <3>1. /\ n \in Nat /\ DOMAIN tradesRaw = 1..(n - 1) /\ DOMAIN tradesRaw' = 1..n
          /\ \A i \in 1..(n - 1) : tradesRaw'[i] = tradesRaw[i]
          /\ tradesRaw'[n].product = p
          /\ tradesRaw'[n].tid = m.tid /\ tradesRaw'[n].run = starts
      BY <2>2, <3>0, RecordedAt
    <3>2. m.tid <= lastTradeId'[p] /\ lastTradeId'[p] # None
      BY <1>2, <1>3, <1>4, <2>2, RouterAssumption DEF Seen
    <3>3. BehindAt(n)'
      BY <1>2, <1>3, <1>8, <3>1, <3>2 DEF BehindAt, Seen
    <3> QED
      BY <1>9, <3>1, <3>3 DEF RecordsBehind
  <2> QED
    BY <1>3, <2>1, <2>2 DEF Recorded, LostOnTheWay
<1>11. LastKnown'
  <2> SUFFICES ASSUME NEW q \in Product, Seen(q)'
               PROVE  lastTradeId'[q] <= issued[q] /\ MyTids(q)' # {}
    BY <1>3 DEF LastKnown
  <2>1. MyTids(q) \subseteq MyTids(q)'
    BY <1>1, MineGrows
  <2>2. Seen(q) => lastTradeId[q] <= issued[q] /\ MyTids(q) # {}
    BY DEF TradeInv, LastKnown
  <2>3. CASE Seen(q)
    <3>1. lastTradeId'[q] \in {lastTradeId[q], m.tid} /\ (q # p => lastTradeId'[q] = lastTradeId[q])
      BY <1>3, <2>3, <1>6
    <3> QED
      BY <1>2, <1>4, <1>5, <2>1, <2>2, <2>3, <3>1
  <2>4. CASE ~ Seen(q)
    <3>1. q = p /\ FirstTrade(m)
      BY <1>1, <1>6, <2>4, RouterDoes
         DEF FirstTrade, LaterTrade, RepeatedTrade, NewsOfTrade, NoNews, Seen
    <3>2. lastTradeId'[p] = m.tid
      BY <1>3, <2>4, <3>1
    <3>3. m.tid \in MyTids(p)'
      BY <1>1, <1>2, <3>1, MineGrows DEF FirstTrade
    <3> QED
      BY <1>2, <1>4, <3>1, <3>2, <3>3
  <2> QED
    BY <2>3, <2>4
<1> QED
  BY <1>10, <1>11

LEMMA RouteKeepsAhead == TradeInv /\ Taken => WireAhead' /\ BarsCountOnce'
<1> SUFFICES ASSUME TradeInv, Taken PROVE WireAhead' /\ BarsCountOnce'
  OBVIOUS
<1>1. PICK m : m = Head(wire)
  OBVIOUS
<1> DEFINE p == m.product
<1>2. /\ starts' = starts /\ issued' = issued /\ (wire' = Tail(wire) \/ wire' = <<>>)
      /\ \A q \in Product : q # p => lastTradeId'[q] = lastTradeId[q]
      /\ Seen(p)' => lastTradeId'[p] \in {lastTradeId[p], m.tid}
                     /\ (lastTradeId'[p] = m.tid \/ Seen(p))
      /\ (Recorded(m) /\ m.type # "heartbeat") \/ UNCHANGED <<tradesRaw, undelivered>>
  BY <1>1, RouterKnows
<1>3. /\ m = wire[1] /\ 1 \in DOMAIN wire /\ AheadAt(1) /\ p \in Product
      /\ \A i \in DOMAIN Tail(wire) :
             Tail(wire)[i] = wire[i + 1] /\ i + 1 \in DOMAIN wire /\ i \in Nat \ {0}
  BY <1>1, HeadIs, TakenIs
<1>4. \A k \in DOMAIN tradesRaw' :
          \/ k \in DOMAIN tradesRaw /\ tradesRaw'[k] = tradesRaw[k]
          \/ tradesRaw'[k].product = p /\ tradesRaw'[k].tid = m.tid
  BY <1>2, RecordedAt DEF Recorded, LostOnTheWay
<1>5. ASSUME NEW i \in DOMAIN Tail(wire), wire' = Tail(wire)
      PROVE  AheadAt(i)'
  <2> DEFINE w == wire[i + 1]
             q == w.product
  <2>1. AheadAt(i + 1) /\ wire'[i] = w /\ i \in Nat \ {0}
    BY <1>2, <1>3, <1>5 DEF TradeInv, WireAhead
  <2>2. q \in Product /\ w.tid \in Nat
    BY <1>3, MessageTypes DEF TradeInv, TradeFeedTypeOK
  <2>3. q = p => w.type # "last_match" /\ (w.type = "match" => m.tid < w.tid)
    BY <1>3, <2>1 DEF AheadAt
  <2>4. w.type = "match" =>
            /\ lastTradeId'[q] # None => lastTradeId'[q] < w.tid
            /\ \A k \in DOMAIN tradesRaw' : tradesRaw'[k].product = q => tradesRaw'[k].tid < w.tid
    <3>1. w.type = "match" =>
              /\ Seen(q) => lastTradeId[q] < w.tid
              /\ \A k \in DOMAIN tradesRaw : tradesRaw[k].product = q => tradesRaw[k].tid < w.tid
      BY <2>1 DEF AheadAt
    <3> QED
      BY <1>2, <1>4, <2>2, <2>3, <3>1 DEF Seen
  <2>5. w.type = "last_match" =>
            /\ lastTradeId'[q] # None => lastTradeId'[q] <= w.tid
            /\ \A k \in DOMAIN tradesRaw' : tradesRaw'[k].product = q => tradesRaw'[k].tid <= w.tid
    <3>1. w.type = "last_match" =>
              /\ Seen(q) => lastTradeId[q] <= w.tid
              /\ \A k \in DOMAIN tradesRaw : tradesRaw[k].product = q => tradesRaw[k].tid <= w.tid
      BY <2>1 DEF AheadAt
    <3> QED
      BY <1>2, <1>4, <2>2, <2>3, <3>1 DEF Seen
  <2>6. \A j \in 1..(i - 1) :
            wire'[j].product = q =>
                /\ w.type # "last_match"
                /\ w.type = "match" => wire'[j].tid < w.tid
    <3> SUFFICES ASSUME NEW j \in 1..(i - 1), wire'[j].product = q
                 PROVE  /\ w.type # "last_match"
                        /\ w.type = "match" => wire'[j].tid < w.tid
      OBVIOUS
    <3>1. j \in DOMAIN Tail(wire)
      BY <2>1, HeadIs, TakenIs
    <3>2. wire'[j] = wire[j + 1] /\ j + 1 \in 1..((i + 1) - 1)
      BY <1>2, <1>3, <1>5, <2>1, <3>1
    <3> QED
      BY <2>1, <3>2 DEF AheadAt
  <2> QED
    BY <1>2, <2>1, <2>4, <2>5, <2>6 DEF AheadAt, Seen
<1>6. WireAhead'
  <2>1. CASE wire' = Tail(wire)
    BY <1>5, <2>1 DEF WireAhead
  <2>2. CASE wire' = <<>>
    BY <2>2 DEF WireAhead
  <2> QED
    BY <1>2, <2>1, <2>2
<1>7. BarsCountOnce'
  <2>1. CASE tradesRaw' = tradesRaw
    BY <2>1 DEF TradeInv, BarsCountOnce, Bars
  <2>2. CASE Delivered(m) /\ m.type # "heartbeat"
    <3>0. PICK n : n = Len(tradesRaw) + 1
      OBVIOUS
    <3>1. /\ n \in Nat /\ DOMAIN tradesRaw = 1..(n - 1) /\ DOMAIN tradesRaw' = 1..n
          /\ \A i \in 1..(n - 1) : tradesRaw'[i] = tradesRaw[i]
          /\ tradesRaw'[n].type = m.type /\ tradesRaw'[n].product = p
          /\ tradesRaw'[n].tid = m.tid
      BY <2>2, <3>0, RecordedAt
    <3>2. ASSUME NEW i \in Bars', NEW j \in Bars', i < j,
                 tradesRaw'[i].product = tradesRaw'[j].product
          PROVE  tradesRaw'[i].tid < tradesRaw'[j].tid
      <4>1. /\ i \in 1..n /\ tradesRaw'[i].type = "match"
            /\ j \in 1..n /\ tradesRaw'[j].type = "match"
        BY <3>1, <3>2 DEF Bars
      <4>2. i \in 1..(n - 1)
        BY <3>1, <3>2, <4>1
      <4>3. CASE j \in 1..(n - 1)
        BY <3>1, <3>2, <4>1, <4>2, <4>3 DEF TradeInv, BarsCountOnce, Bars
      <4>4. CASE j = n
        BY <1>3, <3>1, <3>2, <4>1, <4>2, <4>4 DEF AheadAt
      <4> QED
        BY <3>1, <4>1, <4>3, <4>4
    <3> QED
      BY <3>2 DEF BarsCountOnce
  <2> QED
    BY <1>2, <2>1, <2>2 DEF Recorded, LostOnTheWay
<1> QED
  BY <1>6, <1>7

(* The trades known then: those known before, and of the message's product *)
(* those up to the new last one.                                           *)
LEMMA KnownGrows ==
    ASSUME TradeInv, Taken, NEW m, m = Head(wire), NEW t \in Tids
    PROVE  /\ \A q \in Product : <<q, t>> \in Known => <<q, t>> \in Known'
           /\ \A q \in Product :
                  <<q, t>> \in Known' /\ <<q, t>> \notin Known =>
                      /\ q = m.product
                      /\ t <= lastTradeId'[q]
                      /\ Seen(q) => lastTradeId[q] < t
                      /\ ~ Seen(q) => FirstTrade(m) /\ t = m.tid
           /\ Seen(m.product) /\ lastTradeId[m.product] <= t /\ t <= lastTradeId'[m.product]
                  => <<m.product, t>> \in Known'
<1> DEFINE p == m.product
<1>1. /\ starts' = starts
      /\ \A q \in Product : q # p => lastTradeId'[q] = lastTradeId[q]
      /\ Seen(p)' =>
             /\ lastTradeId'[p] \in Nat
             /\ lastTradeId'[p] \in {lastTradeId[p], m.tid}
             /\ lastTradeId'[p] = m.tid \/ Seen(p)
      /\ Seen(p) =>
             lastTradeId'[p] \in Nat /\ lastTradeId'[p] >= lastTradeId[p]
      /\ m.type # "heartbeat" => Seen(p)' /\ lastTradeId'[p] >= m.tid
      /\ (Recorded(m) /\ m.type # "heartbeat") \/ UNCHANGED <<tradesRaw, undelivered>>
  BY RouterKnows
<1>2. \A q \in Product :
          /\ MyTids(q) \subseteq MyTids(q)'
          /\ \A s \in MyTids(q)' :
                 \/ s \in MyTids(q)
                 \/ q = p /\ s = m.tid /\ Recorded(m) /\ m.type # "heartbeat"
  BY MineGrows
<1>4. t \in Nat
  BY TidsFinite
<1>5. \A q \in Product : Seen(q) => lastTradeId[q] \in Nat
  BY DEF TradeInv, TradeFeedTypeOK, RouterTypeOK, Seen
<1>6. \A q \in Product : (<<q, t>> \in Known' <=> KnownTrade(q, t)')
                         /\ (<<q, t>> \in Known <=> KnownTrade(q, t))
  BY KnownHolds, KnownPrimed
<1>7. m \in FeedMsg /\ p \in Product /\ m.tid \in Nat /\ AheadAt(1) /\ m = wire[1]
  BY HeadIs, TakenIs, MessageTypes
<1>8. ASSUME NEW q \in Product, KnownTrade(q, t) PROVE KnownTrade(q, t)'
  <2>1. PICK s \in MyTids(q) : s \in 1..t
    BY <1>8 DEF KnownTrade
  <2>2. s \in MyTids(q)'
    BY <1>2, <2>1
  <2>3. Seen(q)' /\ t <= lastTradeId'[q]
    BY <1>1, <1>4, <1>5, <1>7, <1>8, RouterAssumption DEF KnownTrade, Seen
  <2> QED
    BY <2>1, <2>2, <2>3 DEF KnownTrade
<1>9. ASSUME Seen(p), lastTradeId[p] <= t, t <= lastTradeId'[p] PROVE KnownTrade(p, t)'
  <2>1. PICK s \in MyTids(p) : TRUE
    BY <1>7, <1>9 DEF TradeInv, LastKnown
  <2>2. s \in 1..lastTradeId[p] /\ lastTradeId[p] \in Nat
    BY <1>7, <2>1, MineBehind
  <2>3. s \in MyTids(p)' /\ s \in 1..t
    BY <1>2, <1>4, <1>7, <1>9, <2>1, <2>2
  <2>4. Seen(p)'
    BY <1>1, <1>9, RouterAssumption DEF Seen
  <2> QED
    BY <1>9, <2>3, <2>4 DEF KnownTrade
<1>10. ASSUME NEW q \in Product, KnownTrade(q, t)', ~ KnownTrade(q, t)
       PROVE  /\ q = p
              /\ t <= lastTradeId'[q]
              /\ Seen(q) => lastTradeId[q] < t
              /\ ~ Seen(q) => FirstTrade(m) /\ t = m.tid
  <2>1. PICK s \in MyTids(q)' : s \in 1..t
    BY <1>10 DEF KnownTrade
  <2>3. t <= lastTradeId'[q] /\ lastTradeId'[q] # None
    BY <1>10 DEF KnownTrade, Seen
  <2>4. CASE s \in MyTids(q)
    <3>2. Seen(q)
      BY <2>4, MineBehind
    <3>3. lastTradeId[q] < t
      BY <1>4, <1>5, <1>10, <2>1, <2>4, <3>2 DEF KnownTrade
    <3> QED
      BY <1>1, <1>4, <1>5, <2>3, <3>2, <3>3
  <2>5. CASE Recorded(m) /\ m.type # "heartbeat" /\ q = p /\ s = m.tid
    <3>1. CASE ~ Seen(p)
      <4>1. FirstTrade(m) /\ lastTradeId'[p] = m.tid
        BY <1>1, <2>3, <2>5, <3>1, RouterDoes
           DEF LaterTrade, RepeatedTrade, NewsOfTrade, NoNews, Seen
      <4> QED
        BY <1>4, <1>7, <2>1, <2>3, <2>5, <3>1, <4>1
    <3>2. CASE Seen(p)
      <4>1. lastTradeId[p] <= m.tid /\ m.tid <= t
        BY <1>4, <1>5, <1>7, <2>1, <2>5, <3>2, MessageTypes DEF AheadAt
      <4>2. PICK k \in MyTids(p) : TRUE
        BY <1>7, <3>2 DEF TradeInv, LastKnown
      <4>3. k \in 1..lastTradeId[p]
        BY <1>7, <4>2, MineBehind
      <4>4. t # lastTradeId[p]
        BY <1>4, <1>10, <2>5, <3>2, <4>2, <4>3 DEF KnownTrade
      <4> QED
        BY <1>4, <1>5, <1>7, <2>3, <2>5, <3>2, <4>1, <4>4
    <3> QED
      BY <3>1, <3>2
  <2> QED
    BY <1>2, <2>1, <2>4, <2>5
<1> QED
  BY <1>6, <1>7, <1>8, <1>9, <1>10

(* The trades between two ids of a product, counted.                       *)
LEMMA BetweenCounts ==
    ASSUME NEW p, NEW low \in Nat, NEW high \in Nat, low <= high
    PROVE  /\ IsFiniteSet({p} \X ((low + 1)..high))
           /\ Cardinality({p} \X ((low + 1)..high)) = high - low
<1>1. IsFiniteSet({p}) /\ Cardinality({p}) = 1
  BY FS_Singleton
<1>2. PICK ids : ids = (low + 1)..high
  OBVIOUS
<1>3. IsFiniteSet(ids) /\ Cardinality(ids) = high - low
  <2>1. PICK a \in Int : a = low + 1
    OBVIOUS
  <2>2. IsFiniteSet(a..high) /\ Cardinality(a..high) = IF a > high THEN 0 ELSE high - a + 1
    BY FS_Interval
  <2>3. (IF a > high THEN 0 ELSE high - a + 1) = high - low
    BY <2>1
  <2> QED
    BY <1>2, <2>1, <2>2, <2>3
<1>4. IsFiniteSet({p} \X ids) /\ Cardinality({p} \X ids) = 1 * (high - low)
  <2>1. PICK one : one = {p}
    OBVIOUS
  <2>2. IsFiniteSet(one \X ids) /\ Cardinality(one \X ids) = Cardinality(one) * Cardinality(ids)
    BY <1>1, <1>3, <2>1, FS_Product
  <2> QED
    BY <1>1, <1>3, <2>1, <2>2
<1>5. 1 * (high - low) = high - low
  OBVIOUS
<1> QED
  BY <1>2, <1>4, <1>5

(* The trades that are received then, those in the bars, and the matches   *)
(* that were lost.                                                         *)
LEMMA TopicGrows ==
    ASSUME TradeInv, Taken, NEW m, m = Head(wire), NEW q \in Product, NEW t \in Nat
    PROVE  /\ <<q, t>> \in Received => (<<q, t>> \in Received)'
           /\ Recorded(m) => (<<m.product, m.tid>> \in Received)'
           /\ (t \in MatchIds(q))' =>
                  \/ t \in MatchIds(q)
                  \/ q = m.product /\ t = m.tid /\ m.type = "match" /\ Delivered(m)
           /\ (<<q, t>> \in LostMatches)' =>
                  \/ <<q, t>> \in LostMatches
                  \/ q = m.product /\ t = m.tid /\ m.type = "match" /\ Recorded(m)
<1>1. starts' = starts /\ (Recorded(m) \/ UNCHANGED <<tradesRaw, undelivered>>)
  BY RouterKnows
<1>3. \A i \in DOMAIN tradesRaw' :
          \/ i \in DOMAIN tradesRaw /\ tradesRaw'[i] = tradesRaw[i]
          \/ /\ Delivered(m) /\ tradesRaw'[i].product = m.product
             /\ tradesRaw'[i].tid = m.tid /\ tradesRaw'[i].type = m.type
  BY <1>1, RecordedAt DEF Recorded, LostOnTheWay
<1>4. <<q, t>> \in Received => (<<q, t>> \in Received)'
  BY MineGrows, ReceivedHolds, ReceivedPrimed
<1>5. Recorded(m) => (<<m.product, m.tid>> \in Received)'
  BY MineGrows, ReceivedPrimed
<1>6. (t \in MatchIds(q))' =>
          \/ t \in MatchIds(q)
          \/ q = m.product /\ t = m.tid /\ m.type = "match" /\ Delivered(m)
  BY <1>3 DEF MatchIds, BarsOf, Bars
<1>7. \A r \in undelivered' :
          \/ r \in undelivered
          \/ RecordOf(r, m) /\ Recorded(m)
  BY <1>1 DEF Recorded, Delivered, LostOnTheWay
<1>8. (<<q, t>> \in LostMatches)' =>
          \/ <<q, t>> \in LostMatches
          \/ q = m.product /\ t = m.tid /\ m.type = "match" /\ Recorded(m)
  BY <1>1, <1>7, LostHolds, LostPrimed DEF RecordOf
<1> QED
  BY <1>4, <1>5, <1>6, <1>8

(* A record lost before stays out of the bars: a match that gets there is  *)
(* of a later trade.                                                       *)
LEMMA RouteKeepsLost == TradeInv /\ Taken => LostBehind'
<1> SUFFICES ASSUME TradeInv, Taken, NEW r \in undelivered'
             PROVE  r.run <= starts' /\ (r.run = starts' => LostAt(r)')
  BY DEF LostBehind
<1>1. PICK m : m = Head(wire)
  OBVIOUS
<1> DEFINE p == m.product
<1>2. /\ m \in FeedMsg /\ p \in Product /\ m.tid \in 1..issued[p] /\ m.tid \in Nat
      /\ m.type = "match" =>
             /\ Seen(p) => lastTradeId[p] < m.tid
             /\ \A k \in DOMAIN tradesRaw : tradesRaw[k].product = p => tradesRaw[k].tid < m.tid
  BY <1>1, HeadIs, TakenIs, MessageTypes DEF AheadAt
<1>3. /\ starts' = starts /\ starts \in Nat
      /\ \A q \in Product : q # p => lastTradeId'[q] = lastTradeId[q]
      /\ Seen(p) => lastTradeId'[p] \in Nat /\ lastTradeId'[p] >= lastTradeId[p]
      /\ m.type # "heartbeat" =>
             Seen(p)' /\ lastTradeId'[p] \in Nat /\ lastTradeId'[p] >= m.tid
      /\ (Recorded(m) /\ m.type # "heartbeat") \/ UNCHANGED <<tradesRaw, undelivered>>
  BY <1>1, RouterKnows DEF TradeInv, RunnerInv, RunnerTypeOK
<1>4. CASE r \in undelivered
  <2>1. r.product \in Product /\ r.tid \in Nat /\ r.run <= starts
    BY <1>4, LostTypes DEF TradeInv, LostBehind
  <2>2. ASSUME r.run = starts PROVE LostAt(r)'
    <3>1. LostAt(r) /\ Seen(r.product) /\ r.tid \in 1..lastTradeId[r.product]
      BY <1>4, <2>2 DEF TradeInv, LostBehind, LostAt
    <3>2. lastTradeId[r.product] \in Nat
      BY <2>1, <3>1 DEF TradeInv, TradeFeedTypeOK, RouterTypeOK, Seen
    <3>3. lastTradeId'[r.product] \in Nat /\ lastTradeId'[r.product] >= lastTradeId[r.product]
      BY <1>3, <2>1, <3>1, <3>2
    <3>4. Seen(r.product)' /\ r.tid \in 1..lastTradeId'[r.product]
      BY <2>1, <3>1, <3>2, <3>3, RouterAssumption DEF Seen
    <3>5. r.type = "match" => (r.tid \notin MatchIds(r.product))'
      <4>1. r.type = "match" => r.tid \notin MatchIds(r.product)
        BY <3>1 DEF LostAt
      <4>2. r.product = p /\ m.type = "match" => r.tid # m.tid
        BY <1>2, <2>1, <3>1, <3>2
      <4> QED
        BY <1>1, <2>1, <4>1, <4>2, TopicGrows
    <3> QED
      BY <3>4, <3>5 DEF LostAt
  <2> QED
    BY <1>3, <2>1, <2>2
<1>5. CASE r \notin undelivered
  <2>1. RecordOf(r, m) /\ LostOnTheWay(m) /\ m.type # "heartbeat"
    BY <1>3, <1>5 DEF Recorded, Delivered, LostOnTheWay
  <2>2. r.product = p /\ r.tid = m.tid /\ r.run = starts /\ r.type = m.type
    BY <2>1 DEF RecordOf
  <2>3. Seen(p)' /\ m.tid \in 1..lastTradeId'[p]
    BY <1>2, <1>3, <2>1
  <2>4. m.type = "match" => (m.tid \notin MatchIds(p))'
    <3>1. tradesRaw' = tradesRaw
      BY <2>1 DEF LostOnTheWay
    <3>2. m.type = "match" =>
              \A k \in DOMAIN tradesRaw : tradesRaw[k].product = p => tradesRaw[k].tid # m.tid
      BY <1>2, RecordTypes DEF TradeInv
    <3> QED
      BY <3>1, <3>2 DEF MatchIds, BarsOf, Bars
  <2> QED
    BY <1>3, <2>2, <2>3, <2>4 DEF LostAt
<1> QED
  BY <1>4, <1>5

(* What a set of pairs is, by its members.                                 *)
LEMMA PairOf ==
    ASSUME NEW x \in Known
    PROVE  x = <<x[1], x[2]>> /\ x[1] \in Product /\ x[2] \in Tids
  BY DEF Known

LEMMA PairOfPrimed ==
    ASSUME NEW x \in Known'
    PROVE  x = <<x[1], x[2]>> /\ x[1] \in Product /\ x[2] \in Tids
  BY DEF Known

(* The router counts the trades after the last one it knew of, up to top.  *)
LEMMA CountMore ==
    ASSUME TradeInv, Taken, NEW m, m = Head(wire), NEW top \in Nat,
           Seen(m.product), lastTradeId[m.product] < m.tid, lastTradeId'[m.product] = m.tid,
           lastTradeId[m.product] <= top, tradeGaps' = tradeGaps + (top - lastTradeId[m.product]),
           \/ top = m.tid /\ m.type = "heartbeat"
           \/ top = m.tid - 1 /\ Recorded(m)
    PROVE  SomeCounted'
<1> DEFINE p == m.product
           low == lastTradeId[p]
           new == {p} \X ((low + 1)..top)
<1>1. m \in FeedMsg /\ p \in Product /\ m.tid \in Nat /\ AheadAt(1) /\ m = wire[1]
  BY HeadIs, TakenIs, MessageTypes
<1>2. low \in Nat /\ tradeGaps \in Nat
  BY <1>1 DEF TradeInv, TradeFeedTypeOK, RouterTypeOK, Seen
<1>3. (low + 1)..m.tid \subseteq Tids
  <2>1. m.tid <= issued[p] /\ issued[p] <= MaxTrade[p]
    BY <1>1 DEF AheadAt, TradeInv, TradeFeedTypeOK
  <2>2. issued[p] \in Nat /\ MaxTrade[p] \in Nat
    BY <1>1, MaxTradeAssumption DEF TradeInv, TradeFeedTypeOK
  <2>3. (low + 1)..m.tid \subseteq 1..MaxTrade[p]
    BY <1>1, <1>2, <2>1, <2>2
  <2> QED
    BY <1>1, <2>3 DEF Tids
<1>4. top <= m.tid
  BY <1>1
<1>5. PICK missed \in SUBSET Known : Counted(missed)
  BY DEF TradeInv, SomeCounted
<1>6. IsFiniteSet(new) /\ Cardinality(new) = top - low
  BY <1>2, BetweenCounts
<1>7. \A x \in new : x = <<p, x[2]>> /\ x[1] = p /\ x[2] \in (low + 1)..top /\ x[2] \in Tids
  BY <1>1, <1>2, <1>3, <1>4
<1>8. PICK added : added = new
  OBVIOUS
<1> HIDE DEF new
<1>9. \A x \in missed : x[1] = p => x[2] <= low
  BY <1>1, <1>5, PairOf, KnownHolds DEF KnownTrade
<1>10. missed \intersect added = {}
  <2> SUFFICES ASSUME NEW x \in missed, x \in added PROVE FALSE
    OBVIOUS
  <2>1. x[1] = p /\ x[2] \in (low + 1)..top
    BY <1>7, <1>8
  <2> QED
    BY <1>2, <1>9, <2>1
<1>11. IsFiniteSet(missed \union added) /\ Cardinality(missed \union added) = tradeGaps'
  <2>1. Cardinality(missed) = tradeGaps /\ IsFiniteSet(missed)
    BY <1>5 DEF Counted
  <2>2. Cardinality(missed \intersect added) = 0
    BY <1>10, FS_EmptySet
  <2>3. IsFiniteSet(added) /\ Cardinality(added) = top - low
    BY <1>6, <1>8
  <2>4. /\ IsFiniteSet(missed \union added)
        /\ Cardinality(missed \union added)
               = Cardinality(missed) + Cardinality(added) - Cardinality(missed \intersect added)
    BY <2>1, <2>3, FS_Union
  <2>5. tradeGaps + (top - low) - 0 = tradeGaps'
    BY <1>2
  <2> QED
    BY <2>1, <2>2, <2>3, <2>4, <2>5
<1>12. missed \union added \subseteq Known'
  <2>1. ASSUME NEW x \in missed PROVE x \in Known'
    <3>1. PICK q \in Product, t \in Tids : x = <<q, t>>
      BY <1>5, <2>1, PairOf
    <3>2. <<q, t>> \in Known
      BY <1>5, <2>1, <3>1
    <3>3. <<q, t>> \in Known'
      BY <3>2, KnownGrows
    <3> QED
      BY <3>1, <3>3
  <2>2. ASSUME NEW x \in added PROVE x \in Known'
    <3>1. x = <<p, x[2]>> /\ x[2] \in (low + 1)..top /\ x[2] \in Tids
      BY <1>7, <1>8, <2>2
    <3>2. PICK t \in Tids : t = x[2]
      BY <3>1
    <3>3. low <= t /\ t <= m.tid
      BY <1>1, <1>2, <1>4, <3>1, <3>2
    <3>4. <<p, t>> \in Known'
      BY <3>3, KnownGrows
    <3> QED
      BY <3>1, <3>2, <3>4
  <2> QED
    BY <2>1, <2>2
<1>13. (Known \ Received)' \subseteq missed \union added
  <2> SUFFICES ASSUME NEW x, x \in Known', ~ (x \in Received)', x \notin missed
               PROVE  x \in added
    OBVIOUS
  <2>1. x = <<x[1], x[2]>> /\ x[1] \in Product /\ x[2] \in Tids /\ x[2] \in Nat
    BY PairOfPrimed, TidsFinite
  <2>2. x \notin Known
    <3>1. x \notin Received
      BY <2>1, TopicGrows
    <3> QED
      BY <1>5, <3>1 DEF Counted
  <2>3. x[1] = p /\ x[2] <= m.tid /\ low < x[2]
    <3>1. PICK q \in Product, t \in Tids : q = x[1] /\ t = x[2] /\ x = <<q, t>>
      BY <2>1
    <3>2. <<q, t>> \in Known' /\ <<q, t>> \notin Known
      BY <2>2, <3>1
    <3>3. q = p /\ t <= lastTradeId'[q] /\ low < t
      BY <3>2, KnownGrows
    <3> QED
      BY <3>1, <3>3
  <2>4. x[2] <= top
    <3>1. CASE top = m.tid
      BY <2>3, <3>1
    <3>2. CASE top = m.tid - 1 /\ Recorded(m)
      <4>1. (<<p, m.tid>> \in Received)'
        BY <1>1, <3>2, TopicGrows
      <4>2. x[2] # m.tid
        BY <2>1, <2>3, <4>1
      <4> QED
        BY <1>1, <2>1, <2>3, <3>2, <4>2
    <3> QED
      BY <3>1, <3>2
  <2> QED
    BY <1>2, <1>8, <2>1, <2>3, <2>4 DEF new
<1>14. ASSUME NEW x \in missed \union added
       PROVE  (x[2] \notin MatchIds(x[1]))' /\ (x \notin LostMatches)'
  <2>1. x[1] \in Product /\ x[2] \in Nat /\ x = <<x[1], x[2]>>
    BY <1>1, <1>5, <1>7, <1>8, PairOf, TidsFinite
  <2>2. x[2] \notin MatchIds(x[1]) /\ x \notin LostMatches
    <3>1. CASE x \in missed
      BY <1>5, <3>1 DEF Counted
    <3>2. CASE x \in added
      <4>1. x[1] = p /\ x[2] \in (low + 1)..top
        BY <1>7, <1>8, <3>2
      <4>2. \A i \in DOMAIN tradesRaw :
                tradesRaw[i].product = p => tradesRaw[i].tid \in Nat /\ tradesRaw[i].tid <= low
        BY RecordTypes DEF TradeInv, RecordsBehind, BehindAt
      <4>3. x[2] \notin MatchIds(x[1])
        BY <1>2, <4>1, <4>2 DEF MatchIds, BarsOf, Bars
      <4>4. \A r \in undelivered : r.run = starts /\ r.product = p => r.tid \in 1..low
        BY DEF TradeInv, LostBehind, LostAt
      <4>5. <<p, x[2]>> \notin LostMatches
        BY <1>2, <4>1, <4>4, LostHolds
      <4> QED
        BY <2>1, <4>1, <4>3, <4>5
    <3> QED
      BY <3>1, <3>2
  <2>3. x[1] = p /\ m.type = "match" => x[2] # m.tid
    <3>1. CASE x \in missed
      BY <1>1, <1>2, <1>9, <2>1, <3>1
    <3>2. CASE x \in added
      <4>1. x[2] \in (low + 1)..top
        BY <1>7, <1>8, <3>2
      <4>2. m.type = "match" => top = m.tid - 1
        OBVIOUS
      <4> QED
        BY <1>1, <1>2, <4>1, <4>2
    <3> QED
      BY <3>1, <3>2
  <2> QED
    BY <2>1, <2>2, <2>3, TopicGrows
<1> QED
  BY <1>11, <1>12, <1>13, <1>14 DEF SomeCounted, Counted

(* It counts nothing: the same trades are missing.                         *)
LEMMA CountSame ==
    ASSUME TradeInv, Taken, NEW m, m = Head(wire), FirstTrade(m) \/ RepeatedTrade(m)
    PROVE  SomeCounted'
<1> DEFINE p == m.product
<1>1. m \in FeedMsg /\ p \in Product /\ m.tid \in Nat
  BY HeadIs, TakenIs, MessageTypes
<1>2. PICK missed \in SUBSET Known : Counted(missed)
  BY DEF TradeInv, SomeCounted
<1>3. tradeGaps' = tradeGaps /\ Recorded(m)
  BY DEF FirstTrade, RepeatedTrade
<1>4. ASSUME NEW x \in missed
      PROVE  x \in Known' /\ (x[2] \notin MatchIds(x[1]))' /\ (x \notin LostMatches)'
  <2>1. PICK q \in Product, t \in Tids : q = x[1] /\ t = x[2] /\ x = <<q, t>>
    BY <1>2, PairOf
  <2>2. <<q, t>> \in Known /\ t \notin MatchIds(q) /\ <<q, t>> \notin LostMatches /\ t \in Nat
    BY <1>2, <2>1, TidsFinite DEF Counted
  <2>3. <<q, t>> \in Known'
    BY <2>2, KnownGrows
  <2>4. q = p => m.type # "match"
    <3>1. q = p => Seen(p)
      BY <2>2, KnownHolds DEF KnownTrade
    <3> QED
      BY <3>1 DEF FirstTrade, RepeatedTrade
  <2>5. (t \notin MatchIds(q))' /\ (<<q, t>> \notin LostMatches)'
    BY <2>2, <2>4, TopicGrows
  <2> QED
    BY <2>1, <2>3, <2>5
<1>5. (Known \ Received)' \subseteq missed
  <2> SUFFICES ASSUME NEW x, x \in Known', ~ (x \in Received)'
               PROVE  x \in missed
    OBVIOUS
  <2>1. PICK q \in Product, t \in Tids : x = <<q, t>>
    BY PairOfPrimed
  <2>2. t \in Nat
    BY TidsFinite
  <2>3. <<q, t>> \notin Received
    BY <2>1, <2>2, TopicGrows
  <2>4. CASE <<q, t>> \notin Known
    <3>1. /\ q = p /\ t <= lastTradeId'[p]
          /\ Seen(p) => lastTradeId[p] < t
          /\ ~ Seen(p) => t = m.tid
      BY <2>1, <2>4, KnownGrows
    <3>2. CASE FirstTrade(m)
      <4>1. (<<p, m.tid>> \in Received)'
        BY <1>1, <1>3, TopicGrows
      <4> QED
        BY <2>1, <3>1, <3>2, <4>1 DEF FirstTrade
    <3>3. CASE RepeatedTrade(m)
      BY <1>1, <2>2, <3>1, <3>3 DEF RepeatedTrade
    <3> QED
      BY <3>2, <3>3
  <2> QED
    BY <1>2, <2>1, <2>3, <2>4 DEF Counted
<1>6. Counted(missed)'
  BY <1>2, <1>3, <1>4, <1>5 DEF Counted
<1>7. missed \in SUBSET Known'
  BY <1>4
<1> QED
  BY <1>6, <1>7 DEF SomeCounted

LEMMA RouteKeepsCount == TradeInv /\ Taken => SomeCounted'
<1> SUFFICES ASSUME TradeInv, Taken PROVE SomeCounted'
  OBVIOUS
<1>1. PICK m : m = Head(wire)
  OBVIOUS
<1> DEFINE p == m.product
<1>2. m \in FeedMsg /\ p \in Product /\ m.tid \in Nat
  BY <1>1, HeadIs, TakenIs, MessageTypes
<1>3. Seen(p) => lastTradeId[p] \in Nat
  BY <1>2 DEF TradeInv, TradeFeedTypeOK, RouterTypeOK, Seen
<1>4. lastTradeId \in [Product -> Nat \union {None}]
  BY DEF TradeInv, TradeFeedTypeOK, RouterTypeOK
<1>5. CASE FirstTrade(m) \/ RepeatedTrade(m)
  BY <1>1, <1>5, CountSame
<1>6. CASE LaterTrade(m)
  <2>1. PICK top \in Nat : top = m.tid - 1
    BY <1>2, <1>3, <1>6 DEF LaterTrade
  <2>2. /\ Seen(p) /\ lastTradeId[p] < m.tid /\ lastTradeId'[p] = m.tid /\ Recorded(m)
        /\ tradeGaps' = tradeGaps + (top - lastTradeId[p])
    BY <1>2, <1>4, <1>6, <2>1 DEF LaterTrade, Passed
  <2>3. lastTradeId[p] <= top
    BY <1>2, <1>3, <2>1, <2>2
  <2> QED
    BY <1>1, <2>1, <2>2, <2>3, CountMore
<1>7. CASE NewsOfTrade(m)
  <2>1. /\ Seen(p) /\ lastTradeId[p] < m.tid /\ lastTradeId'[p] = m.tid
        /\ m.type = "heartbeat"
        /\ tradeGaps' = tradeGaps + (m.tid - lastTradeId[p])
    BY <1>2, <1>4, <1>7 DEF NewsOfTrade, Passed
  <2>2. lastTradeId[p] <= m.tid
    BY <1>2, <1>3, <2>1
  <2> QED
    BY <1>1, <1>2, <2>1, <2>2, CountMore
<1>8. CASE NoNews(m)
  <2>1. starts' = starts
    BY <1>1, RouterKnows
  <2> QED
    BY <1>8, <2>1, CountStays DEF NoNews
<1> QED
  BY <1>1, <1>5, <1>6, <1>7, <1>8, RouterDoes

LEMMA RouteKeeps == TradeInv /\ Taken => TradeInv'
<1> SUFFICES ASSUME TradeInv, Taken PROVE TradeInv'
  OBVIOUS
<1>1. RunnerInv'
  BY LoopKeeps DEF TradeInv, TradeNext, Taken
<1> QED
  BY <1>1, RouteTypes, RouteKeepsBehind, RouteKeepsLost, RouteKeepsAhead, RouteKeepsCount
     DEF TradeInv

-----------------------------------------------------------------------------
LEMMA TradeStepInv == TradeInv /\ [TradeNext]_tradeVars => TradeInv'
<1> SUFFICES ASSUME TradeInv, [TradeNext]_tradeVars PROVE TradeInv'
  OBVIOUS
<1>1. CASE Subscribe
  BY <1>1, SubscribeKeeps
<1>2. CASE \E product \in Product : Trade(product) \/ SendHeartbeat(product)
  BY <1>2, SendKeeps
<1>3. CASE RouteNext \/ SendFails
  BY <1>3, RouteKeeps DEF Taken
<1>4. CASE RouteOther \/ RunLoop
  BY <1>4, RunLoopKeeps
<1>5. CASE StartProcess
  BY <1>5, StartKeeps
<1>6. CASE UNCHANGED tradeVars
  <2>1. RunnerInv'
    BY LoopKeeps DEF TradeInv
  <2>2. UNCHANGED <<lastTradeId, tradeGaps, tradesRaw, undelivered, dlq, issued, wire, starts>>
    BY <1>6 DEF tradeVars, routerVars, runnerVars
  <2>3. TradeFeedTypeOK'
    BY <2>1, <2>2 DEF TradeInv, TradeFeedTypeOK, RouterTypeOK, RunnerInv
  <2>4. WireAhead'
    BY <2>2 DEF TradeInv, WireAhead, AheadAt, Seen
  <2>5. \A p \in Product : issued[p] <= issued'[p]
    BY <2>2 DEF TradeInv, TradeFeedTypeOK
  <2> QED
    BY <2>1, <2>2, <2>3, <2>4, <2>5, CountStays, BehindStays DEF TradeInv
<1> QED
  BY <1>1, <1>2, <1>3, <1>4, <1>5, <1>6 DEF TradeNext

THEOREM TradeInvariance == TradeSpec => []TradeInv
  BY TradeInitInv, TradeStepInv, PTL DEF TradeSpec

(* The types hold: an id the router knows is a number, the topic holds     *)
(* records and the wire messages, and no more trades are issued than there *)
(* are.                                                                    *)
THEOREM TradeFeedTypes == TradeSpec => []TradeFeedTypeOK
<1>1. TradeInv => TradeFeedTypeOK
  BY DEF TradeInv
<1> QED
  BY <1>1, TradeInvariance, PTL

(* The bars get the trades of a product in order and count none twice,     *)
(* whatever the channel drops and however often the loop reconnects or the *)
(* process starts anew: matches_only leaves out the trade each connection  *)
(* repeats.                                                                *)
THEOREM BarsAlwaysCountOnce == TradeSpec => []BarsCountOnce
<1>1. TradeInv => BarsCountOnce
  BY DEF TradeInv
<1> QED
  BY <1>1, TradeInvariance, PTL

-----------------------------------------------------------------------------
(* A trade that is not in the bars, but between two that are, is in a gap: *)
(* between the nearest ones on its sides.                                  *)
LEMMA InAGap ==
    ASSUME TradeFeedTypeOK, NEW p \in Product, NEW t \in Tids, t \notin MatchIds(p),
           NEW low \in MatchIds(p), low <= t, NEW high \in MatchIds(p), t <= high
    PROVE  <<p, t>> \in InGaps
<1>1. t \in Nat
  BY TidsFinite
<1>2. MatchIds(p) \subseteq Nat
  BY RecordTypes DEF MatchIds, BarsOf, Bars
<1> DEFINE below == {c \in MatchIds(p) : c < t}
           above == {c \in MatchIds(p) : c > t}
<1>3. PICK a \in below : \A c \in below : a >= c
  <2>1. below \in SUBSET (0..t)
    BY <1>1, <1>2
  <2>2. low \in below
    BY <1>1, <1>2
  <2> HIDE DEF below
  <2> QED
    BY <1>1, <2>1, <2>2, GreatestElement
<1>4. PICK b \in above : \A c \in above : b <= c
  <2>1. above \in SUBSET Nat
    BY <1>2
  <2>2. high \in above
    BY <1>1, <1>2
  <2> HIDE DEF above
  <2> QED
    BY <2>1, <2>2, LeastElement
<1>5. a \in MatchIds(p) /\ b \in MatchIds(p) /\ a \in Nat /\ b \in Nat /\ a < t /\ t < b
  BY <1>2
<1>6. \A c \in MatchIds(p) : c <= a \/ c >= b
  BY <1>1, <1>2, <1>3, <1>4
<1>7. <<a, b>> \in Gaps(MatchIds(p))
  BY <1>1, <1>5, <1>6 DEF Gaps
<1> QED
  BY <1>5, <1>7 DEF InGaps

(* A match that was lost is of a known trade, not in the bars.             *)
LEMMA LostIsKnown ==
    ASSUME TradeInv, NEW x \in LostMatches
    PROVE  x \in Known /\ x[2] \notin MatchIds(x[1])
<1>1. PICK r \in undelivered : r.run = starts /\ r.type = "match" /\ x = <<r.product, r.tid>>
  BY DEF LostMatches, Lost
<1> DEFINE p == r.product
           t == r.tid
<1>2. LostAt(r) /\ p \in Product /\ t \in Nat
  BY <1>1, LostTypes DEF TradeInv, LostBehind
<1>3. Seen(p) /\ t \in 1..lastTradeId[p] /\ t \notin MatchIds(p)
  BY <1>1, <1>2 DEF LostAt
<1>4. /\ lastTradeId[p] \in Nat /\ lastTradeId[p] <= issued[p] /\ issued[p] \in Nat
      /\ issued[p] <= MaxTrade[p] /\ MaxTrade[p] \in Nat
  BY <1>2, <1>3, MaxTradeAssumption DEF TradeInv, TradeFeedTypeOK, RouterTypeOK, LastKnown, Seen
<1>5. t \in 1..MaxTrade[p] /\ t <= lastTradeId[p] /\ t \in 1..t
  BY <1>2, <1>3, <1>4
<1>6. t \in Tids
  BY <1>2, <1>5 DEF Tids
<1>7. t \in MyTids(p)
  BY <1>1 DEF MyTids
<1>8. <<p, t>> \in Known
  BY <1>2, <1>3, <1>5, <1>6, <1>7, KnownHolds DEF KnownTrade
<1> QED
  BY <1>1, <1>3, <1>8

LEMMA CheckBearsOut ==
    TradeInv => tradeGaps + Cardinality(LostMatches) <= CheckedMissed + Cardinality(Outside)
<1> SUFFICES ASSUME TradeInv
             PROVE  tradeGaps + Cardinality(LostMatches) <= CheckedMissed + Cardinality(Outside)
  OBVIOUS
<1>0. PICK counted \in SUBSET Known : Counted(counted)
  BY DEF TradeInv, SomeCounted
<1>1. PICK missed : missed = counted \union LostMatches
  OBVIOUS
<1>11. \A x \in missed : x \in Known /\ x[2] \notin MatchIds(x[1])
  BY <1>0, <1>1, LostIsKnown DEF Counted
<1>12. IsFiniteSet(missed) /\ Cardinality(missed) = tradeGaps + Cardinality(LostMatches)
  <2>1. IsFiniteSet(counted) /\ Cardinality(counted) = tradeGaps
    BY <1>0 DEF Counted
  <2>2. IsFiniteSet(LostMatches)
    BY LostIsKnown, KnownFinite, FS_Subset
  <2>3. counted \intersect LostMatches = {}
    BY <1>0 DEF Counted
  <2>4. Cardinality(counted \intersect LostMatches) = 0
    BY <2>3, FS_EmptySet
  <2>5. /\ IsFiniteSet(counted \union LostMatches)
        /\ Cardinality(counted \union LostMatches)
               = Cardinality(counted) + Cardinality(LostMatches)
                     - Cardinality(counted \intersect LostMatches)
    BY <2>1, <2>2, FS_Union
  <2>6. Cardinality(LostMatches) \in Nat /\ Cardinality(counted) \in Nat
    BY <2>1, <2>2, FS_CardinalityType
  <2> QED
    BY <1>1, <2>1, <2>4, <2>5, <2>6
<1>2. PICK inside : inside = InGaps
  OBVIOUS
<1>3. PICK outside : outside = Outside
  OBVIOUS
<1>4. IsFiniteSet(inside) /\ IsFiniteSet(outside)
  <2>1. IsFiniteSet(Product \X Tids)
    BY TidsFinite, FS_Product, MaxTradeAssumption
  <2>2. inside \in SUBSET (Product \X Tids) /\ outside \in SUBSET Known
    BY <1>2, <1>3 DEF InGaps, Outside
  <2> QED
    BY <2>1, <2>2, KnownFinite, FS_Subset
<1>5. missed \subseteq inside \union outside
  <2> SUFFICES ASSUME NEW x \in missed, x \notin outside PROVE x \in inside
    OBVIOUS
  <2>1. PICK p \in Product, t \in Tids : p = x[1] /\ t = x[2] /\ x = <<p, t>>
    BY <1>11, PairOf
  <2>2. PICK low \in MatchIds(p), high \in MatchIds(p) : low <= t /\ t <= high
    BY <1>11, <1>3, <2>1 DEF Outside
  <2>3. t \notin MatchIds(p)
    BY <1>11, <2>1
  <2>4. <<p, t>> \in InGaps
    BY <2>2, <2>3, InAGap DEF TradeInv
  <2> QED
    BY <1>2, <2>1, <2>4
<1>6. /\ IsFiniteSet(inside \union outside)
      /\ Cardinality(inside \union outside)
             = Cardinality(inside) + Cardinality(outside) - Cardinality(inside \intersect outside)
  BY <1>4, FS_Union
<1>7. IsFiniteSet(inside \intersect outside)
  BY <1>4, FS_Intersection
<1>8. Cardinality(missed) <= Cardinality(inside \union outside)
  BY <1>5, <1>6, FS_Subset
<1>9. /\ Cardinality(inside) \in Nat /\ Cardinality(outside) \in Nat
      /\ Cardinality(inside \intersect outside) \in Nat
      /\ Cardinality(missed) \in Nat
  BY <1>4, <1>7, <1>12, FS_CardinalityType
<1>10. Cardinality(missed) <= Cardinality(inside) + Cardinality(outside)
  BY <1>6, <1>8, <1>9
<1> QED
  BY <1>2, <1>3, <1>10, <1>12 DEF CheckedMissed

LEMMA CheckedIsComplete ==
    ASSUME TradeInv, CheckPasses, NEW p \in Product
    PROVE  WithoutGaps(p)
<1> SUFFICES ASSUME NEW i \in BarsOf(p), NEW j \in BarsOf(p), i < j,
                    \A k \in BarsOf(p) : k <= i \/ j <= k
             PROVE  tradesRaw[j].tid = tradesRaw[i].tid + 1
  BY DEF WithoutGaps
<1> DEFINE a == tradesRaw[i].tid
           b == tradesRaw[j].tid
<1>1. \A k \in BarsOf(p) : k \in Nat /\ k \in Bars /\ tradesRaw[k].tid \in Nat
                           /\ tradesRaw[k].product = p
  <2>1. DOMAIN tradesRaw \subseteq Nat
    BY DEF TradeInv, TradeFeedTypeOK, RouterTypeOK
  <2> QED
    BY <2>1, RecordTypes DEF BarsOf, Bars, TradeInv
<1>2. \A k, n \in BarsOf(p) : k < n => tradesRaw[k].tid < tradesRaw[n].tid
  BY <1>1 DEF TradeInv, BarsCountOnce
<1>3. \A k \in BarsOf(p) : tradesRaw[k].tid <= a \/ tradesRaw[k].tid >= b
  BY <1>1, <1>2
<1>4. a \in MatchIds(p) /\ b \in MatchIds(p) /\ \A c \in MatchIds(p) : c <= a \/ c >= b
  BY <1>3 DEF MatchIds
<1>5. ~ (b - a > 1)
  <2>1. <<a, b>> \notin Gaps(MatchIds(p))
    BY DEF CheckPasses
  <2> QED
    BY <1>4, <2>1 DEF Gaps
<1>6. a < b /\ a \in Nat /\ b \in Nat
  BY <1>1, <1>2
<1> QED
  BY <1>5, <1>6

(* trade_gaps is never below the number of trades the feed lost nor above  *)
(* that of the trades never received as a match; check_gaps.py finds what  *)
(* it counted, and the matches lost on their way to the topic, between the *)
(* trades it reads; and when it passes, the bars of a product have each    *)
(* trade from their first to their last.                                   *)
THEOREM GapsAlwaysBounded == TradeSpec => []GapsBounded
<1>1. ASSUME TradeInv PROVE GapsBounded
  <2>1. PICK missed \in SUBSET Known : Counted(missed)
    BY <1>1 DEF TradeInv, SomeCounted
  <2>2. Cardinality(Known \ Received) <= tradeGaps
    BY <2>1, FS_Subset DEF Counted
  <2>3. tradeGaps <= Cardinality(Known \ (Ids(Bars) \union LostMatches))
    <3>1. missed \subseteq Known \ (Ids(Bars) \union LostMatches)
      <4> SUFFICES ASSUME NEW x \in missed, x \in Ids(Bars) PROVE FALSE
        BY <2>1 DEF Counted
      <4>1. PICK p \in Product, t \in Tids : p = x[1] /\ t = x[2] /\ x = <<p, t>>
        BY <2>1, PairOf
      <4>2. t \in MatchIds(p)
        BY <4>1, IdsHold DEF MatchIds, BarsOf
      <4> QED
        BY <2>1, <4>1, <4>2 DEF Counted
    <3>2. IsFiniteSet(Known \ (Ids(Bars) \union LostMatches))
      BY KnownFinite, FS_Difference
    <3>3. Cardinality(missed) <= Cardinality(Known \ (Ids(Bars) \union LostMatches))
      BY <3>1, <3>2, FS_Subset
    <3> QED
      BY <2>1, <3>3 DEF Counted
  <2> QED
    BY <1>1, <2>2, <2>3, CheckBearsOut, CheckedIsComplete DEF GapsBounded
<1> QED
  BY <1>1, TradeInvariance, PTL
=============================================================================
