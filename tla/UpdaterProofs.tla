----------------------------- MODULE UpdaterProofs -----------------------------
(***************************************************************************)
(* Theorems about the online features, for any products, bars and window   *)
(* lengths and any number of restarts of the updater and of the bars job:  *)
(* what a row has, and what of it gold may have otherwise.                 *)
(*                                                                         *)
(* The properties compare rows with the tables, which a restart of the     *)
(* bars job takes back.  The invariant compares them with the bars         *)
(* consumed, which only become more: a row has those of its windows but    *)
(* the ones inserted since (RowsFit), for a bar that is not inserted comes *)
(* at the end of its topic, which is behind the minutes that have rows.    *)
(* A new row has them all because the buffers do (Kept): they go back      *)
(* Buffer from the latest minute flushed, and a row that is not out of     *)
(* turn is at most a minute behind that one, hence the minute of room      *)
(* between Long and Buffer.                                                *)
(***************************************************************************)
EXTENDS FeatureUpdater, Extremes

Book == "bars.book.1s"
Trades == "bars.trade.1s"

(* The seconds of the bars consumed, and of those inserted.                *)
Of(some, product) == {s \in Second : <<product, s>> \in some}

Sent(topic, product) == Of(bars[topic], product)
Inserted(topic, product) == Of(inserted[topic], product)

LEMMA Lengths ==
    /\ Minute \in Nat \ {0} /\ Long \in Nat /\ Short \in Nat
    /\ Margin \in Nat /\ Buffer \in Nat /\ MaxRestarts \in Nat
    /\ Margin > 0 /\ Short <= Long /\ Long + Minute <= Buffer
  BY GoldAssumption, UpdaterAssumption

-----------------------------------------------------------------------------
(* Rows.                                                                   *)

(* A row has only bars of its windows, and some recent one.                *)
RowIs(row, seconds, trades, asOf) ==
    /\ row.recent # {}
    /\ \A s \in row.book : s \in seconds /\ asOf - Long < s /\ s <= asOf
    /\ \A s \in row.recent : s \in seconds /\ asOf - Short < s /\ s <= asOf
    /\ \A s \in row.trades : s \in trades /\ asOf - Short < s /\ s <= asOf
    /\ row.base # Never => row.base \in seconds /\ row.base <= asOf - Long

(* If the updater started at these seconds, a row has all bars of its      *)
(* windows but late ones.                                                  *)
RowHas(row, seconds, late, trades, lateTrades, asOf, start) ==
    start[Book] <= asOf - Long /\ start[Trades] <= asOf - Short =>
        /\ \A s \in seconds \ late :
               /\ asOf - Long < s /\ s <= asOf => s \in row.book
               /\ asOf - Short < s /\ s <= asOf => s \in row.recent
               /\ s <= asOf - Long /\ s > start[Book] /\ s >= asOf + Minute - Buffer =>
                      row.base >= s
        /\ \A s \in trades \ lateTrades : asOf - Short < s /\ s <= asOf => s \in row.trades

(* compute_features, from buffers that hold all bars from floor - Buffer   *)
(* on; the minute is not more than one before floor.                       *)
LEMMA FeaturesAre ==
    ASSUME NEW seconds \in SUBSET Nat, NEW trades \in SUBSET Nat, NEW b \in SUBSET seconds,
           IsFiniteSet(b), NEW c \in SUBSET trades, NEW asOf \in Nat,
           Features(b, c, asOf).recent # {}
    PROVE  RowIs(Features(b, c, asOf), seconds, trades, asOf)
  <1> DEFINE row == Features(b, c, asOf)
             buffered == {s \in b : s <= asOf - Long}
  <1>1. /\ row.book = {s \in b : asOf - Long < s /\ s <= asOf}
        /\ row.recent = {s \in b : asOf - Short < s /\ s <= asOf}
        /\ row.trades = {s \in c : asOf - Short < s /\ s <= asOf}
        /\ row.base = IF buffered = {} THEN Never ELSE Max(buffered)
    BY DEF Features, Within
  <1>2. ASSUME row.base # Never PROVE row.base \in seconds /\ row.base <= asOf - Long
    <2>1. buffered # {} /\ row.base = Max(buffered)
      BY <1>1, <1>2
    <2>2. buffered \in SUBSET Int /\ IsFiniteSet(buffered) /\ buffered \subseteq seconds
      <3>1. buffered \in SUBSET b
        OBVIOUS
      <3> HIDE DEF buffered
      <3>2. IsFiniteSet(buffered)
        BY <3>1, FS_Subset
      <3> QED
        BY <3>1, <3>2
    <2>3. \A s \in buffered : s <= asOf - Long
      OBVIOUS
    <2> HIDE DEF buffered
    <2>4. Max(buffered) \in buffered
      BY <2>1, <2>2, FiniteMaxProperty
    <2> QED
      BY <2>1, <2>2, <2>3, <2>4
  <1> HIDE DEF row, buffered
  <1>3. RowIs(row, seconds, trades, asOf)
    BY <1>1, <1>2 DEF RowIs, row
  <1> QED
    BY <1>3 DEF row

LEMMA FeaturesHave ==
    ASSUME NEW seconds \in SUBSET Nat, NEW trades \in SUBSET Nat, NEW b \in SUBSET seconds,
           IsFiniteSet(b), NEW c \in SUBSET trades, NEW asOf \in Nat,
           NEW late, NEW lateTrades, NEW start \in [Topic -> Int],
           NEW floor \in Int, floor <= asOf + Minute,
           \A s \in seconds : s > start[Book] /\ s >= floor - Buffer => s \in b,
           \A s \in trades : s > start[Trades] /\ s >= floor - Buffer => s \in c
    PROVE  RowHas(Features(b, c, asOf), seconds, late, trades, lateTrades, asOf, start)
  <1> DEFINE row == Features(b, c, asOf)
             buffered == {s \in b : s <= asOf - Long}
  <1>1. /\ row.book = {s \in b : asOf - Long < s /\ s <= asOf}
        /\ row.recent = {s \in b : asOf - Short < s /\ s <= asOf}
        /\ row.trades = {s \in c : asOf - Short < s /\ s <= asOf}
        /\ row.base = IF buffered = {} THEN Never ELSE Max(buffered)
    BY DEF Features, Within
  <1>2. /\ buffered \in SUBSET Int /\ IsFiniteSet(buffered)
        /\ \A s : s \in buffered <=> s \in b /\ s <= asOf - Long
    <2>1. buffered \in SUBSET b /\ \A s : s \in buffered <=> s \in b /\ s <= asOf - Long
      OBVIOUS
    <2> HIDE DEF buffered
    <2>2. IsFiniteSet(buffered)
      BY <2>1, FS_Subset
    <2> QED
      BY <2>1, <2>2
  <1> HIDE DEF row, buffered
  <1>3. start[Book] \in Int /\ start[Trades] \in Int
    BY DEF Topic, Book, Trades
  <1>4. ASSUME start[Book] <= asOf - Long, start[Trades] <= asOf - Short
        PROVE  /\ \A s \in seconds :
                      /\ asOf - Long < s /\ s <= asOf => s \in row.book
                      /\ asOf - Short < s /\ s <= asOf => s \in row.recent
                      /\ s <= asOf - Long /\ s > start[Book] /\ s >= asOf + Minute - Buffer =>
                             row.base >= s
               /\ \A s \in trades : asOf - Short < s /\ s <= asOf => s \in row.trades
    <2>1. ASSUME NEW s \in seconds, asOf - Long < s PROVE s \in b
      <3>1. s \in Nat /\ s > start[Book] /\ s >= floor - Buffer
        BY <1>3, <1>4, <2>1, Lengths
      <3> QED
        BY <3>1
    <2>2. ASSUME NEW s \in trades, asOf - Short < s PROVE s \in c
      <3>1. s \in Nat /\ s > start[Trades] /\ s >= floor - Buffer
        BY <1>3, <1>4, <2>2, Lengths
      <3> QED
        BY <3>1
    <2>3. \A s \in seconds : asOf - Short < s => asOf - Long < s
      BY Lengths
    <2>4. ASSUME NEW s \in seconds, s <= asOf - Long, s > start[Book], s >= asOf + Minute - Buffer
          PROVE  row.base >= s
      <3>1. s \in Nat /\ s >= floor - Buffer
        BY <2>4, Lengths
      <3>2. s \in buffered
        BY <1>2, <2>4, <3>1
      <3>3. Max(buffered) >= s
        BY <1>2, <3>2, FiniteMaxProperty
      <3> QED
        BY <1>1, <3>2, <3>3
    <2> QED
      BY <1>1, <2>1, <2>2, <2>3, <2>4
  <1>5. RowHas(row, seconds, late, trades, lateTrades, asOf, start)
    BY <1>4 DEF RowHas
  <1> QED
    BY <1>5 DEF row

(* It does so still when there are more bars, later than its minute or     *)
(* late ones, and more of them before the start.                           *)
LEMMA RowStays ==
    ASSUME NEW row, NEW asOf \in Nat,
           NEW seconds, NEW late, NEW trades, NEW lateTrades, NEW start \in [Topic -> Int],
           NEW moreSeconds \in SUBSET Nat, NEW moreLate,
           NEW moreTrades \in SUBSET Nat, NEW moreLateTrades, NEW later \in [Topic -> Int],
           late \subseteq moreLate, lateTrades \subseteq moreLateTrades,
           \A s \in moreSeconds : s \in seconds \/ s \in moreLate \/ s > asOf,
           \A s \in moreTrades : s \in trades \/ s \in moreLateTrades \/ s > asOf,
           \A t \in Topic : start[t] <= later[t],
           RowHas(row, seconds, late, trades, lateTrades, asOf, start)
    PROVE  RowHas(row, moreSeconds, moreLate, moreTrades, moreLateTrades, asOf, later)
  <1> SUFFICES ASSUME later[Book] <= asOf - Long, later[Trades] <= asOf - Short
               PROVE  /\ \A s \in moreSeconds \ moreLate :
                             /\ asOf - Long < s /\ s <= asOf => s \in row.book
                             /\ asOf - Short < s /\ s <= asOf => s \in row.recent
                             /\ s <= asOf - Long /\ s > later[Book] /\ s >= asOf + Minute - Buffer =>
                                    row.base >= s
                      /\ \A s \in moreTrades \ moreLateTrades :
                             asOf - Short < s /\ s <= asOf => s \in row.trades
    BY DEF RowHas
  <1>1. /\ start[Book] \in Int /\ later[Book] \in Int /\ start[Book] <= later[Book]
        /\ start[Trades] \in Int /\ later[Trades] \in Int /\ start[Trades] <= later[Trades]
    BY DEF Topic, Book, Trades
  <1>2. start[Book] <= asOf - Long /\ start[Trades] <= asOf - Short
    BY <1>1, Lengths
  <1>3. /\ \A s \in seconds \ late :
               /\ asOf - Long < s /\ s <= asOf => s \in row.book
               /\ asOf - Short < s /\ s <= asOf => s \in row.recent
               /\ s <= asOf - Long /\ s > start[Book] /\ s >= asOf + Minute - Buffer =>
                      row.base >= s
        /\ \A s \in trades \ lateTrades : asOf - Short < s /\ s <= asOf => s \in row.trades
    BY <1>2 DEF RowHas
  <1>4. ASSUME NEW s \in moreSeconds \ moreLate
        PROVE  /\ asOf - Long < s /\ s <= asOf => s \in row.book
               /\ asOf - Short < s /\ s <= asOf => s \in row.recent
               /\ s <= asOf - Long /\ s > later[Book] /\ s >= asOf + Minute - Buffer =>
                      row.base >= s
    <2>1. s \in Nat
      OBVIOUS
    <2>2. CASE s > asOf
      BY <2>1, <2>2, Lengths
    <2>3. CASE s \in seconds \ late
      BY <1>1, <1>3, <2>1, <2>3
    <2> QED
      BY <2>2, <2>3
  <1>5. ASSUME NEW s \in moreTrades \ moreLateTrades, asOf - Short < s, s <= asOf
        PROVE  s \in row.trades
    <2>1. s \in trades \ lateTrades
      BY <1>5
    <2> QED
      BY <1>3, <1>5, <2>1
  <1> QED
    BY <1>4, <1>5

-----------------------------------------------------------------------------
(* gold_features.sql.                                                      *)
LEMMA WindowIs ==
    ASSUME NEW seconds \in SUBSET Nat, NEW asOf \in Nat, NEW length \in Nat
    PROVE  Window(seconds, asOf, length) = {s \in seconds : asOf - length < s /\ s <= asOf}
  <1>1. \A s \in seconds : s \in (asOf - length + 1)..asOf <=> asOf - length < s /\ s <= asOf
    OBVIOUS
  <1> QED
    BY <1>1 DEF Window

(* The bar that gold's lag gives for the first bar of the long window is   *)
(* the last one before the window.                                         *)
LEMMA LagIs ==
    ASSUME NEW seconds \in SUBSET Nat, NEW trades, NEW asOf \in Nat, Long > 0
    PROVE  LET before == {s \in seconds : s <= asOf - Long}
           IN  GoldFeatures(seconds, trades, asOf).base = IF before = {} THEN Never ELSE Max(before)
  <1> DEFINE long == Window(seconds, asOf, Long)
             first == IF long = {} THEN asOf ELSE Min(long)
  <1>1. long = {s \in seconds : asOf - Long < s /\ s <= asOf}
    BY WindowIs, Lengths
  <1>2. /\ long \in SUBSET Nat
        /\ \A s : s \in long <=> s \in seconds /\ asOf - Long < s /\ s <= asOf
    BY <1>1
  <1>3. GoldFeatures(seconds, trades, asOf).base = Lag(seconds, first)
    BY DEF GoldFeatures
  <1> HIDE DEF long
  <1>4. \A s \in seconds : s < first <=> s <= asOf - Long
    <2> TAKE s \in seconds
    <2>1. s \in Nat /\ Long \in Nat
      BY Lengths
    <2>2. CASE long = {}
      BY <1>2, <2>1, <2>2
    <2>3. CASE long # {}
      <3>1. Min(long) \in long /\ \A x \in long : Min(long) <= x
        BY <1>2, <2>3, MinProperty
      <3>2. first = Min(long) /\ first \in Nat /\ asOf - Long < first /\ first <= asOf
        BY <1>2, <2>3, <3>1
      <3>3. ASSUME s < first, ~ (s <= asOf - Long) PROVE FALSE
        <4>1. s \in long
          BY <1>2, <2>1, <3>2, <3>3
        <4> QED
          BY <2>1, <3>1, <3>2, <3>3, <4>1
      <3> QED
        BY <2>1, <3>2, <3>3
    <2> QED
      BY <2>2, <2>3
  <1> HIDE DEF first
  <1>5. {s \in seconds : s < first} = {s \in seconds : s <= asOf - Long}
    BY <1>4
  <1> QED
    BY <1>3, <1>5 DEF Lag

(* The row agrees with gold's but for the bars that were moved.            *)
RowAgrees(row, gold, moved, movedTrades, asOf, start) ==
    /\ row.book \ moved = gold.book \ moved
    /\ row.recent \ moved = gold.recent \ moved
    /\ row.trades \ movedTrades = gold.trades \ movedTrades
    /\ gold.base >= asOf + Minute - Buffer /\ gold.base > start
           => row.base = gold.base \/ {row.base, gold.base} \intersect moved # {}

(* A row that has its bars agrees with gold's row over those of them that  *)
(* are in the table, but for late ones.                                    *)
LEMMA GoldRowAgrees ==
    ASSUME NEW row, NEW asOf \in Nat, NEW start \in [Topic -> Int],
           NEW seconds \in SUBSET Nat, NEW late, NEW trades \in SUBSET Nat, NEW lateTrades,
           NEW kept \in SUBSET seconds, IsFiniteSet(kept), NEW keptTrades \in SUBSET trades,
           RowIs(row, seconds, trades, asOf),
           RowHas(row, seconds, late, trades, lateTrades, asOf, start),
           start[Book] >= Never, start[Book] <= asOf - Long, start[Trades] <= asOf - Short
    PROVE  RowAgrees(row, GoldFeatures(kept, keptTrades, asOf), (seconds \ kept) \union late,
                     (trades \ keptTrades) \union lateTrades, asOf, start[Book])
  <1> DEFINE gold == GoldFeatures(kept, keptTrades, asOf)
             moved == (seconds \ kept) \union late
             movedTrades == (trades \ keptTrades) \union lateTrades
             before == {s \in kept : s <= asOf - Long}
  <1>1. /\ gold.book = {s \in kept : asOf - Long < s /\ s <= asOf}
        /\ gold.recent = {s \in kept : asOf - Short < s /\ s <= asOf}
        /\ gold.trades = {s \in keptTrades : asOf - Short < s /\ s <= asOf}
    BY WindowIs, Lengths DEF GoldFeatures
  <1>2. Long > 0
    <2>1. PICK s \in row.recent : s \in seconds /\ asOf - Short < s /\ s <= asOf
      BY DEF RowIs
    <2>2. s \in Nat
      BY <2>1
    <2>3. asOf - Short < s /\ s <= asOf
      BY <2>1
    <2> HIDE DEF gold, moved, movedTrades, before
    <2> QED
      BY <2>2, <2>3, Lengths
  <1>3. gold.base = IF before = {} THEN Never ELSE Max(before)
    BY <1>2, LagIs
  <1> HIDE DEF gold
  <1>4. /\ \A s \in seconds \ late :
               /\ asOf - Long < s /\ s <= asOf => s \in row.book
               /\ asOf - Short < s /\ s <= asOf => s \in row.recent
               /\ s <= asOf - Long /\ s > start[Book] /\ s >= asOf + Minute - Buffer =>
                      row.base >= s
        /\ \A s \in trades \ lateTrades : asOf - Short < s /\ s <= asOf => s \in row.trades
    BY DEF RowHas
  <1>5. /\ row.book \ moved = gold.book \ moved
        /\ row.recent \ moved = gold.recent \ moved
        /\ row.trades \ movedTrades = gold.trades \ movedTrades
    BY <1>1, <1>4 DEF RowIs
  <1>6. ASSUME gold.base >= asOf + Minute - Buffer, gold.base > start[Book],
               row.base \notin moved, gold.base \notin moved
        PROVE  row.base = gold.base
    <2>1. start[Book] \in Int /\ Never \in Int
      BY DEF Topic, Book, Never
    <2>2. before # {} /\ gold.base = Max(before)
      BY <1>3, <1>6, <2>1
    <2>3. before \in SUBSET kept /\ \A s : s \in before <=> s \in kept /\ s <= asOf - Long
      OBVIOUS
    <2> HIDE DEF before
    <2>4. before \in SUBSET Int /\ IsFiniteSet(before)
      BY <2>3, FS_Subset
    <2>5. gold.base \in before /\ \A s \in before : gold.base >= s
      BY <2>2, <2>4, FiniteMaxProperty
    <2>6. gold.base \in seconds \ late /\ gold.base <= asOf - Long /\ gold.base \in Nat
      BY <1>6, <2>3, <2>5
    <2>7. row.base >= gold.base
      BY <1>4, <1>6, <2>6
    <2>8. row.base # Never
      BY <2>6, <2>7 DEF Never
    <2>9. row.base \in seconds /\ row.base <= asOf - Long
      BY <2>8 DEF RowIs
    <2>10. row.base \in kept
      BY <1>6, <2>9
    <2>11. row.base \in before
      BY <2>3, <2>9, <2>10
    <2>12. gold.base >= row.base /\ row.base \in Nat
      BY <2>5, <2>9, <2>11
    <2> QED
      BY <2>6, <2>7, <2>12
  <1>7. \/ ~ (gold.base >= asOf + Minute - Buffer /\ gold.base > start[Book])
        \/ row.base = gold.base \/ row.base \in moved \/ gold.base \in moved
    BY <1>6
  <1> QED
    BY <1>5, <1>7 DEF gold, RowAgrees

-----------------------------------------------------------------------------
(* The bars of a topic.                                                    *)
BarsType == [Topic -> SUBSET (Product \X Second)]

LEMMA SecondsTyped == Second \in SUBSET Nat /\ IsFiniteSet(Second)
  <1>1. \A b \in Bar : b[3] \in Nat
    BY UpdaterAssumption
  <1>2. Second \in SUBSET Nat
    BY <1>1 DEF Second
  <1>3. IsFiniteSet(Second)
    <2> DEFINE f == [b \in Bar |-> b[3]]
    <2>1. f \in Surjection(Bar, Second)
      BY DEF Surjection, Second
    <2> QED
      BY <2>1, FS_Surjection, UpdaterAssumption
  <1> QED
    BY <1>2, <1>3

LEMMA LatestIs ==
    ASSUME NEW bs \in SUBSET (Product \X Second)
    PROVE  /\ Latest(bs) \in Time /\ Latest(bs) \in Int /\ Latest(bs) >= Never
           /\ \A b \in bs : b[2] \in Nat /\ b[2] <= Latest(bs)
           /\ bs # {} => \E b \in bs : b[2] = Latest(bs)
  <1> DEFINE S == {b[2] : b \in bs}
  <1>1. \A b \in bs : b[2] \in Second
    OBVIOUS
  <1>2. S \in SUBSET Second /\ S \in SUBSET Nat /\ IsFiniteSet(S)
    <2>1. S \in SUBSET Second
      BY <1>1
    <2> HIDE DEF S
    <2> QED
      BY <2>1, SecondsTyped, FS_Subset
  <1>3. CASE bs = {}
    BY <1>3 DEF Latest, Never, Time
  <1>4. CASE bs # {}
    <2>1. S # {} /\ Latest(bs) = Max(S)
      BY <1>4 DEF Latest
    <2>2. \A s : s \in S <=> \E b \in bs : b[2] = s
      OBVIOUS
    <2> HIDE DEF S
    <2>3. Max(S) \in S /\ \A s \in S : Max(S) >= s
      BY <1>2, <2>1, FiniteMaxProperty
    <2>4. Max(S) \in Nat /\ Max(S) \in Time /\ \A b \in bs : b[2] \in Nat /\ b[2] <= Max(S)
      BY <1>2, <2>2, <2>3 DEF Time
    <2>5. \E b \in bs : b[2] = Max(S)
      BY <2>2, <2>3
    <2> QED
      BY <2>1, <2>4, <2>5 DEF Never
  <1> QED
    BY <1>3, <1>4

(* More bars, and how far the topic has got with one of them.              *)
LEMMA LatestGrows ==
    ASSUME NEW bs \in SUBSET (Product \X Second), NEW p \in Product, NEW s \in Second,
           NEW more, more = bs \union {<<p, s>>}
    PROVE  Latest(more) = Max({Latest(bs), s}) /\ Latest(bs) <= Latest(more) /\ s <= Latest(more)
  <1>1. more \in SUBSET (Product \X Second) /\ more # {} /\ <<p, s>> \in more
    <2>1. <<p, s>> \in Product \X Second
      OBVIOUS
    <2>2. <<p, s>> \in more /\ \A b \in more : b \in bs \/ b = <<p, s>>
      OBVIOUS
    <2>3. \A b \in more : b \in Product \X Second
      BY <2>1, <2>2
    <2> QED
      BY <2>2, <2>3
  <1>2. s \in Int
    BY SecondsTyped
  <1>3. /\ Latest(bs) \in Int /\ Latest(bs) >= Never
        /\ \A b \in bs : b[2] \in Nat /\ b[2] <= Latest(bs)
        /\ bs # {} => \E b \in bs : b[2] = Latest(bs)
    BY LatestIs
  <1>4. /\ Latest(more) \in Int /\ Latest(more) >= Never
        /\ \A b \in more : b[2] \in Nat /\ b[2] <= Latest(more)
        /\ \E b \in more : b[2] = Latest(more)
    BY <1>1, LatestIs
  <1>5. s <= Latest(more)
    <2>1. <<p, s>>[2] <= Latest(more)
      BY <1>1, <1>4
    <2> QED
      BY <2>1
  <1>6. Latest(bs) <= Latest(more)
    <2>1. CASE bs = {}
      BY <1>3, <1>4, <2>1 DEF Latest
    <2>2. CASE bs # {}
      <3>1. PICK b \in bs : b[2] = Latest(bs)
        BY <1>3, <2>2
      <3> QED
        BY <1>4, <3>1
    <2> QED
      BY <2>1, <2>2
  <1>7. Latest(more) = s \/ Latest(more) <= Latest(bs)
    <2>1. PICK b \in more : b[2] = Latest(more)
      BY <1>4
    <2>2. b \in bs \/ b[2] = s
      BY <2>1
    <2> QED
      BY <1>3, <2>1, <2>2
  <1> DEFINE old == Latest(bs)
             new == Latest(more)
  <1> HIDE DEF old, new
  <1>8. old \in Int /\ new \in Int /\ s <= new /\ old <= new /\ (new = s \/ new <= old)
    BY <1>3, <1>4, <1>5, <1>6, <1>7 DEF old, new
  <1>9. Max({old, s}) \in {old, s} /\ Max({old, s}) >= old /\ Max({old, s}) >= s
    BY <1>2, <1>8, MaxOfTwo
  <1>10. new = Max({old, s})
    BY <1>2, <1>8, <1>9
  <1> QED
    BY <1>8, <1>10 DEF old, new

LEMMA BarsAre ==
    ASSUME NEW bs \in BarsType, NEW t \in Topic
    PROVE  /\ Latest(bs[t]) \in Time /\ Latest(bs[t]) \in Int /\ Latest(bs[t]) >= Never
           /\ \A p : /\ Of(bs[t], p) \in SUBSET Second /\ Of(bs[t], p) \in SUBSET Nat
                     /\ IsFiniteSet(Of(bs[t], p))
                     /\ \A s \in Of(bs[t], p) : s <= Latest(bs[t])
  <1>1. bs[t] \in SUBSET (Product \X Second)
    BY DEF BarsType
  <1>2. ASSUME NEW p
        PROVE  /\ Of(bs[t], p) \in SUBSET Second /\ Of(bs[t], p) \in SUBSET Nat
               /\ IsFiniteSet(Of(bs[t], p))
               /\ \A s \in Of(bs[t], p) : s <= Latest(bs[t])
    <2>1. Of(bs[t], p) \in SUBSET Second
      BY DEF Of
    <2>2. Of(bs[t], p) \in SUBSET Nat /\ IsFiniteSet(Of(bs[t], p))
      BY <2>1, SecondsTyped, FS_Subset
    <2>3. \A s \in Of(bs[t], p) : <<p, s>> \in bs[t] /\ <<p, s>>[2] = s
      BY DEF Of
    <2> QED
      BY <1>1, <2>1, <2>2, <2>3, LatestIs
  <1> QED
    BY <1>1, <1>2, LatestIs

LEMMA TypedBars ==
    ASSUME TypeOK
    PROVE  /\ bars \in BarsType /\ table \in BarsType /\ inserted \in BarsType
           /\ Book \in Topic /\ Trades \in Topic /\ Book # Trades
           /\ Time \subseteq Int /\ \A s \in Time : s >= Never
           /\ \A t \in Topic : /\ hw[t] \in Int /\ began[t] \in Int /\ began[t] >= Never
           /\ \A p \in Product : flushed[p] \in Int
           /\ Minutes \subseteq Nat
  <1>1. Time \subseteq Int /\ \A s \in Time : s >= Never
    BY SecondsTyped DEF Time, Never
  <1>2. hw \in [Topic -> Time] /\ began \in [Topic -> Time]
    BY DEF TypeOK
  <1>3. \A s \in Second : AsOf(s) \in Nat
    BY SecondsTyped, RoundedDown, Lengths DEF AsOf
  <1>4. Minutes \subseteq Nat
    BY <1>3 DEF Minutes
  <1>5. Book \in Topic /\ Trades \in Topic /\ Book # Trades
    BY DEF Book, Trades, Topic
  <1>6. \A p \in Product : flushed[p] \in Int
    <2>1. flushed \in [Product -> Minutes \union {Never}] /\ Never \in Int
      BY DEF TypeOK, Never
    <2>2. \A m \in Minutes \union {Never} : m \in Int
      BY <1>4, <2>1
    <2> QED
      BY <2>1, <2>2
  <1> QED
    BY <1>1, <1>2, <1>4, <1>5, <1>6 DEF TypeOK, BarsType

(* What a step does to the bars consumed, if anything: one that is new     *)
(* comes last in its topic, or is inserted.                                *)
BarsGrow ==
    /\ bars' \in BarsType /\ table' \in BarsType /\ inserted' \in BarsType
    /\ \A u \in Topic : table'[u] \subseteq bars'[u]
    /\ goBacks' \in 0..MaxRestarts
    /\ \A u \in Topic : Reached(u) <= Reached(u)'
    /\ \A u \in Topic, q \in Product :
           /\ Sent(u, q) \subseteq Sent(u, q)'
           /\ Inserted(u, q) \subseteq Inserted(u, q)'
           /\ \A x \in Sent(u, q)' :
                  x \in Sent(u, q) \/ x \in Inserted(u, q)' \/ x >= Reached(u)

(* The consumer gets a bar.                                                *)
Gets(t, p, s) ==
    <<t, p, s>> \in Bar /\ (Published(t, p, s) \/ PublishedAgain(t, p, s))

LEMMA GetsBar ==
    ASSUME TypeOK, NEW t, NEW p, NEW s, Gets(t, p, s)
    PROVE  /\ t \in Topic /\ p \in Product /\ s \in Second /\ s \in Nat
           /\ BarsGrow
           /\ s <= Reached(t)' /\ Reached(t)' = Max({Reached(t), s})
           /\ \A u \in Topic : u # t => Reached(u)' = Reached(u)
           /\ \A u \in Topic, q \in Product : \A x \in Sent(u, q)' :
                  x \in Sent(u, q) \/ (u = t /\ q = p /\ x = s)
           /\ s \in Sent(t, p)'
  <1>1. t \in Topic /\ p \in Product /\ s \in Second /\ s \in Nat
    <2>1. <<t, p, s>> \in Bar /\ <<t, p, s>>[3] = s
      BY DEF Gets
    <2> QED
      BY <2>1, UpdaterAssumption DEF Second
  <1>2. /\ bars \in BarsType /\ table \in BarsType /\ inserted \in BarsType
        /\ \A u \in Topic : table[u] \subseteq bars[u]
        /\ goBacks \in 0..MaxRestarts
    BY DEF TypeOK, BarsType
  <1>3. /\ bars' = [bars EXCEPT ![t] = @ \union {<<p, s>>}]
        /\ goBacks' = goBacks
        /\ \/ table' = [table EXCEPT ![t] = @ \union {<<p, s>>}]
           \/ table' = table
        /\ \/ inserted' = [inserted EXCEPT ![t] = @ \union {<<p, s>>}]
           \/ inserted' = inserted /\ (s >= Reached(t) \/ <<p, s>> \in bars[t])
    <2>1. CASE Published(t, p, s)
      <3>1. Reached(t) \in Int /\ s \in Int
        BY <1>1, <1>2, BarsAre DEF Reached
      <3>2. CASE s < Reached(t) /\ <<p, s>> \notin bars[t]
        <4>1. inserted' = [inserted EXCEPT ![t] = @ \union {<<p, s>>}]
          BY <2>1, <3>2 DEF Published
        <4> QED
          BY <2>1, <4>1 DEF Published
      <3>3. CASE ~ (s < Reached(t) /\ <<p, s>> \notin bars[t])
        <4>1. inserted' = [inserted EXCEPT ![t] = @]
          BY <2>1, <3>3 DEF Published
        <4>2. inserted' = inserted /\ (s >= Reached(t) \/ <<p, s>> \in bars[t])
          BY <1>1, <1>2, <3>1, <3>3, <4>1 DEF BarsType
        <4> QED
          BY <2>1, <4>2 DEF Published
      <3> QED
        BY <3>2, <3>3
    <2>2. CASE PublishedAgain(t, p, s)
      <3>1. <<p, s>> \in bars[t] /\ UNCHANGED <<bars, table, goBacks, inserted>>
        BY <2>2 DEF PublishedAgain, jobVars
      <3>2. bars = [bars EXCEPT ![t] = @ \union {<<p, s>>}]
        BY <1>1, <1>2, <3>1 DEF BarsType
      <3> QED
        BY <3>1, <3>2
    <2> QED
      BY <2>1, <2>2 DEF Gets
  <1>4. /\ bars' \in BarsType /\ table' \in BarsType /\ inserted' \in BarsType
        /\ bars'[t] = bars[t] \union {<<p, s>>}
        /\ \A u \in Topic : u # t => bars'[u] = bars[u]
        /\ \A u \in Topic : inserted[u] \subseteq inserted'[u] /\ table'[u] \subseteq bars'[u]
        /\ goBacks' \in 0..MaxRestarts
        /\ s >= Reached(t) \/ <<p, s>> \in bars[t] \/ <<p, s>> \in inserted'[t]
    <2>1. bars' \in BarsType /\ table' \in BarsType /\ inserted' \in BarsType
      BY <1>1, <1>2, <1>3 DEF BarsType
    <2>2. /\ bars'[t] = bars[t] \union {<<p, s>>}
          /\ \A u \in Topic : u # t => bars'[u] = bars[u]
      BY <1>1, <1>2, <1>3 DEF BarsType
    <2>3. \A u \in Topic : inserted[u] \subseteq inserted'[u]
      BY <1>1, <1>2, <1>3 DEF BarsType
    <2>4. \A u \in Topic : table'[u] \subseteq bars'[u]
      BY <1>1, <1>2, <1>3 DEF BarsType
    <2>5. s >= Reached(t) \/ <<p, s>> \in bars[t] \/ <<p, s>> \in inserted'[t]
      BY <1>1, <1>2, <1>3 DEF BarsType
    <2> QED
      BY <1>2, <1>3, <2>1, <2>2, <2>3, <2>4, <2>5
  <1>5. /\ Reached(t)' = Max({Reached(t), s}) /\ Reached(t) <= Reached(t)' /\ s <= Reached(t)'
        /\ \A u \in Topic : u # t => Reached(u)' = Reached(u)
    <2>1. bars[t] \in SUBSET (Product \X Second)
      BY <1>1, <1>2 DEF BarsType
    <2>2. \A u \in Topic : Reached(u)' = Latest(bars'[u])
      BY DEF Reached, Latest
    <2>3. Latest(bars'[t]) = Max({Latest(bars[t]), s}) /\ Latest(bars[t]) <= Latest(bars'[t])
          /\ s <= Latest(bars'[t])
      BY <1>1, <1>4, <2>1, LatestGrows
    <2> QED
      BY <1>1, <1>4, <2>2, <2>3 DEF Reached
  <1>6. \A u \in Topic : Reached(u) <= Reached(u)'
    <2> TAKE u \in Topic
    <2>1. Reached(u) \in Int
      BY <1>2, BarsAre DEF Reached
    <2> QED
      BY <1>5, <2>1
  <1>7. ASSUME NEW u \in Topic, NEW q \in Product
        PROVE  /\ Sent(u, q) \subseteq Sent(u, q)'
               /\ Inserted(u, q) \subseteq Inserted(u, q)'
               /\ \A x \in Sent(u, q)' :
                      /\ x \in Sent(u, q) \/ (u = t /\ q = p /\ x = s)
                      /\ x \in Sent(u, q) \/ x \in Inserted(u, q)' \/ x >= Reached(u)
    <2>1. /\ Sent(u, q) = {x \in Second : <<q, x>> \in bars[u]}
          /\ Sent(u, q)' = {x \in Second : <<q, x>> \in bars'[u]}
          /\ Inserted(u, q) = {x \in Second : <<q, x>> \in inserted[u]}
          /\ Inserted(u, q)' = {x \in Second : <<q, x>> \in inserted'[u]}
      BY DEF Sent, Inserted, Of
    <2>2. \A x : <<q, x>> \in bars'[u] <=> <<q, x>> \in bars[u] \/ (u = t /\ q = p /\ x = s)
      BY <1>4
    <2> QED
      BY <1>4, <2>1, <2>2
  <1>8. s \in Sent(t, p)'
    BY <1>1, <1>4 DEF Sent, Of
  <1> QED
    BY <1>1, <1>4, <1>5, <1>6, <1>7, <1>8 DEF BarsGrow

(* How far a topic has got is a second, now and after a step.              *)
LEMMA ReachedIs ==
    ASSUME bars \in BarsType
    PROVE  /\ \A t \in Topic : /\ Reached(t) \in Time /\ Reached(t) \in Int
                               /\ Reached(t) >= Never
           /\ \A t \in Topic, p \in Product :
                  /\ Sent(t, p) \in SUBSET Second /\ Sent(t, p) \in SUBSET Nat
                  /\ IsFiniteSet(Sent(t, p)) /\ \A s \in Sent(t, p) : s <= Reached(t)
  BY BarsAre DEF Reached, Sent

LEMMA ReachedIsNext ==
    ASSUME bars' \in BarsType
    PROVE  /\ \A t \in Topic : /\ Reached(t)' \in Time /\ Reached(t)' \in Int
                               /\ Reached(t)' >= Never
           /\ \A t \in Topic, p \in Product :
                  /\ Sent(t, p)' \in SUBSET Second /\ Sent(t, p)' \in SUBSET Nat
                  /\ IsFiniteSet(Sent(t, p)') /\ \A s \in Sent(t, p)' : s <= Reached(t)'
  <1>1. /\ \A t : Reached(t)' = Latest(bars'[t])
        /\ \A t, p : Sent(t, p)' = Of(bars'[t], p)
    BY DEF Reached, Latest, Sent, Of
  <1> QED
    BY <1>1, BarsAre

-----------------------------------------------------------------------------
(* The invariant.                                                          *)

(* Nothing is consumed before it is written.                               *)
ReadsWhatIsThere ==
    /\ \A t \in Topic : hw[t] <= Reached(t) /\ began[t] <= Reached(t)
    /\ \A p \in Product : book[p] \subseteq Sent(Book, p) /\ trade[p] \subseteq Sent(Trades, p)

(* latest is what the updater wrote last, if it wrote any.                 *)
LatestKnown ==
    \A p \in Product : /\ lastAsOf[p] # Never => latest[p] = lastAsOf[p]
                       /\ restarts = 0 => latest[p] = lastAsOf[p]

Holds(buffer, seconds, start, floor) ==
    \A s \in seconds : s > start /\ s >= floor - Buffer => s \in buffer

(* The buffers of a product hold the bars back to Buffer before the latest *)
(* minute flushed.                                                         *)
Kept ==
    \A p \in Product : /\ Holds(book[p], Sent(Book, p), began[Book], flushed[p])
                       /\ Holds(trade[p], Sent(Trades, p), began[Trades], flushed[p])

(* Both topics are past the rows, and a row has the bars it should.        *)
RowFits(key, row) ==
    /\ \A t \in Topic : key[2] + Margin <= Reached(t)
    /\ RowIs(row, Sent(Book, key[1]), Sent(Trades, key[1]), key[2])
    /\ key \notin outOfTurn =>
           RowHas(row, Sent(Book, key[1]), Inserted(Book, key[1]),
                  Sent(Trades, key[1]), Inserted(Trades, key[1]), key[2], began)

RowsFit == \A key \in DOMAIN redis : RowFits(key, redis[key])

UpdaterInv ==
    /\ NothingHeldBack
    /\ ReadsWhatIsThere
    /\ LatestKnown
    /\ Kept
    /\ RowsFit

-----------------------------------------------------------------------------
(* handle, up to flush_pending.                                            *)
AfterBuffered(h) ==
    /\ h.book \in [Product -> SUBSET Second] /\ h.trade \in [Product -> SUBSET Second]
    /\ h.marks \in [Topic -> Time] /\ h.minutes \in [Product -> Minutes \union {Never}]
    /\ \A u \in Topic : h.marks[u] <= Reached(u)'
    /\ \A q \in Product :
           /\ h.book[q] \subseteq Sent(Book, q)' /\ h.trade[q] \subseteq Sent(Trades, q)'
           /\ Holds(h.book[q], Sent(Book, q)', began[Book], flushed[q])
           /\ Holds(h.trade[q], Sent(Trades, q)', began[Trades], flushed[q])

LEMMA BufferedIs ==
    ASSUME UpdaterInv, NEW t, NEW p, NEW s, Gets(t, p, s)
    PROVE  LET h == Buffered(t, p, s)
           IN  /\ h.book \in [Product -> SUBSET Second] /\ h.trade \in [Product -> SUBSET Second]
               /\ h.marks \in [Topic -> Time] /\ h.minutes \in [Product -> Minutes \union {Never}]
               /\ \A q \in Product :
                      /\ book[q] \subseteq h.book[q] /\ trade[q] \subseteq h.trade[q]
                      /\ h.book[q] \subseteq book[q] \/ (t = Book /\ q = p /\ h.book[q] = book[q] \union {s})
                      /\ h.trade[q] \subseteq trade[q] \/ (t = Trades /\ q = p /\ h.trade[q] = trade[q] \union {s})
               /\ t = Book => s \in h.book[p]
               /\ t = Trades => s \in h.trade[p]
               /\ \A u \in Topic : h.marks[u] = hw[u] \/ (u = t /\ h.marks[u] \in {hw[t], s})
  <1> DEFINE h == Buffered(t, p, s)
  <1>1. TypeOK
    BY DEF UpdaterInv, NothingHeldBack
  <1>2. t \in Topic /\ p \in Product /\ s \in Second /\ s \in Nat
    BY <1>1, GetsBar
  <1>3. /\ book \in [Product -> SUBSET Second] /\ trade \in [Product -> SUBSET Second]
        /\ hw \in [Topic -> Time] /\ pending \in [Product -> Minutes \union {Never}]
    BY <1>1 DEF TypeOK
  <1>4. /\ h.book = IF t = Book THEN [book EXCEPT ![p] = @ \union {s}] ELSE book
        /\ h.trade = IF t = Trades THEN [trade EXCEPT ![p] = @ \union {s}] ELSE trade
        /\ h.marks = [hw EXCEPT ![t] = Max({@, s})]
        /\ h.minutes = IF t = Book /\ Newer(p, AsOf(s)) THEN [pending EXCEPT ![p] = AsOf(s)] ELSE pending
    BY DEF Buffered, Book, Trades
  <1> HIDE DEF h
  <1>5. h.book \in [Product -> SUBSET Second] /\ h.trade \in [Product -> SUBSET Second]
    BY <1>2, <1>3, <1>4
  <1>6. AsOf(s) \in Minutes
    BY <1>2 DEF Minutes
  <1>7. h.minutes \in [Product -> Minutes \union {Never}]
    BY <1>2, <1>3, <1>4, <1>6
  <1>8. h.marks[t] \in {hw[t], s} /\ h.marks \in [Topic -> Time]
    <2>1. hw[t] \in Int /\ s \in Int
      BY <1>1, <1>2, TypedBars
    <2>2. Max({hw[t], s}) \in {hw[t], s}
      BY <2>1, MaxOfTwo
    <2>3. s \in Time /\ hw[t] \in Time
      BY <1>2, <1>3 DEF Time
    <2>4. Max({hw[t], s}) \in Time
      BY <2>2, <2>3
    <2> QED
      BY <1>2, <1>3, <1>4, <2>2, <2>4
  <1>9. \A u \in Topic : u # t => h.marks[u] = hw[u]
    BY <1>3, <1>4
  <1>10. \A q \in Product :
          /\ book[q] \subseteq h.book[q] /\ trade[q] \subseteq h.trade[q]
          /\ h.book[q] \subseteq book[q] \/ (t = Book /\ q = p /\ h.book[q] = book[q] \union {s})
          /\ h.trade[q] \subseteq trade[q] \/ (t = Trades /\ q = p /\ h.trade[q] = trade[q] \union {s})
    BY <1>2, <1>3, <1>4
  <1>11. /\ t = Book => s \in h.book[p]
         /\ t = Trades => s \in h.trade[p]
    BY <1>2, <1>3, <1>4
  <1> QED
    BY <1>5, <1>7, <1>8, <1>9, <1>10, <1>11 DEF h

LEMMA BufferedKeeps ==
    ASSUME UpdaterInv, NEW t, NEW p, NEW s, Gets(t, p, s)
    PROVE  AfterBuffered(Buffered(t, p, s))
  <1> DEFINE h == Buffered(t, p, s)
  <1>1. TypeOK /\ bars \in BarsType /\ ReadsWhatIsThere /\ Kept
    BY TypedBars DEF UpdaterInv, NothingHeldBack
  <1>2. /\ h.book \in [Product -> SUBSET Second] /\ h.trade \in [Product -> SUBSET Second]
        /\ h.marks \in [Topic -> Time] /\ h.minutes \in [Product -> Minutes \union {Never}]
        /\ \A q \in Product :
               /\ book[q] \subseteq h.book[q] /\ trade[q] \subseteq h.trade[q]
               /\ h.book[q] \subseteq book[q] \/ (t = Book /\ q = p /\ h.book[q] = book[q] \union {s})
               /\ h.trade[q] \subseteq trade[q] \/ (t = Trades /\ q = p /\ h.trade[q] = trade[q] \union {s})
        /\ t = Book => s \in h.book[p]
        /\ t = Trades => s \in h.trade[p]
        /\ \A u \in Topic : h.marks[u] = hw[u] \/ (u = t /\ h.marks[u] \in {hw[t], s})
    BY BufferedIs
  <1> HIDE DEF h
  <1>3. /\ t \in Topic /\ p \in Product /\ s \in Second /\ s \in Nat
        /\ bars' \in BarsType
        /\ s <= Reached(t)'
        /\ \A u \in Topic : Reached(u) <= Reached(u)'
        /\ \A u \in Topic, q \in Product :
               /\ Sent(u, q) \subseteq Sent(u, q)'
               /\ \A x \in Sent(u, q)' : x \in Sent(u, q) \/ (u = t /\ q = p /\ x = s)
        /\ s \in Sent(t, p)'
    BY <1>1, GetsBar DEF BarsGrow
  <1>4. \A u \in Topic : Reached(u) \in Int /\ Reached(u)' \in Int
    BY <1>1, <1>3, ReachedIs, ReachedIsNext
  <1>5. Book \in Topic /\ Trades \in Topic
    BY DEF Book, Trades, Topic
  <1>6. \A u \in Topic : h.marks[u] <= Reached(u)'
    <2> TAKE u \in Topic
    <2>1. hw[u] <= Reached(u) /\ hw[u] \in Int
      BY <1>1, TypedBars DEF ReadsWhatIsThere
    <2>2. hw[u] <= Reached(u)'
      BY <1>3, <1>4, <2>1
    <2> QED
      BY <1>2, <1>3, <2>2
  <1>7. ASSUME NEW q \in Product
        PROVE  /\ h.book[q] \subseteq Sent(Book, q)' /\ h.trade[q] \subseteq Sent(Trades, q)'
               /\ Holds(h.book[q], Sent(Book, q)', began[Book], flushed[q])
               /\ Holds(h.trade[q], Sent(Trades, q)', began[Trades], flushed[q])
    <2>1. book[q] \subseteq Sent(Book, q)' /\ trade[q] \subseteq Sent(Trades, q)'
      BY <1>1, <1>3, <1>5 DEF ReadsWhatIsThere
    <2>2. h.book[q] \subseteq Sent(Book, q)' /\ h.trade[q] \subseteq Sent(Trades, q)'
      BY <1>2, <1>3, <2>1
    <2>3. ASSUME NEW x \in Sent(Book, q)', x > began[Book], x >= flushed[q] - Buffer
          PROVE  x \in h.book[q]
      <3>1. CASE x \in Sent(Book, q)
        <4>1. x \in book[q]
          BY <1>1, <2>3, <3>1 DEF Kept, Holds
        <4> QED
          BY <1>2, <4>1
      <3>2. CASE t = Book /\ q = p /\ x = s
        BY <1>2, <3>2
      <3> QED
        BY <1>3, <1>5, <3>1, <3>2
    <2>4. ASSUME NEW x \in Sent(Trades, q)', x > began[Trades], x >= flushed[q] - Buffer
          PROVE  x \in h.trade[q]
      <3>1. CASE x \in Sent(Trades, q)
        <4>1. x \in trade[q]
          BY <1>1, <2>4, <3>1 DEF Kept, Holds
        <4> QED
          BY <1>2, <4>1
      <3>2. CASE t = Trades /\ q = p /\ x = s
        BY <1>2, <3>2
      <3> QED
        BY <1>3, <1>5, <3>1, <3>2
    <2> QED
      BY <2>2, <2>3, <2>4 DEF Holds
  <1>8. AfterBuffered(h)
    BY <1>2, <1>6, <1>7 DEF AfterBuffered
  <1> QED
    BY <1>8 DEF h

-----------------------------------------------------------------------------
(* The two writes of emit.                                                 *)

(* The rows that are there keep having what they should.                   *)
LEMMA RowsStay ==
    ASSUME UpdaterInv, BarsGrow,
           began' \in [Topic -> Time], \A u \in Topic : began[u] <= began'[u],
           NEW key \in DOMAIN redis, key \notin outOfTurn' => key \notin outOfTurn,
           NEW row, row = redis[key]
    PROVE  RowFits(key, row)'
  <1>1. TypeOK /\ bars \in BarsType /\ bars' \in BarsType /\ RowsFit
    BY TypedBars DEF UpdaterInv, NothingHeldBack, BarsGrow
  <1> DEFINE p == key[1]
             m == key[2]
             bk == Sent(Book, p)
             bkN == Sent(Book, p)'
             tr == Sent(Trades, p)
             trN == Sent(Trades, p)'
             late == Inserted(Book, p)
             lateN == Inserted(Book, p)'
             lateTr == Inserted(Trades, p)
             lateTrN == Inserted(Trades, p)'
  <1>2. p \in Product /\ m \in Nat
    BY <1>1, TypedBars DEF TypeOK
  <1>3. /\ \A u \in Topic : m + Margin <= Reached(u)
        /\ RowIs(row, bk, tr, m)
        /\ key \notin outOfTurn => RowHas(row, bk, late, tr, lateTr, m, began)
    BY <1>1 DEF RowsFit, RowFits
  <1>4. \A u \in Topic : Reached(u) \in Int /\ Reached(u)' \in Int /\ Reached(u) <= Reached(u)'
    BY <1>1, ReachedIs, ReachedIsNext DEF BarsGrow
  <1>5. Book \in Topic /\ Trades \in Topic
    BY DEF Book, Trades, Topic
  <1>6. /\ bkN \in SUBSET Nat /\ trN \in SUBSET Nat /\ bk \subseteq bkN /\ tr \subseteq trN
        /\ late \subseteq lateN /\ lateTr \subseteq lateTrN
        /\ \A x \in bkN : x \in bk \/ x \in lateN \/ x >= Reached(Book)
        /\ \A x \in trN : x \in tr \/ x \in lateTrN \/ x >= Reached(Trades)
    BY <1>1, <1>2, <1>5, ReachedIsNext DEF BarsGrow
  <1>7. began \in [Topic -> Int] /\ began' \in [Topic -> Int]
    <2>1. began \in [Topic -> Time] /\ Time \subseteq Int
      BY <1>1, TypedBars DEF TypeOK
    <2> QED
      BY <2>1
  <1> HIDE DEF p, m, bk, bkN, tr, trN, late, lateN, lateTr, lateTrN
  <1>8. \A u \in Topic : m + Margin <= Reached(u)'
    BY <1>2, <1>3, <1>4, Lengths
  <1>9. RowIs(row, bkN, trN, m)
    BY <1>3, <1>6 DEF RowIs
  <1>10. /\ \A x \in bkN : x \in bk \/ x \in lateN \/ x > m
         /\ \A x \in trN : x \in tr \/ x \in lateTrN \/ x > m
    <2>1. m < Reached(Book) /\ m < Reached(Trades)
      BY <1>2, <1>3, <1>4, <1>5, Lengths
    <2>2. /\ \A x \in bkN : x \in Nat
          /\ \A x \in trN : x \in Nat
      BY <1>6
    <2> QED
      BY <1>2, <1>4, <1>5, <1>6, <2>1, <2>2
  <1>11. ASSUME key \notin outOfTurn'
         PROVE  RowHas(row, bkN, lateN, trN, lateTrN, m, began')
    <2> DEFINE later == began'
    <2>1. RowHas(row, bk, late, tr, lateTr, m, began)
      BY <1>3, <1>11
    <2>2. later \in [Topic -> Int] /\ \A u \in Topic : began[u] <= later[u]
      BY <1>7
    <2> HIDE DEF later
    <2>3. RowHas(row, bkN, lateN, trN, lateTrN, m, later)
      BY <1>2, <1>6, <1>7, <1>10, <2>1, <2>2, RowStays
    <2> QED
      BY <2>3 DEF later
  <1> QED
    BY <1>8, <1>9, <1>11 DEF RowFits, p, m, bkN, trN, lateN, lateTrN

(* A product whose waiting minute can be written.                          *)
Ready(h, q) ==
    h.minutes[q] # Never /\ BothStreamsPast(h.marks, h.minutes[q]) /\ ~ NoRow(Computed(h, q))

LEMMA NewRowFits ==
    ASSUME UpdaterInv, BarsGrow, NEW h, AfterBuffered(h),
           NEW q \in Product, Ready(h, q), NEW m, m = h.minutes[q],
           NEW row, row = Computed(h, q)
    PROVE  /\ m \in Minutes /\ row \in Row
           /\ \A u \in Topic : m + Margin <= Reached(u)'
           /\ RowIs(row, Sent(Book, q)', Sent(Trades, q)', m)
           /\ m >= flushed[q] - Minute =>
                  RowHas(row, Sent(Book, q)', Inserted(Book, q)',
                         Sent(Trades, q)', Inserted(Trades, q)', m, began)
  <1>1. TypeOK /\ bars' \in BarsType /\ Book \in Topic /\ Trades \in Topic
    BY TypedBars DEF UpdaterInv, NothingHeldBack, BarsGrow
  <1>2. m \in Minutes /\ m \in Nat
    BY <1>1, TypedBars DEF Ready, AfterBuffered
  <1> DEFINE bk == h.book[q]
             tr == h.trade[q]
             bkN == Sent(Book, q)'
             trN == Sent(Trades, q)'
             late == Inserted(Book, q)'
             lateTr == Inserted(Trades, q)'
             floor == flushed[q]
  <1>3. /\ bk \in SUBSET Second /\ tr \in SUBSET Second
        /\ bk \subseteq bkN /\ tr \subseteq trN
        /\ Holds(bk, bkN, began[Book], floor)
        /\ Holds(tr, trN, began[Trades], floor)
    BY DEF AfterBuffered
  <1>4. bkN \in SUBSET Nat /\ trN \in SUBSET Nat /\ floor \in Int
    BY <1>1, ReachedIsNext, TypedBars
  <1>5. row = Features(bk, tr, m) /\ row.recent # {}
    BY DEF Computed, Ready, NoRow
  <1>6. \A u \in Topic : m + Margin <= Reached(u)'
    <2> TAKE u \in Topic
    <2>1. h.marks[u] >= m + Margin /\ h.marks[u] <= Reached(u)' /\ h.marks[u] \in Time
      BY DEF Ready, BothStreamsPast, AfterBuffered
    <2>2. h.marks[u] \in Int /\ Reached(u)' \in Int
      BY <1>1, <2>1, TypedBars, ReachedIsNext
    <2> QED
      BY <1>2, <2>1, <2>2, Lengths
  <1>7. began \in [Topic -> Int]
    <2>1. began \in [Topic -> Time] /\ Time \subseteq Int
      BY <1>1, TypedBars DEF TypeOK
    <2> QED
      BY <2>1
  <1> HIDE DEF bk, tr, bkN, trN, late, lateTr, floor
  <1>8. IsFiniteSet(bk)
    BY <1>3, SecondsTyped, FS_Subset
  <1>9. RowIs(row, bkN, trN, m)
    BY <1>2, <1>3, <1>4, <1>5, <1>8, FeaturesAre
  <1>10. ASSUME m >= floor - Minute PROVE RowHas(row, bkN, late, trN, lateTr, m, began)
    <2>1. floor <= m + Minute
      BY <1>2, <1>4, <1>10, Lengths
    <2>2. /\ \A s \in bkN : s > began[Book] /\ s >= floor - Buffer => s \in bk
          /\ \A s \in trN : s > began[Trades] /\ s >= floor - Buffer => s \in tr
      BY <1>3 DEF Holds
    <2> QED
      BY <1>2, <1>3, <1>4, <1>5, <1>7, <1>8, <2>1, <2>2, FeaturesHave
  <1>11. row \in Row
    <2> DEFINE before == {s \in bk : s <= m - Long}
    <2>1. /\ row = [book |-> Within(bk, m, Long),
                    base |-> IF before = {} THEN Never ELSE Max(before),
                    recent |-> Within(bk, m, Short),
                    trades |-> Within(tr, m, Short)]
      BY <1>5 DEF Features
    <2>2. Within(bk, m, Long) \in SUBSET Second /\ Within(bk, m, Short) \in SUBSET Second
          /\ Within(tr, m, Short) \in SUBSET Second
      BY <1>3 DEF Within
    <2>3. before \in SUBSET Second /\ before \in SUBSET Nat /\ IsFiniteSet(before)
      BY <1>3, SecondsTyped, FS_Subset
    <2> HIDE DEF before
    <2>4. (IF before = {} THEN Never ELSE Max(before)) \in Time
      <3>1. CASE before = {}
        BY <3>1 DEF Time
      <3>2. CASE before # {}
        <4>1. before \in SUBSET Int
          BY <2>3
        <4>2. Max(before) \in before
          BY <2>3, <3>2, <4>1, FiniteMaxProperty
        <4> QED
          BY <2>3, <3>2, <4>2 DEF Time
      <3> QED
        BY <3>1, <3>2
    <2> QED
      BY <2>1, <2>2, <2>4 DEF Row
  <1> QED
    BY <1>2, <1>6, <1>9, <1>10, <1>11 DEF bkN, trN, late, lateTr, floor

LEMMA WritesFit ==
    ASSUME UpdaterInv, BarsGrow, NEW h, AfterBuffered(h),
           began' \in [Topic -> Time], \A u \in Topic : began[u] <= began'[u],
           NEW newest \in SUBSET Product, NEW keyed \in SUBSET Product,
           \A q \in newest \union keyed : Ready(h, q),
           WriteRows(h, newest, keyed)
    PROVE  /\ RowsFit'
           /\ DOMAIN redis' \subseteq Product \X Minutes
           /\ \A key \in DOMAIN redis' : redis'[key] \in Row
           /\ outOfTurn' \subseteq DOMAIN redis'
           /\ latest' \in [Product -> Minutes \union {Never}]
           /\ \A q \in Product : latest'[q] = IF q \in newest THEN h.minutes[q] ELSE latest[q]
  <1>1. TypeOK /\ bars' \in BarsType
    BY DEF UpdaterInv, NothingHeldBack, BarsGrow
  <1>2. began \in [Topic -> Int] /\ began' \in [Topic -> Int]
    <2>1. began \in [Topic -> Time] /\ Time \subseteq Int
      BY <1>1, TypedBars DEF TypeOK
    <2> QED
      BY <2>1
  <1> DEFINE keys == {<<q, h.minutes[q]>> : q \in keyed}
             late == {key \in keys : key[2] < flushed[key[1]] - Minute}
  <1>3. /\ DOMAIN redis' = DOMAIN redis \union keys
        /\ \A key \in DOMAIN redis' :
               redis'[key] = IF key \in keys THEN Computed(h, key[1]) ELSE redis[key]
        /\ outOfTurn' = (outOfTurn \ keys) \union late
        /\ latest' = [q \in Product |-> IF q \in newest THEN h.minutes[q] ELSE latest[q]]
    BY DEF WriteRows
  <1>4. ASSUME NEW key \in keys, NEW row, row = Computed(h, key[1])
        PROVE  key \in Product \X Minutes /\ row \in Row /\ RowFits(key, row)'
    <2>1. PICK q \in keyed : key = <<q, h.minutes[q]>>
      BY <1>4
    <2> DEFINE m == key[2]
               bkN == Sent(Book, q)'
               trN == Sent(Trades, q)'
               lateN == Inserted(Book, q)'
               lateTrN == Inserted(Trades, q)'
               later == began'
    <2>2. q \in Product /\ Ready(h, q) /\ m = h.minutes[q] /\ key[1] = q
      BY <2>1
    <2>3. key \in keys /\ (key \notin outOfTurn' => ~ (m < flushed[q] - Minute))
      BY <1>3, <1>4, <2>2
    <2> HIDE DEF m, keys, late
    <2>4. /\ m \in Minutes /\ row \in Row
          /\ \A u \in Topic : m + Margin <= Reached(u)'
          /\ RowIs(row, bkN, trN, m)
          /\ m >= flushed[q] - Minute => RowHas(row, bkN, lateN, trN, lateTrN, m, began)
      BY <1>4, <2>2, NewRowFits
    <2>5. m \in Nat /\ flushed[q] \in Int
      BY <1>1, <2>2, <2>4, TypedBars
    <2>6. bkN \in SUBSET Nat /\ trN \in SUBSET Nat
      BY <1>1, <2>2, ReachedIsNext, TypedBars
    <2>7. later \in [Topic -> Int] /\ \A u \in Topic : began[u] <= later[u]
      BY <1>2
    <2> HIDE DEF bkN, trN, lateN, lateTrN, later
    <2>8. ASSUME key \notin outOfTurn'
          PROVE  RowHas(row, bkN, lateN, trN, lateTrN, m, later)
      <3>1. RowHas(row, bkN, lateN, trN, lateTrN, m, began)
        BY <2>3, <2>4, <2>5, <2>8, Lengths
      <3> QED
        BY <1>2, <2>5, <2>6, <2>7, <3>1, RowStays
    <2>9. RowFits(key, row)'
      BY <2>2, <2>4, <2>8 DEF RowFits, m, bkN, trN, lateN, lateTrN, later
    <2>10. key \in Product \X Minutes
      BY <2>1, <2>2, <2>4 DEF m
    <2> QED
      BY <2>4, <2>9, <2>10
  <1>5. RowsFit'
    <2> SUFFICES ASSUME NEW key \in DOMAIN redis', NEW row, row = redis'[key]
                 PROVE  RowFits(key, row)'
      BY DEF RowsFit, RowFits
    <2>1. CASE key \in keys
      BY <1>3, <1>4, <2>1
    <2>2. CASE key \notin keys
      <3>1. key \in DOMAIN redis /\ row = redis[key] /\ (key \notin outOfTurn' => key \notin outOfTurn)
        BY <1>3, <2>2
      <3> QED
        BY <3>1, RowsStay
    <2> QED
      BY <2>1, <2>2
  <1>6. DOMAIN redis' \subseteq Product \X Minutes
    BY <1>1, <1>3, <1>4 DEF TypeOK
  <1>7. \A key \in DOMAIN redis' : redis'[key] \in Row
    BY <1>1, <1>3, <1>4 DEF TypeOK
  <1>8. outOfTurn' \subseteq DOMAIN redis'
    BY <1>1, <1>3 DEF TypeOK
  <1>9. latest' \in [Product -> Minutes \union {Never}]
    <2>1. h.minutes \in [Product -> Minutes \union {Never}]
      BY DEF AfterBuffered
    <2>2. latest \in [Product -> Minutes \union {Never}]
      BY <1>1 DEF TypeOK
    <2> QED
      BY <1>3, <2>1, <2>2
  <1> QED
    BY <1>3, <1>5, <1>6, <1>7, <1>8, <1>9

-----------------------------------------------------------------------------
(* The steps.                                                              *)

(* handle: a bar that is new or comes again.                               *)
LEMMA HandleKeeps ==
    ASSUME UpdaterInv, NEW t, NEW p, NEW s, Gets(t, p, s), Handle(t, p, s),
           UNCHANGED <<restarts, began>>
    PROVE  UpdaterInv'
  <1>1. TypeOK /\ ReadsWhatIsThere /\ LatestKnown
    BY DEF UpdaterInv, NothingHeldBack
  <1> DEFINE h == Buffered(t, p, s)
             due == Due(t, h.minutes, h.marks)
  <1>2. BarsGrow /\ bars \in BarsType /\ bars' \in BarsType
    BY <1>1, GetsBar, TypedBars DEF BarsGrow
  <1>3. AfterBuffered(h)
    BY BufferedKeeps
  <1>4. PICK idle \in SUBSET due :
          LET emitted == Emittable(h, due, idle)
          IN  /\ Become([book |-> Pruned(h.book, h, due),
                         trade |-> Pruned(h.trade, h, due),
                         hw |-> h.marks,
                         pending |-> [q \in Product |-> IF q \in due THEN Never ELSE h.minutes[q]],
                         lastAsOf |-> [q \in Product |-> IF q \in emitted THEN h.minutes[q]
                                                         ELSE lastAsOf[q]]])
              /\ WriteRows(h, emitted, emitted)
              /\ flushed' = [q \in Product |-> IF q \in due THEN Max({flushed[q], h.minutes[q]})
                                               ELSE flushed[q]]
    BY DEF Handle
  <1> DEFINE emitted == Emittable(h, due, idle)
  <1>5. /\ book' = Pruned(h.book, h, due) /\ trade' = Pruned(h.trade, h, due)
        /\ hw' = h.marks
        /\ pending' = [q \in Product |-> IF q \in due THEN Never ELSE h.minutes[q]]
        /\ lastAsOf' = [q \in Product |-> IF q \in emitted THEN h.minutes[q] ELSE lastAsOf[q]]
        /\ WriteRows(h, emitted, emitted)
        /\ flushed' = [q \in Product |-> IF q \in due THEN Max({flushed[q], h.minutes[q]})
                                         ELSE flushed[q]]
    BY <1>4 DEF Become
  <1>6. /\ due \subseteq Product
        /\ \A q \in Product : q \in due <=> h.minutes[q] # Never
                                             /\ BothStreamsPast(h.marks, h.minutes[q])
        /\ emitted \subseteq due
        /\ \A q \in emitted : Newer(q, h.minutes[q]) /\ ~ NoRow(Computed(h, q))
    BY DEF Due, Emittable
  <1>7. /\ book' = [q \in Product |-> IF q \in due
                                      THEN {x \in h.book[q] : x >= h.minutes[q] - Buffer}
                                      ELSE h.book[q]]
        /\ trade' = [q \in Product |-> IF q \in due
                                       THEN {x \in h.trade[q] : x >= h.minutes[q] - Buffer}
                                       ELSE h.trade[q]]
    BY <1>5 DEF Pruned, Cutoff
  <1> HIDE DEF h, due, emitted
  <1>8. began' = began /\ restarts' = restarts /\ began \in [Topic -> Time]
    BY <1>1 DEF TypeOK
  <1>9. /\ RowsFit'
        /\ DOMAIN redis' \subseteq Product \X Minutes
        /\ \A key \in DOMAIN redis' : redis'[key] \in Row
        /\ outOfTurn' \subseteq DOMAIN redis'
        /\ latest' \in [Product -> Minutes \union {Never}]
        /\ \A q \in Product : latest'[q] = IF q \in emitted THEN h.minutes[q] ELSE latest[q]
    <2>1. \A q \in emitted \union emitted : Ready(h, q)
      BY <1>6 DEF Ready
    <2>2. \A u \in Topic : began[u] <= began'[u]
      <3>1. \A u \in Topic : began[u] \in Int
        BY <1>1, TypedBars
      <3> QED
        BY <1>8, <3>1
    <2>3. emitted \in SUBSET Product /\ began' \in [Topic -> Time]
      BY <1>6, <1>8
    <2> QED
      BY <1>2, <1>3, <1>5, <2>1, <2>2, <2>3, WritesFit
  <1>10. /\ h.book \in [Product -> SUBSET Second] /\ h.trade \in [Product -> SUBSET Second]
         /\ h.marks \in [Topic -> Time] /\ h.minutes \in [Product -> Minutes \union {Never}]
         /\ \A u \in Topic : h.marks[u] <= Reached(u)'
         /\ \A q \in Product :
                /\ h.book[q] \subseteq Sent(Book, q)' /\ h.trade[q] \subseteq Sent(Trades, q)'
                /\ Holds(h.book[q], Sent(Book, q)', began[Book], flushed[q])
                /\ Holds(h.trade[q], Sent(Trades, q)', began[Trades], flushed[q])
    BY <1>3 DEF AfterBuffered
  <1>11. ASSUME NEW q \in Product
         PROVE  /\ q \notin due => flushed'[q] = flushed[q]
                /\ q \in due => /\ h.minutes[q] \in Minutes /\ h.minutes[q] \in Int
                                /\ flushed'[q] \in {flushed[q], h.minutes[q]}
                                /\ flushed'[q] >= flushed[q] /\ flushed'[q] >= h.minutes[q]
    <2>1. q \notin due => flushed'[q] = flushed[q]
      BY <1>5
    <2>2. ASSUME q \in due
          PROVE  /\ h.minutes[q] \in Minutes /\ h.minutes[q] \in Int
                 /\ flushed'[q] \in {flushed[q], h.minutes[q]}
                 /\ flushed'[q] >= flushed[q] /\ flushed'[q] >= h.minutes[q]
      <3> DEFINE a == flushed[q]
                 b == h.minutes[q]
      <3>1. b \in Minutes
        BY <1>6, <1>10, <2>2
      <3>2. a \in Int /\ b \in Int
        BY <1>1, <3>1, TypedBars
      <3>3. flushed'[q] = Max({a, b})
        BY <1>5, <2>2
      <3> HIDE DEF a, b
      <3>4. Max({a, b}) \in {a, b} /\ Max({a, b}) >= a /\ Max({a, b}) >= b
        BY <3>2, MaxOfTwo
      <3> QED
        BY <3>1, <3>2, <3>3, <3>4 DEF a, b
    <2> QED
      BY <2>1, <2>2
  <1>12. TypeOK'
    <2>1. /\ bars' \in [Topic -> SUBSET (Product \X Second)]
          /\ table' \in [Topic -> SUBSET (Product \X Second)]
          /\ inserted' \in [Topic -> SUBSET (Product \X Second)]
          /\ \A u \in Topic : table'[u] \subseteq bars'[u]
          /\ goBacks' \in 0..MaxRestarts
      BY <1>2 DEF BarsGrow, BarsType
    <2>2. book' \in [Product -> SUBSET Second] /\ trade' \in [Product -> SUBSET Second]
      BY <1>7, <1>10
    <2>3. hw' \in [Topic -> Time]
      BY <1>5, <1>10
    <2>4. pending' \in [Product -> Minutes \union {Never}]
      BY <1>5, <1>10
    <2>5. lastAsOf' \in [Product -> Minutes \union {Never}]
      <3>1. lastAsOf \in [Product -> Minutes \union {Never}]
        BY <1>1 DEF TypeOK
      <3> QED
        BY <1>5, <1>10, <3>1
    <2>6. restarts' \in 0..MaxRestarts /\ began' \in [Topic -> Time]
      BY <1>1, <1>8 DEF TypeOK
    <2>7. flushed' \in [Product -> Minutes \union {Never}]
      <3>1. flushed \in [Product -> Minutes \union {Never}]
        BY <1>1 DEF TypeOK
      <3>2. \A q \in Product : flushed'[q] \in Minutes \union {Never}
        BY <1>11, <3>1
      <3>3. flushed' = [q \in Product |-> flushed'[q]]
        BY <1>5
      <3> QED
        BY <3>2, <3>3
    <2> QED
      BY <1>9, <2>1, <2>2, <2>3, <2>4, <2>5, <2>6, <2>7 DEF TypeOK
  <1>13. NothingHeldBack'
    <2>1. ASSUME NEW q \in Product, pending'[q] # Never
          PROVE  ~ BothStreamsPast(hw, pending[q])'
      <3>1. q \notin due /\ pending'[q] = h.minutes[q]
        BY <1>5, <2>1
      <3>2. ~ BothStreamsPast(h.marks, h.minutes[q])
        BY <1>6, <2>1, <3>1
      <3>3. ~ BothStreamsPast(hw', pending'[q])
        BY <1>5, <3>1, <3>2
      <3> QED
        BY <3>3 DEF BothStreamsPast
    <2> QED
      BY <1>12, <2>1 DEF NothingHeldBack
  <1>14. ReadsWhatIsThere'
    <2>1. ASSUME NEW u \in Topic PROVE hw'[u] <= Reached(u)' /\ began'[u] <= Reached(u)'
      <3>1. began[u] <= Reached(u) /\ Reached(u) <= Reached(u)'
        BY <1>1, <1>2 DEF ReadsWhatIsThere, BarsGrow
      <3>2. began[u] \in Int /\ Reached(u) \in Int /\ Reached(u)' \in Int
        BY <1>1, <1>2, TypedBars, ReachedIs, ReachedIsNext
      <3>3. began[u] <= Reached(u)'
        BY <3>1, <3>2
      <3> QED
        BY <1>5, <1>8, <1>10, <3>3
    <2>2. ASSUME NEW q \in Product
          PROVE  book'[q] \subseteq Sent(Book, q)' /\ trade'[q] \subseteq Sent(Trades, q)'
      <3>1. book'[q] \subseteq h.book[q] /\ trade'[q] \subseteq h.trade[q]
        BY <1>7
      <3> QED
        BY <1>10, <3>1
    <2> QED
      BY <2>1, <2>2 DEF ReadsWhatIsThere
  <1>15. LatestKnown'
    BY <1>1, <1>5, <1>8, <1>9 DEF LatestKnown
  <1>16. Kept'
    <2>1. ASSUME NEW q \in Product
          PROVE  /\ Holds(book'[q], Sent(Book, q)', began'[Book], flushed'[q])
                 /\ Holds(trade'[q], Sent(Trades, q)', began'[Trades], flushed'[q])
      <3>1. CASE q \notin due
        <4>1. book'[q] = h.book[q] /\ trade'[q] = h.trade[q] /\ flushed'[q] = flushed[q]
          BY <1>7, <1>11, <3>1
        <4> QED
          BY <1>8, <1>10, <4>1
      <3>2. CASE q \in due
        <4> DEFINE m == h.minutes[q]
                   low == flushed[q]
                   high == flushed'[q]
        <4>1. /\ book'[q] = {x \in h.book[q] : x >= m - Buffer}
              /\ trade'[q] = {x \in h.trade[q] : x >= m - Buffer}
          BY <1>7, <3>2
        <4>2. low \in Int /\ m \in Int /\ high \in Int /\ high >= low /\ high >= m
          BY <1>1, <1>11, <3>2, TypedBars
        <4>3. /\ Holds(h.book[q], Sent(Book, q)', began[Book], low)
              /\ Holds(h.trade[q], Sent(Trades, q)', began[Trades], low)
          BY <1>10
        <4> HIDE DEF m, low, high
        <4>4. /\ \A x \in Sent(Book, q)' : x \in Nat
              /\ \A x \in Sent(Trades, q)' : x \in Nat
          BY <1>1, <1>2, TypedBars, ReachedIsNext
        <4>5. \A x \in Nat : x >= high - Buffer => x >= low - Buffer /\ x >= m - Buffer
          BY <4>2, Lengths
        <4>6. Holds(book'[q], Sent(Book, q)', began'[Book], high)
          BY <1>8, <4>1, <4>3, <4>4, <4>5 DEF Holds
        <4>7. Holds(trade'[q], Sent(Trades, q)', began'[Trades], high)
          BY <1>8, <4>1, <4>3, <4>4, <4>5 DEF Holds
        <4> QED
          BY <4>6, <4>7 DEF high
      <3> QED
        BY <3>1, <3>2
    <2> QED
      BY <2>1 DEF Kept, Holds
  <1> QED
    BY <1>9, <1>13, <1>14, <1>15, <1>16 DEF UpdaterInv

(* A new process: nothing is buffered and all there is was before it.      *)
LEMMA StartOverKeeps ==
    ASSUME UpdaterInv, BarsGrow, StartOver,
           began' \in [Topic -> Time], \A u \in Topic : began'[u] = Reached(u)',
           RowsFit', DOMAIN redis' \subseteq Product \X Minutes,
           \A key \in DOMAIN redis' : redis'[key] \in Row,
           outOfTurn' \subseteq DOMAIN redis',
           latest' \in [Product -> Minutes \union {Never}]
    PROVE  UpdaterInv'
  <1>1. TypeOK /\ bars' \in BarsType /\ Book \in Topic /\ Trades \in Topic
    BY TypedBars DEF UpdaterInv, NothingHeldBack, BarsGrow
  <1>2. /\ book' = [p \in Product |-> {}] /\ trade' = [p \in Product |-> {}]
        /\ hw' = [t \in Topic |-> Never]
        /\ pending' = [p \in Product |-> Never] /\ lastAsOf' = [p \in Product |-> Never]
        /\ flushed' = [p \in Product |-> Never]
    BY DEF StartOver, Become, NewUpdater
  <1>3. restarts' \in 0..MaxRestarts /\ restarts' # 0
    BY <1>1, Lengths DEF StartOver, TypeOK
  <1>4. TypeOK'
    <2>1. /\ bars' \in [Topic -> SUBSET (Product \X Second)]
          /\ table' \in [Topic -> SUBSET (Product \X Second)]
          /\ inserted' \in [Topic -> SUBSET (Product \X Second)]
          /\ \A u \in Topic : table'[u] \subseteq bars'[u]
          /\ goBacks' \in 0..MaxRestarts
      BY DEF BarsGrow, BarsType
    <2>2. book' \in [Product -> SUBSET Second] /\ trade' \in [Product -> SUBSET Second]
      BY <1>2
    <2>3. hw' \in [Topic -> Time]
      BY <1>2 DEF Time
    <2>4. /\ pending' \in [Product -> Minutes \union {Never}]
          /\ lastAsOf' \in [Product -> Minutes \union {Never}]
          /\ flushed' \in [Product -> Minutes \union {Never}]
      BY <1>2
    <2> QED
      BY <1>3, <2>1, <2>2, <2>3, <2>4 DEF TypeOK
  <1>5. NothingHeldBack'
    BY <1>2, <1>4 DEF NothingHeldBack
  <1>6. \A u \in Topic : Reached(u)' \in Int /\ Reached(u)' >= Never
    BY <1>1, ReachedIsNext
  <1>7. ReadsWhatIsThere'
    <2>1. \A u \in Topic : hw'[u] <= Reached(u)' /\ began'[u] <= Reached(u)'
      BY <1>2, <1>6
    <2> QED
      BY <1>2, <2>1 DEF ReadsWhatIsThere
  <1>8. LatestKnown'
    BY <1>2, <1>3 DEF LatestKnown
  <1>9. Kept'
    <2>1. ASSUME NEW u \in Topic, NEW q \in Product, NEW x \in Sent(u, q)'
          PROVE  ~ (x > began'[u])
      <3>1. x <= Reached(u)' /\ x \in Nat
        BY <1>1, ReachedIsNext
      <3> QED
        BY <1>6, <3>1
    <2>2. ASSUME NEW q \in Product
          PROVE  /\ Holds(book'[q], Sent(Book, q)', began'[Book], flushed'[q])
                 /\ Holds(trade'[q], Sent(Trades, q)', began'[Trades], flushed'[q])
      BY <1>1, <2>1 DEF Holds
    <2> QED
      BY <2>2 DEF Kept, Holds
  <1> QED
    BY <1>5, <1>7, <1>8, <1>9 DEF UpdaterInv

(* Nothing happens to the bars consumed.                                   *)
LEMMA BarsAsBefore ==
    ASSUME TypeOK, UNCHANGED jobVars
    PROVE  BarsGrow /\ \A u \in Topic : Reached(u)' = Reached(u)
  <1>1. bars' = bars /\ table' = table /\ goBacks' = goBacks /\ inserted' = inserted
    BY DEF jobVars
  <1>2. /\ \A t \in Topic : Reached(t)' = Reached(t)
        /\ \A t \in Topic, p \in Product : Sent(t, p)' = Sent(t, p)
        /\ \A t \in Topic, p \in Product : Inserted(t, p)' = Inserted(t, p)
    BY <1>1 DEF Reached, Sent, Inserted
  <1>3. \A t \in Topic : Reached(t) \in Int
    BY TypedBars, ReachedIs
  <1>4. \A t \in Topic : table[t] \subseteq bars[t] /\ goBacks \in 0..MaxRestarts
    BY DEF TypeOK
  <1>5. goBacks' \in 0..MaxRestarts
    BY <1>1 DEF TypeOK
  <1> QED
    BY <1>1, <1>2, <1>3, <1>4, <1>5, TypedBars DEF BarsGrow

LEMMA RestartKeeps ==
    ASSUME UpdaterInv, Restart
    PROVE  UpdaterInv'
  <1>1. TypeOK /\ bars \in BarsType /\ ReadsWhatIsThere
    BY TypedBars DEF UpdaterInv, NothingHeldBack
  <1>2. /\ UNCHANGED jobVars /\ redis' = redis /\ latest' = latest /\ outOfTurn' = outOfTurn
        /\ began' = [t \in Topic |-> Reached(t)] /\ StartOver
    BY DEF Restart, redisVars
  <1>3. BarsGrow /\ \A t \in Topic : Reached(t)' = Reached(t)
    BY <1>1, <1>2, BarsAsBefore
  <1>4. /\ began' \in [Topic -> Time] /\ \A u \in Topic : began'[u] = Reached(u)'
        /\ \A u \in Topic : began[u] <= began'[u]
    BY <1>1, <1>2, <1>3, ReachedIs DEF ReadsWhatIsThere
  <1>5. RowsFit'
    <2>1. \A key \in DOMAIN redis : \A row : row = redis[key] => RowFits(key, row)'
      BY <1>2, <1>3, <1>4, RowsStay
    <2> SUFFICES ASSUME NEW key \in DOMAIN redis', NEW row, row = redis'[key]
                 PROVE  RowFits(key, row)'
      BY DEF RowsFit, RowFits
    <2> QED
      BY <1>2, <2>1
  <1>6. /\ DOMAIN redis' \subseteq Product \X Minutes
        /\ \A key \in DOMAIN redis' : redis'[key] \in Row
        /\ outOfTurn' \subseteq DOMAIN redis'
        /\ latest' \in [Product -> Minutes \union {Never}]
    BY <1>1, <1>2 DEF TypeOK
  <1> QED
    BY <1>2, <1>3, <1>4, <1>5, <1>6, StartOverKeeps

LEMMA RedisFailsKeeps ==
    ASSUME UpdaterInv, NEW t, NEW p, NEW s, <<t, p, s>> \in Bar, RedisFails(t, p, s)
    PROVE  UpdaterInv'
  <1>1. TypeOK /\ bars \in BarsType /\ ReadsWhatIsThere
    BY TypedBars DEF UpdaterInv, NothingHeldBack
  <1>2. Gets(t, p, s) /\ StartOver /\ HandleFails(t, p, s)
        /\ began' = [u \in Topic |-> IF u = t THEN Max({Reached(u), s}) ELSE Reached(u)]
    BY DEF RedisFails, Gets
  <1>3. BarsGrow /\ bars' \in BarsType /\ t \in Topic
    BY <1>1, <1>2, GetsBar DEF BarsGrow
  <1>4. \A u \in Topic : began'[u] = Reached(u)'
    <2>1. Reached(t)' = Max({Reached(t), s}) /\ \A u \in Topic : u # t => Reached(u)' = Reached(u)
      BY <1>1, <1>2, GetsBar
    <2> QED
      BY <1>2, <2>1
  <1>5. began' \in [Topic -> Time]
    <2>1. \A u \in Topic : Reached(u)' \in Time
      BY <1>3, ReachedIsNext
    <2>2. DOMAIN began' = Topic /\ began' = [u \in Topic |-> began'[u]]
      BY <1>2
    <2> QED
      BY <1>4, <2>1, <2>2
  <1>6. \A u \in Topic : began[u] <= began'[u]
    <2> TAKE u \in Topic
    <2>1. began[u] <= Reached(u) /\ Reached(u) <= Reached(u)'
      BY <1>1, <1>3 DEF ReadsWhatIsThere, BarsGrow
    <2>2. began[u] \in Int /\ Reached(u) \in Int /\ Reached(u)' \in Int
      BY <1>1, <1>3, TypedBars, ReachedIs, ReachedIsNext
    <2> QED
      BY <1>4, <2>1, <2>2
  <1> DEFINE h == Buffered(t, p, s)
             rows == Emittable(h, Due(t, h.minutes, h.marks), {})
  <1>7. AfterBuffered(h)
    BY <1>2, BufferedKeeps
  <1>8. \A q \in rows : q \in Product /\ Ready(h, q)
    BY DEF Emittable, Due, Ready
  <1>9. PICK keyed \in SUBSET rows, newest \in SUBSET rows : WriteRows(h, newest, keyed)
    <2>1. PICK keyed \in SUBSET rows : \E failing \in rows \ keyed, half \in BOOLEAN :
            WriteRows(h, IF half THEN keyed \union {failing} ELSE keyed, keyed)
      BY <1>2 DEF HandleFails
    <2>2. PICK failing \in rows \ keyed, half \in BOOLEAN :
            WriteRows(h, IF half THEN keyed \union {failing} ELSE keyed, keyed)
      BY <2>1
    <2> DEFINE newest == IF half THEN keyed \union {failing} ELSE keyed
    <2>3. newest \in SUBSET rows
      <3> HIDE DEF rows
      <3> QED
        OBVIOUS
    <2>4. WriteRows(h, newest, keyed)
      BY <2>2
    <2> HIDE DEF rows, h, newest
    <2> QED
      BY <2>3, <2>4
  <1> HIDE DEF h, rows
  <1>10. keyed \in SUBSET Product /\ newest \in SUBSET Product
         /\ \A q \in newest \union keyed : Ready(h, q)
    BY <1>8
  <1>11. /\ RowsFit' /\ DOMAIN redis' \subseteq Product \X Minutes
         /\ \A key \in DOMAIN redis' : redis'[key] \in Row
         /\ outOfTurn' \subseteq DOMAIN redis'
         /\ latest' \in [Product -> Minutes \union {Never}]
    BY <1>3, <1>5, <1>6, <1>7, <1>9, <1>10, WritesFit
  <1> QED
    BY <1>2, <1>3, <1>4, <1>5, <1>11, StartOverKeeps

(* The bars job goes back: nothing of what was consumed changes, nor does  *)
(* anything of the updater.                                                *)
LEMMA GoBackKeeps ==
    ASSUME UpdaterInv, NEW seconds, GoBack(seconds)
    PROVE  UpdaterInv'
  <1>1. /\ goBacks + restarts < MaxRestarts /\ goBacks' = goBacks + 1
        /\ table' = [t \in Topic |-> {b \in table[t] : b[2] <= seconds[t]}]
        /\ bars' = bars /\ inserted' = inserted
        /\ book' = book /\ trade' = trade /\ hw' = hw /\ pending' = pending
        /\ lastAsOf' = lastAsOf /\ redis' = redis /\ latest' = latest
        /\ restarts' = restarts /\ began' = began /\ flushed' = flushed
        /\ outOfTurn' = outOfTurn
    BY DEF GoBack, updaterVars, redisVars
  <1>2. TypeOK'
    <2>1. TypeOK
      BY DEF UpdaterInv, NothingHeldBack
    <2>2. goBacks' \in 0..MaxRestarts
      BY <1>1, <2>1, Lengths DEF TypeOK
    <2>3. table \in [Topic -> SUBSET (Product \X Second)] /\ \A t \in Topic : table[t] \subseteq bars[t]
      BY <2>1 DEF TypeOK
    <2>4. \A t \in Topic : table'[t] \subseteq table[t]
      BY <1>1
    <2>5. table' \in [Topic -> SUBSET (Product \X Second)]
      BY <1>1, <2>3
    <2>6. \A t \in Topic : table'[t] \subseteq bars'[t]
      BY <1>1, <2>3, <2>4
    <2> QED
      BY <1>1, <2>1, <2>2, <2>5, <2>6 DEF TypeOK
  <1>3. NothingHeldBack' /\ LatestKnown'
    BY <1>1, <1>2 DEF UpdaterInv, NothingHeldBack, BothStreamsPast, LatestKnown
  <1>4. ReadsWhatIsThere' /\ Kept' /\ RowsFit'
    BY <1>1 DEF UpdaterInv, ReadsWhatIsThere, Kept, Holds, RowsFit, RowFits, Reached, Sent, Inserted
  <1> QED
    BY <1>3, <1>4 DEF UpdaterInv

LEMMA StartsRight == Init => UpdaterInv
  <1> SUFFICES ASSUME Init PROVE UpdaterInv
    OBVIOUS
  <1>1. /\ bars = [t \in Topic |-> {}] /\ table = [t \in Topic |-> {}]
        /\ inserted = [t \in Topic |-> {}] /\ goBacks = 0
        /\ book = [p \in Product |-> {}] /\ trade = [p \in Product |-> {}]
        /\ hw = [t \in Topic |-> Never]
        /\ pending = [p \in Product |-> Never] /\ lastAsOf = [p \in Product |-> Never]
        /\ redis = << >> /\ DOMAIN redis = {}
        /\ latest = [p \in Product |-> Never]
        /\ restarts = 0 /\ began = [t \in Topic |-> Never]
        /\ flushed = [p \in Product |-> Never] /\ outOfTurn = {}
    BY DEF Init, NewUpdater
  <1>2. /\ \A t \in Topic : Reached(t) = Never
        /\ \A t \in Topic, p \in Product : Sent(t, p) = {}
    BY <1>1 DEF Reached, Latest, Sent, Of
  <1>3. TypeOK
    BY <1>1, Lengths DEF TypeOK, Time
  <1>4. NothingHeldBack /\ LatestKnown /\ RowsFit
    BY <1>1, <1>3 DEF NothingHeldBack, LatestKnown, RowsFit
  <1>5. ReadsWhatIsThere
    BY <1>1, <1>2 DEF ReadsWhatIsThere, Never
  <1>6. Kept
    BY <1>1, <1>2 DEF Kept, Holds, Book, Trades, Topic
  <1> QED
    BY <1>4, <1>5, <1>6 DEF UpdaterInv

LEMMA NothingHappens ==
    ASSUME UpdaterInv, UNCHANGED vars
    PROVE  UpdaterInv'
  <1>1. /\ bars' = bars /\ table' = table /\ goBacks' = goBacks /\ inserted' = inserted
        /\ book' = book /\ trade' = trade /\ hw' = hw /\ pending' = pending
        /\ lastAsOf' = lastAsOf /\ redis' = redis /\ latest' = latest
        /\ restarts' = restarts /\ began' = began /\ flushed' = flushed
        /\ outOfTurn' = outOfTurn
    BY DEF vars, jobVars, updaterVars, redisVars
  <1>2. NothingHeldBack' /\ LatestKnown'
    BY <1>1 DEF UpdaterInv, NothingHeldBack, TypeOK, BothStreamsPast, LatestKnown
  <1>3. ReadsWhatIsThere' /\ Kept' /\ RowsFit'
    BY <1>1 DEF UpdaterInv, ReadsWhatIsThere, Kept, Holds, RowsFit, RowFits, Reached, Sent, Inserted
  <1> QED
    BY <1>2, <1>3 DEF UpdaterInv

-----------------------------------------------------------------------------
(* The invariant of the updater holds: what features.py has buffered, has  *)
(* waiting and has written fits the bars it consumed.                      *)
THEOREM UpdaterInvariance == Spec => []UpdaterInv
  <1>1. Init => UpdaterInv
    BY StartsRight
  <1>2. UpdaterInv /\ [Next]_vars => UpdaterInv'
    <2> SUFFICES ASSUME UpdaterInv, [Next]_vars PROVE UpdaterInv'
      OBVIOUS
    <2>1. ASSUME NEW b \in Bar, NewBar(b[1], b[2], b[3]) \/ BarAgain(b[1], b[2], b[3])
          PROVE  UpdaterInv'
      <3>1. b = <<b[1], b[2], b[3]>>
        BY <2>1, UpdaterAssumption
      <3>2. /\ Gets(b[1], b[2], b[3]) /\ Handle(b[1], b[2], b[3])
            /\ UNCHANGED <<restarts, began>>
        BY <2>1, <3>1 DEF NewBar, BarAgain, Gets
      <3> QED
        BY <3>2, HandleKeeps
    <2>2. ASSUME NEW b \in Bar, RedisFails(b[1], b[2], b[3]) PROVE UpdaterInv'
      <3>1. b = <<b[1], b[2], b[3]>>
        BY <2>2, UpdaterAssumption
      <3> QED
        BY <2>2, <3>1, RedisFailsKeeps
    <2>3. CASE \E seconds \in [Topic -> Time] : GoBack(seconds)
      BY <2>3, GoBackKeeps
    <2>4. CASE Restart
      BY <2>4, RestartKeeps
    <2>5. CASE UNCHANGED vars
      BY <2>5, NothingHappens
    <2> QED
      BY <2>1, <2>2, <2>3, <2>4, <2>5 DEF Next
  <1> QED
    BY <1>1, <1>2, PTL DEF Spec

(* flush_pending leaves no minute waiting that both topics have passed;    *)
(* the types hold too.                                                     *)
THEOREM NothingEverHeldBack == Spec => []NothingHeldBack
  <1>1. UpdaterInv => NothingHeldBack
    BY DEF UpdaterInv
  <1> QED
    BY <1>1, UpdaterInvariance, PTL

-----------------------------------------------------------------------------
(* From the bars consumed to those of the tables: what a row and gold's    *)
(* row of its minute are made from.                                        *)
LEMMA RowAndGold ==
    ASSUME UpdaterInv, NEW key \in DOMAIN redis, NEW p, p = key[1], NEW m, m = key[2]
    PROVE  /\ m \in Nat /\ began \in [Topic -> Int] /\ began[Book] >= Never
           /\ \A t \in Topic :
                  /\ Sent(t, p) \in SUBSET Nat
                  /\ Seconds(t, p) \in SUBSET Sent(t, p) /\ IsFiniteSet(Seconds(t, p))
                  /\ Undone(t, p) = Sent(t, p) \ Seconds(t, p)
                  /\ Moved(t, p) = (Sent(t, p) \ Seconds(t, p)) \union Inserted(t, p)
           /\ GoldRow(p, m) = GoldFeatures(Seconds(Book, p), Seconds(Trades, p), m)
           /\ RowIs(redis[key], Sent(Book, p), Sent(Trades, p), m)
           /\ key \notin outOfTurn =>
                  RowHas(redis[key], Sent(Book, p), Inserted(Book, p),
                         Sent(Trades, p), Inserted(Trades, p), m, began)
  <1>1. TypeOK /\ bars \in BarsType
    BY TypedBars DEF UpdaterInv, NothingHeldBack
  <1>2. p \in Product /\ m \in Nat
    BY <1>1, TypedBars DEF TypeOK
  <1>3. began \in [Topic -> Int] /\ began[Book] >= Never
    <2>1. began \in [Topic -> Time] /\ Time \subseteq Int
      BY <1>1, TypedBars DEF TypeOK
    <2> QED
      BY <1>1, <2>1, TypedBars
  <1>4. ASSUME NEW t \in Topic
        PROVE  /\ Sent(t, p) \in SUBSET Nat
               /\ Seconds(t, p) \in SUBSET Sent(t, p) /\ IsFiniteSet(Seconds(t, p))
               /\ Undone(t, p) = Sent(t, p) \ Seconds(t, p)
               /\ Moved(t, p) = (Sent(t, p) \ Seconds(t, p)) \union Inserted(t, p)
    <2>1. table[t] \subseteq bars[t]
      BY <1>1 DEF TypeOK
    <2>2. Sent(t, p) \in SUBSET Nat /\ IsFiniteSet(Sent(t, p))
      BY <1>1, <1>2, ReachedIs
    <2>3. Seconds(t, p) \in SUBSET Sent(t, p)
      BY <2>1 DEF Seconds, Sent, Of
    <2>4. IsFiniteSet(Seconds(t, p))
      BY <2>2, <2>3, FS_Subset
    <2>5. Undone(t, p) = Sent(t, p) \ Seconds(t, p)
      BY DEF Undone, Seconds, Sent, Of
    <2>6. Moved(t, p) = Undone(t, p) \union Inserted(t, p)
      BY DEF Moved, Inserted, Of
    <2> QED
      BY <2>2, <2>3, <2>4, <2>5, <2>6
  <1>5. GoldRow(p, m) = GoldFeatures(Seconds(Book, p), Seconds(Trades, p), m)
    BY DEF GoldRow, Book, Trades
  <1>6. RowFits(key, redis[key])
    BY DEF UpdaterInv, RowsFit
  <1> QED
    BY <1>2, <1>3, <1>4, <1>5, <1>6 DEF RowFits

(* The rows of features.py take nothing from outside the windows of their  *)
(* minute, and nothing gold does not know but for what the bars job undid, *)
(* whatever a restart or a failing Redis costs.                            *)
THEOREM RowsAlwaysWithinGold == Spec => []RowsWithinGold
  <1>1. UpdaterInv => RowsWithinGold
    <2> SUFFICES ASSUME UpdaterInv, NEW key \in DOMAIN redis
                 PROVE  LET row == redis[key]
                            gold == GoldRow(key[1], key[2])
                            undoneBook == Undone(Book, key[1])
                            Inside(seconds, length) ==
                                \A s \in seconds : key[2] - length < s /\ s <= key[2]
                        IN  /\ row.book \subseteq gold.book \union undoneBook
                            /\ row.recent \subseteq gold.recent \union undoneBook
                            /\ row.trades \subseteq gold.trades \union Undone(Trades, key[1])
                            /\ Inside(row.book, Long) /\ Inside(row.recent, Short)
                            /\ Inside(row.trades, Short)
      BY DEF RowsWithinGold, Book, Trades
    <2> DEFINE p == key[1]
               m == key[2]
               row == redis[key]
               gold == GoldRow(p, m)
               kept == Seconds(Book, p)
               keptTrades == Seconds(Trades, p)
    <2>1. Book \in Topic /\ Trades \in Topic
      BY DEF Book, Trades, Topic
    <2>2. /\ m \in Nat /\ RowIs(row, Sent(Book, p), Sent(Trades, p), m)
          /\ kept \in SUBSET Nat /\ keptTrades \in SUBSET Nat
          /\ Undone(Book, p) = Sent(Book, p) \ kept
          /\ Undone(Trades, p) = Sent(Trades, p) \ keptTrades
          /\ gold = GoldFeatures(kept, keptTrades, m)
      BY <2>1, RowAndGold
    <2> HIDE DEF p, m, row, gold, kept, keptTrades
    <2>3. /\ gold.book = {s \in kept : m - Long < s /\ s <= m}
          /\ gold.recent = {s \in kept : m - Short < s /\ s <= m}
          /\ gold.trades = {s \in keptTrades : m - Short < s /\ s <= m}
      BY <2>2, WindowIs, Lengths DEF GoldFeatures
    <2>4. /\ row.book \subseteq gold.book \union Undone(Book, p)
          /\ row.recent \subseteq gold.recent \union Undone(Book, p)
          /\ row.trades \subseteq gold.trades \union Undone(Trades, p)
      BY <2>2, <2>3 DEF RowIs
    <2>5. /\ \A s \in row.book : m - Long < s /\ s <= m
          /\ \A s \in row.recent : m - Short < s /\ s <= m
          /\ \A s \in row.trades : m - Short < s /\ s <= m
      BY <2>2 DEF RowIs
    <2> QED
      BY <2>4, <2>5 DEF p, m, row, gold
  <1> QED
    BY <1>1, UpdaterInvariance, PTL

(* Once the updater has run for as long as its windows are, its rows have  *)
(* the bars of gold's, but for those a restart of the bars job moved:      *)
(* test_parity.py's claim, and what is left of it.                         *)
THEOREM WindowsAlwaysMatchGold == Spec => []WindowsMatchGold
  <1>1. UpdaterInv => WindowsMatchGold
    <2> SUFFICES ASSUME UpdaterInv, NEW key \in DOMAIN redis \ outOfTurn,
                        began[Book] <= key[2] - Long, began[Trades] <= key[2] - Short
                 PROVE  LET row == redis[key]
                            gold == GoldRow(key[1], key[2])
                            movedBook == Moved(Book, key[1])
                            movedTrades == Moved(Trades, key[1])
                        IN  /\ row.book \ movedBook = gold.book \ movedBook
                            /\ row.recent \ movedBook = gold.recent \ movedBook
                            /\ row.trades \ movedTrades = gold.trades \ movedTrades
                            /\ gold.base >= key[2] + Minute - Buffer /\ gold.base > began[Book]
                                 => row.base = gold.base
                                    \/ {row.base, gold.base} \intersect movedBook # {}
      BY DEF WindowsMatchGold, Warm, Book, Trades
    <2> DEFINE p == key[1]
               m == key[2]
               row == redis[key]
               gold == GoldRow(p, m)
               kept == Seconds(Book, p)
               keptTrades == Seconds(Trades, p)
               late == Inserted(Book, p)
               lateTrades == Inserted(Trades, p)
    <2>1. Book \in Topic /\ Trades \in Topic
      BY DEF Book, Trades, Topic
    <2>2. /\ m \in Nat /\ began \in [Topic -> Int] /\ began[Book] >= Never
          /\ Sent(Book, p) \in SUBSET Nat /\ Sent(Trades, p) \in SUBSET Nat
          /\ kept \in SUBSET Sent(Book, p) /\ IsFiniteSet(kept)
          /\ keptTrades \in SUBSET Sent(Trades, p)
          /\ Moved(Book, p) = (Sent(Book, p) \ kept) \union late
          /\ Moved(Trades, p) = (Sent(Trades, p) \ keptTrades) \union lateTrades
          /\ gold = GoldFeatures(kept, keptTrades, m)
          /\ RowIs(row, Sent(Book, p), Sent(Trades, p), m)
          /\ RowHas(row, Sent(Book, p), late, Sent(Trades, p), lateTrades, m, began)
      BY <2>1, RowAndGold
    <2>3. began[Book] <= m - Long /\ began[Trades] <= m - Short
      OBVIOUS
    <2> HIDE DEF p, m, row, gold, kept, keptTrades, late, lateTrades
    <2>4. PICK start : start = began
      OBVIOUS
    <2>5. PICK seconds, trades, moved, movedTrades :
            /\ seconds = Sent(Book, p) /\ trades = Sent(Trades, p)
            /\ moved = Moved(Book, p) /\ movedTrades = Moved(Trades, p)
      OBVIOUS
    <2>6. RowAgrees(row, GoldFeatures(kept, keptTrades, m),
                    (Sent(Book, p) \ kept) \union late,
                    (Sent(Trades, p) \ keptTrades) \union lateTrades, m, start[Book])
      BY <2>2, <2>3, <2>4, GoldRowAgrees
    <2>7. RowAgrees(row, gold, moved, movedTrades, m, start[Book])
      BY <2>2, <2>5, <2>6
    <2>8. /\ row.book \ moved = gold.book \ moved
          /\ row.recent \ moved = gold.recent \ moved
          /\ row.trades \ movedTrades = gold.trades \ movedTrades
          /\ gold.base >= m + Minute - Buffer /\ gold.base > start[Book]
                 => row.base = gold.base \/ {row.base, gold.base} \intersect moved # {}
      BY <2>7 DEF RowAgrees
    <2> QED
      BY <2>4, <2>5, <2>8 DEF p, m, row, gold
  <1> QED
    BY <1>1, UpdaterInvariance, PTL

(* emit: latest goes back in time only with the first row a restarted      *)
(* updater writes for a product.                                           *)
THEOREM LatestAlwaysRewindsOnce == Spec => LatestRewindsOnce
  <1> DEFINE Rewinds == \A p \in Product :
                            latest'[p] < latest[p] => lastAsOf[p] = Never /\ restarts > 0
  <1>1. UpdaterInv /\ UpdaterInv' /\ [Next]_vars => [Rewinds]_vars
    <2> SUFFICES ASSUME UpdaterInv, UpdaterInv', Next PROVE Rewinds
      OBVIOUS
    <2>1. TypeOK /\ LatestKnown
      BY DEF UpdaterInv, NothingHeldBack
    <2>2. ASSUME NEW p \in Product
          PROVE  latest[p] \in Int /\ latest'[p] \in Int /\ lastAsOf[p] \in Int
      <3>1. Minutes \subseteq Int /\ Never \in Int
        BY <2>1, TypedBars DEF Never
      <3>2. /\ latest[p] \in Minutes \union {Never}
            /\ latest'[p] \in Minutes \union {Never}
            /\ lastAsOf[p] \in Minutes \union {Never}
        BY <2>1 DEF TypeOK, UpdaterInv, NothingHeldBack
      <3> HIDE DEF Never
      <3> QED
        BY <3>1, <3>2
    <2>3. restarts \in Nat
      BY <2>1 DEF TypeOK
    <2>4. ASSUME NEW p \in Product, latest'[p] # latest[p] PROVE Newer(p, latest'[p])
      <3>1. ASSUME NEW h, NEW newest \in SUBSET Product, NEW keyed,
                   WriteRows(h, newest, keyed), \A q \in newest : Newer(q, h.minutes[q])
            PROVE  Newer(p, latest'[p])
        <4>1. latest' = [q \in Product |-> IF q \in newest THEN h.minutes[q] ELSE latest[q]]
          BY <3>1 DEF WriteRows
        <4>2. latest'[p] = h.minutes[p] /\ p \in newest
          BY <2>4, <4>1
        <4> QED
          BY <3>1, <4>2 DEF Newer
      <3>2. ASSUME NEW b \in Bar, Handle(b[1], b[2], b[3]) PROVE Newer(p, latest'[p])
        <4> DEFINE h == Buffered(b[1], b[2], b[3])
                   due == Due(b[1], h.minutes, h.marks)
        <4>1. PICK idle \in SUBSET due :
                WriteRows(h, Emittable(h, due, idle), Emittable(h, due, idle))
          BY <3>2 DEF Handle
        <4>2. \A q \in Emittable(h, due, idle) : q \in Product /\ Newer(q, h.minutes[q])
          BY DEF Emittable, Due
        <4> DEFINE newest == Emittable(h, due, idle)
        <4> HIDE DEF h, due, newest
        <4>3. newest \in SUBSET Product /\ \A q \in newest : Newer(q, h.minutes[q])
          BY <4>2 DEF newest
        <4>4. WriteRows(h, newest, newest)
          BY <4>1 DEF newest
        <4> QED
          BY <3>1, <4>3, <4>4
      <3>3. ASSUME NEW b \in Bar, HandleFails(b[1], b[2], b[3]) PROVE Newer(p, latest'[p])
        <4> DEFINE h == Buffered(b[1], b[2], b[3])
                   rows == Emittable(h, Due(b[1], h.minutes, h.marks), {})
        <4>1. PICK keyed \in SUBSET rows, failing \in rows, half \in BOOLEAN :
                WriteRows(h, IF half THEN keyed \union {failing} ELSE keyed, keyed)
          BY <3>3 DEF HandleFails
        <4>2. \A q \in rows : q \in Product /\ Newer(q, h.minutes[q])
          BY DEF Emittable, Due
        <4> DEFINE newest == IF half THEN keyed \union {failing} ELSE keyed
        <4> HIDE DEF h, rows
        <4>3. newest \in SUBSET rows
          OBVIOUS
        <4>4. newest \in SUBSET Product /\ \A q \in newest : Newer(q, h.minutes[q])
          BY <4>2, <4>3
        <4>5. WriteRows(h, newest, keyed)
          BY <4>1
        <4> HIDE DEF newest
        <4> QED
          BY <3>1, <4>4, <4>5
      <3>4. CASE Restart
        BY <2>4, <3>4 DEF Restart, redisVars
      <3>5. CASE \E seconds \in [Topic -> Time] : GoBack(seconds)
        BY <2>4, <3>5 DEF GoBack, redisVars
      <3> QED
        BY <3>2, <3>3, <3>4, <3>5 DEF Next, NewBar, BarAgain, RedisFails
    <2>5. ASSUME NEW p \in Product, latest'[p] < latest[p]
          PROVE  lastAsOf[p] = Never /\ restarts > 0
      <3>1. latest'[p] # latest[p]
        <4>1. latest[p] \in Int
          BY <2>2
        <4> QED
          BY <2>5, <4>1
      <3>2. latest'[p] > lastAsOf[p]
        BY <2>4, <3>1 DEF Newer
      <3>3. latest[p] # lastAsOf[p]
        BY <2>2, <2>5, <3>2
      <3>4. lastAsOf[p] = Never /\ restarts # 0
        BY <2>1, <3>3 DEF LatestKnown
      <3> QED
        BY <2>3, <3>4
    <2> QED
      BY <2>5
  <1> QED
    BY <1>1, UpdaterInvariance, PTL DEF Spec, LatestRewindsOnce

=============================================================================
