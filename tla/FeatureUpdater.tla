---------------------------- MODULE FeatureUpdater ----------------------------
(***************************************************************************)
(* The online features (service/features.py, service/feature_calc.py): one *)
(* consumer of the bar topics keeps the bars of the last hour per product  *)
(* and writes a row of features to Redis for each minute both topics have  *)
(* passed.  Gold (scripts/gold_features.sql) computes the same rows from   *)
(* all bars; tests/test_parity.py compares the two.                        *)
(*                                                                         *)
(* A bar is its product and its second; a row of features is the set of    *)
(* seconds each of its aggregates is taken over.  The bars job is what     *)
(* BarWindows shows of it: a topic has the bars in the order of their      *)
(* seconds, until the job restarts; then both topics, and the tables gold  *)
(* reads, go on from a checkpoint, where a bar may come that was not there *)
(* before, and a bar that was may come no more.  Nothing orders one topic  *)
(* against the other.                                                      *)
(***************************************************************************)
EXTENDS GoldRows

CONSTANTS
    Product,
    Bar,            \* bound: the bars there may be, a finite set of
                    \* <<topic, product, second>>
    Margin,         \* how far past a minute both topics must be: 2 seconds
    Buffer,         \* BUFFER: how long bars are kept, 62 minutes
    MaxRestarts     \* bound: how often the bars job or the updater is restarted

Topic == {"bars.book.1s", "bars.trade.1s"}

ASSUME UpdaterAssumption ==
    /\ Bar \subseteq Topic \X Product \X Nat /\ IsFiniteSet(Bar)
    /\ {Margin, Buffer, MaxRestarts} \subseteq Nat
    /\ Margin > 0
    /\ Short <= Long /\ Long + Minute <= Buffer

VARIABLES
    bars,       \* the bars consumed, per topic
    table,      \* the bars of the job's tables, of those consumed
    goBacks,    \* how often the job was restarted
    book,       \* self.book: the seconds buffered, per product
    trade,      \* self.trade
    hw,         \* self.hw: the latest second consumed, per topic
    pending,    \* self.pending: the minute waiting to be emitted, per product
    lastAsOf,   \* self.last_as_of
    redis,      \* features:{product}:{as_of}
    latest,     \* features:{product}:latest, by its as_of_ts
    restarts,
    began,      \* history: how far each topic was when the updater started
    inserted,   \* history: the bars that were new below what their topic had
                \* reached, per topic
    flushed,    \* history: the latest minute flushed since then, per product
    outOfTurn   \* history: the rows made more than a minute behind it

jobVars == <<bars, table, goBacks, inserted>>
updaterVars == <<book, trade, hw, pending, lastAsOf>>
redisVars == <<redis, latest>>
vars == <<jobVars, updaterVars, redisVars, restarts, began, flushed, outOfTurn>>

Second == {b[3] : b \in Bar}
Time == Second \union {Never}

(* The minutes of the bars.  Never stands for None in hw, for no entry in  *)
(* pending and for datetime.min in last_as_of.                             *)
Minutes == {AsOf(s) : s \in Second}

Row == [book: SUBSET Second, base: Time, recent: SUBSET Second, trades: SUBSET Second]

TypeOK ==
    /\ bars \in [Topic -> SUBSET (Product \X Second)]
    /\ table \in [Topic -> SUBSET (Product \X Second)]
    /\ inserted \in [Topic -> SUBSET (Product \X Second)]
    /\ \A t \in Topic : table[t] \subseteq bars[t]
    /\ goBacks \in 0..MaxRestarts
    /\ book \in [Product -> SUBSET Second]
    /\ trade \in [Product -> SUBSET Second]
    /\ hw \in [Topic -> Time]
    /\ pending \in [Product -> Minutes \union {Never}]
    /\ lastAsOf \in [Product -> Minutes \union {Never}]
    /\ DOMAIN redis \subseteq Product \X Minutes
    /\ \A key \in DOMAIN redis : redis[key] \in Row
    /\ latest \in [Product -> Minutes \union {Never}]
    /\ restarts \in 0..MaxRestarts
    /\ began \in [Topic -> Time]
    /\ flushed \in [Product -> Minutes \union {Never}]
    /\ outOfTurn \subseteq DOMAIN redis

NewUpdater ==
    [book |-> [p \in Product |-> {}], trade |-> [p \in Product |-> {}],
     hw |-> [t \in Topic |-> Never],
     pending |-> [p \in Product |-> Never], lastAsOf |-> [p \in Product |-> Never]]

Become(updater) ==
    /\ book' = updater.book
    /\ trade' = updater.trade
    /\ hw' = updater.hw
    /\ pending' = updater.pending
    /\ lastAsOf' = updater.lastAsOf

Init ==
    /\ bars = [t \in Topic |-> {}]
    /\ table = [t \in Topic |-> {}]
    /\ goBacks = 0
    /\ inserted = [t \in Topic |-> {}]
    /\ book = NewUpdater.book
    /\ trade = NewUpdater.trade
    /\ hw = NewUpdater.hw
    /\ pending = NewUpdater.pending
    /\ lastAsOf = NewUpdater.lastAsOf
    /\ redis = << >>
    /\ latest = [p \in Product |-> Never]
    /\ restarts = 0
    /\ began = [t \in Topic |-> Never]
    /\ flushed = [p \in Product |-> Never]
    /\ outOfTurn = {}

-----------------------------------------------------------------------------
(* compute_features: what the row of a minute is computed from.  base is   *)
(* the bar before the long window, whose mid the first return starts from. *)
WithinAndAfter(seconds, asOf, window) == {s \in seconds : asOf - window < s}

Within(seconds, asOf, window) == {s \in seconds : asOf - window < s /\ s <= asOf}

Features(bookSeconds, tradeSeconds, asOf) ==
    LET before == {s \in bookSeconds : s <= asOf - Long}
    IN  [book   |-> Within(bookSeconds, asOf, Long),
         base   |-> IF before = {} THEN Never ELSE Max(before),
         recent |-> Within(bookSeconds, asOf, Short),
         trades |-> Within(tradeSeconds, asOf, Short)]

(* compute_features finds no return, or no recent bar, and gives no row.   *)
NoRow(row) == row.recent = {} \/ (row.base = Never /\ Cardinality(row.book) = 1)

-----------------------------------------------------------------------------
(* _both_streams_past: both topics have been consumed past the minute.     *)
BothStreamsPast(marks, asOf) == \A t \in Topic : marks[t] >= asOf + Margin

(* The products whose waiting minute flush_pending can emit; the variant   *)
(* is only asked when a book bar is handled.                               *)
DueOnBookBars(topic, minutes, marks) ==
    {p \in Product : topic = "bars.book.1s" /\ minutes[p] # Never
                                             /\ BothStreamsPast(marks, minutes[p])}

Due(topic, minutes, marks) ==
    {p \in Product : minutes[p] # Never /\ BothStreamsPast(marks, minutes[p])}

(* The oldest second kept after a minute is emitted: it goes by the        *)
(* minute, never by how far the topics have been consumed (the variant).   *)
CutoffByArrival(asOf, marks) == Max({marks[t] : t \in Topic}) - Buffer

Cutoff(asOf, marks) == asOf - Buffer

(* last_as_of: a minute that already has a row gets no other one, neither  *)
(* from handle nor from emit.                                              *)
AnyMinute(product, asOf) == TRUE

Newer(product, asOf) == asOf > lastAsOf[product]

(* handle, up to flush_pending: a bar is buffered and its topic's high     *)
(* water raised, and a book bar makes its minute wait.                     *)
Buffered(topic, product, second) ==
    [book   |-> IF topic = "bars.book.1s" THEN [book EXCEPT ![product] = @ \union {second}]
                ELSE book,
     trade  |-> IF topic = "bars.trade.1s" THEN [trade EXCEPT ![product] = @ \union {second}]
                ELSE trade,
     marks  |-> [hw EXCEPT ![topic] = Max({@, second})],
     minutes |-> IF topic = "bars.book.1s" /\ Newer(product, AsOf(second))
                 THEN [pending EXCEPT ![product] = AsOf(second)] ELSE pending]

Computed(h, product) == Features(h.book[product], h.trade[product], h.minutes[product])

(* The products emit writes a row for: there is none for a minute with no  *)
(* return, or whose mid never moved (idle).                                *)
Emittable(h, due, idle) ==
    {p \in due \ idle : Newer(p, h.minutes[p]) /\ ~ NoRow(Computed(h, p))}

Pruned(buffer, h, due) ==
    [p \in Product |-> IF p \in due THEN {s \in buffer[p] : s >= Cutoff(h.minutes[p], h.marks)}
                       ELSE buffer[p]]

(* The two writes of emit: latest first, then the minute's own key.        *)
WriteRows(h, newest, keyed) ==
    LET keys == {<<p, h.minutes[p]>> : p \in keyed}
        late == {key \in keys : key[2] < flushed[key[1]] - Minute}
    IN  /\ latest' = [p \in Product |-> IF p \in newest THEN h.minutes[p] ELSE latest[p]]
        /\ redis' = [key \in DOMAIN redis \union keys |->
                        IF key \in keys THEN Computed(h, key[1]) ELSE redis[key]]
        /\ outOfTurn' = (outOfTurn \ keys) \union late

(* handle: every minute both topics have passed is emitted, and its        *)
(* product's buffers are pruned.                                           *)
Handle(topic, product, second) ==
    LET h == Buffered(topic, product, second)
        due == Due(topic, h.minutes, h.marks)
    IN  \E idle \in SUBSET due :
            LET emitted == Emittable(h, due, idle)
            IN  /\ Become([book |-> Pruned(h.book, h, due),
                           trade |-> Pruned(h.trade, h, due),
                           hw |-> h.marks,
                           pending |-> [p \in Product |-> IF p \in due THEN Never ELSE h.minutes[p]],
                           lastAsOf |-> [p \in Product |-> IF p \in emitted THEN h.minutes[p]
                                                           ELSE lastAsOf[p]]])
                /\ WriteRows(h, emitted, emitted)
                /\ flushed' = [p \in Product |-> IF p \in due THEN Max({flushed[p], h.minutes[p]})
                                                ELSE flushed[p]]

(* One of handle's writes to Redis raises: the rows before it are written, *)
(* those after it are not, and the process ends.  The bar counts as read:  *)
(* stop commits the offsets.                                               *)
HandleFails(topic, product, second) ==
    LET h == Buffered(topic, product, second)
        rows == Emittable(h, Due(topic, h.minutes, h.marks), {})
    IN  \E keyed \in SUBSET rows : \E failing \in rows \ keyed, half \in BOOLEAN :
            WriteRows(h, IF half THEN keyed \union {failing} ELSE keyed, keyed)

(* How far the topic has got, and how far the job has.                     *)
Latest(some) == IF some = {} THEN Never ELSE Max({b[2] : b \in some})

Reached(topic) == Latest(bars[topic])
Front(topic) == Latest(table[topic])

(* The consumer gets the job's next bar of a topic, or gets a bar once     *)
(* more: the job's sink delivers at least once, and so does the consumer.  *)
Published(topic, product, second) ==
    /\ second >= Front(topic)
    /\ <<product, second>> \notin table[topic]
    /\ bars' = [bars EXCEPT ![topic] = @ \union {<<product, second>>}]
    /\ table' = [table EXCEPT ![topic] = @ \union {<<product, second>>}]
    /\ inserted' = [inserted EXCEPT ![topic] =
                        IF second < Reached(topic) /\ <<product, second>> \notin bars[topic]
                        THEN @ \union {<<product, second>>} ELSE @]
    /\ UNCHANGED goBacks

PublishedAgain(topic, product, second) ==
    /\ <<product, second>> \in bars[topic]
    /\ UNCHANGED jobVars

(* The bars job goes on from its last checkpoint: each topic's windows     *)
(* from a second of theirs, the bars after it undone in the table.  When   *)
(* there are none, nothing changes for the consumer.                       *)
GoBack(seconds) ==
    /\ goBacks + restarts < MaxRestarts
    /\ goBacks' = goBacks + 1
    /\ table' = [t \in Topic |-> {b \in table[t] : b[2] <= seconds[t]}]
    /\ table' # table
    /\ UNCHANGED <<bars, inserted, updaterVars, redisVars, restarts, began, flushed, outOfTurn>>

NewBar(topic, product, second) ==
    /\ Published(topic, product, second)
    /\ Handle(topic, product, second)
    /\ UNCHANGED <<restarts, began>>

BarAgain(topic, product, second) ==
    /\ PublishedAgain(topic, product, second)
    /\ Handle(topic, product, second)
    /\ UNCHANGED <<restarts, began>>

(* The process ends and another one goes on from the committed offsets,    *)
(* with nothing buffered.                                                  *)
StartOver ==
    /\ goBacks + restarts < MaxRestarts
    /\ restarts' = restarts + 1
    /\ Become(NewUpdater)
    /\ flushed' = [p \in Product |-> Never]

Restart ==
    /\ StartOver
    /\ began' = [t \in Topic |-> Reached(t)]
    /\ UNCHANGED <<jobVars, redisVars, outOfTurn>>

RedisFails(topic, product, second) ==
    /\ StartOver
    /\ began' = [t \in Topic |-> IF t = topic THEN Max({Reached(t), second}) ELSE Reached(t)]
    /\ Published(topic, product, second) \/ PublishedAgain(topic, product, second)
    /\ HandleFails(topic, product, second)

Next ==
    \/ \E b \in Bar : \/ NewBar(b[1], b[2], b[3])
                     \/ BarAgain(b[1], b[2], b[3])
                     \/ RedisFails(b[1], b[2], b[3])
    \/ \E seconds \in [Topic -> Time] : GoBack(seconds)
    \/ Restart

Spec == Init /\ [][Next]_vars

-----------------------------------------------------------------------------
(* Gold's row of a minute: the same aggregates, over all the bars.         *)
Seconds(topic, product) == {s \in Second : <<product, s>> \in table[topic]}

InGold(product, asOf) == asOf \in FullGrid(Seconds("bars.book.1s", product))

GoldRow(product, asOf) ==
    GoldFeatures(Seconds("bars.book.1s", product), Seconds("bars.trade.1s", product), asOf)

(* The bars a restart of the bars job undid and has not written again.     *)
Undone(topic, product) == {s \in Second : <<product, s>> \in bars[topic] \ table[topic]}

(* With them, the bars it put behind others: what may tell a row of the    *)
(* updater from gold's.                                                    *)
Moved(topic, product) ==
    Undone(topic, product) \union {s \in Second : <<product, s>> \in inserted[topic]}

(* A row gold has, too, of a minute whose windows the updater has seen all *)
(* of since it started.                                                    *)
Warm(product, asOf) ==
    /\ InGold(product, asOf)
    /\ began["bars.book.1s"] <= asOf - Long
    /\ began["bars.trade.1s"] <= asOf - Short

(* tests/test_parity.py: the rows "must match the gold rows".  Their        *)
(* windows do, once the updater has run for as long as they are: no row is *)
(* computed before all its bars have arrived, no bar is pruned that a later *)
(* row needs, no bar counts twice, and a restart is forgotten.  So does the *)
(* bar before the long window, if the updater has read it and it is young  *)
(* enough to be buffered when the minute is emitted a minute late.  A       *)
(* restart of the bars job costs no more than the bars it moved, and the   *)
(* rows of minutes it made wait again when a later one had been flushed.   *)
WindowsMatchGold ==
    \A key \in DOMAIN redis \ outOfTurn :
        LET product == key[1]
            asOf == key[2]
            row == redis[key]
            gold == GoldRow(product, asOf)
            movedBook == Moved("bars.book.1s", product)
            movedTrades == Moved("bars.trade.1s", product)
        IN  Warm(product, asOf) =>
               /\ row.book \ movedBook = gold.book \ movedBook
               /\ row.recent \ movedBook = gold.recent \ movedBook
               /\ row.trades \ movedTrades = gold.trades \ movedTrades
               /\ gold.base >= asOf + Minute - Buffer /\ gold.base > began["bars.book.1s"]
                    => row.base = gold.base \/ {row.base, gold.base} \intersect movedBook # {}

(* Whatever a restart costs, a row takes nothing from outside its minute's *)
(* windows: no bar after the minute leaks into it, and none that gold does *)
(* not know unless the bars job undid it.                                  *)
RowsWithinGold ==
    \A key \in DOMAIN redis :
        LET row == redis[key]
            gold == GoldRow(key[1], key[2])
            undoneBook == Undone("bars.book.1s", key[1])
            Inside(seconds, length) == \A s \in seconds : key[2] - length < s /\ s <= key[2]
        IN  /\ row.book \subseteq gold.book \union undoneBook
            /\ row.recent \subseteq gold.recent \union undoneBook
            /\ row.trades \subseteq gold.trades \union Undone("bars.trade.1s", key[1])
            /\ Inside(row.book, Long) /\ Inside(row.recent, Short) /\ Inside(row.trades, Short)

(* latest, which the scoring loop polls, goes back in time only with the   *)
(* first row a restarted updater writes for a product, whatever it reads   *)
(* again and wherever a write fails.                                       *)
LatestRewindsOnce ==
    [][\A p \in Product : latest'[p] < latest[p] => lastAsOf[p] = Never /\ restarts > 0]_vars

(* flush_pending leaves no minute waiting that both topics have passed.    *)
(* (The types hold too.)                                                   *)
NothingHeldBack ==
    /\ TypeOK
    /\ \A p \in Product : pending[p] # Never => ~ BothStreamsPast(hw, pending[p])

=============================================================================
