# TLA+ models of the crypto order-flow pipeline

Models of the pipeline's own logic, checked with TLC on small instances, and theorems about all of
them, checked by TLAPS for every value of the constants. Paths below are relative to `src/`, the
repository's root.

```
tlc -workers 2 -config BookJob.cfg MCBookJob     # any run of the table below
tlapm BookProofs.tla                             # any module named *Proofs, and Extremes
```

`PROJECT.json` lists the components, the runs, the line of code behind every definition (`map`), a
mutant for every property, the findings, the hazards and the theorems.

## 1. The system

```
Coinbase feed --> producer --> Kafka: trades.raw, book.l2.raw, dlq.malformed
                                  |
                     bars job (Flink): order book, 1 s windows
                          |                         |
            Iceberg bars (exactly once)   Kafka bars.*.1s (at least once)
                          |                         |
       gold build (Trino, Dagster)        feature updater --> Redis
                          |                         |
          training and promotion  --MLflow-->  prediction service --> Postgres,
                                                                Kafka predictions
```

| component | state it keeps | operations | what is hard | what makes it correct |
|---|---|---|---|---|
| connection loop, `producer/runner.py`, `__main__.py` | `epoch`, `backoff.attempt`, the open socket | connect, receive, idle timeout, disconnect, back off, start, cancel | a server that accepts and drops; a silent connection; long outages; process restarts | backoff grows with every unstable connection; it always reconnects |
| router, `producer/coinbase.py` | `_last_trade_id`, `counts` | `route`, `_track_trade_id`, `_check_heartbeat`, `_dlq` | drops by the channel, `last_match` after reconnects, heartbeats | every trade the feed lost is counted, no trade is counted that arrived |
| sink, `producer/sink.py` | Kafka client | `send`, delivery callback | delivery fails after `send` returned; oversize | no silent loss, no crash loop |
| order book, `flink/book.py` | levels, `epoch`, `prev_top` | `apply`, `restore`, `meta` | deltas before their snapshot or of another epoch; crossed and one-sided books | only deltas of the snapshot's epoch; OFI never bridges a snapshot |
| book operator, `flink/bars_job.py` | cache of books, keyed state, checkpoint | `process_element`, restore | crash at any message; cache and state diverging; replay | state always rebuilds the cache; replay yields the same rows; exactly once |
| windows and sinks (SQL), `flink/bars_job.py` | window state, watermarks, the bar topics and tables | read, emit watermark, fire, checkpoint, restart | idle and empty partitions, uneven reading, restarts | every record in one bar unless late; topic and table differ by late records only |
| feature updater, `service/features.py`, `feature_calc.py` | buffers, `hw`, `pending`, `last_as_of` | `handle`, `flush_pending`, `emit` | two topics in any order, repeated bars, restarts, gaps | rows equal gold's, but for bars the bars job moved |
| gold build, `scripts/gold_features.sql`, `orchestration/definitions.py` | `features_5m` | incremental INSERT, quality check, retries | overlapping runs; lost replies; bars arriving after their minute; long backlogs | each minute once, from all its bars, and all of them in the end |
| prediction service, `service/api.py` | `last_scored`, model and version, connection | `score_once`, label join, reload, endpoints | failure between steps, shared connection | each prediction once, labelled once |
| training, `ml/`, `orchestration/definitions.py` | MLflow registry | `load_gold`, `time_split`, promotion gate, register | label windows at the cut; two trainings; a registry that does not answer | no leak; only the first model may lack skill; there is one to serve |
| gap check, `scripts/check_gaps.py` | none | read two topics, report | restarts and drops between the ids it sees | it finds what the router counted |

They interact through Kafka topics (ordered within a partition, one partition per product key),
Redis keys, Iceberg tables, Postgres and the MLflow registry; inside a process through calls.
`epoch` travels from the loop through the router into every record and is what the order book
trusts.

`PROJECT.json` lists the hazards of this code, 40 of them, each at its line, with the properties
that cover it or the reason why none does.

## 2. Modules

| module | models | proofs |
|---|---|---|
| `OrderBook` | `flink/book.py`: `apply`, `_top`, `_ofi`, `meta`, `restore` as operators | `BookProofs` (lemmas) |
| `BookStream` | abstract: every message of a partition applied once, in order | |
| `BookJob` (`MCBookJob`) | `BookStateFn` under Flink checkpoints and restarts; implements `BookStream` | `BookProofs` |
| `Runner` (`MCRunner`) | `runner.py` and the process around it | `RunnerProofs` |
| `Router` | trade ids, heartbeats, `trade_gaps` and the DLQ of `coinbase.py` | |
| `TradeFeed` (`MCTradeFeed`) | exchange + `Runner` + `Router` + the match filter of the bars job + `check_gaps.py` | `TradeFeedProofs` |
| `BookFeed` (`MCBookFeed`) | exchange + `Runner` + epoch stamp + sink + a consumer's `OrderBook` | `BookProofs` |
| `BarStream` | abstract: a bar topic, in the order of the bars' seconds, from which its writer may go back | |
| `BarWindows` (`MCBarWindows`) | watermarks, windows, late records and both sinks of the bars job; implements `BarStream` | `BarWindowsProofs` |
| `GoldRows` | `gold_features.sql` as operators: bounds, grid, windows, lag, label | |
| `GoldBuild` | the gold refresh of `definitions.py`: incremental INSERTs that overlap, lose their client and are retried | `OfflineProofs` |
| `TimeSplit` (`MCGold`) | `load_gold` and `time_split` on the rows of `GoldBuild` | `OfflineProofs` |
| `Promotion` (`MCPromotion`) | the gate of `train.py` and its retries over the registry | `OfflineProofs` |
| `FeatureUpdater` (`MCFeatureUpdater`) | `features.py` and `feature_calc.py` against the bars job's topics, with the rows of `GoldRows` as reference | `UpdaterProofs` |
| `PgConnection` | `pg_conn` and `pg_fetch` of `api.py`: the connection the coroutines share, and a server that goes down | `ScoringProofs` |
| `Scoring` (`MCScoring`) | the scoring loop of `api.py` on `PgConnection`, with features, training and endpoints around it | `ScoringProofs` |
| `Extremes` | maxima and minima of sets of numbers, rounding down | itself: lemmas |

Definitions named like another one with a longer name (`WriteThroughNoClear` beside `WriteThrough`)
are variants used as mutants: each is a plausible bug, and the property listed with it must fail
when the variant takes its place.

### How state and actions correspond to the code

**OrderBook.** A side is a function from the prices `1..MaxPrice` to sizes, 0 where there is no
level (the code's dict has no such key). `MaxPrice` and `Depth` (5 in the code) are constants.
`Apply(book, msg)` is the whole of `OrderBook.apply`: snapshot, delta of the wrong epoch (dropped),
delta applied, crossed or one-sided book (no row, `prev_top` kept). Mid, spread, times and the
parsing of strings are left out.

**BookJob.** `Process(p)` is one call of `process_element`: cache lookup, rebuild from keyed state
(`Cached`, `Rebuilt`), `apply`, write-through, `yield`. `offset` and `rows` are what Flink
checkpoints along with the keyed state: where the source is, and what went to the sinks.
`TriggerCheckpoint` and `CompleteCheckpoint` are separate steps with processing in between,
`Restart` drops cache and pending checkpoint and goes back to the last completed one, `GiveUp` is
the failure after the last attempt of the fixed-delay strategy (100 in `docker-compose.yml`).
`results` is history: what each message yielded when it was first processed. Flink is external; that
the operator's state, offsets and sink are cut at one message boundary is its guarantee for a
single-threaded operator at parallelism 1 with exactly-once checkpoints.

**Runner.** `phase` is where the loop is: `connecting` (inside `websockets.connect`), `open` (in the
receive loop), `sleeping` (in `asyncio.sleep`), `stopped`. `attempt` is `backoff.attempt`. Time is
reduced to two flags the environment raises: `stable` (older than `stable_after_s`) and `quiet`
(nothing will come any more). `BackOff` is the code after the except clauses, with the exponent but
not the length of the delay; every way out of a connection goes through `Leave`. `ended` says why a
process stopped, `failures` is history.

**BookFeed.** Each connection's `wire` starts with a snapshot and carries a delta for each later
change. `RouteBook` stamps the head of the wire and sends it: it `Arrives`, or `IsLost`, either
because its delivery failed after `send` returned, which the producer only logs, or because it is
too large and only its head goes to the DLQ. `ConsumeRecord` is `Apply` on the next record. `conn`
numbers connections over all processes, which the code does not do; it tells the properties which
connection a record is from when `epoch` repeats.

**TradeFeed.** `Trade` is a trade at the exchange, whose match is sent or dropped; `Subscribe` sends
the last trade of each product again as `last_match`; `SendHeartbeat` sends the last trade id.
`RouteNext` routes the head of the wire (`RouteTrade`, `CheckHeartbeat`, `IgnoreHeartbeat`),
`RouteOther` a message of another kind or one for the DLQ (`Dlq`). `RouteTrade` follows the trade's
id and then sends the record, which `Arrives` or `IsLost`, since delivery may fail after `send` has
returned; `SendFails` is a `send` that raises, or a task cancelled in it: the id is followed all the
same. The failures in `RunLoop` are those of other messages. `undelivered` is history. `Bars` is the
view `matches_only`, by the places its records have in the topic. `Gaps`, `CheckedMissed` and
`CheckPasses` are what `check_gaps.py` computes from the topics: operators, since the script has no
state. Its sum over the gaps is the number of the trades inside them (`InGaps`), for gaps do not
overlap.

**BarWindows.** A record has a second (`time`, which window it is in) and a `stamp` (what the
watermark goes by): the trades' are both their own time, a book top's may differ. `Read(p)` is one
record of a partition: into its window, or dropped when the watermark has passed its second.
`EmitWatermark(idle)` takes the least mark of the partitions not idle less `OutOfOrder`, fires what
is complete and writes the bars to both sinks, those of one second in any order. `Checkpoint` saves
the job's variables, what is written to Iceberg among them; `Restart` takes them back, with empty
partition trackers, and leaves `topic` as it is. `Keys(topic)` and the last second written are a
`BarStream`.

**FeatureUpdater.** `NewBar` and `BarAgain` are one iteration of the consumer loop each, with the
whole of `handle`: buffering, high-water marks, pending minute, `flush_pending` over all products,
`emit` with its early returns and its two writes, pruning. `RedisFails` is an iteration in which one
of those writes raises, so that the writes before it have been made and the process ends; `Restart`
is any other end. What it reads is what `BarWindows` shows of the bars job: `bars` are the bars of a
topic that have been read, `table` those of them the job's table has. `Published` is a bar the table
lacks, at or after its last second. `GoBack` is a restart of the job: the tables lose all after a
second of their own, and then any bar may follow, also one the topic never had, behind all that was
read (`inserted`), or none in place of one that was undone. `BarAgain` is any bar again. A bar is
its second: that its numbers may differ when it is written again is left out (the buffer then has
the last ones, as `LastBars` of `BarWindows` has). A row is the sets of seconds its aggregates range
over, and `base`, the bar the first return starts from: two rows with the same sets have the same
numbers. `GoldRow` is gold's row of the minute (`GoldRows`).

**GoldRows.** `FullGrid`, `Joined`, `Window`, `Lag`, `GoldFeatures` and `Label` are the CTEs of
`gold_features.sql`, on the set of seconds a product has bars for.

**GoldBuild.** A refresh is `building` (its INSERT is to be planned), `inserting` (planned on one
snapshot: `rows`), `committed` (done, the reply is under way) or `checking` (`gold_quality`). `Plan`
reads the tables as they are and computes `Grid` per product from what gold has; `Commit` adds the
rows, whatever came in between. `LoseConnection` may leave the INSERT running (`abandoned`), to
commit later or never. `Retried` is `TRINO_RETRY`: the op from its beginning, `MaxRetries` times.
`copy` counts the rows of one minute.

**TimeSplit.** `LoadGold` keeps the rows with enough bars, `Cut`, `Train` and `Test` are
`time_split`: the minute with four fifths of the minutes before it, the rows whose label ends by it,
the rows from it on.

**Promotion.** `Load`, `Gate`, `Register` and `Finish` are one training from await to await of the
registry and Trino; `answered` is whether `incumbent_exists` got an answer, and whether the skill
suffices is any. `Fail` ends a training anywhere, also after its registration took effect, and the
asset's retry is another training.

**PgConnection.** `pg` is `state["pg"]`, a number per connection opened by the process; `broken` are
those whose server side is gone, `closed` those psycopg knows of. A call of `pg_fetch` is at
`connecting` or `querying`; `FetchFails` is its except clause, which clears `pg` whichever
connection it now holds. `hurt` is history: something broke, or the server was down, while the call
ran.

**Scoring.** `score_once` is a step per await: `ReadLatest` (Redis' answer, the check and the mark
in `last_scored`, as far as `pg_conn`), `Connect`, `JoinLabel` (the UPDATE and the coverage check),
`Insert` (predict and INSERT), `Send`. Each can fail (`ReadFails`, `ConnectFails`, `StatementFails`,
`PredictFails`, `ReplyLost`, `SendFails`); the loop catches the exception and goes on with the next
product. After the products, `EndTick`, or `RefreshGauges` through `pg_fetch` and then `Reload`. A
label is known by the row it was taken from, a prediction by its model version. `run` and `rewinds`
are history.

## 3. Runs

| run | checks | shows |
|---|---|---|
| `book_job` | `IInv` (with the types), `WriteThroughComplete`, `ReplayIdentical`, `OfiWithinSnapshot`, `CommittedRowsStay`, `ExactlyOnce`, `EveryMessageCommitted` | the book operator under every interleaving of messages, checkpoints and crashes; everything written is committed, or the job has failed for good |
| `runner_outage` (violation) | `ReconnectsForever` | finding 1 |
| `book_feed` | `EpochBindsInProcess` (with the types), `BookTrue` | over two processes and a record that is lost or too large, no delta meets a foreign snapshot of its own process, and a lossless connection gives the true book |
| `epoch_reuse` (violation) | `EpochBindsDeltas` | finding 2: across processes a delta may meet a foreign snapshot |
| `trade_feed` | `TradeFeedTypeOK`, `BacksOff`, `BarsCountOnce`, `GapsBounded`, `Recovers`, `DropsNoticed` | drops, reconnects, records that never arrive, sends that raise, a malformed message and a process restart: the loop backs off and comes back; a dropped trade is eventually known, the last one too; no trade twice in the bars; `trade_gaps` has every trade never received and none received as a match; `check_gaps.py` finds these and the undelivered ones, and its PASS means the bars are complete between their first and last trade |
| `bar_windows` | `WindowsTypeOK`, `EachRecordOnce`, `DropsOnlyWhenIdle`, `SinksDifferByLateOnly`, `PublishesInOrder`, `BarsFire` | partitions read in any order, found idle at any time, a restart: every record in one bar, one window or too late; how far other partitions were read drops nothing; the bar topic is a `BarStream` and ends with the bars of the table, or with one that a restart undid and whose records are late or still to come; bars fire though a partition is empty |
| `feature_updater` | `WindowsMatchGold`, `RowsWithinGold`, `NothingHeldBack` (with the types), `LatestRewindsOnce` | two products, any order of the two topics, gaps, repeated bars, a restart of the updater, a Redis error at any write, or a restart of the bars job: windows equal gold's once the updater has run for a window's length, but for the bars the bars job moved, never reach outside it, nothing is left waiting, and `latest` goes back only with the first row after a restart |
| `gold` | `GoldTypeOK`, `EachMinuteOnce`, `RowsFinal`, `TestLabelsUnseen`, `CatchesUp` | a scheduled and a manual refresh, a lost connection, retries, two tables that grow apart, a lagging product: each minute once unless INSERTs overlap, none passed over, rows final when built, no label in both halves of a split, all minutes built in the end |
| `gold_backfill` (violation) | `CatchesUp` | finding 4 |
| `promotion` | `PromotionTypeOK`, `OnlyFirstUnskilled`, `SomethingToServe` | two trainings, a registry that is silent or lost at any point: only the first version may lack skill unless they race, and the registry does not stay empty |
| `scoring` | `ScoringTypeOK`, `RecordHasRow`, `SentAtMostOnce`, `FetchSelfHeals`, `PredictionsStay`, `ConnectionHeals` | failures at every await, lost replies, restarts, features written again, new models: a record has its row, nothing is sent twice by one run, predictions and labels stay, and the shared connection heals whoever breaks or replaces it |
| `scoring_lost` (violation) | `EveryRowPredicted` | finding 3 |

Deadlock is not checked: every model stops when its bounds are used up, and the programs stop too
(`GiveUp`, a stopped producer).

### Bounds, and why they are enough

* **BookJob.** One product, three messages, two restarts, three prices, depth 2. The operator is
  keyed, so products meet only in checkpoints; the proofs cover any number of each. The seven
  messages include two epochs, a one-sided snapshot, an empty delta, one that crosses the book and
  one that uncrosses it, and removals of absent levels. Three of them suffice for a delta before its
  snapshot, a book that is crossed and uncrossed, and a snapshot over a book that had levels and a
  quote; a second restart may go back to a checkpoint taken after the first.
* **RunnerOutage.** The real limits: 1023, the largest exponent of a float, and more epochs than it
  takes to get there.
* **BookFeed.** Two processes of two connections: a stale record needs one old and one new
  connection, of one process or of two. One lost or oversize record is enough for a missing snapshot
  and for a missing delta, two changes for a delta after a missing one. The proofs lift all of
  these.
* **TradeFeed.** Three trades: one seen, one dropped or missed, one that shows it, over up to four
  connections in two processes, one record that never arrives, and one message for the DLQ; the
  proofs lift all of these. `MaxExponent = 1` is above what two connections reach, so the overflow
  is seen in `runner_outage` only.
* **BarWindows.** Three partitions, one of them empty, as in `trades.raw`; six records: one out of
  order within `OutOfOrder`, one later than that, two of one second in one partition, and stamps
  that differ from times. One restart goes back to any point before it.
* **FeatureUpdater.** Lengths are scaled: `Minute`, `Long`, `Short`, `Buffer` become 2, 2, 2, 4 in
  place of 60, 3600, 300, 3720 seconds, keeping the relations the code relies on, `Short <= Long`
  and `Long + Minute <= Buffer`: a minute emitted one minute late still has its window. `MCBar` is
  chosen so that a product has a minute with bars in and before its window, other minutes after it,
  and one topic, by a bar of the other product, can run ahead of the other by more than `Buffer`.
  There is one restart, of the updater or of the bars job, which is enough for a row behind a later
  one (`outOfTurn`) and for every way a bar can be moved; more than that is more than TLC finishes
  here. The proofs hold for any number of both, and for all lengths in these relations.
* **Gold.** Seconds stand for minutes (`Minute = 1`), `Long = 1`, `Short = 2`: seven bars give one
  product three minutes, the other, with gaps and a later start, fewer. Two commits per table (up to
  5, up to 6) let a table be complete, behind, or behind by more than the label. `MaxSequence = 4`
  is what the longest build needs, 2 (`gold_backfill`) is less; one retry, one lost connection.
* **Promotion.** One row is too few, two give two different models, three versions: the first, one
  that raced, one after.
* **Scoring.** One product (products share only the connection, which the endpoint shares too), one
  endpoint, two minutes with `Horizon = 1`: one to predict for and one to label it, and back again.
  Breaks, restarts, rewinds and new versions come to two in all (`MaxTrouble`): two breaks hit both
  attempts of a `pg_fetch`, a restart and a new version let a minute be scored twice by different
  models, a rewind and a break a relabelling after a lost reply. Each await fails any number of
  times.

### Fairness

* `BookJob.FairSpec`: a running task reads on, and checkpoints are taken and complete (every 30 s).
  Weak fairness; nothing forces a crash or forbids it.
* `TradeFeed.FeedFairness`: asyncio ends a sleep and fires a timeout, an attempt to connect ends,
  with success unless it is refused, and the loop reads what arrived; heartbeats keep coming on a
  live connection. All of it weak: an outage may refuse every connection, and then the number of
  attempts is used up. There is no fairness on trades, drops or disconnects.
* `BarWindows.WindowsFairness`: the job reads what there is, and again and again emits a watermark
  in which exactly the partitions silent since the start are idle: `scan.watermark.idle-timeout` (5
  s) and the watermark interval. `BarsFire` has as premise that the other partitions keep
  delivering.
* `GoldBuild.GoldFairness`: the bars job commits, the schedule fires, and Trino answers a refresh in
  the end (weak). Connections are lost at most `MaxLost` times; nothing is said of manual refreshes.
* `Promotion.PromotionFairness`: gold grows, the schedule fires (weak); the registry is asked again
  and again and sometimes answers (strong): no outage lasts for good. Any single training may fail
  anywhere.
* `Scoring.FairScoringSpec`: asyncio resumes a coroutine whose await has ended (weak), and the
  gauges are refreshed again and again (strong), as every sixth tick does. No fairness on rows,
  breaks or the server, whose return is the premise of `ConnectionHeals`. That a network call ends
  at all, with an answer or an error, is assumed: the code sets no timeout of its own.

## 4. Findings

1. **The backoff ends the producer** (`runner.py:24`). `base_s * (2**attempt)` is computed before
   the cap; at `attempt = 1024` the integer does not fit a float and OverflowError leaves the loop.
   It takes 1025 lost connections in a row, about 17 hours at the cap. `run` promises to "reconnect
   forever". `ReconnectsForever`.
2. **Epochs repeat after a restart** (`runner.py:45`). If the first snapshot of a new process is not
   delivered, its deltas carry epoch 1 and the consumer, whose book is still that of the old epoch
   1, accepts them. SPEC.md: "`conn_epoch` binds every delta to its snapshot across reconnects".
   `EpochBindsDeltas`.
3. **A failed row is not tried again** (`api.py:105`). `last_scored` is set before the label is
   joined, the prediction stored and the record sent; after a failure in between, the next tick
   returns at once. The module's docstring: "each new (product, as_of) gets a model prediction ...
   written to Postgres and the `predictions` Kafka topic". `EveryRowPredicted`.
4. **A backlog that cannot be built** (`gold_features.sql:44`). The grid is one `sequence()` per
   product, which Trino limits to 10 000 entries, about seven days of minutes; further behind than
   that, the INSERT fails, and so does every later one. `definitions.py`: "rerunning IS the
   backfill, it catches up from wherever the bars tables are". `CatchesUp`.

Met while modelling, and stated here without a run of their own, for each is a limit one of the
passing properties names:

* The two sinks of a bar may differ after a restart (`bars_job.py:326`), though the comment calls
  them "identical rows by construction" (`bars_job.py:153`). A bar goes to Kafka when its window
  fires and to Iceberg with the next checkpoint. If the job restarts in between and reads the
  partitions in another order, its records may be late this time, and Kafka keeps a bar Iceberg
  never gets. `SinksDifferByLateOnly` allows that and no more.
* A bar may come after its minute's row (`features.py:97`). For the same reason the restarted job
  may write a bar the topic never had, of a minute whose row is in Redis. `emit` returns early for
  that minute, while gold computes its row with the bar; SPEC.md wants features that "must match".
  `WindowsMatchGold` leaves out the bars a restart moved, `inserted` and `Undone`.
* The label of a train row may end at the cut, and the features of the test row there, and of those
  of the next hour, are made of the same bars (`data.py:52`). The docstring says such train rows
  "would share bars with test features" and are dropped, the test "no bar can appear on both sides"
  (`test_ml.py:35`). What holds is `TestLabelsUnseen`, about the labels of test rows.
* A trade made while disconnected and repeated only as `last_match` counts as seen
  (`coinbase.py:113`), but is in no bar, though the comment above calls both kinds of gap "worth
  surfacing". `GapsBounded` has `trade_gaps` below what the bars lack, not equal to it.
* A trade whose record is not delivered, or whose `send` raises, is in no counter, for its id was
  followed first (`coinbase.py:75`). `GapsBounded` bounds `trade_gaps` by what was *received*;
  `check_gaps.py`, which reads the topic, finds the others.
* Rows in the hour after a restart lack bars gold has (`features.py:137`), and a bar before a gap
  longer than the buffer's slack is pruned though gold's `lag` uses it (`features.py:91`).
  `WindowsMatchGold` is about rows past that hour, and about `base` within the buffer.
* A row made more than a minute after a later minute of its product was flushed without a row
  (`features.py:85`) may miss bars that were pruned; it takes bars that are read again, far back.
  `WindowsMatchGold` leaves these out by `outOfTurn`.
* Overlapping INSERTs build minutes twice, as the quality check then reports on every run.
  `EachMinuteOnce` excludes them by `overlapped`.
* Two racing trainings may both bootstrap. `OnlyFirstUnskilled` excludes them by `raced`.

## 5. Proofs

The proofs are in seven modules, each of which extends the models it is about; `Extremes` has what
they need to know of maxima and minima.

`BookProofs` begins with lemmas about the book: maxima and minima of bounded sets, the types of
quotes, patched sides and results, that `Apply` keeps a book well-typed and *fresh* (`ApplyType`; a
book without an epoch has no levels and no quote), and that an empty delta leaves the book as it is.

It then proves of `BookJob`, for all sets of products and messages, all prices and any number of
restarts, `Spec => []IInv` and from it `TypeOK`, `WriteThroughComplete`, `ReplayIdentical` and the
refinement `Spec => ExactlyOnce`. None of these is inductive alone. That the cache equals what keyed
state rebuilds says nothing after a restart unless the *checkpointed* state is known to rebuild the
book of the checkpointed offset; and that a replay repeats its rows needs that book to be the one
the first processing had there. So `IInv` adds: `ResultsChained` (each result is `Apply` of the
message to the book before it), `BooksFresh` (every book on the way can be restored from its own
meta), and `StateResumes` (keyed state, now and in both checkpoints, rebuilds the book its offset
leads to). `WriteThroughSound` is the step that carries the weight: writing one result through to a
state that rebuilds a book gives a state that rebuilds the next, also when a delta changed no level
and nothing is written.

For the refinement, `log` and `results` map to themselves: a first processing is a `Consume`,
everything else (a replay, a checkpoint, a restart) a stutter or a `Publish`.

`OfiWithinSnapshot` follows from `ResultsChained` by way of `PrevTopTracked`: `prev_top` is the
quote of the last row since the snapshot, else the first message after which it is not would follow
one after which it is. `CommittedRowsStay` needs that the completed checkpoint is never ahead of the
triggered one, nor that of the operator (`CheckpointsOrdered`).

`RunnerProofs` proves, for every limit, `RunnerTypeOK` and `BacksOff` of the loop (`RunnerInv`: a
sleeping loop has an epoch left, without which `Wake` could leave the range; `LeaveTypes` does the
four ways out at once). Both feeds use it: their steps are steps of the loop or leave it alone.

`BookProofs` ends with `EpochBindsInProcess` and `BookTrue` of the book's feed. The argument: within
a process an epoch names one connection (`EpochsName`), the current one's is ahead of all those
before (`LoopAhead`), and the book's meta names the snapshot it is built on (`BuiltOn`). For
`BookTrue`, `ChainInv` follows the exchange's book through the wire and the topic: each message's
truth is the one before it, patched (`WireChained`, `WireNext`, `WireCurrent`, `TopicChained`), so
the consumer's book is that of the last record (`BookCurrent`) unless its connection is lossy.

`TradeFeedProofs` proves `TradeFeedTypeOK`, `BarsCountOnce` and `GapsBounded`, for any products,
trades, drops, connections and processes. `BarsCountOnce` is about the topic only and holds because
of what is on the wire: an id there is above everything the topic has of its product, properly so if
it is a match's, and `last_match` comes first on its connection (`WireAhead`); what the router
follows is an issued id, at or above all that was sent (`RecordsBehind`, `LastKnown`). `GapsBounded`
bounds a counter, which by itself says nothing of trades. So the invariant says that there *is* a
set of trades with as many elements as `trade_gaps`: known ones, all those never received and none
of those received as a match (`SomeCounted`). `CountMore` is the step that carries the weight: the
ids the router skips are new to the set, all become known, and what it records is not among them. A
trade of the set between two matches is in a gap of `check_gaps.py`, the one between its nearest
neighbours (`InAGap`); and without gaps the ascending ids of the bars go up by one
(`CheckedIsComplete`).

`BarWindowsProofs` proves all safety properties of `BarWindows`, for any partitions, records,
idleness, checkpoints and restarts, and that it implements `BarStream`. A restart makes the
checkpoint the job, so that all that is to hold of a job must hold of both (`Sound`, `Justified`). A
job is sound if it has read exactly the records it holds, each in one place, and if the watermark is
between the seconds that have fired and those that wait: then a bar that fires is of a second that
has none yet, whence `EachRecordOnce`, `TableIsLast` (no bar of the table is followed in the topic
by another one of its product and second), and the order of `PublishesInOrder`. For the other half
of `SinksDifferByLateOnly`, `TopicBars`: a bar in the topic is of records of its product and second,
so that a record of it the table had would make the table's bar the last one. `Justified`: a
partition never left out as idle has a record `OutOfOrder` ahead of the watermark, so that a late
record of it is that far behind a record read before it; the marks start anew with a restart, but
the watermark goes beyond the checkpoint's only with marks of records that were read (`MarksRead`).
For the refinement, windows that fire with bars are a `Publish`, a restart that loses bars of the
last second a `GoBack`, everything else a stutter.

`UpdaterProofs` proves all four properties of the updater, for any products, bars and lengths and
any number of restarts of the updater and of the bars job. The properties compare rows with tables
that a restart of the job takes back; the invariant compares them with the bars read, which only
become more. `RowsFit`: a row has all of those in its windows but the inserted ones, for any other
new bar comes at the end of its topic, and both topics are `Margin` past every row. A new row has
them all because the buffers do. `Kept`: they go back `Buffer` from the latest minute flushed; a row
that is not out of turn is at most one minute behind that, and `Long + Minute <= Buffer` covers its
window (`FeaturesHave`). What gold may then have otherwise is what the table and the bars read
differ by, and the inserted bars (`GoldRowAgrees`). A restart of the updater moves `began` past
every row that is there, and so asks nothing new of it. `LatestKnown` ties
`latest` to `last_as_of` for `LatestRewindsOnce`.

`OfflineProofs` proves of the gold build `GoldTypeOK`, `EachMinuteOnce`, `RowsFinal` and
`TestLabelsUnseen`, for any bars, refreshes and bounds. `GoldInv`: the rows of gold and of every
INSERT planned or abandoned are final (`Final`: none of their bars is still to come); gold's minutes
are all that can be built up to its last one (`SoundTable`); an INSERT's are those from some minute
gold has passed to some other (`SoundBatch`), so that appending them leaves no hole, in whatever
order INSERTs commit; and as long as nothing overlapped there is at most one INSERT and its minutes
are new (`Alone`). `QuantileExists` and `CutExists` show that `time_split` has a cut to choose: a
finite set of minutes has one with four fifths of the others before it.

Of the promotion it proves `PromotionTypeOK` and `OnlyFirstUnskilled`; `UnskilledAlone` says that,
unless somebody raced, a training about to register an unskilled model is the only one about to
register, and the registry is still empty.

`ScoringProofs` proves `ScoringTypeOK`, `FetchSelfHeals`, `RecordHasRow`, `SentAtMostOnce` and
`PredictionsStay`. `ScoringInv` adds: the row in hand is the one marked as scored (`RowInHand`),
records are not ahead of `last_scored` in a run without a rewind (`RecordsBehind`), and no
prediction is by a newer model than the one loaded (`VersionsKnown`). `pg_fetch` heals itself
because an unhurt call is never at its second attempt on a broken connection (`PgInv`).

The proofs assume what the modules' `ASSUME`s say: the bounds are natural numbers, messages have the
message type; finitely many products (of the trades and of the updater), partitions, bars and book
bars; a partition's records are a sequence and their times natural numbers; `None` is no row, no
quote and no trade id; `Margin > 0`, `Short <= Long`, `Long + Minute <= Buffer`.

**Only model-checked:** the liveness properties (`EveryMessageCommitted`, `Recovers`,
`DropsNoticed`, `BarsFire`, `CatchesUp`, `SomethingToServe`, `ConnectionHeals`): proving liveness
under fairness needs `ENABLED`, which is out of this prover's reach. Every invariant, every action
property and both refinements the passing runs check are theorems.

## 6. External behaviour assumed

* A connection is first in, first out; a snapshot comes before the deltas of its connection.
* A heartbeat names a trade only after its match, unless dropped, was sent.
* A Kafka partition keeps a producer's order (idempotence is on), and a record is delivered once or
  not at all. A producer whose delivery fails goes on.
* Flink's checkpoints are consistent cuts. Its source tracks a watermark per partition, a window
  fires when the watermark passes its end, windows fire in the order of their ends (parallelism 1),
  later records are dropped, and a restart rewinds everything but what is in Kafka.
  `PublishesInOrder` shows that a bar topic then is a `BarStream`, in the order of the bars' seconds
  except where a restart goes back. `FeatureUpdater`'s `Published` and `GoBack` are those of
  `BarStream`, for two topics and two products at once, and lose and insert bars as
  `SinksDifferByLateOnly` says of `BarWindows`. They happen where the consumer
  meets them in a topic: `table` is the table as of what has been read, and a restart the consumer
  reaches in one topic before the other is two `GoBack`s.
* A statement of Trino reads one snapshot of each Iceberg table and appends in one commit; appends
  do not conflict. A statement whose client is gone may still commit.
* MLflow's registry numbers versions in the order they are registered; a registration takes effect
  once or not at all, and its reply may be lost.
* A SQL statement of Postgres takes effect once or not at all, and its reply may be lost. Copies of
  a record the Kafka client writes by retrying inside one `send_and_wait` are not counted by
  `SentAtMostOnce`.

## 7. Not modelled

* Metrics and logging (`metrics.py`, `log.py`): counters copied every five seconds. Dashboards and
  deployment, but for the settings the models use.
* `iceberg_maintenance.sql`: compaction and expiry change no row; what they may remove under a
  running commit is Iceberg's protocol.
* Trades without a readable `trade_id`, which are sent on untracked; a DLQ record that is itself too
  large or not delivered; records `book.py` cannot parse.
* Redis' TTL of a row; what the endpoints answer; the model's, the baselines' and the metrics'
  numbers.
* How `check_gaps.py` reads a topic to its end, with its deadlines.

## 8. Left to do

**Serving**: `FeatureUpdater` composed with `Scoring`: every minute scored is labelled, and which
minutes are skipped because a newer one took their place in `pending`.
