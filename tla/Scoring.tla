-------------------------------- MODULE Scoring --------------------------------
(***************************************************************************)
(* The scoring loop of the prediction service (score_once, scoring_loop,   *)
(* maybe_reload_model and lifespan in src/service/api.py).  For each new   *)
(* row of features it joins the row's rv_5m as the label of the prediction *)
(* made Horizon minutes earlier, predicts, stores the prediction and sends *)
(* it to the topic predictions.  Each await is a step of its own, and what *)
(* it waits for may fail; the loop shares its Postgres connection with the *)
(* endpoints (PgConnection).                                               *)
(*                                                                         *)
(* External: the feature updater, which may go back in time after it was   *)
(* restarted; training, which registers versions; Redis, Kafka, Postgres.  *)
(* A statement takes effect once, at commit; its reply may be lost.        *)
(***************************************************************************)
EXTENDS PgConnection, Sequences

CONSTANTS
    Products,       \* PRODUCTS: the products in the order they are scored
    Loop,           \* the scoring loop, one of the coroutines
    Horizon,        \* the minutes from a prediction to its label: 5
    MaxMinute,      \* bound: the minutes of the feature rows
    MaxTrouble      \* bound: breaks, restarts, rewinds and new versions together

Product == {Products[i] : i \in DOMAIN Products}
Minute == 0..MaxMinute
Version == 1..(MaxTrouble + 1)

(* A row of features; covered says whether its bar_count_5m is enough.     *)
FeatureRow == [asOf: Minute, covered: BOOLEAN]

ASSUME ScoringAssumption ==
    /\ Loop \in Coroutine
    /\ {Horizon, MaxMinute, MaxTrouble} \subseteq Nat
    /\ Products \in Seq(Product)
    /\ None \notin FeatureRow

VARIABLES
    latest,         \* features:{product}:latest of each product, or None
    rewinds,        \* how many rows were written that are no newer than the last
    newest,         \* the newest version in the registry
    version,        \* state["model_version"], and with it state["model"]
    lastScored,     \* state["last_scored"]
    predictions,    \* the table predictions, by its primary key
    topic,          \* the records of the topic predictions
    run,            \* which start of the service this is
    loop            \* where the scoring loop is

externalVars == <<latest, rewinds, newest>>
storeVars == <<predictions, topic>>
vars == <<pgVars, externalVars, storeVars, version, lastScored, run, loop>>

(* label_rv is known by the row it was taken from.                         *)
Prediction == [version: Version, label: FeatureRow \union {None}]

(* run is history, and so is rewinds, as it was when the row was read.     *)
Record == [key: Product \X Minute, version: Version, run: Nat, rewinds: Nat]

LoopType ==
    [at: {"read", "connect", "update", "insert", "send", "gauges"},
     turn: 1..(Len(Products) + 1), row: FeatureRow \union {None}, conn: Nat \union {None},
     rewinds: Nat]

ScoringTypeOK ==
    /\ PgTypeOK
    /\ latest \in [Product -> FeatureRow \union {None}]
    /\ rewinds \in 0..MaxTrouble
    /\ newest \in Version
    /\ version \in 1..newest
    /\ lastScored \in [Product -> Minute \union {None}]
    /\ DOMAIN predictions \subseteq Product \X Minute
    /\ \A key \in DOMAIN predictions : predictions[key] \in Prediction
    /\ topic \in Seq(Record)
    /\ run \in 1..(MaxTrouble + 1)
    /\ loop \in LoopType

(* The loop is about to read the row of the product whose turn it is.      *)
Turn(n) == [at |-> "read", turn |-> n, row |-> None, conn |-> None, rewinds |-> 0]

NoneScored == [p \in Product |-> None]

ScoringInit ==
    /\ PgInit
    /\ latest = [p \in Product |-> None]
    /\ rewinds = 0
    /\ newest = 1
    /\ version = 1
    /\ lastScored = NoneScored
    /\ predictions = << >>
    /\ topic = << >>
    /\ run = 1
    /\ loop = Turn(1)

(* The bound on what goes wrong, or changes, in a behaviour.               *)
MoreTrouble == breaks + rewinds + (run - 1) + (newest - 1) < MaxTrouble

-----------------------------------------------------------------------------
(* score_once, from await to await.                                        *)

scored == Products[loop.turn]   \* the product whose turn it is
key == <<scored, loop.row.asOf>>

(* Every way out of score_once, an exception among them, leads here.       *)
NextProduct == loop' = Turn(loop.turn + 1)

(* Whether a row is new; the variant has forgotten the last one.           *)
AlwaysFresh(row) == row # None

Fresh(row) == IF row = None THEN FALSE ELSE lastScored[scored] # row.asOf

(* Redis has answered.  A row not scored yet is marked as scored, and      *)
(* pg_conn asked for a connection.                                         *)
ReadLatest ==
    /\ loop.at = "read"
    /\ loop.turn <= Len(Products)
    /\ \/ /\ ~ Fresh(latest[scored])
          /\ NextProduct
          /\ UNCHANGED lastScored
       \/ /\ Fresh(latest[scored])
          /\ lastScored' = [lastScored EXCEPT ![scored] = latest[scored].asOf]
          /\ loop' = [loop EXCEPT !.at = IF Usable THEN "update" ELSE "connect",
                                  !.row = latest[scored],
                                  !.conn = IF Usable THEN pg ELSE None,
                                  !.rewinds = rewinds]
    /\ UNCHANGED <<pgVars, externalVars, storeVars, version, run>>

ReadFails ==
    /\ loop.at = "read"
    /\ loop.turn <= Len(Products)
    /\ NextProduct
    /\ UNCHANGED <<pgVars, externalVars, storeVars, version, lastScored, run>>

Connect ==
    /\ loop.at = "connect"
    /\ Connected
    /\ loop' = [loop EXCEPT !.at = "update", !.conn = opened + 1]
    /\ UNCHANGED <<fetch, externalVars, storeVars, version, lastScored, run>>

ConnectFails ==
    /\ loop.at = "connect"
    /\ ~ up
    /\ NextProduct
    /\ UNCHANGED <<pgVars, externalVars, storeVars, version, lastScored, run>>

(* UPDATE ... SET label_rv WHERE as_of_ts = as_of - 5m AND label_rv IS     *)
(* NULL; the variant has lost the last condition.                          *)
LabelledAgain ==
    LET due == <<scored, loop.row.asOf - Horizon>>
    IN  IF due \in DOMAIN predictions
        THEN [predictions EXCEPT ![due].label = loop.row] ELSE predictions

Labelled ==
    LET due == <<scored, loop.row.asOf - Horizon>>
    IN  IF due \notin DOMAIN predictions THEN predictions
        ELSE [predictions EXCEPT ![due] =
                 [version |-> @.version, label |-> IF @.label = None THEN loop.row ELSE @.label]]

(* INSERT ... ON CONFLICT DO NOTHING.                                      *)
Inserted ==
    [k \in DOMAIN predictions \union {key} |->
        IF k \in DOMAIN predictions THEN predictions[k]
        ELSE [version |-> version, label |-> None]]

(* The UPDATE has committed; without enough coverage that is all.          *)
JoinLabel ==
    /\ loop.at = "update"
    /\ loop.conn \notin broken
    /\ predictions' = Labelled
    /\ IF loop.row.covered THEN loop' = [loop EXCEPT !.at = "insert"] ELSE NextProduct
    /\ UNCHANGED <<pgVars, externalVars, topic, version, lastScored, run>>

(* The model raises on the row: the label is joined, and that is all.      *)
PredictFails ==
    /\ loop.at = "insert"
    /\ NextProduct
    /\ UNCHANGED <<pgVars, externalVars, storeVars, version, lastScored, run>>

(* The model has predicted, and the INSERT has committed.                  *)
Insert ==
    /\ loop.at = "insert"
    /\ loop.conn \notin broken
    /\ predictions' = Inserted
    /\ loop' = [loop EXCEPT !.at = "send", !.conn = None]
    /\ UNCHANGED <<pgVars, externalVars, topic, version, lastScored, run>>

(* The connection turns out to be broken; the variant carries on.          *)
StatementFailsQuietly ==
    /\ loop.at \in {"update", "insert"}
    /\ loop.conn \in broken
    /\ closed' = closed \union {loop.conn}
    /\ loop' = [loop EXCEPT !.at = "send", !.conn = None]
    /\ UNCHANGED <<pg, opened, broken, up, breaks, fetch, externalVars, storeVars,
                   version, lastScored, run>>

StatementFails ==
    /\ loop.at \in {"update", "insert"}
    /\ loop.conn \in broken
    /\ closed' = closed \union {loop.conn}
    /\ NextProduct
    /\ UNCHANGED <<pg, opened, broken, up, breaks, fetch, externalVars, storeVars,
                   version, lastScored, run>>

(* The statement commits, but the connection breaks before the reply.      *)
ReplyLost ==
    /\ MoreTrouble
    /\ loop.at \in {"update", "insert"}
    /\ loop.conn \notin broken
    /\ Severed(loop.conn)
    /\ predictions' = IF loop.at = "update" THEN Labelled ELSE Inserted
    /\ NextProduct
    /\ UNCHANGED <<externalVars, topic, version, lastScored, run>>

Sent == Append(topic, [key |-> key, version |-> version, run |-> run,
                        rewinds |-> loop.rewinds])

Send ==
    /\ loop.at = "send"
    /\ topic' = Sent
    /\ NextProduct
    /\ UNCHANGED <<pgVars, externalVars, predictions, version, lastScored, run>>

(* send_and_wait raises; the record may have been written all the same.    *)
SendFails ==
    /\ loop.at = "send"
    /\ topic' \in {topic, Sent}
    /\ NextProduct
    /\ UNCHANGED <<pgVars, externalVars, predictions, version, lastScored, run>>

-----------------------------------------------------------------------------
(* The end of a tick: every so many ticks the gauges are refreshed, which  *)
(* reads through pg_fetch, and then, more seldom still, the newest model   *)
(* is loaded, if the registry can be reached.                              *)
EndTick ==
    /\ loop.at = "read"
    /\ loop.turn > Len(Products)
    /\ loop' = Turn(1)
    /\ UNCHANGED <<pgVars, externalVars, storeVars, version, lastScored, run>>

RefreshGauges ==
    /\ loop.at = "read"
    /\ loop.turn > Len(Products)
    /\ BeginFetch(Loop)
    /\ loop' = [loop EXCEPT !.at = "gauges"]
    /\ UNCHANGED <<externalVars, storeVars, version, lastScored, run>>

Reload ==
    /\ loop.at = "gauges"
    /\ fetch[Loop].at \in {"none", "failed"}
    /\ version' \in version..newest
    /\ loop' = Turn(1)
    /\ UNCHANGED <<pgVars, externalVars, storeVars, lastScored, run>>

(* An endpoint is called, and a call of pg_fetch or the server goes on.    *)
Request(c) ==
    /\ c # Loop
    /\ BeginFetch(c)
    /\ UNCHANGED <<externalVars, storeVars, version, lastScored, run, loop>>

FetchStep(c) ==
    /\ FetchNext(c)
    /\ UNCHANGED <<externalVars, storeVars, version, lastScored, run, loop>>

Outage ==
    /\ MoreTrouble
    /\ ServerDown
    /\ UNCHANGED <<externalVars, storeVars, version, lastScored, run, loop>>

Recovery ==
    /\ ServerUp
    /\ UNCHANGED <<externalVars, storeVars, version, lastScored, run, loop>>

(* The process ends, and another one comes up (lifespan).                  *)
Restart ==
    /\ MoreTrouble
    /\ run' = run + 1
    /\ version' = newest
    /\ lastScored' = NoneScored
    /\ loop' = Turn(1)
    /\ ProcessStarted
    /\ UNCHANGED <<externalVars, storeVars>>

(* The feature updater writes a row; training registers a version.         *)
WriteLatest(p, row) ==
    /\ \/ latest[p] = None
          /\ UNCHANGED rewinds
       \/ latest[p] # None
          /\ row.asOf > latest[p].asOf
          /\ UNCHANGED rewinds
       \/ latest[p] # None
          /\ row.asOf <= latest[p].asOf
          /\ MoreTrouble
          /\ rewinds' = rewinds + 1
    /\ latest' = [latest EXCEPT ![p] = row]
    /\ UNCHANGED <<pgVars, newest, storeVars, version, lastScored, run, loop>>

Register ==
    /\ MoreTrouble
    /\ newest' = newest + 1
    /\ UNCHANGED <<pgVars, latest, rewinds, storeVars, version, lastScored, run, loop>>

LoopStep ==
    \/ ReadLatest \/ Connect \/ ConnectFails \/ JoinLabel \/ Insert
    \/ StatementFails \/ Send \/ EndTick \/ RefreshGauges \/ Reload

ScoringNext ==
    \/ LoopStep \/ ReadFails \/ PredictFails \/ ReplyLost \/ SendFails
    \/ \E c \in Coroutine : Request(c)
    \/ \E c \in Coroutine : FetchStep(c)
    \/ Outage
    \/ Recovery
    \/ Restart
    \/ \E p \in Product, row \in FeatureRow : WriteLatest(p, row)
    \/ Register

ScoringSpec == ScoringInit /\ [][ScoringNext]_vars

(* The event loop resumes what can go on, and every sixth tick refreshes   *)
(* the gauges.                                                             *)
ScoringFairness ==
    /\ WF_vars(LoopStep)
    /\ SF_vars(RefreshGauges)
    /\ \A c \in Coroutine : WF_vars(FetchStep(c))

FairScoringSpec == ScoringSpec /\ ScoringFairness

-----------------------------------------------------------------------------
(* A stored prediction stays as it is, and so does its label once joined,  *)
(* through rescoring, a new model, and features that are written again.    *)
PredictionsStay ==
    [][\A k \in DOMAIN predictions :
           /\ k \in DOMAIN predictions'
           /\ predictions'[k].version = predictions[k].version
           /\ predictions[k].label # None => predictions'[k].label = predictions[k].label]_vars

(* Whoever reads a record in the topic finds its row in the table, stored  *)
(* with this model or, if the minute was scored before, an earlier one.    *)
RecordHasRow ==
    \A i \in DOMAIN topic :
        /\ topic[i].key \in DOMAIN predictions
        /\ predictions[topic[i].key].version <= topic[i].version

(* One run of the service sends at most one record for a row of features,  *)
(* a failed send or statement notwithstanding, unless the features went    *)
(* back in time.                                                           *)
SentAtMostOnce ==
    \A i, j \in DOMAIN topic :
        topic[i].key = topic[j].key /\ topic[i].run = topic[j].run
            /\ topic[i].rewinds = topic[j].rewinds => i = j

(* The module's docstring: "each new (product, as_of) gets a model         *)
(* prediction plus the persistence baseline, written to Postgres and the   *)
(* predictions Kafka topic".  A covered row that is marked as scored, and  *)
(* is not being scored, has its prediction and its record.                 *)
EveryRowPredicted ==
    \A p \in Product :
        LET row == latest[p]
            current == loop.at \in {"connect", "update", "insert", "send"} /\ scored = p
        IN  ~ current /\ row # None =>
                (row.covered /\ lastScored[p] = row.asOf =>
                     /\ <<p, row.asOf>> \in DOMAIN predictions
                     /\ \E i \in DOMAIN topic : topic[i].key = <<p, row.asOf>>)

=============================================================================
