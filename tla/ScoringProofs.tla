----------------------------- MODULE ScoringProofs -----------------------------
(***************************************************************************)
(* Theorems about the prediction service, for any products, coroutines,    *)
(* minutes and number of breaks, restarts, rewinds and models: a call of   *)
(* pg_fetch heals itself, a record has its row, a row of features is sent  *)
(* once per run, and what is stored stays.                                 *)
(***************************************************************************)
EXTENDS Scoring, TLAPS

(* A call nothing has hurt: the server is up, and the connection of its    *)
(* second attempt, which it opened, is sound.                              *)
Sound(c) ==
    ~ fetch[c].hurt =>
        /\ fetch[c].at \in {"connecting", "querying"} => up
        /\ fetch[c].at = "querying" /\ fetch[c].attempt = 1 => fetch[c].conn \notin broken
        /\ fetch[c].at # "failed"

PgInv ==
    /\ PgTypeOK
    /\ \A c \in Coroutine : fetch[c].at = "connecting" => fetch[c].conn = None
    /\ \A c \in Coroutine : Sound(c)

LEMMA PgInvHeals == PgInv => FetchSelfHeals
  BY DEF PgInv, Sound, FetchSelfHeals

LEMMA PgInitInv == PgInit => PgInv
<1> SUFFICES ASSUME PgInit PROVE PgInv
  OBVIOUS
<1>1. up \in BOOLEAN
  BY Zenon DEF PgInit
<1>2. /\ pg = 1 /\ opened = 1 /\ broken = {} /\ closed = {} /\ breaks = 0
      /\ fetch = [c \in Coroutine |-> NoFetch]
  BY DEF PgInit
<1>3. NoFetch \in FetchType
  BY DEF NoFetch, FetchType
<1> QED
  BY <1>1, <1>2, <1>3, PgAssumption DEF PgInv, PgTypeOK, Sound, NoFetch

-----------------------------------------------------------------------------
(* The steps of the connection.                                            *)

(* A call of pg_fetch begins: only one that finds no connection connects.  *)
LEMMA BeginFetchKeeps == ASSUME PgInv, NEW c \in Coroutine, BeginFetch(c) PROVE PgInv'
<1>1. /\ fetch' = [fetch EXCEPT ![c] = Attempt(0, ~ up)]
      /\ UNCHANGED <<pg, opened, broken, closed, up, breaks>>
  BY DEF BeginFetch
<1>2. /\ Attempt(0, ~ up) \in FetchType
      /\ Attempt(0, ~ up).at = "connecting" => Attempt(0, ~ up).conn = None
      /\ Attempt(0, ~ up).at \in {"connecting", "querying"}
      /\ Attempt(0, ~ up).attempt = 0
      /\ ~ Attempt(0, ~ up).hurt => up
  <2>1. (~ up) \in BOOLEAN
    BY Zenon DEF PgInv, PgTypeOK
  <2>2. pg \in Nat \union {None}
    BY DEF PgInv, PgTypeOK
  <2>3. Attempt(0, ~ up) \in FetchType
    BY <2>1, <2>2 DEF Attempt, FetchType
  <2> QED
    BY <2>3 DEF Attempt
<1>3. PgTypeOK'
  BY <1>1, <1>2 DEF PgInv, PgTypeOK
<1>4. \A d \in Coroutine : fetch'[d] = IF d = c THEN Attempt(0, ~ up) ELSE fetch[d]
  BY <1>1 DEF PgInv, PgTypeOK
<1> QED
  BY <1>1, <1>2, <1>3, <1>4 DEF PgInv, Sound

(* A connection is opened, and nobody's call is moved on by it.            *)
LEMMA ConnectedKeeps == ASSUME PgInv, Connected, UNCHANGED fetch PROVE PgInv'
<1>1. PgTypeOK'
  BY DEF PgInv, PgTypeOK, Connected
<1> QED
  BY <1>1 DEF PgInv, Sound, Connected

LEMMA FetchConnectedKeeps == ASSUME PgInv, NEW c \in Coroutine, FetchConnected(c) PROVE PgInv'
<1> DEFINE moved == [at |-> "querying", attempt |-> fetch[c].attempt, conn |-> opened + 1,
                     hurt |-> fetch[c].hurt]
<1>1. /\ fetch' = [fetch EXCEPT ![c] = moved] /\ fetch[c].at = "connecting"
      /\ up /\ opened' = opened + 1 /\ pg' = opened + 1
      /\ UNCHANGED <<broken, closed, up, breaks>>
  BY DEF FetchConnected, Connected
<1>2. /\ moved \in FetchType /\ moved.at = "querying" /\ moved.conn = opened + 1
      /\ opened + 1 \notin broken
  <2>1. fetch[c] \in FetchType /\ opened \in Nat /\ broken \subseteq 1..opened
    BY DEF PgInv, PgTypeOK
  <2>2. moved \in FetchType /\ moved.at = "querying" /\ moved.conn = opened + 1
    BY <2>1 DEF FetchType
  <2> QED
    BY <2>1, <2>2
<1>3. PgTypeOK'
  BY <1>1, <1>2 DEF PgInv, PgTypeOK
<1>4. \A d \in Coroutine : fetch'[d] = IF d = c THEN moved ELSE fetch[d]
  BY <1>1 DEF PgInv, PgTypeOK
<1> HIDE DEF moved
<1> QED
  BY <1>1, <1>2, <1>3, <1>4 DEF PgInv, Sound

LEMMA FetchAnsweredKeeps == ASSUME PgInv, NEW c \in Coroutine, FetchAnswered(c) PROVE PgInv'
<1>1. /\ fetch' = [fetch EXCEPT ![c] = NoFetch]
      /\ UNCHANGED <<pg, opened, broken, closed, up, breaks>>
  BY DEF FetchAnswered
<1>2. NoFetch \in FetchType /\ NoFetch.at = "none"
  BY DEF NoFetch, FetchType
<1>3. PgTypeOK'
  BY <1>1, <1>2 DEF PgInv, PgTypeOK
<1>4. \A d \in Coroutine : fetch'[d] = IF d = c THEN NoFetch ELSE fetch[d]
  BY <1>1 DEF PgInv, PgTypeOK
<1> QED
  BY <1>1, <1>2, <1>3, <1>4 DEF PgInv, Sound

(* An attempt fails.  The second one can only if the call was hurt, and a  *)
(* first one that did so while connecting was hurt, too.                   *)
LEMMA FetchFailsKeeps == ASSUME PgInv, NEW c \in Coroutine, FetchFails(c) PROVE PgInv'
<1> DEFINE moved == [at |-> IF fetch[c].attempt = 0 THEN "connecting" ELSE "failed",
                     attempt |-> 1, conn |-> None, hurt |-> fetch[c].hurt]
<1>1. /\ fetch' = [fetch EXCEPT ![c] = moved] /\ FetchError(c)
      /\ pg' = None /\ closed' = closed \union ({fetch[c].conn} \ {None})
      /\ UNCHANGED <<opened, broken, up, breaks>>
  BY DEF FetchFails
<1>2. fetch[c] \in FetchType
  BY DEF PgInv, PgTypeOK
<1>3. moved \in FetchType
  BY <1>2 DEF FetchType
<1>4. closed' \subseteq broken
  <2>1. fetch[c].conn = None \/ fetch[c].conn \in broken
    BY <1>1 DEF FetchError, PgInv
  <2>2. closed \subseteq broken
    BY DEF PgInv, PgTypeOK
  <2> QED
    BY <1>1, <2>1, <2>2
<1>5. PgTypeOK'
  BY <1>1, <1>3, <1>4 DEF PgInv, PgTypeOK
<1>6. \A d \in Coroutine : fetch'[d] = IF d = c THEN moved ELSE fetch[d]
  BY <1>1 DEF PgInv, PgTypeOK
<1>7. moved.at # "querying" /\ moved.hurt = fetch[c].hurt /\ moved.conn = None
  OBVIOUS
<1>8. ~ fetch[c].hurt => up /\ moved.at = "connecting"
  BY <1>1, <1>2 DEF FetchError, PgInv, Sound, FetchType
<1> HIDE DEF moved
<1> QED
  BY <1>1, <1>5, <1>6, <1>7, <1>8 DEF PgInv, Sound

(* Something breaks: every call that is on its way counts as hurt.         *)
LEMMA HurtFetchesTyped ==
  ASSUME PgInv
  PROVE  /\ HurtFetches \in [Coroutine -> FetchType]
         /\ \A c \in Coroutine :
                /\ HurtFetches[c].at = fetch[c].at /\ HurtFetches[c].conn = fetch[c].conn
                /\ HurtFetches[c].attempt = fetch[c].attempt
                /\ fetch[c].at \in {"connecting", "querying"} => HurtFetches[c].hurt
                /\ fetch[c].at \notin {"connecting", "querying"} =>
                       HurtFetches[c].hurt = fetch[c].hurt
<1>1. ASSUME NEW c \in Coroutine PROVE fetch[c] \in FetchType
  BY DEF PgInv, PgTypeOK
<1>2. ASSUME NEW c \in Coroutine
      PROVE  /\ [fetch[c] EXCEPT !.hurt = TRUE] \in FetchType
             /\ [fetch[c] EXCEPT !.hurt = TRUE].at = fetch[c].at
             /\ [fetch[c] EXCEPT !.hurt = TRUE].conn = fetch[c].conn
             /\ [fetch[c] EXCEPT !.hurt = TRUE].attempt = fetch[c].attempt
             /\ [fetch[c] EXCEPT !.hurt = TRUE].hurt = TRUE
  BY <1>1 DEF FetchType
<1> QED
  BY <1>1, <1>2 DEF HurtFetches

LEMMA ServerDownKeeps == ASSUME PgInv, ServerDown PROVE PgInv'
<1>1. PgTypeOK'
  <2>1. up' \in BOOLEAN
    BY Zenon DEF ServerDown
  <2> QED
    BY <2>1, HurtFetchesTyped, PgAssumption DEF PgInv, PgTypeOK, ServerDown
<1> QED
  BY <1>1, HurtFetchesTyped DEF PgInv, Sound, ServerDown

LEMMA ServerUpKeeps == ASSUME PgInv, ServerUp PROVE PgInv'
<1>1. up' \in BOOLEAN /\ up'
  BY Zenon DEF ServerUp
<1> QED
  BY <1>1 DEF PgInv, PgTypeOK, Sound, ServerUp

LEMMA SeveredKeeps ==
  ASSUME PgInv, NEW conn \in 1..opened, Severed(conn) PROVE PgInv'
<1>1. PgTypeOK'
  BY HurtFetchesTyped, PgAssumption DEF PgInv, PgTypeOK, Severed
<1> QED
  BY <1>1, HurtFetchesTyped DEF PgInv, Sound, Severed

LEMMA ProcessStartedKeeps == ASSUME PgInv, ProcessStarted PROVE PgInv'
<1>1. /\ pg' = 1 /\ opened' = 1 /\ broken' = {} /\ closed' = {} /\ UNCHANGED <<up, breaks>>
      /\ fetch' = [c \in Coroutine |-> NoFetch]
  BY DEF ProcessStarted
<1>2. NoFetch \in FetchType /\ NoFetch.at = "none"
  BY DEF NoFetch, FetchType
<1> QED
  BY <1>1, <1>2 DEF PgInv, PgTypeOK, Sound

(* psycopg learns that a connection is gone.                               *)
LEMMA LearnsKeeps ==
  ASSUME PgInv, NEW conn \in broken, closed' = closed \union {conn},
         UNCHANGED <<pg, opened, broken, up, breaks, fetch>>
  PROVE  PgInv'
  BY DEF PgInv, PgTypeOK, Sound

LEMMA FetchNextKeeps == ASSUME PgInv, NEW c \in Coroutine, FetchNext(c) PROVE PgInv'
  BY FetchConnectedKeeps, FetchAnsweredKeeps, FetchFailsKeeps DEF FetchNext

LEMMA PgStutters == ASSUME PgInv, UNCHANGED pgVars PROVE PgInv'
  BY DEF PgInv, PgTypeOK, Sound, pgVars

-----------------------------------------------------------------------------
(* The invariant of the service.                                           *)

StateTypes ==
    /\ latest \in [Product -> FeatureRow \union {None}]
    /\ rewinds \in 0..MaxTrouble
    /\ newest \in Version
    /\ version \in 1..newest
    /\ lastScored \in [Product -> Minute \union {None}]
    /\ DOMAIN predictions \subseteq Product \X Minute
    /\ \A k \in DOMAIN predictions : predictions[k] \in Prediction
    /\ topic \in Seq(Record)
    /\ run \in 1..(MaxTrouble + 1)
    /\ loop \in LoopType

InHand == loop.at \in {"connect", "update", "insert", "send"}

(* While a row is scored it is the last one scored, no newer than the      *)
(* product's latest unless the features went back, it has no record of     *)
(* this run yet, and before its record it has its row.                     *)
RowInHand ==
    InHand =>
        /\ loop.turn <= Len(Products)
        /\ loop.row \in FeatureRow
        /\ lastScored[scored] = loop.row.asOf
        /\ loop.rewinds <= rewinds
        /\ loop.rewinds = rewinds =>
               latest[scored] # None /\ loop.row.asOf <= latest[scored].asOf
        /\ \A i \in DOMAIN topic :
               ~ (topic[i].key = key /\ topic[i].run = run /\ topic[i].rewinds = loop.rewinds)
        /\ loop.at \in {"update", "insert"} => loop.conn \in 1..opened
        /\ loop.at = "send" => key \in DOMAIN predictions

(* A record of this run that was made since the features last went back is *)
(* no newer than the last row scored, which is no newer than the latest.   *)
RecordsBehind ==
    \A i \in DOMAIN topic :
        /\ topic[i].run <= run
        /\ topic[i].rewinds <= rewinds
        /\ topic[i].run = run /\ topic[i].rewinds = rewinds =>
               LET p == topic[i].key[1]
               IN  /\ lastScored[p] # None /\ latest[p] # None
                   /\ topic[i].key[2] <= lastScored[p]
                   /\ lastScored[p] <= latest[p].asOf

(* No row was stored by a model newer than the one that is loaded.         *)
VersionsKnown == \A k \in DOMAIN predictions : predictions[k].version <= version

ScoringInv ==
    /\ PgInv
    /\ StateTypes
    /\ RowInHand
    /\ RecordsBehind
    /\ VersionsKnown
    /\ RecordHasRow
    /\ SentAtMostOnce

LEMMA ScoringInvTypes == ScoringInv => ScoringTypeOK
  BY DEF ScoringInv, PgInv, StateTypes, ScoringTypeOK

(* What is common to the steps that follow.                                *)
LEMMA TurnTyped ==
  ASSUME NEW n \in 1..(Len(Products) + 1)
  PROVE  Turn(n) \in LoopType /\ Turn(n).at = "read"
<1>1. Len(Products) \in Nat
  BY ScoringAssumption
<1> QED
  BY <1>1 DEF Turn, LoopType

LEMMA KeyTyped ==
  ASSUME ScoringInv, InHand
  PROVE  /\ Len(Products) \in Nat /\ loop.turn \in 1..Len(Products)
         /\ scored \in Product /\ loop.row \in FeatureRow /\ loop.row.asOf \in Minute
         /\ key \in Product \X Minute
<1>1. /\ Len(Products) \in Nat /\ DOMAIN Products = 1..Len(Products)
  BY ScoringAssumption
<1>2. loop.turn \in 1..Len(Products) /\ loop.row \in FeatureRow
  BY <1>1 DEF ScoringInv, StateTypes, RowInHand, LoopType
<1>3. scored \in Product
  BY <1>1, <1>2 DEF scored, Product
<1>4. loop.row.asOf \in Minute
  BY <1>2 DEF FeatureRow
<1> QED
  BY <1>1, <1>2, <1>3, <1>4 DEF key

(* A record's parts.                                                       *)
LEMMA RecordTyped ==
  ASSUME StateTypes, NEW i \in DOMAIN topic
  PROVE  /\ topic[i] \in Record /\ topic[i].run \in Nat /\ topic[i].rewinds \in Nat
         /\ topic[i].version \in Nat /\ topic[i].key \in Product \X Minute
         /\ topic[i].key[1] \in Product /\ topic[i].key[2] \in Nat
<1>1. topic[i] \in Record
  BY DEF StateTypes
<1>2. /\ topic[i].run \in Nat /\ topic[i].rewinds \in Nat
      /\ topic[i].version \in Version /\ topic[i].key \in Product \X Minute
  BY <1>1 DEF Record
<1> QED
  BY <1>1, <1>2, ScoringAssumption DEF Version, Minute

(* Steps that touch only the connection.                                   *)
LEMMA ConnectionStepKeeps ==
  ASSUME ScoringInv, PgInv', opened <= opened',
         UNCHANGED <<externalVars, storeVars, version, lastScored, run, loop>>
  PROVE  ScoringInv'
<1>1. UNCHANGED <<latest, rewinds, newest, predictions, topic, version, lastScored, run, loop>>
  BY DEF externalVars, storeVars
<1>2. StateTypes' /\ RecordsBehind' /\ VersionsKnown' /\ RecordHasRow' /\ SentAtMostOnce'
  BY <1>1
     DEF ScoringInv, StateTypes, RecordsBehind, VersionsKnown, RecordHasRow, SentAtMostOnce
<1>3. RowInHand'
  <2>1. opened \in Nat /\ opened' \in Nat
    BY DEF ScoringInv, PgInv, PgTypeOK
  <2>2. loop.conn \in 1..opened => loop.conn \in 1..opened'
    BY <2>1
  <2> QED
    BY <1>1, <2>2 DEF ScoringInv, RowInHand, InHand, scored, key
<1> QED
  BY <1>2, <1>3 DEF ScoringInv

(* Steps that leave the row in hand, if there is one, and only add rows.   *)
RowsGrow ==
    \A k \in DOMAIN predictions :
        k \in DOMAIN predictions' /\ predictions'[k].version = predictions[k].version

LEMMA LoopMovesOn ==
  ASSUME ScoringInv, PgInv', StateTypes', loop'.at \notin {"connect", "update", "insert", "send"},
         UNCHANGED <<externalVars, topic, lastScored, run>>, RowsGrow, VersionsKnown'
  PROVE  ScoringInv'
<1>1. UNCHANGED <<latest, rewinds, newest>>
  BY DEF externalVars
<1>2. RecordsBehind' /\ SentAtMostOnce'
  BY <1>1 DEF ScoringInv, RecordsBehind, SentAtMostOnce
<1>3. RecordHasRow'
  BY DEF ScoringInv, RecordHasRow, RowsGrow
<1>4. RowInHand'
  BY DEF RowInHand, InHand
<1> QED
  BY <1>2, <1>3, <1>4 DEF ScoringInv

(* The two statements: what they store is a table of predictions that      *)
(* keeps every row and, from the model on, what it said.                   *)
LEMMA LabelledTyped ==
  ASSUME ScoringInv, InHand
  PROVE  /\ DOMAIN Labelled = DOMAIN predictions
         /\ \A k \in DOMAIN predictions :
               /\ Labelled[k] \in Prediction
               /\ Labelled[k].version = predictions[k].version
               /\ predictions[k].label # None => Labelled[k].label = predictions[k].label
<1> DEFINE due == <<scored, loop.row.asOf - Horizon>>
           joined == [version |-> predictions[due].version,
                      label |-> IF predictions[due].label = None THEN loop.row
                                ELSE predictions[due].label]
<1>1. Labelled = IF due \notin DOMAIN predictions THEN predictions
                 ELSE [predictions EXCEPT ![due] = joined]
  BY DEF Labelled
<1>2. \A k \in DOMAIN predictions : predictions[k] \in Prediction
  BY DEF ScoringInv, StateTypes
<1>3. loop.row \in FeatureRow
  BY KeyTyped
<1>4. due \in DOMAIN predictions =>
        /\ joined \in Prediction /\ joined.version = predictions[due].version
        /\ predictions[due].label # None => joined.label = predictions[due].label
  BY <1>2, <1>3 DEF Prediction
<1> HIDE DEF due, joined
<1> QED
  BY <1>1, <1>2, <1>4

LEMMA InsertedTyped ==
  ASSUME ScoringInv, InHand
  PROVE  /\ DOMAIN Inserted = DOMAIN predictions \union {key}
         /\ \A k \in DOMAIN Inserted : Inserted[k] \in Prediction
         /\ \A k \in DOMAIN predictions : Inserted[k] = predictions[k]
         /\ \A k \in DOMAIN Inserted \ DOMAIN predictions : Inserted[k].version = version
<1> DEFINE fresh == [version |-> version, label |-> None]
<1>1. Inserted = [k \in DOMAIN predictions \union {key} |->
                     IF k \in DOMAIN predictions THEN predictions[k] ELSE fresh]
  BY DEF Inserted
<1>2. \A k \in DOMAIN predictions : predictions[k] \in Prediction
  BY DEF ScoringInv, StateTypes
<1>3. fresh \in Prediction /\ fresh.version = version
  <2>1. version \in Version
    BY ScoringAssumption DEF ScoringInv, StateTypes, Version
  <2> QED
    BY <2>1 DEF Prediction
<1> HIDE DEF fresh
<1> QED
  BY <1>1, <1>2, <1>3

-----------------------------------------------------------------------------
(* The steps of the service.                                               *)

(* A row is taken in hand: unless the features went back, every record of  *)
(* this run is of an older row.                                            *)
LEMMA ReadLatestKeeps == ASSUME ScoringInv, ReadLatest PROVE ScoringInv'
<1>1. /\ loop.at = "read" /\ loop.turn \in 1..Len(Products) /\ Len(Products) \in Nat
      /\ UNCHANGED <<pgVars, latest, rewinds, newest, predictions, topic, version, run>>
  BY ScoringAssumption
     DEF ScoringInv, StateTypes, LoopType, ReadLatest, externalVars, storeVars
<1>2. PgInv' /\ UNCHANGED opened
  BY <1>1, PgStutters DEF ScoringInv, pgVars
<1>3. CASE NextProduct /\ UNCHANGED lastScored
  <2>1. loop' \in LoopType /\ loop'.at = "read"
    BY <1>1, <1>3, TurnTyped DEF NextProduct
  <2>2. StateTypes'
    BY <1>1, <1>3, <2>1 DEF ScoringInv, StateTypes
  <2> QED
    BY <1>1, <1>2, <1>3, <2>1, <2>2, LoopMovesOn
       DEF ScoringInv, VersionsKnown, externalVars, RowsGrow
<1>4. CASE /\ Fresh(latest[scored])
           /\ lastScored' = [lastScored EXCEPT ![scored] = latest[scored].asOf]
           /\ loop' = [loop EXCEPT !.at = IF Usable THEN "update" ELSE "connect",
                                   !.row = latest[scored],
                                   !.conn = IF Usable THEN pg ELSE None,
                                   !.rewinds = rewinds]
  <2> DEFINE row == latest[scored]
  <2>1. scored \in Product
    BY <1>1, ScoringAssumption DEF scored, Product
  <2>2. row # None /\ lastScored[scored] # row.asOf
    BY <1>4 DEF Fresh
  <2>3. row \in FeatureRow /\ row.asOf \in Minute /\ Minute \subseteq Nat
    <3>1. row \in FeatureRow
      BY <2>1, <2>2 DEF ScoringInv, StateTypes
    <3> QED
      BY <3>1, ScoringAssumption DEF FeatureRow, Minute
  <2>4. /\ loop' \in LoopType /\ loop'.at \in {"update", "connect"} /\ loop'.row = row
        /\ loop'.turn = loop.turn /\ loop'.rewinds = rewinds
        /\ loop'.at = "update" => loop'.conn \in 1..opened
    <3>1. loop \in LoopType /\ rewinds \in Nat
      BY ScoringAssumption DEF ScoringInv, StateTypes
    <3>2. pg \in Nat \union {None}
      BY DEF ScoringInv, PgInv, PgTypeOK
    <3>3. Usable => pg \in 1..opened
      BY DEF ScoringInv, PgInv, PgTypeOK, Usable
    <3> HIDE DEF row
    <3>4. loop' = [at |-> IF Usable THEN "update" ELSE "connect", turn |-> loop.turn,
                   row |-> row, conn |-> IF Usable THEN pg ELSE None, rewinds |-> rewinds]
      BY <1>4, <3>1 DEF LoopType, row
    <3>5. loop.turn \in 1..(Len(Products) + 1)
      BY <3>1 DEF LoopType
    <3> QED
      BY <2>3, <3>1, <3>2, <3>3, <3>4, <3>5 DEF LoopType
  <2>5. /\ lastScored' \in [Product -> Minute \union {None}]
        /\ lastScored'[scored] = row.asOf
        /\ \A p \in Product : p # scored => lastScored'[p] = lastScored[p]
    BY <1>4, <2>1, <2>3 DEF ScoringInv, StateTypes
  <2>6. StateTypes'
    BY <1>1, <2>4, <2>5 DEF ScoringInv, StateTypes
  <2>7. scored' = scored /\ key' = <<scored, row.asOf>>
    BY <2>4 DEF scored, key
  <2>8. ASSUME NEW i \in DOMAIN topic, topic[i].run = run, topic[i].rewinds = rewinds,
               topic[i].key[1] = scored
        PROVE  topic[i].key[2] < row.asOf
    <3>1. /\ lastScored[scored] # None /\ topic[i].key[2] <= lastScored[scored]
          /\ lastScored[scored] <= row.asOf
      BY <2>8 DEF ScoringInv, RecordsBehind
    <3>2. lastScored[scored] \in Nat
      BY <2>1, <2>3, <3>1 DEF ScoringInv, StateTypes
    <3>3. topic[i].key[2] \in Nat /\ row.asOf \in Nat
      BY <2>3, RecordTyped DEF ScoringInv
    <3> HIDE DEF row
    <3> QED
      BY <2>2, <3>1, <3>2, <3>3
  <2> HIDE DEF row
  <2>9. row.asOf \in Nat /\ rewinds \in Nat
    <3>1. row.asOf \in Nat
      BY <2>3
    <3>2. rewinds \in Nat
      BY ScoringAssumption DEF ScoringInv, StateTypes
    <3> QED
      BY <3>1, <3>2
  <2>10. RowInHand'
    <3>1. \A i \in DOMAIN topic : ~ (topic[i].key = <<scored, row.asOf>>
             /\ topic[i].run = run /\ topic[i].rewinds = rewinds)
      <4>1. ASSUME NEW i \in DOMAIN topic, topic[i].key = <<scored, row.asOf>>,
                   topic[i].run = run, topic[i].rewinds = rewinds
            PROVE  FALSE
        <5>1. topic[i].key[1] = scored /\ topic[i].key[2] = row.asOf
          BY <4>1
        <5>2. topic[i].key[2] < row.asOf
          BY <2>8, <4>1, <5>1
        <5> QED
          BY <2>9, <5>1, <5>2
      <4> QED
        BY <4>1
    <3>2. latest'[scored] = row
      BY <1>1 DEF row
    <3> QED
      BY <1>1, <1>2, <2>2, <2>3, <2>4, <2>5, <2>7, <2>9, <3>1, <3>2 DEF RowInHand, InHand
  <2>11. RecordsBehind'
    <3>1. ASSUME NEW i \in DOMAIN topic, topic[i].run = run, topic[i].rewinds = rewinds
          PROVE  LET p == topic[i].key[1]
                 IN  /\ lastScored'[p] # None /\ latest[p] # None
                     /\ topic[i].key[2] <= lastScored'[p]
                     /\ lastScored'[p] <= latest[p].asOf
      <4>1. CASE topic[i].key[1] = scored
        <5>1. topic[i].key[2] < row.asOf /\ topic[i].key[2] \in Nat
          BY <2>8, <3>1, <4>1, RecordTyped DEF ScoringInv
        <5>2. row.asOf # None
          BY <2>9, PgAssumption
        <5> QED
          BY <2>2, <2>5, <2>9, <4>1, <5>1, <5>2 DEF row
      <4>2. CASE topic[i].key[1] # scored
        <5>1. topic[i].key[1] \in Product
          BY RecordTyped DEF ScoringInv
        <5> QED
          BY <2>5, <3>1, <4>2, <5>1 DEF ScoringInv, RecordsBehind
      <4> QED
        BY <4>1, <4>2
    <3> QED
      BY <1>1, <3>1 DEF ScoringInv, RecordsBehind
  <2>12. VersionsKnown' /\ RecordHasRow' /\ SentAtMostOnce'
    BY <1>1 DEF ScoringInv, VersionsKnown, RecordHasRow, SentAtMostOnce
  <2> QED
    BY <1>2, <2>6, <2>10, <2>11, <2>12 DEF ScoringInv
<1> QED
  BY <1>3, <1>4 DEF ReadLatest

(* The row in hand is given up, or done with, or the tick is over.         *)
LEMMA NextProductTyped ==
  ASSUME ScoringInv, InHand, NextProduct PROVE loop' \in LoopType /\ loop'.at = "read"
<1>1. loop.turn + 1 \in 1..(Len(Products) + 1)
  BY KeyTyped
<1> QED
  BY <1>1, TurnTyped DEF NextProduct

LEMMA GivesUpKeeps ==
  ASSUME ScoringInv, InHand, PgInv', NextProduct,
         UNCHANGED <<externalVars, storeVars, version, lastScored, run>>
  PROVE  ScoringInv'
<1>1. loop' \in LoopType /\ loop'.at = "read"
  BY NextProductTyped
<1>2. StateTypes' /\ RowsGrow /\ VersionsKnown'
  BY <1>1 DEF ScoringInv, StateTypes, VersionsKnown, RowsGrow, externalVars, storeVars
<1> QED
  BY <1>1, <1>2, LoopMovesOn DEF storeVars

LEMMA ReadFailsKeeps == ASSUME ScoringInv, ReadFails PROVE ScoringInv'
<1>1. loop.turn + 1 \in 1..(Len(Products) + 1)
  BY ScoringAssumption DEF ScoringInv, StateTypes, LoopType, ReadFails
<1>2. loop' \in LoopType /\ loop'.at = "read"
  BY <1>1, TurnTyped DEF ReadFails, NextProduct
<1>3. StateTypes' /\ RowsGrow /\ VersionsKnown' /\ PgInv'
  BY <1>2, PgStutters
     DEF ScoringInv, StateTypes, VersionsKnown, RowsGrow, ReadFails, externalVars, storeVars
<1> QED
  BY <1>2, <1>3, LoopMovesOn DEF ReadFails, storeVars

LEMMA ConnectFailsKeeps == ASSUME ScoringInv, ConnectFails PROVE ScoringInv'
  BY PgStutters, GivesUpKeeps DEF ConnectFails, InHand, ScoringInv

LEMMA PredictFailsKeeps == ASSUME ScoringInv, PredictFails PROVE ScoringInv'
  BY PgStutters, GivesUpKeeps DEF PredictFails, InHand, ScoringInv

LEMMA StatementFailsKeeps == ASSUME ScoringInv, StatementFails PROVE ScoringInv'
<1>1. PgInv'
  BY LearnsKeeps DEF StatementFails, ScoringInv
<1> QED
  BY <1>1, GivesUpKeeps DEF StatementFails, InHand

(* The loop goes on to its next await with the row it has in hand.         *)
LEMMA RowStaysInHand ==
  ASSUME ScoringInv, InHand, loop' \in LoopType, loop'.turn = loop.turn, loop'.row = loop.row,
         loop'.rewinds = loop.rewinds, opened \in Nat, opened' \in Nat, opened <= opened',
         loop'.at \in {"update", "insert"} => loop'.conn \in 1..opened',
         loop'.at = "send" => key \in DOMAIN predictions',
         UNCHANGED <<externalVars, topic, version, lastScored, run>>
  PROVE  RowInHand'
<1>1. UNCHANGED <<latest, rewinds, newest>>
  BY DEF externalVars
<1>2. scored' = scored /\ key' = key
  BY DEF scored, key
<1> QED
  BY <1>1, <1>2 DEF ScoringInv, RowInHand, InHand

LEMMA ConnectKeeps == ASSUME ScoringInv, Connect PROVE ScoringInv'
<1>1. /\ Connected /\ UNCHANGED <<fetch, latest, rewinds, newest, predictions, topic>>
      /\ UNCHANGED <<version, lastScored, run>> /\ loop.at = "connect"
      /\ loop' = [loop EXCEPT !.at = "update", !.conn = opened + 1]
  BY DEF Connect, externalVars, storeVars
<1>2. PgInv'
  BY <1>1, ConnectedKeeps DEF ScoringInv
<1>3. opened \in Nat /\ opened' = opened + 1
  BY <1>1 DEF ScoringInv, PgInv, PgTypeOK, Connected
<1>4. loop \in LoopType
  BY DEF ScoringInv, StateTypes
<1>5. /\ loop' \in LoopType /\ loop'.at = "update" /\ loop'.conn = opened + 1
      /\ loop'.turn = loop.turn /\ loop'.row = loop.row /\ loop'.rewinds = loop.rewinds
  <2>1. loop' = [at |-> "update", turn |-> loop.turn, row |-> loop.row, conn |-> opened + 1,
                 rewinds |-> loop.rewinds]
    BY <1>1, <1>4 DEF LoopType
  <2>2. opened + 1 \in Nat
    BY <1>3
  <2> QED
    BY <1>4, <2>1, <2>2 DEF LoopType
<1>6. StateTypes' /\ RecordsBehind' /\ VersionsKnown' /\ RecordHasRow' /\ SentAtMostOnce'
  BY <1>1, <1>5
     DEF ScoringInv, StateTypes, RecordsBehind, VersionsKnown, RecordHasRow, SentAtMostOnce
<1>7. RowInHand'
  BY <1>1, <1>3, <1>5, RowStaysInHand DEF InHand, externalVars
<1> QED
  BY <1>2, <1>6, <1>7 DEF ScoringInv

(* The label is joined: to a row, if there is one, that keeps its version. *)
LEMMA JoinLabelKeeps == ASSUME ScoringInv, JoinLabel PROVE ScoringInv'
<1>1. /\ loop.at = "update" /\ predictions' = Labelled
      /\ UNCHANGED <<pgVars, latest, rewinds, newest, topic, version, lastScored, run>>
  BY DEF JoinLabel, externalVars
<1>2. InHand /\ PgInv' /\ UNCHANGED opened
  BY <1>1, PgStutters DEF InHand, ScoringInv, pgVars
<1>3. RowsGrow /\ DOMAIN predictions' = DOMAIN predictions
      /\ \A k \in DOMAIN predictions' : predictions'[k] \in Prediction
  BY <1>1, <1>2, LabelledTyped DEF RowsGrow
<1>4. VersionsKnown'
  BY <1>1, <1>2, <1>3, LabelledTyped DEF ScoringInv, VersionsKnown
<1>5. CASE NextProduct
  <2>1. loop' \in LoopType /\ loop'.at = "read"
    BY <1>2, <1>5, NextProductTyped
  <2>2. StateTypes'
    BY <1>1, <1>3, <2>1 DEF ScoringInv, StateTypes
  <2> QED
    BY <1>1, <1>2, <1>3, <1>4, <2>1, <2>2, LoopMovesOn DEF externalVars
<1>6. CASE loop' = [loop EXCEPT !.at = "insert"]
  <2>1. loop \in LoopType
    BY DEF ScoringInv, StateTypes
  <2>2. /\ loop' \in LoopType /\ loop'.at = "insert" /\ loop'.conn = loop.conn
        /\ loop'.turn = loop.turn /\ loop'.row = loop.row /\ loop'.rewinds = loop.rewinds
    BY <1>6, <2>1 DEF LoopType
  <2>3. StateTypes' /\ RecordsBehind' /\ SentAtMostOnce'
    BY <1>1, <1>3, <2>2 DEF ScoringInv, StateTypes, RecordsBehind, SentAtMostOnce
  <2>4. RecordHasRow'
    BY <1>1, <1>3 DEF ScoringInv, RecordHasRow, RowsGrow
  <2>5. opened \in Nat /\ loop.conn \in 1..opened
    BY <1>1, <1>2 DEF ScoringInv, PgInv, PgTypeOK, RowInHand
  <2>6. RowInHand'
    BY <1>1, <1>2, <2>2, <2>5, RowStaysInHand DEF externalVars
  <2> QED
    BY <1>2, <1>4, <2>3, <2>4, <2>6 DEF ScoringInv
<1> QED
  BY <1>5, <1>6 DEF JoinLabel

(* The prediction is stored, unless the minute has one already.            *)
LEMMA InsertedGrows ==
  ASSUME ScoringInv, InHand, predictions' = Inserted, UNCHANGED version
  PROVE  /\ RowsGrow /\ VersionsKnown' /\ key \in DOMAIN predictions'
         /\ DOMAIN predictions' \subseteq Product \X Minute
         /\ \A k \in DOMAIN predictions' : predictions'[k] \in Prediction
<1>1. key \in Product \X Minute /\ DOMAIN predictions \subseteq Product \X Minute
  BY KeyTyped DEF ScoringInv, StateTypes
<1>2. version \in Nat
  BY ScoringAssumption DEF ScoringInv, StateTypes, Version
<1> QED
  BY <1>1, <1>2, InsertedTyped DEF ScoringInv, RowsGrow, VersionsKnown

LEMMA InsertKeeps == ASSUME ScoringInv, Insert PROVE ScoringInv'
<1>1. /\ loop.at = "insert" /\ predictions' = Inserted
      /\ UNCHANGED <<pgVars, latest, rewinds, newest, topic, version, lastScored, run>>
      /\ loop' = [loop EXCEPT !.at = "send", !.conn = None]
  BY DEF Insert, externalVars
<1>2. InHand /\ PgInv' /\ UNCHANGED opened /\ opened \in Nat
  BY <1>1, PgStutters DEF InHand, ScoringInv, PgInv, PgTypeOK, pgVars
<1>3. loop \in LoopType
  BY DEF ScoringInv, StateTypes
<1>4. /\ loop' \in LoopType /\ loop'.at = "send"
      /\ loop'.turn = loop.turn /\ loop'.row = loop.row /\ loop'.rewinds = loop.rewinds
  BY <1>1, <1>3 DEF LoopType
<1>5. /\ RowsGrow /\ VersionsKnown' /\ key \in DOMAIN predictions'
      /\ DOMAIN predictions' \subseteq Product \X Minute
      /\ \A k \in DOMAIN predictions' : predictions'[k] \in Prediction
  BY <1>1, <1>2, InsertedGrows
<1>6. StateTypes' /\ RecordsBehind' /\ SentAtMostOnce'
  BY <1>1, <1>4, <1>5 DEF ScoringInv, StateTypes, RecordsBehind, SentAtMostOnce
<1>7. RecordHasRow'
  BY <1>1, <1>5 DEF ScoringInv, RecordHasRow, RowsGrow
<1>8. RowInHand'
  BY <1>1, <1>2, <1>4, <1>5, RowStaysInHand DEF externalVars
<1> QED
  BY <1>2, <1>5, <1>6, <1>7, <1>8 DEF ScoringInv

LEMMA ReplyLostKeeps == ASSUME ScoringInv, ReplyLost PROVE ScoringInv'
<1>1. /\ loop.at \in {"update", "insert"} /\ Severed(loop.conn) /\ NextProduct
      /\ UNCHANGED <<latest, rewinds, newest, topic, version, lastScored, run>>
      /\ predictions' = IF loop.at = "update" THEN Labelled ELSE Inserted
  BY DEF ReplyLost, externalVars
<1>2. InHand
  BY <1>1 DEF InHand
<1>3. PgInv'
  BY <1>1, <1>2, SeveredKeeps DEF ScoringInv, RowInHand
<1>4. loop' \in LoopType /\ loop'.at = "read"
  BY <1>1, <1>2, NextProductTyped
<1>5. /\ RowsGrow /\ VersionsKnown'
      /\ DOMAIN predictions' \subseteq Product \X Minute
      /\ \A k \in DOMAIN predictions' : predictions'[k] \in Prediction
  <2>1. CASE predictions' = Labelled
    BY <1>1, <1>2, <2>1, LabelledTyped DEF ScoringInv, StateTypes, RowsGrow, VersionsKnown
  <2>2. CASE predictions' = Inserted
    BY <1>1, <1>2, <2>2, InsertedGrows
  <2> QED
    BY <1>1, <2>1, <2>2
<1>6. StateTypes'
  BY <1>1, <1>4, <1>5 DEF ScoringInv, StateTypes
<1> QED
  BY <1>1, <1>3, <1>4, <1>5, <1>6, LoopMovesOn DEF externalVars

(* The record is sent: of a row that is stored, and that has no record of  *)
(* this run.                                                               *)
LEMMA SentKeeps ==
  ASSUME ScoringInv, loop.at = "send", topic' = Sent, NextProduct,
         UNCHANGED <<pgVars, externalVars, predictions, version, lastScored, run>>
  PROVE  ScoringInv'
<1> DEFINE record == [key |-> key, version |-> version, run |-> run, rewinds |-> loop.rewinds]
<1>1. /\ InHand /\ PgInv' /\ topic' = Append(topic, record)
      /\ UNCHANGED <<latest, rewinds, newest>>
  BY PgStutters DEF InHand, ScoringInv, Sent, externalVars
<1>2. loop' \in LoopType /\ loop'.at = "read"
  BY <1>1, NextProductTyped
<1>3. /\ version \in Version /\ version \in Nat /\ run \in Nat /\ loop.rewinds \in Nat
      /\ key \in Product \X Minute
  BY <1>1, KeyTyped, ScoringAssumption DEF ScoringInv, StateTypes, Version, LoopType
<1>4. /\ record \in Record /\ record.key = key /\ record.version = version
      /\ record.run = run /\ record.rewinds = loop.rewinds
  BY <1>3 DEF Record
<1> HIDE DEF record
<1>5. /\ topic' \in Seq(Record) /\ DOMAIN topic' = DOMAIN topic \union {Len(topic) + 1}
      /\ \A i \in DOMAIN topic : topic'[i] = topic[i]
      /\ topic'[Len(topic) + 1] = record
  BY <1>1, <1>4 DEF ScoringInv, StateTypes
<1>6. StateTypes'
  BY <1>1, <1>2, <1>5 DEF ScoringInv, StateTypes
<1>7. RowInHand' /\ VersionsKnown'
  BY <1>2 DEF ScoringInv, RowInHand, InHand, VersionsKnown
<1>8. RecordHasRow'
  BY <1>1, <1>4, <1>5 DEF ScoringInv, RecordHasRow, RowInHand, VersionsKnown
<1>9. SentAtMostOnce'
  BY <1>1, <1>4, <1>5 DEF ScoringInv, SentAtMostOnce, RowInHand
<1>10. RecordsBehind'
  <2>1. key[1] = scored /\ key[2] = loop.row.asOf
    BY DEF key
  <2>2. /\ loop.row.asOf \in Nat /\ loop.row.asOf # None /\ rewinds \in Nat
    BY <1>1, KeyTyped, ScoringAssumption, PgAssumption DEF ScoringInv, StateTypes, Minute
  <2>3. /\ lastScored[scored] = loop.row.asOf /\ loop.rewinds <= rewinds
        /\ loop.rewinds = rewinds =>
               latest[scored] # None /\ loop.row.asOf <= latest[scored].asOf
    BY <1>1 DEF ScoringInv, RowInHand
  <2> QED
    BY <1>1, <1>3, <1>4, <1>5, <2>1, <2>2, <2>3 DEF ScoringInv, RecordsBehind
<1> QED
  BY <1>1, <1>6, <1>7, <1>8, <1>9, <1>10 DEF ScoringInv

LEMMA SendKeeps == ASSUME ScoringInv, Send \/ SendFails PROVE ScoringInv'
<1>1. CASE topic' = Sent
  BY <1>1, SentKeeps DEF Send, SendFails
<1>2. CASE topic' = topic
  BY <1>2, GivesUpKeeps, PgStutters DEF ScoringInv, Send, SendFails, InHand, storeVars
<1> QED
  BY <1>1, <1>2 DEF Send, SendFails

(* The end of a tick.  A model that is loaded is no older than the last.   *)
LEMMA EndTickKeeps == ASSUME ScoringInv, EndTick \/ RefreshGauges \/ Reload PROVE ScoringInv'
<1>1. 1 \in 1..(Len(Products) + 1)
  BY ScoringAssumption
<1>2. UNCHANGED <<latest, rewinds, newest, predictions, topic, lastScored, run>> /\ RowsGrow
  BY DEF EndTick, RefreshGauges, Reload, externalVars, storeVars, RowsGrow
<1>3. version' \in version..newest
  BY DEF EndTick, RefreshGauges, Reload, ScoringInv, StateTypes
<1>4. PgInv'
  BY BeginFetchKeeps, PgStutters, ScoringAssumption
     DEF ScoringInv, EndTick, RefreshGauges, Reload
<1>5. loop' \in LoopType /\ loop'.at \in {"read", "gauges"}
  <2>1. CASE loop' = Turn(1)
    BY <1>1, <2>1, TurnTyped
  <2>2. CASE loop' = [loop EXCEPT !.at = "gauges"]
    BY <2>2 DEF ScoringInv, StateTypes, LoopType
  <2> QED
    BY <2>1, <2>2 DEF EndTick, RefreshGauges, Reload
<1>6. version \in Nat /\ newest \in Nat /\ version' \in 1..newest /\ version <= version'
  BY <1>3, ScoringAssumption DEF ScoringInv, StateTypes, Version
<1>7. VersionsKnown'
  <2>1. \A k \in DOMAIN predictions : predictions[k].version \in Nat
    BY ScoringAssumption DEF ScoringInv, StateTypes, Prediction, Version
  <2> QED
    BY <1>2, <1>6, <2>1 DEF ScoringInv, VersionsKnown
<1>8. StateTypes'
  BY <1>2, <1>5, <1>6 DEF ScoringInv, StateTypes
<1> QED
  BY <1>2, <1>4, <1>5, <1>7, <1>8, LoopMovesOn DEF externalVars

(* Endpoints, calls of pg_fetch and the server.                            *)
LEMMA SharedConnectionKeeps ==
  ASSUME ScoringInv,
         \/ \E c \in Coroutine : Request(c) \/ FetchStep(c)
         \/ Outage \/ Recovery
  PROVE  ScoringInv'
<1>1. UNCHANGED <<externalVars, storeVars, version, lastScored, run, loop>>
  BY DEF Request, FetchStep, Outage, Recovery
<1>2. PgInv'
  BY BeginFetchKeeps, FetchNextKeeps, ServerDownKeeps, ServerUpKeeps
     DEF ScoringInv, Request, FetchStep, Outage, Recovery
<1>3. opened' \in {opened, opened + 1} /\ opened \in Nat
  <2>1. opened \in Nat
    BY DEF ScoringInv, PgInv, PgTypeOK
  <2> QED
    BY <2>1 DEF Request, FetchStep, Outage, Recovery, BeginFetch, FetchNext, FetchConnected,
                Connected, FetchAnswered, FetchFails, ServerDown, ServerUp
<1> QED
  BY <1>1, <1>2, <1>3, ConnectionStepKeeps

(* A new run has no records yet.                                           *)
LEMMA RestartKeeps == ASSUME ScoringInv, Restart PROVE ScoringInv'
<1>1. /\ run' = run + 1 /\ version' = newest /\ lastScored' = NoneScored /\ loop' = Turn(1)
      /\ UNCHANGED <<latest, rewinds, newest, predictions, topic>>
      /\ breaks + rewinds + (run - 1) + (newest - 1) < MaxTrouble
  BY DEF Restart, externalVars, storeVars, MoreTrouble
<1>2. PgInv'
  BY ProcessStartedKeeps DEF ScoringInv, Restart
<1>3. /\ run \in Nat /\ breaks \in Nat /\ rewinds \in Nat /\ MaxTrouble \in Nat
      /\ newest \in Nat \ {0} /\ version \in 1..newest /\ run \in 1..(MaxTrouble + 1)
  BY ScoringAssumption, PgAssumption
     DEF ScoringInv, StateTypes, Version, PgInv, PgTypeOK
<1>4. loop' \in LoopType /\ loop'.at = "read"
  BY <1>1, TurnTyped, ScoringAssumption
<1>5. StateTypes'
  <2>1. run' \in 1..(MaxTrouble + 1) /\ version' \in 1..newest
    BY <1>1, <1>3
  <2>2. lastScored' \in [Product -> Minute \union {None}]
    BY <1>1 DEF NoneScored
  <2> QED
    BY <1>1, <1>4, <2>1, <2>2 DEF ScoringInv, StateTypes
<1>6. RowInHand'
  BY <1>4 DEF RowInHand, InHand
<1>7. RecordsBehind'
  <2>1. \A i \in DOMAIN topic : topic[i].run <= run /\ topic[i].run \in Nat
    BY RecordTyped DEF ScoringInv, RecordsBehind
  <2> QED
    BY <1>1, <1>3, <2>1 DEF ScoringInv, RecordsBehind
<1>8. VersionsKnown'
  <2>1. \A k \in DOMAIN predictions : predictions[k].version \in Nat
    BY ScoringAssumption DEF ScoringInv, StateTypes, Prediction, Version
  <2> QED
    BY <1>1, <1>3, <2>1 DEF ScoringInv, VersionsKnown
<1>9. RecordHasRow' /\ SentAtMostOnce'
  BY <1>1 DEF ScoringInv, RecordHasRow, SentAtMostOnce
<1> QED
  BY <1>2, <1>5, <1>6, <1>7, <1>8, <1>9 DEF ScoringInv

(* The feature updater goes on, or back; then no record is of its time.    *)
LEMMA WriteLatestKeeps ==
  ASSUME ScoringInv, NEW p \in Product, NEW row \in FeatureRow, WriteLatest(p, row)
  PROVE  ScoringInv'
<1>1. /\ latest' = [latest EXCEPT ![p] = row]
      /\ UNCHANGED <<pgVars, newest, predictions, topic, version, lastScored, run, loop>>
  BY DEF WriteLatest, storeVars
<1>2. row.asOf \in Nat /\ rewinds \in Nat /\ MaxTrouble \in Nat
  BY ScoringAssumption DEF FeatureRow, Minute, ScoringInv, StateTypes
<1>3. /\ row # None /\ latest'[p] = row
      /\ \A q \in Product : q # p => latest'[q] = latest[q]
      /\ latest' \in [Product -> FeatureRow \union {None}]
  BY <1>1, ScoringAssumption DEF ScoringInv, StateTypes
<1>4. \/ UNCHANGED rewinds /\ latest[p] = None
      \/ UNCHANGED rewinds /\ latest[p] # None /\ latest[p].asOf < row.asOf
      \/ /\ rewinds' = rewinds + 1
         /\ breaks + rewinds + (run - 1) + (newest - 1) < MaxTrouble
  <2>1. latest[p] # None => latest[p].asOf \in Nat
    BY ScoringAssumption DEF ScoringInv, StateTypes, FeatureRow, Minute
  <2> QED
    BY <1>2, <2>1 DEF WriteLatest, MoreTrouble
<1>5. rewinds' \in 0..MaxTrouble /\ rewinds <= rewinds'
  <2>1. breaks \in Nat /\ run \in Nat \ {0} /\ newest \in Nat \ {0}
    BY ScoringAssumption, PgAssumption
       DEF ScoringInv, StateTypes, Version, PgInv, PgTypeOK
  <2>2. rewinds \in 0..MaxTrouble
    BY DEF ScoringInv, StateTypes
  <2> QED
    BY <1>2, <1>4, <2>1, <2>2
<1>6. StateTypes'
  BY <1>1, <1>3, <1>5 DEF ScoringInv, StateTypes
<1>7. PgInv' /\ UNCHANGED opened
  BY <1>1, PgStutters DEF ScoringInv, pgVars
<1>8. RowInHand'
  <2> SUFFICES ASSUME InHand PROVE RowInHand'
    BY <1>1 DEF RowInHand, InHand
  <2>1. scored' = scored /\ key' = key /\ scored \in Product /\ loop.row.asOf \in Nat
    BY <1>1, KeyTyped, ScoringAssumption DEF scored, key, Minute
  <2>2. loop.rewinds \in Nat /\ loop.rewinds <= rewinds
    BY DEF ScoringInv, StateTypes, RowInHand, LoopType
  <2>3. loop.rewinds = rewinds' =>
          latest'[scored] # None /\ loop.row.asOf <= latest'[scored].asOf
    <3> SUFFICES ASSUME loop.rewinds = rewinds'
                 PROVE  latest'[scored] # None /\ loop.row.asOf <= latest'[scored].asOf
      OBVIOUS
    <3>1. rewinds' = rewinds
      BY <1>2, <1>4, <2>2
    <3>2. latest[scored] # None /\ loop.row.asOf <= latest[scored].asOf
      BY <3>1 DEF ScoringInv, RowInHand
    <3>3. latest[scored].asOf \in Nat
      BY <2>1, <3>2, ScoringAssumption DEF ScoringInv, StateTypes, FeatureRow, Minute
    <3> QED
      BY <1>2, <1>3, <1>4, <2>1, <3>1, <3>2, <3>3
  <2>4. loop.rewinds <= rewinds'
    BY <1>2, <1>5, <2>2
  <2> QED
    BY <1>1, <1>7, <2>1, <2>3, <2>4 DEF ScoringInv, RowInHand, InHand
<1>9. RecordsBehind'
  <2> SUFFICES ASSUME NEW i \in DOMAIN topic
               PROVE  /\ topic[i].run <= run
                      /\ topic[i].rewinds <= rewinds'
                      /\ topic[i].run = run /\ topic[i].rewinds = rewinds' =>
                             LET q == topic[i].key[1]
                             IN  /\ lastScored[q] # None /\ latest'[q] # None
                                 /\ topic[i].key[2] <= lastScored[q]
                                 /\ lastScored[q] <= latest'[q].asOf
    BY <1>1 DEF RecordsBehind
  <2>1. /\ topic[i].run <= run /\ topic[i].rewinds <= rewinds /\ topic[i].rewinds \in Nat
        /\ topic[i].key[1] \in Product
    BY RecordTyped DEF ScoringInv, RecordsBehind
  <2>2. topic[i].rewinds <= rewinds'
    BY <1>2, <1>4, <2>1
  <2>3. ASSUME topic[i].run = run, topic[i].rewinds = rewinds'
        PROVE  LET q == topic[i].key[1]
               IN  /\ lastScored[q] # None /\ latest'[q] # None
                   /\ topic[i].key[2] <= lastScored[q]
                   /\ lastScored[q] <= latest'[q].asOf
    <3>1. rewinds' = rewinds
      BY <1>2, <1>4, <2>1, <2>3
    <3>2. LET q == topic[i].key[1]
          IN  /\ lastScored[q] # None /\ latest[q] # None
              /\ topic[i].key[2] <= lastScored[q]
              /\ lastScored[q] <= latest[q].asOf
      BY <2>3, <3>1 DEF ScoringInv, RecordsBehind
    <3>3. CASE topic[i].key[1] = p
      <4>1. lastScored[p] \in Nat /\ latest[p].asOf \in Nat
        BY <3>2, <3>3, ScoringAssumption DEF ScoringInv, StateTypes, FeatureRow, Minute
      <4>2. latest[p].asOf < row.asOf
        BY <1>2, <1>4, <3>1, <3>2, <3>3
      <4> QED
        BY <1>2, <1>3, <3>2, <3>3, <4>1, <4>2
    <3>4. CASE topic[i].key[1] # p
      BY <1>3, <2>1, <3>2, <3>4
    <3> QED
      BY <3>3, <3>4
  <2> QED
    BY <2>1, <2>2, <2>3
<1>10. VersionsKnown' /\ RecordHasRow' /\ SentAtMostOnce'
  BY <1>1 DEF ScoringInv, VersionsKnown, RecordHasRow, SentAtMostOnce
<1> QED
  BY <1>6, <1>7, <1>8, <1>9, <1>10 DEF ScoringInv

LEMMA RegisterKeeps == ASSUME ScoringInv, Register PROVE ScoringInv'
<1>1. /\ newest' = newest + 1
      /\ UNCHANGED <<pgVars, latest, rewinds, predictions, topic, version, lastScored, run, loop>>
      /\ breaks + rewinds + (run - 1) + (newest - 1) < MaxTrouble
  BY DEF Register, storeVars, MoreTrouble
<1>2. /\ run \in Nat \ {0} /\ breaks \in Nat /\ rewinds \in Nat /\ MaxTrouble \in Nat
      /\ newest \in Nat \ {0} /\ version \in 1..newest
  BY ScoringAssumption, PgAssumption
     DEF ScoringInv, StateTypes, Version, PgInv, PgTypeOK
<1>3. newest' \in Version /\ version \in 1..newest'
  BY <1>1, <1>2 DEF Version
<1>4. StateTypes' /\ VersionsKnown' /\ RecordHasRow' /\ SentAtMostOnce' /\ RecordsBehind'
  BY <1>1, <1>3
     DEF ScoringInv, StateTypes, VersionsKnown, RecordHasRow, SentAtMostOnce, RecordsBehind
<1>5. PgInv' /\ UNCHANGED opened
  BY <1>1, PgStutters DEF ScoringInv, pgVars
<1>6. RowInHand'
  BY <1>1, <1>5 DEF ScoringInv, RowInHand, InHand, scored, key
<1> QED
  BY <1>4, <1>5, <1>6 DEF ScoringInv

LEMMA ScoringStutters == ASSUME ScoringInv, UNCHANGED vars PROVE ScoringInv'
<1>1. PgInv' /\ UNCHANGED opened
  BY PgStutters DEF ScoringInv, vars, pgVars
<1> QED
  BY <1>1, ConnectionStepKeeps DEF vars, ScoringInv, PgInv, PgTypeOK

-----------------------------------------------------------------------------
LEMMA ScoringInitInv == ScoringInit => ScoringInv
<1> SUFFICES ASSUME ScoringInit PROVE ScoringInv
  OBVIOUS
<1>1. PgInv
  BY PgInitInv DEF ScoringInit
<1>2. loop \in LoopType /\ loop.at = "read"
  BY TurnTyped, ScoringAssumption DEF ScoringInit
<1>3. StateTypes
  BY <1>2, ScoringAssumption DEF ScoringInit, StateTypes, NoneScored, Version
<1> QED
  BY <1>1, <1>2, <1>3
     DEF ScoringInit, ScoringInv, RowInHand, InHand, RecordsBehind, VersionsKnown,
         RecordHasRow, SentAtMostOnce

LEMMA ScoringStepInv == ASSUME ScoringInv, [ScoringNext]_vars PROVE ScoringInv'
<1>1. CASE LoopStep
  BY <1>1, ReadLatestKeeps, ConnectKeeps, ConnectFailsKeeps, JoinLabelKeeps, InsertKeeps,
     StatementFailsKeeps, SendKeeps, EndTickKeeps DEF LoopStep
<1>2. CASE ReadFails \/ PredictFails \/ ReplyLost \/ SendFails
  BY <1>2, ReadFailsKeeps, PredictFailsKeeps, ReplyLostKeeps, SendKeeps
<1>3. CASE (\E c \in Coroutine : Request(c) \/ FetchStep(c)) \/ Outage \/ Recovery
  BY <1>3, SharedConnectionKeeps
<1>4. CASE Restart \/ Register
  BY <1>4, RestartKeeps, RegisterKeeps
<1>5. CASE \E p \in Product, row \in FeatureRow : WriteLatest(p, row)
  BY <1>5, WriteLatestKeeps
<1>6. CASE UNCHANGED vars
  BY <1>6, ScoringStutters
<1> QED
  BY <1>1, <1>2, <1>3, <1>4, <1>5, <1>6 DEF ScoringNext

(* The service's invariant holds whatever fails, restarts or goes back in  *)
(* time: score_once, scoring_loop, maybe_reload_model, pg_conn, pg_fetch.  *)
THEOREM ScoringInvariance == ScoringSpec => []ScoringInv
<1>1. ScoringInit => ScoringInv
  BY ScoringInitInv
<1>2. ScoringInv /\ [ScoringNext]_vars => ScoringInv'
  BY ScoringStepInv
<1> QED
  BY <1>1, <1>2, PTL DEF ScoringSpec

(* The service's state stays within its types: api.py's state dict, the    *)
(* table and the topic predictions.                                        *)
THEOREM ScoringTypes == ScoringSpec => []ScoringTypeOK
  BY ScoringInvariance, ScoringInvTypes, PTL

(* pg_fetch's promise: no call fails unless something broke while it ran,  *)
(* however many coroutines share state["pg"].                              *)
THEOREM FetchAlwaysSelfHeals == ScoringSpec => []FetchSelfHeals
<1>1. ScoringInv => FetchSelfHeals
  BY PgInvHeals DEF ScoringInv
<1> QED
  BY <1>1, ScoringInvariance, PTL

(* A record of the topic predictions has its row in the table, by this     *)
(* model or an earlier one (score_once sends last).                        *)
THEOREM RecordAlwaysHasRow == ScoringSpec => []RecordHasRow
<1>1. ScoringInv => RecordHasRow
  BY DEF ScoringInv
<1> QED
  BY <1>1, ScoringInvariance, PTL

(* One run of the service sends a row of features at most once, unless the *)
(* features go back in time (state["last_scored"]).                        *)
THEOREM AlwaysSentAtMostOnce == ScoringSpec => []SentAtMostOnce
<1>1. ScoringInv => SentAtMostOnce
  BY DEF ScoringInv
<1> QED
  BY <1>1, ScoringInvariance, PTL

(* A stored prediction, and a label once joined, stay as they are: DO      *)
(* NOTHING and WHERE label_rv IS NULL.                                     *)
THEOREM PredictionsAlwaysStay == ScoringSpec => PredictionsStay
<1> DEFINE Stay ==
      \A k \in DOMAIN predictions :
          /\ k \in DOMAIN predictions'
          /\ predictions'[k].version = predictions[k].version
          /\ predictions[k].label # None => predictions'[k].label = predictions[k].label
<1>1. ASSUME ScoringInv, [ScoringNext]_vars PROVE Stay
  <2>1. CASE UNCHANGED predictions
    BY <2>1
  <2>2. CASE predictions' = Labelled /\ InHand
    BY <1>1, <2>2, LabelledTyped
  <2>3. CASE predictions' = Inserted /\ InHand
    BY <1>1, <2>3, InsertedTyped
  <2>4. \/ UNCHANGED predictions
        \/ InHand /\ predictions' \in {Labelled, Inserted}
    BY <1>1
       DEF ScoringNext, LoopStep, vars, storeVars, InHand, ReadLatest, ReadFails, Connect,
           ConnectFails, JoinLabel, PredictFails, Insert, StatementFails, ReplyLost, Send,
           SendFails, EndTick, RefreshGauges, Reload, Request, FetchStep, Outage, Recovery, Restart,
           WriteLatest, Register
  <2> QED
    BY <2>1, <2>2, <2>3, <2>4
<1>2. ScoringInv /\ [ScoringNext]_vars => [Stay]_vars
  BY <1>1
<1> QED
  BY <1>2, ScoringInvariance, PTL DEF ScoringSpec, PredictionsStay

=============================================================================
