-------------------------------- MODULE BookJob --------------------------------
(***************************************************************************)
(* The book operator of the bars job (BookStateFn in src/flink/bars_job.py)*)
(* under Flink's checkpointing: a per-product cache of the order book,     *)
(* written through to keyed state as messages are applied, and rebuilt     *)
(* from the keyed state of the last completed checkpoint after a failure.  *)
(*                                                                         *)
(* Flink is external: a checkpoint is the state at one message boundary    *)
(* (the operator is single-threaded, parallelism 1), it completes later,   *)
(* and a failure restarts the job from the last completed one at most      *)
(* RestartAttempts times (restart-strategy in docker-compose.yml).         *)
(***************************************************************************)
EXTENDS OrderBook, SequencesExt

CONSTANTS
    Product,            \* the products, one partition of book.l2.raw each
    Msg,                \* the messages the producer may write
    RestartAttempts,    \* restart-strategy.fixed-delay.attempts
    MaxLog              \* bound: how many messages a partition gets

ASSUME MsgAssumption == Msg \subseteq MsgType
ASSUME RestartAssumption == RestartAttempts \in Nat
ASSUME MaxLogAssumption == MaxLog \in Nat

VARIABLES
    log,        \* [Product -> Seq(Msg)]: what the producer has written
    books,      \* self.books: a book, or None before the key's first message
    keyed,      \* bids_state, asks_state and meta_state of each product
    offset,     \* how many messages of each partition the source has read
    rows,       \* what the operator handed downstream for each message read
    completed,  \* the last completed checkpoint: [keyed, offset, rows]
    triggered,  \* a checkpoint taken but not completed, or None
    restarts,   \* restarts used up
    status,     \* "running", or "failed" when no restart is left
    results     \* history: the result of each message when first processed

vars == <<log, books, keyed, offset, rows, completed, triggered, restarts, status, results>>

(* Everything that changes when a message is processed.                    *)
operatorVars == <<books, keyed, offset, rows, results>>
checkpointVars == <<completed, triggered, restarts, status>>

Stream == INSTANCE BookStream WITH
        NewBook <- NewBook,
        Apply <- Apply,
        log <- log,
        results <- results

-----------------------------------------------------------------------------
(* open: keyed state starts empty, the cache of a new task too.            *)
NoState == [bids |-> EmptySide, asks |-> EmptySide, meta |-> None]

NoBooks == [p \in Product |-> None]

State == [keyed |-> keyed, offset |-> offset, rows |-> rows]

Init ==
    /\ log = [p \in Product |-> <<>>]
    /\ books = NoBooks
    /\ keyed = [p \in Product |-> NoState]
    /\ offset = [p \in Product |-> 0]
    /\ rows = [p \in Product |-> <<>>]
    /\ completed = State
    /\ triggered = None
    /\ restarts = 0
    /\ status = "running"
    /\ results = [p \in Product |-> <<>>]

(* The cached book, rebuilt from keyed state on the key's first message.   *)
Rebuilt(state) ==
    IF state.meta = None THEN NewBook ELSE Restore(state.bids, state.asks, state.meta)

NeverRebuilt(p) == IF books[p] = None THEN NewBook ELSE books[p]

Cached(p) == IF books[p] = None THEN Rebuilt(keyed[p]) ELSE books[p]

(* process_element's write-through of one result: a snapshot rewrites the  *)
(* product's state, a delta puts and removes the levels it names, and a    *)
(* message that changed no level leaves the state alone, meta included.    *)
WriteThroughLevelsOnly(state, res) ==
    IF res.snapshot
    THEN [bids |-> res.book.bids, asks |-> res.book.asks, meta |-> Meta(res.book)]
    ELSE [state EXCEPT !.bids = Patched(@, "bid", res.changes),
                       !.asks = Patched(@, "ask", res.changes)]

WriteThroughNoClear(state, res) ==
    LET PutAll(levels, put) == [q \in Price |-> IF put[q] # 0 THEN put[q] ELSE levels[q]]
    IN  IF res.snapshot
        THEN [bids |-> PutAll(state.bids, res.book.bids),
              asks |-> PutAll(state.asks, res.book.asks), meta |-> Meta(res.book)]
        ELSE IF res.changes # <<>>
        THEN [bids |-> Patched(state.bids, "bid", res.changes),
              asks |-> Patched(state.asks, "ask", res.changes), meta |-> Meta(res.book)]
        ELSE state

WriteThrough(state, res) ==
    IF res.snapshot
    THEN [bids |-> res.book.bids, asks |-> res.book.asks, meta |-> Meta(res.book)]
    ELSE IF res.changes # <<>>
    THEN [bids |-> Patched(state.bids, "bid", res.changes),
          asks |-> Patched(state.asks, "ask", res.changes),
          meta |-> Meta(res.book)]
    ELSE state

(* A message is read and processed, and its row, if any, goes downstream.  *)
ProcessUnlessDropped(p) ==
    /\ status = "running"
    /\ offset[p] < Len(log[p])
    /\ \E res \in {Apply(Cached(p), log[p][offset[p] + 1])} :
        /\ ~ res.dropped
        /\ books' = [books EXCEPT ![p] = res.book]
        /\ keyed' = [keyed EXCEPT ![p] = WriteThrough(@, res)]
        /\ offset' = [offset EXCEPT ![p] = @ + 1]
        /\ rows' = [rows EXCEPT ![p] = Append(@, res.top)]
        /\ results' = IF offset[p] = Len(results[p])
                      THEN [results EXCEPT ![p] = Append(@, res)]
                      ELSE results
        /\ UNCHANGED <<log, checkpointVars>>

Process(p) ==
    /\ status = "running"
    /\ offset[p] < Len(log[p])
    /\ \E res \in {Apply(Cached(p), log[p][offset[p] + 1])} :
        /\ books' = [books EXCEPT ![p] = res.book]
        /\ keyed' = [keyed EXCEPT ![p] = WriteThrough(@, res)]
        /\ offset' = [offset EXCEPT ![p] = @ + 1]
        /\ rows' = [rows EXCEPT ![p] = Append(@, res.top)]
        /\ results' = IF offset[p] = Len(results[p])
                      THEN [results EXCEPT ![p] = Append(@, res)]
                      ELSE results
        /\ UNCHANGED <<log, checkpointVars>>

(* The producer appends a message.  The job does not see it yet.           *)
Publish(p, msg) ==
    /\ Len(log[p]) < MaxLog
    /\ log' = [log EXCEPT ![p] = Append(@, msg)]
    /\ UNCHANGED <<operatorVars, checkpointVars>>

-----------------------------------------------------------------------------
(* Checkpoints and failures (external: Flink).                             *)

(* The barrier passes the operator between two messages.                   *)
TriggerCheckpoint ==
    /\ status = "running"
    /\ triggered = None
    /\ triggered' = State
    /\ UNCHANGED <<log, operatorVars, completed, restarts, status>>

(* The snapshot is durable everywhere; the rows it covers are committed.   *)
CompleteCheckpoint ==
    /\ status = "running"
    /\ triggered # None
    /\ completed' = triggered
    /\ triggered' = None
    /\ UNCHANGED <<log, operatorVars, restarts, status>>

(* The task fails and is restored: the cache is gone, a checkpoint in      *)
(* progress is abandoned, and the sources read again from the offsets of   *)
(* the last completed checkpoint.                                          *)
RestartFromEarliest ==
    /\ status = "running"
    /\ restarts < RestartAttempts
    /\ restarts' = restarts + 1
    /\ books' = NoBooks
    /\ keyed' = [p \in Product |-> NoState]
    /\ offset' = [p \in Product |-> 0]
    /\ rows' = [p \in Product |-> <<>>]
    /\ triggered' = None
    /\ UNCHANGED <<log, completed, status, results>>

Restart ==
    /\ status = "running"
    /\ restarts < RestartAttempts
    /\ restarts' = restarts + 1
    /\ books' = NoBooks
    /\ keyed' = completed.keyed
    /\ offset' = completed.offset
    /\ rows' = completed.rows
    /\ triggered' = None
    /\ UNCHANGED <<log, completed, status, results>>

(* The task fails with no attempt left: the job fails for good.            *)
GiveUp ==
    /\ status = "running"
    /\ restarts = RestartAttempts
    /\ status' = "failed"
    /\ UNCHANGED <<log, operatorVars, completed, triggered, restarts>>

Next ==
    \/ \E p \in Product : Process(p) \/ \E msg \in Msg : Publish(p, msg)
    \/ TriggerCheckpoint
    \/ CompleteCheckpoint
    \/ Restart
    \/ GiveUp

Spec == Init /\ [][Next]_vars

(* A running task keeps reading, and checkpoints come every 30 seconds.    *)
Fairness ==
    /\ \A p \in Product : WF_vars(Process(p))
    /\ WF_vars(TriggerCheckpoint)
    /\ WF_vars(CompleteCheckpoint)

FairSpec == Spec /\ Fairness

-----------------------------------------------------------------------------
(* Types.                                                                  *)

StateType == [bids: SideType, asks: SideType, meta: MetaType \union {None}]
SavedType == [keyed: [Product -> StateType], offset: [Product -> Nat],
              rows: [Product -> Seq(RowType \union {None})]]

(* Every variable of the job keeps its shape.                              *)
TypeOK ==
    /\ log \in [Product -> Seq(Msg)]
    /\ books \in [Product -> BookType \union {None}]
    /\ keyed \in [Product -> StateType]
    /\ offset \in [Product -> Nat]
    /\ rows \in [Product -> Seq(RowType \union {None})]
    /\ completed \in SavedType
    /\ triggered \in SavedType \union {None}
    /\ restarts \in 0..RestartAttempts
    /\ status \in {"running", "failed"}
    /\ results \in [Product -> Seq(ResultType)]

-----------------------------------------------------------------------------
(* Safety.                                                                 *)

(* BookStateFn's docstring: "a restored job continues mid-epoch without    *)
(* waiting for the next snapshot".  Whenever the task dies, the keyed      *)
(* state rebuilds exactly the book the cache held, prev_top included, even *)
(* though messages that changed no level wrote nothing through.            *)
WriteThroughComplete ==
    \A p \in Product : books[p] # None => Rebuilt(keyed[p]) = books[p]

(* A message processed again after a restart yields the row it yielded the *)
(* first time: what the operator has handed downstream, now and in every   *)
(* checkpoint a restart may go back to, is the first offset results.  The  *)
(* at-least-once Kafka bars may repeat rows but never contradict them.     *)
AgreesWith(saved, history) ==
    \A p \in Product :
        /\ saved.offset[p] <= Len(history[p])
        /\ saved.rows[p] = [i \in 1..saved.offset[p] |-> history[p][i].top]

ReplayIdentical ==
    /\ AgreesWith(State, results)
    /\ AgreesWith(completed, results)
    /\ triggered # None => AgreesWith(triggered, results)

(* The comment in book.py, "OFI must not bridge a reconnect": a row's OFI  *)
(* compares its quote with the latest quote emitted since the snapshot     *)
(* that started the book, and is 0 for the first one, restarts or not.     *)
OfiWithinSnapshot ==
    \A p \in Product : \A i \in 1..Len(results[p]) :
        LET seq == results[p]
            earlier == {j \in 1..(i - 1) :
                           /\ seq[j].top # None
                           /\ \A k \in (j + 1)..i : ~ seq[k].snapshot}
        IN  seq[i].top # None =>
                seq[i].top.ofi = Ofi(IF earlier = {} THEN None ELSE seq[Max(earlier)].top.quote,
                                     seq[i].top.quote)

(* What makes the above inductive.  Each result is that of applying the    *)
(* message to the book of the result before it ...                         *)
ResultsChained ==
    \A p \in Product :
        /\ Len(results[p]) <= Len(log[p])
        /\ \A i \in 1..Len(results[p]) :
               results[p][i] = Apply(Stream!BookAfter(results[p], i - 1), log[p][i])

(* ... every book on the way is fresh ...                                  *)
BooksFresh ==
    \A p \in Product : \A n \in 0..Len(results[p]) : Fresh(Stream!BookAfter(results[p], n))

(* ... and the keyed state, now and in every checkpoint, rebuilds the book *)
(* that the messages before its offset led to.                             *)
Resumes(saved, history) ==
    \A p \in Product :
        Rebuilt(saved.keyed[p]) = Stream!BookAfter(history[p], saved.offset[p])

StateResumes ==
    /\ Resumes(State, results)
    /\ Resumes(completed, results)
    /\ triggered # None => Resumes(triggered, results)

IInv ==
    /\ TypeOK
    /\ ResultsChained
    /\ BooksFresh
    /\ ReplayIdentical
    /\ StateResumes
    /\ WriteThroughComplete

(* Rows a completed checkpoint covers are in Iceberg: no later completed   *)
(* checkpoint retracts or changes one.                                     *)
CommittedRowsStay ==
    [][\A p \in Product : IsPrefix(completed.rows[p], completed'.rows[p])]_vars

(* The job implements exactly-once processing of every partition: the      *)
(* first results are those of a consumer that never fails.                 *)
ExactlyOnce == Stream!StreamSpec

(* Every message written is eventually covered by a completed checkpoint,  *)
(* however many restarts come between, unless the job failed for good.     *)
EveryMessageCommitted ==
    \A p \in Product : \A n \in 1..MaxLog :
        Len(log[p]) >= n ~> (completed.offset[p] >= n \/ status = "failed")

=============================================================================
