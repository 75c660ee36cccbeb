------------------------------- MODULE BookFeed -------------------------------
(***************************************************************************)
(* The way of a product's order book from the exchange to the consumer's   *)
(* copy: the connection loop (Runner), the router that stamps each message *)
(* with conn_epoch, the Kafka sink that may fail to deliver one or find it *)
(* too large, and the consumer that applies what arrives to its OrderBook. *)
(*                                                                         *)
(* The exchange and Kafka are external.  On a new connection the exchange  *)
(* sends a snapshot and then a delta for every change of its book; what is *)
(* in flight when a connection is lost is lost with it.  The partition     *)
(* keeps the producer's order (enable_idempotence), but a failed delivery  *)
(* is only logged, so a record may be missing from it.                     *)
(***************************************************************************)
EXTENDS Runner, OrderBook

CONSTANTS
    FirstBook,      \* the exchange's book at the start: [bids, asks]
    Changes,        \* the changes the exchange makes, members of Change
    MaxChanges,     \* bound: how many changes it makes
    MaxLost         \* bound: how many records do not arrive

ASSUME FeedAssumption ==
    /\ FirstBook \in [bids: SideType, asks: SideType]
    /\ Changes \subseteq Change
    /\ MaxChanges \in Nat
    /\ MaxLost \in Nat

VARIABLES
    truth,      \* the exchange's book: [bids, asks]
    made,       \* how many changes the exchange has made
    conn,       \* how many connections have been opened, over all processes
    wire,       \* what the exchange sent on this connection, not yet received
    topic,      \* the records of the product's partition of book.l2.raw
    lossy,      \* history: the connections with a record that did not arrive
    lost,       \* how many deliveries failed
    dlq,        \* how many records were too large: dlq.malformed has their heads
    consumed,   \* how many records the consumer has processed
    book,       \* the consumer's OrderBook
    source      \* history: the connection whose snapshot the book is built on

exchangeVars == <<truth, made>>
linkVars == <<conn, wire>>
kafkaVars == <<topic, lossy, lost, dlq>>
consumerVars == <<consumed, book, source>>
feedVars == <<runnerVars, exchangeVars, linkVars, kafkaVars, consumerVars>>

SentType ==
    [type: {"snapshot", "l2update"}, changes: Seq(Change), truth: [bids: SideType, asks: SideType]]
(* run and conn are history: the process and the connection of the record. *)
RecordType ==
    [msg: MsgType, run: Nat, conn: Nat, truth: [bids: SideType, asks: SideType]]

FeedTypeOK ==
    /\ RunnerTypeOK
    /\ truth \in [bids: SideType, asks: SideType]
    /\ made \in 0..MaxChanges
    /\ conn \in Nat
    /\ wire \in Seq(SentType)
    /\ topic \in Seq(RecordType)
    /\ lossy \subseteq 1..conn
    /\ lost \in Nat /\ dlq \in Nat /\ lost + dlq <= MaxLost
    /\ consumed \in 0..Len(topic)
    /\ book \in BookType
    /\ source \in 0..conn

FeedInit ==
    /\ RunnerInit
    /\ truth = FirstBook
    /\ made = 0
    /\ conn = 0
    /\ wire = <<>>
    /\ topic = <<>>
    /\ lossy = {}
    /\ lost = 0
    /\ dlq = 0
    /\ consumed = 0
    /\ book = NewBook
    /\ source = 0

-----------------------------------------------------------------------------
(* The exchange accepts the subscription and sends a snapshot.             *)
Subscribe ==
    /\ Connect
    /\ conn' = conn + 1
    /\ wire' = <<[type |-> "snapshot", changes |-> <<>>, truth |-> truth]>>
    /\ UNCHANGED <<exchangeVars, kafkaVars, consumerVars>>

(* The exchange's book changes; a live subscriber is sent the delta.       *)
ChangeBook(change) ==
    LET changed == [bids |-> Patched(truth.bids, "bid", <<change>>),
                    asks |-> Patched(truth.asks, "ask", <<change>>)]
    IN  /\ made < MaxChanges
        /\ changed # truth
        /\ made' = made + 1
        /\ truth' = changed
        /\ wire' = IF phase = "open" /\ ~ quiet
                   THEN Append(wire, [type |-> "l2update", changes |-> <<change>>,
                                      truth |-> changed])
                   ELSE wire
        /\ UNCHANGED <<runnerVars, conn, kafkaVars, consumerVars>>

(* route stamps a book message with the epoch of its connection.           *)
Stamped(sent, connEpoch) ==
    IF sent.type = "snapshot"
    THEN Snapshot(connEpoch, sent.truth.bids, sent.truth.asks)
    ELSE Delta(connEpoch, sent.changes)

(* send: the record arrives, or its delivery fails and the callback logs   *)
(* it, or it is too large and its head goes to the DLQ.                    *)
Arrives(record) ==
    /\ topic' = Append(topic, record)
    /\ UNCHANGED <<lossy, lost, dlq>>

IsLost ==
    /\ lost + dlq < MaxLost
    /\ \/ lost' = lost + 1 /\ UNCHANGED dlq
       \/ dlq' = dlq + 1 /\ UNCHANGED lost
    /\ lossy' = lossy \union {conn}
    /\ UNCHANGED topic

(* A book message is received, stamped and sent to the partition.          *)
RouteBook ==
    /\ wire # <<>>
    /\ Receive
    /\ wire' = Tail(wire)
    /\ \/ Arrives([msg |-> Stamped(Head(wire), epoch), run |-> starts,
                   conn |-> conn, truth |-> Head(wire).truth])
       \/ IsLost
    /\ UNCHANGED <<conn, exchangeVars, consumerVars>>

(* A heartbeat or a trade is received: nothing here changes but the loop.  *)
RouteOther ==
    /\ Receive
    /\ UNCHANGED <<exchangeVars, linkVars, kafkaVars, consumerVars>>

(* The loop does anything else; a connection left takes its wire along.    *)
RunLoop ==
    /\ LoopNext
    /\ wire' = IF phase' = "open" THEN wire ELSE <<>>
    /\ UNCHANGED <<conn, exchangeVars, kafkaVars, consumerVars>>

(* The consumer applies the next record.                                   *)
ConsumeRecord ==
    LET record == topic[consumed + 1]
        res == Apply(book, record.msg)
    IN  /\ consumed < Len(topic)
        /\ consumed' = consumed + 1
        /\ book' = res.book
        /\ source' = IF res.snapshot THEN record.conn ELSE source
        /\ UNCHANGED <<runnerVars, exchangeVars, linkVars, kafkaVars>>

FeedNext ==
    \/ Subscribe
    \/ \E change \in Changes : ChangeBook(change)
    \/ RouteBook
    \/ RouteOther
    \/ RunLoop
    \/ ConsumeRecord

FeedSpec == FeedInit /\ [][FeedNext]_feedVars

-----------------------------------------------------------------------------
(* SPEC.md: "conn_epoch binds every delta to its snapshot across           *)
(* reconnects".  A delta the consumer is about to accept was sent on the   *)
(* connection whose snapshot its book is built on.                         *)
EpochBindsDeltas ==
    consumed < Len(topic) =>
        LET next == topic[consumed + 1]
        IN  next.msg.type = "l2update" /\ ~ Apply(book, next.msg).dropped => next.conn = source

(* That much holds of the connections of one process: a delta accepted     *)
(* from another connection than the book's is from another process.  (The   *)
(* types hold too.)                                                        *)
EpochBindsInProcess ==
    /\ FeedTypeOK
    /\ consumed < Len(topic) =>
        LET next == topic[consumed + 1]
        IN  /\ next.msg.type = "l2update" /\ ~ Apply(book, next.msg).dropped
            /\ \E i \in 1..consumed : topic[i].conn = source /\ topic[i].run = next.run
            => next.conn = source

(* A lost record harms the book at most until the next connection's        *)
(* snapshot: once the consumer has processed a record of a connection that *)
(* lost nothing, its levels are the exchange's as of that record.          *)
BookTrue ==
    consumed > 0 /\ topic[consumed].conn \notin lossy =>
        [bids |-> book.bids, asks |-> book.asks] = topic[consumed].truth

=============================================================================
