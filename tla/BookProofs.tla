------------------------------ MODULE BookProofs ------------------------------
(***************************************************************************)
(* Theorems about the order book, for every price grid, depth and message, *)
(* any products, connections, processes, losses and restarts: the lemmas   *)
(* about the operators of OrderBook; the operator of the bars job (BookJob), *)
(* with the refinement of BookStream; and the way of the book from the     *)
(* exchange to its consumer (BookFeed).                                    *)
(*                                                                         *)
(* EpochBindsInProcess says nothing of how process and epoch identify a    *)
(* connection.  The invariant of the feed does: of all records (EpochsName), *)
(* of those against the loop's state (LoopAhead), and of the consumer's    *)
(* book (BuiltOn).                                                         *)
(***************************************************************************)
EXTENDS BookJob, BookFeed, RunnerProofs, Extremes

-----------------------------------------------------------------------------
(* The book: best prices exist, applying a message keeps the types, and a  *)
(* book's prev_top is never stale.                                         *)

(* The quote of an emittable book is a quote: its best prices are levels.  *)
LEMMA QuoteType ==
    ASSUME NEW bk \in BookType, Emittable(bk)
    PROVE  QuoteOf(bk) \in Quote
  <1>1. /\ bk.bids \in [Price -> Nat]
        /\ bk.asks \in [Price -> Nat]
    BY DEF BookType, SideType
  <1>2. /\ Levels(bk.bids) \in SUBSET (0..MaxPrice)
        /\ Levels(bk.asks) \in SUBSET Nat
        /\ Levels(bk.bids) \subseteq Price
        /\ Levels(bk.asks) \subseteq Price
    BY PriceAssumption DEF Levels, Price
  <1>3. BestBid(bk) \in Price
    BY <1>2, MaxProperty, PriceAssumption DEF BestBid, Emittable
  <1>4. BestAsk(bk) \in Price
    BY <1>2, MinProperty DEF BestAsk, Emittable
  <1> QED
    BY <1>1, <1>3, <1>4 DEF QuoteOf, Quote

(* Patching a side with a delta's changes yields a side.                   *)
LEMMA PatchedType ==
    ASSUME NEW levels \in SideType, NEW side, NEW changes \in Seq(Change)
    PROVE  Patched(levels, side, changes) \in SideType
  <1> SUFFICES ASSUME NEW p \in Price
               PROVE  Patched(levels, side, changes)[p] \in Nat
    BY DEF Patched, SideType
  <1> DEFINE hits == {i \in DOMAIN changes : changes[i].side = side /\ changes[i].price = p}
  <1>1. Patched(levels, side, changes)[p] =
            IF hits = {} THEN levels[p] ELSE changes[Max(hits)].size
    BY DEF Patched
  <1>2. CASE hits = {}
    BY <1>1, <1>2 DEF SideType
  <1>3. CASE hits # {}
    <2>1. hits \in SUBSET (0..Len(changes)) /\ Len(changes) \in Nat
      OBVIOUS
    <2>2. Max(hits) \in hits
      BY <1>3, <2>1, MaxProperty
    <2>3. changes[Max(hits)] \in Change
      BY <2>2
    <2> QED
      BY <1>1, <1>3, <2>3 DEF Change
  <1> QED
    BY <1>2, <1>3

(* Without changes there is nothing to patch.                              *)
LEMMA PatchedByNothing ==
    ASSUME NEW levels \in SideType, NEW side
    PROVE  Patched(levels, side, <<>>) = levels
  BY DEF Patched, SideType

(* The quantities an OFI adds and subtracts are integers, so it is one.    *)
LEMMA OfiType ==
    ASSUME NEW prev \in Quote \union {None}, NEW cur \in Quote
    PROVE  Ofi(prev, cur) \in Int
  BY NoneAssumption DEF Ofi, If, Quote, Price

-----------------------------------------------------------------------------
(* Remembering the quote keeps a book a book, and makes it fresh.          *)
LEMMA AdvancedType ==
    ASSUME NEW bk \in BookType
    PROVE  Advanced(bk) \in BookType /\ Fresh(Advanced(bk))
  <1>1. Emittable(bk) => QuoteOf(bk) \in Quote
    BY QuoteType
  <1>2. Advanced(bk) \in BookType
    BY <1>1 DEF Advanced, BookType
  <1>3. /\ Advanced(bk).bids = bk.bids
        /\ Advanced(bk).asks = bk.asks
        /\ Emittable(bk) => Advanced(bk).prevTop = QuoteOf(bk)
    BY DEF Advanced, BookType
  <1>4. /\ Emittable(Advanced(bk)) <=> Emittable(bk)
        /\ QuoteOf(Advanced(bk)) = QuoteOf(bk)
    BY <1>3 DEF Emittable, QuoteOf, BestBid, BestAsk
  <1> QED
    BY <1>2, <1>3, <1>4 DEF Fresh

LEMMA RowOfType ==
    ASSUME NEW bk \in BookType, Emittable(bk)
    PROVE  TopOf(bk) \in RowType
  <1>1. QuoteOf(bk) \in Quote
    BY QuoteType
  <1>2. Ofi(bk.prevTop, QuoteOf(bk)) \in Int
    BY <1>1, OfiType DEF BookType
  <1>3. HighestBids(bk.bids) \in SideType /\ LowestAsks(bk.asks) \in SideType
    BY DEF BookType, HighestBids, LowestAsks, SideType
  <1>4. bk.epoch \in Nat \union {None}
    BY DEF BookType
  <1> QED
    BY <1>1, <1>2, <1>3, <1>4 DEF TopOf, RowType

LEMMA TopType ==
    ASSUME NEW bk \in BookType
    PROVE  TopOf(bk) \in RowType \union {None}
  BY RowOfType DEF TopOf

LEMMA AppliedType ==
    ASSUME NEW bk \in BookType, NEW snapshot \in BOOLEAN, NEW changes \in Seq(Change)
    PROVE  /\ Applied(bk, snapshot, changes) \in ResultType
           /\ Fresh(Applied(bk, snapshot, changes).book)
  BY AdvancedType, TopType DEF Applied, ResultType

(* A new book is a book, and trivially fresh: it has no quote.             *)
LEMMA NewBookType ==
    NewBook \in BookType /\ Fresh(NewBook)
  <1>1. NewBook \in BookType
    BY DEF NewBook, BookType, EmptySide, SideType
  <1>2. Levels(NewBook.bids) = {}
    BY DEF NewBook, EmptySide, Levels
  <1> QED
    BY <1>1, <1>2 DEF Fresh, Emittable

(* Applying a message to a book yields a result whose book is one too.     *)
LEMMA ApplyType ==
    ASSUME NEW bk \in BookType, NEW msg \in MsgType
    PROVE  /\ Apply(bk, msg) \in ResultType
           /\ Fresh(bk) => Fresh(Apply(bk, msg).book)
  <1>1. CASE msg.type = "snapshot"
    <2>1. msg.epoch \in Nat /\ msg.bids \in SideType /\ msg.asks \in SideType
      BY <1>1 DEF MsgType
    <2>2. Replaced(bk, msg) \in BookType
      BY <2>1 DEF Replaced, BookType
    <2>3. Apply(bk, msg) = Applied(Replaced(bk, msg), TRUE, <<>>)
      BY <1>1 DEF Apply
    <2>4. <<>> \in Seq(Change)
      OBVIOUS
    <2> QED
      BY <2>2, <2>3, <2>4, AppliedType
  <1>2. CASE msg.type = "l2update" /\ msg.epoch = bk.epoch
    <2>1. msg.changes \in Seq(Change)
      BY <1>2 DEF MsgType
    <2>2. Updated(bk, msg.changes) \in BookType
      <3>1. /\ Patched(bk.bids, "bid", msg.changes) \in SideType
            /\ Patched(bk.asks, "ask", msg.changes) \in SideType
        BY <2>1, PatchedType DEF BookType
      <3> QED
        BY <3>1 DEF Updated, BookType
    <2>3. Apply(bk, msg) = Applied(Updated(bk, msg.changes), FALSE, msg.changes)
      BY <1>2 DEF Apply
    <2> QED
      BY <2>1, <2>2, <2>3, AppliedType
  <1>3. CASE msg.type = "l2update" /\ msg.epoch # bk.epoch
    BY <1>3 DEF Apply, Dropped, ResultType
  <1> QED
    BY <1>1, <1>2, <1>3 DEF MsgType

(* An accepted delta that changes no level leaves a fresh book as it was,  *)
(* which is why the operator need not write it through.                    *)
LEMMA EmptyDeltaKeepsBook ==
    ASSUME NEW bk \in BookType, NEW msg \in MsgType, Fresh(bk),
           msg.type = "l2update", Apply(bk, msg).changes = <<>>
    PROVE  Apply(bk, msg).book = bk
  <1>1. CASE msg.epoch = bk.epoch
    <2>1. msg.changes = <<>>
      BY <1>1 DEF Apply, Applied
    <2>2. Updated(bk, <<>>) = bk
      <3>1. /\ Patched(bk.bids, "bid", <<>>) = bk.bids
            /\ Patched(bk.asks, "ask", <<>>) = bk.asks
        BY PatchedByNothing DEF BookType
      <3> QED
        BY <3>1 DEF Updated, BookType
    <2>3. Apply(bk, msg).book = Advanced(bk)
      BY <1>1, <2>1, <2>2 DEF Apply, Applied
    <2>4. Advanced(bk) = bk
      BY DEF Advanced, BookType, Fresh
    <2> QED
      BY <2>3, <2>4
  <1>2. CASE msg.epoch # bk.epoch
    BY <1>2 DEF Apply, Dropped
  <1> QED
    BY <1>1, <1>2

-----------------------------------------------------------------------------
(* The operator of the bars job.                                           *)

(* Rebuilding a book from well-typed keyed state yields a book.            *)
LEMMA RebuiltType ==
    ASSUME NEW state \in StateType
    PROVE  Rebuilt(state) \in BookType
  <1>1. NewBook \in BookType
    BY NewBookType
  <1>2. CASE state.meta # None
    <2>1. state.meta \in MetaType /\ state.bids \in SideType /\ state.asks \in SideType
      BY <1>2 DEF StateType
    <2> QED
      BY <1>2, <2>1 DEF Rebuilt, Restore, MetaType, BookType
  <1> QED
    BY <1>1, <1>2 DEF Rebuilt

(* A book is rebuilt from its own levels and meta.                         *)
LEMMA RestoreOwnMeta ==
    ASSUME NEW bk \in BookType
    PROVE  /\ Meta(bk) \in MetaType
           /\ Meta(bk) # None
           /\ Rebuilt([bids |-> bk.bids, asks |-> bk.asks, meta |-> Meta(bk)]) = bk
  <1>1. Meta(bk) \in MetaType
    BY DEF Meta, MetaType, BookType
  <1>2. Restore(bk.bids, bk.asks, Meta(bk)) = bk
    BY DEF Restore, Meta, BookType
  <1> QED
    BY <1>1, <1>2, NoneAssumption DEF Rebuilt

(* The write-through of a message: if the keyed state rebuilds the book    *)
(* the message is applied to, then afterwards it rebuilds the new book.    *)
LEMMA WriteThroughSound ==
    ASSUME NEW state \in StateType, NEW msg \in MsgType, NEW res,
           Fresh(Rebuilt(state)),
           res = Apply(Rebuilt(state), msg)
    PROVE  /\ WriteThrough(state, res) \in StateType
           /\ Rebuilt(WriteThrough(state, res)) = res.book
  <1> DEFINE bk == Rebuilt(state)
  <1>1. bk \in BookType
    BY RebuiltType
  <1>2. res \in ResultType
    BY <1>1, ApplyType
  <1>3. /\ Meta(res.book) \in MetaType
        /\ Meta(res.book) # None
        /\ Rebuilt([bids |-> res.book.bids, asks |-> res.book.asks, meta |-> Meta(res.book)])
               = res.book
    BY <1>2, RestoreOwnMeta DEF ResultType
  <1>4. res.book.bids \in SideType /\ res.book.asks \in SideType
    BY <1>2 DEF ResultType, BookType
  <1>5. CASE msg.type = "snapshot"
    <2>1. res.snapshot
      BY <1>5 DEF Apply, Applied
    <2> QED
      BY <2>1, <1>3, <1>4 DEF WriteThrough, StateType
  <1>6. CASE msg.type = "l2update" /\ res.changes = <<>>
    <2>1. res.book = bk
      BY <1>1, <1>6, EmptyDeltaKeepsBook
    <2>2. ~ res.snapshot
      BY <1>6 DEF Apply, Applied, Dropped
    <2> QED
      BY <1>6, <2>1, <2>2 DEF WriteThrough
  <1>7. CASE msg.type = "l2update" /\ res.changes # <<>>
    <2>1. /\ msg.epoch = bk.epoch
          /\ res = Applied(Updated(bk, msg.changes), FALSE, msg.changes)
      BY <1>7 DEF Apply, Dropped
    <2>2. msg.epoch \in Nat
      BY DEF MsgType
    <2>3. state.meta # None
      BY <2>1, <2>2, NoneAssumption DEF Rebuilt, NewBook
    <2>4. bk.bids = state.bids /\ bk.asks = state.asks
      BY <2>3 DEF Rebuilt, Restore
    <2>5. /\ res.changes = msg.changes
          /\ ~ res.snapshot
          /\ res.book = Advanced(Updated(bk, msg.changes))
      BY <2>1 DEF Applied
    <2>6. /\ res.book.bids = Patched(bk.bids, "bid", msg.changes)
          /\ res.book.asks = Patched(bk.asks, "ask", msg.changes)
      BY <1>1, <2>5 DEF Advanced, Updated, BookType
    <2>7. WriteThrough(state, res) =
              [bids |-> res.book.bids, asks |-> res.book.asks, meta |-> Meta(res.book)]
      BY <1>7, <2>4, <2>5, <2>6 DEF WriteThrough
    <2> QED
      BY <2>7, <1>3, <1>4 DEF StateType
  <1> QED
    BY <1>5, <1>6, <1>7 DEF MsgType

-----------------------------------------------------------------------------
(* History only grows, and what a checkpoint says of it stays true.        *)
Extends(longer, history) ==
    \A p \in Product :
        /\ Len(history[p]) <= Len(longer[p])
        /\ \A i \in 1..Len(history[p]) : longer[p][i] = history[p][i]

HistoryType == [Product -> Seq(ResultType)]

LEMMA GrowthKeepsAgreement ==
    ASSUME NEW saved \in SavedType, NEW history \in HistoryType, NEW longer \in HistoryType,
           Extends(longer, history),
           AgreesWith(saved, history),
           Resumes(saved, history)
    PROVE  AgreesWith(saved, longer) /\ Resumes(saved, longer)
  <1> SUFFICES ASSUME NEW p \in Product
               PROVE  /\ saved.offset[p] <= Len(longer[p])
                      /\ saved.rows[p] = [i \in 1..saved.offset[p] |-> longer[p][i].top]
                      /\ Rebuilt(saved.keyed[p]) = Stream!BookAfter(longer[p], saved.offset[p])
    BY DEF AgreesWith, Resumes
  <1> DEFINE n == saved.offset[p]
  <1>1. /\ n \in Nat
        /\ Len(history[p]) \in Nat
        /\ Len(longer[p]) \in Nat
    BY DEF SavedType, HistoryType
  <1>2. /\ n <= Len(history[p])
        /\ saved.rows[p] = [i \in 1..n |-> history[p][i].top]
        /\ Rebuilt(saved.keyed[p]) = Stream!BookAfter(history[p], n)
    BY DEF AgreesWith, Resumes
  <1>3. \A i \in 1..n : longer[p][i] = history[p][i]
    BY <1>1, <1>2 DEF Extends
  <1>4. n <= Len(longer[p])
    BY <1>1, <1>2 DEF Extends
  <1>5. [i \in 1..n |-> history[p][i].top] = [i \in 1..n |-> longer[p][i].top]
    BY <1>3
  <1>6. Stream!BookAfter(history[p], n) = Stream!BookAfter(longer[p], n)
    BY <1>1, <1>3 DEF Stream!BookAfter
  <1> QED
    BY <1>2, <1>4, <1>5, <1>6

-----------------------------------------------------------------------------
(* The inductive invariant holds initially.                                *)
LEMMA InitIInv == Init => IInv
  <1> SUFFICES ASSUME Init PROVE IInv
    OBVIOUS
  <1> USE DEF Init
  <1>1. \A p \in Product : NoState \in StateType
    BY DEF NoState, StateType, EmptySide, SideType
  <1>2. State \in SavedType
    BY <1>1 DEF State, SavedType
  <1>3. TypeOK
    BY <1>1, <1>2, RestartAssumption DEF TypeOK, NoBooks
  <1>4. ResultsChained
    BY DEF ResultsChained
  <1>5. BooksFresh
    BY NewBookType DEF BooksFresh, Stream!BookAfter
  <1>6. AgreesWith(State, results)
    BY DEF AgreesWith, State
  <1>7. Resumes(State, results)
    BY DEF Resumes, State, Rebuilt, NoState, Stream!BookAfter
  <1>8. WriteThroughComplete
    BY DEF WriteThroughComplete, NoBooks
  <1> QED
    BY <1>3, <1>4, <1>5, <1>6, <1>7, <1>8 DEF IInv, ReplayIdentical, StateResumes

(* Processing a message: the cached book is the one the history gives for  *)
(* the offset, so the result is the recorded one or the next one.          *)
LEMMA ProcessResult ==
    ASSUME IInv, NEW p \in Product, Process(p), NEW msg, NEW res,
           msg = log[p][offset[p] + 1],
           res = Apply(Cached(p), msg)
    PROVE  /\ msg \in MsgType
           /\ res \in ResultType
           /\ Cached(p) = Rebuilt(keyed[p])
           /\ Cached(p) = Stream!BookAfter(results[p], offset[p])
           /\ Fresh(Cached(p))
           /\ offset[p] + 1 \in 1..Len(log[p])
           /\ offset[p] + 1 \in 1..Len(results'[p])
           /\ results'[p][offset[p] + 1] = res
           /\ results' \in HistoryType
           /\ Extends(results', results)
           /\ \/ results' = results
              \/ /\ offset[p] = Len(results[p])
                 /\ results' = [results EXCEPT ![p] = Append(@, res)]
  <1> DEFINE n == offset[p]
  <1> USE DEF IInv
  <1>1. /\ n \in Nat
        /\ n < Len(log[p])
        /\ log[p] \in Seq(Msg)
        /\ results[p] \in Seq(ResultType)
        /\ results \in HistoryType
        /\ keyed[p] \in StateType
    BY DEF TypeOK, Process, HistoryType
  <1>2. msg \in MsgType /\ n + 1 \in 1..Len(log[p])
    BY <1>1, MsgAssumption
  <1>3. Cached(p) = Rebuilt(keyed[p]) /\ Cached(p) \in BookType
    BY <1>1, RebuiltType DEF Cached, WriteThroughComplete
  <1>4. n <= Len(results[p]) /\ Rebuilt(keyed[p]) = Stream!BookAfter(results[p], n)
    BY DEF ReplayIdentical, AgreesWith, StateResumes, Resumes, State
  <1>5. Fresh(Cached(p))
    BY <1>1, <1>3, <1>4 DEF BooksFresh
  <1>6. res \in ResultType
    BY <1>2, <1>3, ApplyType
  <1>7. CASE n = Len(results[p])
    <2>1. results' = [results EXCEPT ![p] = Append(@, res)]
      BY <1>7 DEF Process
    <2>2. /\ results'[p] = Append(results[p], res)
          /\ \A q \in Product \ {p} : results'[q] = results[q]
          /\ results' \in HistoryType
      BY <2>1, <1>1, <1>6 DEF HistoryType
    <2>3. /\ Len(results'[p]) = n + 1
          /\ results'[p][n + 1] = res
          /\ \A i \in 1..n : results'[p][i] = results[p][i]
      BY <2>2, <1>1, <1>7
    <2>4. \A q \in Product : Len(results[q]) \in Nat
      BY <1>1 DEF HistoryType
    <2>5. Extends(results', results)
      <3>1. ASSUME NEW q \in Product
            PROVE  /\ Len(results[q]) <= Len(results'[q])
                   /\ \A i \in 1..Len(results[q]) : results'[q][i] = results[q][i]
        <4>1. CASE q = p
          BY <4>1, <1>1, <1>7, <2>3
        <4>2. CASE q # p
          BY <4>2, <2>2, <2>4
        <4> QED
          BY <4>1, <4>2
      <3> QED
        BY <3>1 DEF Extends
    <2>6. n + 1 \in 1..Len(results'[p])
      BY <2>3, <1>1
    <2> QED
      BY <1>2, <1>3, <1>4, <1>5, <1>6, <1>7, <2>1, <2>2, <2>3, <2>5, <2>6
  <1>8. CASE n # Len(results[p])
    <2>1. results' = results
      BY <1>8 DEF Process
    <2>2. n + 1 \in 1..Len(results[p])
      BY <1>1, <1>4, <1>8
    <2>3. results[p][n + 1] = Apply(Stream!BookAfter(results[p], n), log[p][n + 1])
      BY <2>2, <1>1 DEF ResultsChained
    <2>4. results[p][n + 1] = res
      BY <2>3, <1>3, <1>4
    <2>5. Extends(results', results)
      BY <2>1, <1>1 DEF Extends, HistoryType
    <2> QED
      BY <1>1, <1>2, <1>3, <1>4, <1>5, <1>6, <2>1, <2>2, <2>4, <2>5
  <1> QED
    BY <1>7, <1>8

(* Appending the next result keeps the history chained and its books fresh.*)
LEMMA AppendKeepsHistory ==
    ASSUME TypeOK, ResultsChained, BooksFresh,
           NEW p \in Product, NEW res \in ResultType,
           Len(results[p]) < Len(log[p]),
           res = Apply(Stream!BookAfter(results[p], Len(results[p])), log[p][Len(results[p]) + 1]),
           Fresh(res.book),
           log' = log,
           results' = [results EXCEPT ![p] = Append(@, res)]
    PROVE  ResultsChained' /\ BooksFresh'
  <1> SUFFICES ASSUME NEW q \in Product
               PROVE  /\ Len(results'[q]) <= Len(log[q])
                      /\ \A i \in 1..Len(results'[q]) :
                             results'[q][i] = Apply(Stream!BookAfter(results'[q], i - 1), log[q][i])
                      /\ \A m \in 0..Len(results'[q]) : Fresh(Stream!BookAfter(results'[q], m))
    BY DEF ResultsChained, BooksFresh
  <1>1. results \in HistoryType /\ log \in [Product -> Seq(Msg)]
    BY DEF TypeOK, HistoryType
  <1>2. CASE q # p
    <2>1. results'[q] = results[q]
      BY <1>1, <1>2 DEF HistoryType
    <2> QED
      BY <2>1 DEF ResultsChained, BooksFresh
  <1>3. CASE q = p
    <2> DEFINE n == Len(results[p])
               old == results[p]
               new == results'[p]
    <2>1. /\ n \in Nat
          /\ new = Append(old, res)
          /\ Len(new) = n + 1
          /\ new[n + 1] = res
          /\ \A i \in 1..n : new[i] = old[i]
      BY <1>1 DEF HistoryType
    <2>2. \A m \in 0..n : Stream!BookAfter(new, m) = Stream!BookAfter(old, m)
      BY <2>1 DEF Stream!BookAfter
    <2>3. ASSUME NEW i \in 1..(n + 1)
          PROVE  new[i] = Apply(Stream!BookAfter(new, i - 1), log[p][i])
      <3>1. i - 1 \in 0..n
        BY <2>1
      <3>2. CASE i = n + 1
        <4>1. i - 1 = n
          BY <2>1, <3>2
        <4> QED
          BY <4>1, <3>2, <3>1, <2>1, <2>2
      <3>3. CASE i # n + 1
        <4>1. i \in 1..n
          BY <2>1, <3>3
        <4>2. old[i] = Apply(Stream!BookAfter(old, i - 1), log[p][i])
          BY <4>1 DEF ResultsChained
        <4> QED
          BY <4>1, <4>2, <3>1, <2>1, <2>2
      <3> QED
        BY <3>2, <3>3
    <2>4. ASSUME NEW m \in 0..(n + 1)
          PROVE  Fresh(Stream!BookAfter(new, m))
      <3>1. CASE m = n + 1
        <4>1. Stream!BookAfter(new, m) = res.book
          BY <3>1, <2>1 DEF Stream!BookAfter
        <4> QED
          BY <4>1
      <3>2. CASE m # n + 1
        <4>1. m \in 0..n
          BY <3>2, <2>1
        <4> QED
          BY <4>1, <2>2 DEF BooksFresh
      <3> QED
        BY <3>1, <3>2
    <2>5. Len(new) <= Len(log[p])
      BY <2>1, <1>1
    <2> QED
      BY <1>3, <2>1, <2>3, <2>4, <2>5
  <1> QED
    BY <1>2, <1>3

-----------------------------------------------------------------------------
(* Processing a message preserves the invariant.                           *)
LEMMA ProcessKeepsIInv ==
    ASSUME IInv, NEW p \in Product, Process(p)
    PROVE  IInv'
  <1> DEFINE n == offset[p]
             msg == log[p][n + 1]
             res == Apply(Cached(p), msg)
  <1>1. /\ msg \in MsgType
        /\ res \in ResultType
        /\ Cached(p) = Rebuilt(keyed[p])
        /\ Cached(p) = Stream!BookAfter(results[p], n)
        /\ Fresh(Cached(p))
        /\ n + 1 \in 1..Len(log[p])
        /\ n + 1 \in 1..Len(results'[p])
        /\ results'[p][n + 1] = res
        /\ results' \in HistoryType
        /\ Extends(results', results)
        /\ \/ results' = results
           \/ /\ n = Len(results[p])
              /\ results' = [results EXCEPT ![p] = Append(@, res)]
    BY ProcessResult
  <1>2. /\ books' = [books EXCEPT ![p] = res.book]
        /\ keyed' = [keyed EXCEPT ![p] = WriteThrough(@, res)]
        /\ offset' = [offset EXCEPT ![p] = n + 1]
        /\ rows' = [rows EXCEPT ![p] = Append(@, res.top)]
        /\ UNCHANGED <<log, completed, triggered, restarts, status>>
    BY DEF Process, checkpointVars
  <1>3. /\ TypeOK
        /\ keyed[p] \in StateType
        /\ n \in Nat
        /\ State \in SavedType
        /\ results \in HistoryType
    BY DEF IInv, TypeOK, State, SavedType, HistoryType
  <1>4. /\ WriteThrough(keyed[p], res) \in StateType
        /\ Rebuilt(WriteThrough(keyed[p], res)) = res.book
    BY <1>1, <1>3, WriteThroughSound
  <1>5. /\ res.book \in BookType
        /\ res.top \in RowType \union {None}
    BY <1>1 DEF ResultType
  <1>6. /\ books'[p] = res.book
        /\ keyed'[p] = WriteThrough(keyed[p], res)
        /\ offset'[p] = n + 1
        /\ rows'[p] = Append(rows[p], res.top)
        /\ \A q \in Product \ {p} : /\ books'[q] = books[q]
                                     /\ keyed'[q] = keyed[q]
                                     /\ offset'[q] = offset[q]
                                     /\ rows'[q] = rows[q]
    BY <1>2, <1>3 DEF TypeOK
  <1>7. TypeOK'
    BY <1>1, <1>2, <1>3, <1>4, <1>5 DEF TypeOK, HistoryType
  <1>8. ResultsChained' /\ BooksFresh'
    <2>1. CASE results' = results
      BY <2>1, <1>2 DEF IInv, ResultsChained, BooksFresh
    <2>2. CASE /\ n = Len(results[p])
               /\ results' = [results EXCEPT ![p] = Append(@, res)]
      <3>1. Fresh(res.book)
        BY <1>1, <1>3, RebuiltType, ApplyType
      <3>2. Len(results[p]) < Len(log[p])
        BY <2>2, <1>1, <1>3
      <3>3. res = Apply(Stream!BookAfter(results[p], Len(results[p])),
                        log[p][Len(results[p]) + 1])
        BY <2>2, <1>1
      <3>4. TypeOK /\ ResultsChained /\ BooksFresh
        BY DEF IInv
      <3>5. res \in ResultType /\ log' = log
        BY <1>1, <1>2
      <3> HIDE DEF res, msg, n
      <3> QED
        BY <2>2, <3>1, <3>2, <3>3, <3>4, <3>5, AppendKeepsHistory
    <2> QED
      BY <2>1, <2>2, <1>1
  <1>9. /\ AgreesWith(State, results') /\ Resumes(State, results')
        /\ AgreesWith(completed, results') /\ Resumes(completed, results')
        /\ triggered # None => AgreesWith(triggered, results') /\ Resumes(triggered, results')
    <2>1. /\ completed \in SavedType
          /\ triggered # None => triggered \in SavedType
      BY <1>3 DEF TypeOK
    <2>2. /\ AgreesWith(State, results) /\ Resumes(State, results)
          /\ AgreesWith(completed, results) /\ Resumes(completed, results)
          /\ triggered # None => AgreesWith(triggered, results) /\ Resumes(triggered, results)
      BY DEF IInv, ReplayIdentical, StateResumes
    <2> QED
      BY <2>1, <2>2, <1>1, <1>3, GrowthKeepsAgreement
  <1>10. AgreesWith(State', results') /\ Resumes(State', results')
    <2> SUFFICES ASSUME NEW q \in Product
                 PROVE  /\ offset'[q] <= Len(results'[q])
                        /\ rows'[q] = [i \in 1..offset'[q] |-> results'[q][i].top]
                        /\ Rebuilt(keyed'[q]) = Stream!BookAfter(results'[q], offset'[q])
      BY DEF AgreesWith, Resumes, State
    <2>1. /\ offset[q] <= Len(results'[q])
          /\ rows[q] = [i \in 1..offset[q] |-> results'[q][i].top]
          /\ Rebuilt(keyed[q]) = Stream!BookAfter(results'[q], offset[q])
      BY <1>9 DEF AgreesWith, Resumes, State
    <2>2. CASE q # p
      BY <2>1, <2>2, <1>6
    <2>3. CASE q = p
      <3>1. offset'[q] <= Len(results'[q])
        BY <2>3, <1>1, <1>6
      <3>2. rows'[p] = [i \in 1..(n + 1) |-> results'[p][i].top]
        BY <2>1, <2>3, <1>1, <1>3, <1>6
      <3>3. Stream!BookAfter(results'[p], n + 1) = res.book
        BY <1>1, <1>3 DEF Stream!BookAfter
      <3> QED
        BY <3>1, <3>2, <3>3, <2>3, <1>4, <1>6
    <2> QED
      BY <2>2, <2>3
  <1>11. WriteThroughComplete'
    BY <1>4, <1>6 DEF IInv, WriteThroughComplete
  <1>12. ReplayIdentical' /\ StateResumes'
    BY <1>2, <1>9, <1>10 DEF ReplayIdentical, StateResumes
  <1> QED
    BY <1>7, <1>8, <1>11, <1>12 DEF IInv

(* Writing a message to a partition preserves the invariant.               *)
LEMMA PublishKeepsIInv ==
    ASSUME IInv, NEW p \in Product, NEW msg \in Msg, Publish(p, msg)
    PROVE  IInv'
  <1> USE DEF IInv
  <1>1. /\ log \in [Product -> Seq(Msg)]
        /\ log' = [log EXCEPT ![p] = Append(@, msg)]
        /\ UNCHANGED <<books, keyed, offset, rows, results, completed, triggered, restarts, status>>
    BY DEF TypeOK, Publish, operatorVars, checkpointVars
  <1>2. TypeOK'
    BY <1>1 DEF TypeOK
  <1>3. \A q \in Product :
            /\ Len(log[q]) <= Len(log'[q])
            /\ \A i \in 1..Len(log[q]) : log'[q][i] = log[q][i]
    <2> SUFFICES ASSUME NEW q \in Product
                 PROVE  /\ Len(log[q]) <= Len(log'[q])
                        /\ \A i \in 1..Len(log[q]) : log'[q][i] = log[q][i]
      OBVIOUS
    <2>1. CASE q = p
      BY <2>1, <1>1
    <2>2. CASE q # p
      BY <2>2, <1>1
    <2> QED
      BY <2>1, <2>2
  <1>4. ResultsChained'
    <2> SUFFICES ASSUME NEW q \in Product
                 PROVE  /\ Len(results[q]) <= Len(log'[q])
                        /\ \A i \in 1..Len(results[q]) :
                               results[q][i] =
                                   Apply(Stream!BookAfter(results[q], i - 1), log'[q][i])
      BY <1>1 DEF ResultsChained
    <2>1. /\ Len(results[q]) \in Nat
          /\ Len(log[q]) \in Nat
          /\ Len(log'[q]) \in Nat
      BY <1>1, <1>2 DEF TypeOK
    <2> QED
      BY <2>1, <1>3 DEF ResultsChained
  <1>5. BooksFresh' /\ WriteThroughComplete'
    BY <1>1 DEF BooksFresh, WriteThroughComplete
  <1>6. ReplayIdentical' /\ StateResumes'
    BY <1>1 DEF ReplayIdentical, StateResumes, State
  <1> QED
    BY <1>2, <1>4, <1>5, <1>6

(* Taking, completing and returning to a checkpoint, and giving up, leave  *)
(* the history alone and move agreement with it from state to state.       *)
LEMMA CheckpointKeepsIInv ==
    ASSUME IInv,
           \/ TriggerCheckpoint
           \/ CompleteCheckpoint
           \/ Restart
           \/ GiveUp
           \/ UNCHANGED vars
    PROVE  IInv'
  <1> USE DEF IInv
  <1>1. /\ TypeOK
        /\ State \in SavedType
        /\ AgreesWith(State, results) /\ Resumes(State, results)
        /\ AgreesWith(completed, results) /\ Resumes(completed, results)
        /\ triggered # None => AgreesWith(triggered, results) /\ Resumes(triggered, results)
    BY DEF TypeOK, State, SavedType, ReplayIdentical, StateResumes
  <1>2. log' = log /\ results' = results
    BY DEF TriggerCheckpoint, CompleteCheckpoint, Restart, GiveUp, vars, operatorVars
  <1>3. ResultsChained' /\ BooksFresh'
    BY <1>2 DEF ResultsChained, BooksFresh
  <1>4. CASE TriggerCheckpoint
    <2>1. /\ triggered' = State
          /\ UNCHANGED <<log, books, keyed, offset, rows, results, completed, restarts, status>>
      BY <1>4 DEF TriggerCheckpoint, operatorVars
    <2>2. State' = State
      BY <2>1 DEF State
    <2>3. TypeOK'
      BY <1>1, <2>1 DEF TypeOK
    <2> QED
      BY <1>1, <1>3, <2>1, <2>2, <2>3 DEF ReplayIdentical, StateResumes, WriteThroughComplete
  <1>5. CASE CompleteCheckpoint
    <2>1. /\ triggered # None
          /\ completed' = triggered
          /\ triggered' = None
          /\ UNCHANGED <<log, books, keyed, offset, rows, results, restarts, status>>
      BY <1>5 DEF CompleteCheckpoint, operatorVars
    <2>2. State' = State
      BY <2>1 DEF State
    <2>3. TypeOK'
      BY <1>1, <2>1 DEF TypeOK
    <2> QED
      BY <1>1, <1>3, <2>1, <2>2, <2>3 DEF ReplayIdentical, StateResumes, WriteThroughComplete
  <1>6. CASE Restart
    <2>1. /\ restarts < RestartAttempts
          /\ restarts' = restarts + 1
          /\ books' = NoBooks
          /\ keyed' = completed.keyed
          /\ offset' = completed.offset
          /\ rows' = completed.rows
          /\ triggered' = None
          /\ UNCHANGED <<log, completed, status, results>>
      BY <1>6 DEF Restart
    <2>2. completed \in SavedType
      BY <1>1 DEF TypeOK
    <2>3. State' = completed
      BY <2>1, <2>2 DEF State, SavedType
    <2>4. restarts' \in 0..RestartAttempts
      BY <1>1, <2>1, RestartAssumption DEF TypeOK
    <2>5. TypeOK'
      BY <1>1, <2>1, <2>2, <2>4 DEF TypeOK, SavedType, NoBooks
    <2>6. WriteThroughComplete'
      BY <2>1 DEF WriteThroughComplete, NoBooks
    <2> QED
      BY <1>1, <1>3, <2>1, <2>3, <2>5, <2>6 DEF ReplayIdentical, StateResumes
  <1>7. CASE GiveUp
    <2>1. /\ status' = "failed"
          /\ UNCHANGED <<log, books, keyed, offset, rows, results, completed, triggered, restarts>>
      BY <1>7 DEF GiveUp, operatorVars
    <2>2. State' = State
      BY <2>1 DEF State
    <2>3. TypeOK'
      BY <1>1, <2>1 DEF TypeOK
    <2> QED
      BY <1>1, <1>3, <2>1, <2>2, <2>3 DEF ReplayIdentical, StateResumes, WriteThroughComplete
  <1>8. CASE UNCHANGED vars
    <2>1. UNCHANGED <<log, books, keyed, offset, rows, results, completed, triggered,
                      restarts, status>>
      BY <1>8 DEF vars
    <2>2. State' = State
      BY <2>1 DEF State
    <2>3. TypeOK'
      BY <1>1, <2>1 DEF TypeOK
    <2> QED
      BY <1>1, <1>3, <2>1, <2>2, <2>3 DEF ReplayIdentical, StateResumes, WriteThroughComplete
  <1> QED
    BY <1>4, <1>5, <1>6, <1>7, <1>8

-----------------------------------------------------------------------------
(* The inductive invariant: at every step of the job, the cache, the keyed *)
(* state and every checkpoint agree with one history of first results.     *)
THEOREM Invariance == Spec => []IInv
  <1>1. Init => IInv
    BY InitIInv
  <1>2. IInv /\ [Next]_vars => IInv'
    BY ProcessKeepsIInv, PublishKeepsIInv, CheckpointKeepsIInv DEF Next
  <1> QED
    BY <1>1, <1>2, PTL DEF Spec

(* The job's variables keep their types.                                   *)
THEOREM TypeCorrectness == Spec => []TypeOK
  <1>1. IInv => TypeOK
    BY DEF IInv
  <1> QED
    BY <1>1, Invariance, PTL

(* However the job is interrupted, the keyed state rebuilds the cached     *)
(* book: "a restored job continues mid-epoch".                             *)
THEOREM WriteThroughSafety == Spec => []WriteThroughComplete
  <1>1. IInv => WriteThroughComplete
    BY DEF IInv
  <1> QED
    BY <1>1, Invariance, PTL

(* A message processed again after a restart yields the row it yielded the *)
(* first time.                                                             *)
THEOREM ReplaySafety == Spec => []ReplayIdentical
  <1>1. IInv => ReplayIdentical
    BY DEF IInv
  <1> QED
    BY <1>1, Invariance, PTL

-----------------------------------------------------------------------------
(* The job implements BookStream: caches, keyed state, checkpoints and     *)
(* restarts are invisible in the history of first results.                 *)
THEOREM Refinement == Spec => ExactlyOnce
  <1>1. Init => Stream!StreamInit
    BY DEF Init, Stream!StreamInit
  <1>2. IInv /\ [Next]_vars => [Stream!StreamNext]_(Stream!streamVars)
    <2> SUFFICES ASSUME IInv, [Next]_vars
                 PROVE  [Stream!StreamNext]_(Stream!streamVars)
      OBVIOUS
    <2>1. ASSUME NEW p \in Product, Process(p)
          PROVE  Stream!Consume(p) \/ UNCHANGED Stream!streamVars
      <3> DEFINE msg == log[p][offset[p] + 1]
                 res == Apply(Cached(p), msg)
      <3>1. /\ Cached(p) = Stream!BookAfter(results[p], offset[p])
            /\ offset[p] + 1 \in 1..Len(log[p])
            /\ \/ results' = results
               \/ /\ offset[p] = Len(results[p])
                  /\ results' = [results EXCEPT ![p] = Append(@, res)]
        BY <2>1, ProcessResult
      <3>2. log' = log /\ offset[p] < Len(log[p])
        BY <2>1 DEF Process
      <3> QED
        BY <3>1, <3>2 DEF Stream!Consume, Stream!streamVars
    <2>2. ASSUME NEW p \in Product, NEW msg \in Msg, Publish(p, msg)
          PROVE  Stream!Publish(p, msg)
      BY <2>2 DEF Publish, operatorVars, Stream!Publish
    <2>3. ASSUME \/ TriggerCheckpoint
                 \/ CompleteCheckpoint
                 \/ Restart
                 \/ GiveUp
                 \/ UNCHANGED vars
          PROVE  UNCHANGED Stream!streamVars
      BY <2>3 DEF TriggerCheckpoint, CompleteCheckpoint, Restart, GiveUp, vars, operatorVars,
                  Stream!streamVars
    <2> QED
      BY <2>1, <2>2, <2>3 DEF Next, Stream!StreamNext
  <1> QED
    BY <1>1, <1>2, Invariance, PTL DEF Spec, ExactlyOnce, Stream!StreamSpec

-----------------------------------------------------------------------------
(* Order flow imbalance.  The rows emitted since the last snapshot, among  *)
(* the first n results, and the quote of the latest of them.               *)
Emitters(seq, n) ==
    {j \in 1..n : seq[j].top # None /\ \A k \in (j + 1)..n : ~ seq[k].snapshot}

LatestQuote(seq, n) ==
    IF Emitters(seq, n) = {} THEN None ELSE seq[Max(Emitters(seq, n))].top.quote

(* A book remembers the quote of the row it yielded; one that yielded none *)
(* keeps the quote it had, unless a snapshot took its place.               *)
LEMMA ApplyTracks ==
    ASSUME NEW bk \in BookType, NEW msg \in MsgType, NEW res, res = Apply(bk, msg)
    PROVE  /\ res.book.prevTop = IF res.top # None THEN res.top.quote
                                 ELSE IF res.snapshot THEN None ELSE bk.prevTop
           /\ res.top # None =>
                  res.top.ofi = Ofi(IF res.snapshot THEN None ELSE bk.prevTop, res.top.quote)
  <1>1. ASSUME NEW b \in BookType
        PROVE  /\ Advanced(b).prevTop = IF TopOf(b) # None THEN TopOf(b).quote ELSE b.prevTop
               /\ TopOf(b) # None => TopOf(b).ofi = Ofi(b.prevTop, TopOf(b).quote)
    <2>1. CASE Emittable(b)
      <3>1. /\ TopOf(b) # None /\ TopOf(b).quote = QuoteOf(b)
            /\ TopOf(b).ofi = Ofi(b.prevTop, QuoteOf(b))
        <4>1. TopOf(b) \in RowType
          BY <2>1, RowOfType
        <4> QED
          BY <2>1, <4>1, NoneAssumption DEF TopOf
      <3> QED
        BY <2>1, <3>1 DEF Advanced, BookType
    <2>2. CASE ~ Emittable(b)
      BY <2>2 DEF TopOf, Advanced, BookType
    <2> QED
      BY <2>1, <2>2
  <1>2. CASE msg.type = "snapshot"
    <2>1. Replaced(bk, msg) \in BookType /\ Replaced(bk, msg).prevTop = None
      BY <1>2 DEF Replaced, BookType, MsgType
    <2>2. res = Applied(Replaced(bk, msg), TRUE, <<>>)
      BY <1>2 DEF Apply
    <2>3. /\ res.book = Advanced(Replaced(bk, msg)) /\ res.top = TopOf(Replaced(bk, msg))
          /\ res.snapshot
      BY <2>2 DEF Applied
    <2> QED
      BY <1>1, <2>1, <2>3
  <1>3. CASE msg.type = "l2update" /\ msg.epoch = bk.epoch
    <2>1. /\ Updated(bk, msg.changes) \in BookType
          /\ Updated(bk, msg.changes).prevTop = bk.prevTop
      <3>1. /\ Patched(bk.bids, "bid", msg.changes) \in SideType
            /\ Patched(bk.asks, "ask", msg.changes) \in SideType
        BY <1>3, PatchedType DEF BookType, MsgType
      <3> QED
        BY <3>1 DEF Updated, BookType
    <2>2. res = Applied(Updated(bk, msg.changes), FALSE, msg.changes)
      BY <1>3 DEF Apply
    <2>3. /\ res.book = Advanced(Updated(bk, msg.changes))
          /\ res.top = TopOf(Updated(bk, msg.changes)) /\ ~ res.snapshot
      BY <2>2 DEF Applied
    <2> QED
      BY <1>1, <2>1, <2>3
  <1>4. CASE msg.type = "l2update" /\ msg.epoch # bk.epoch
    BY <1>4 DEF Apply, Dropped
  <1> QED
    BY <1>2, <1>3, <1>4 DEF MsgType

(* One result more: its row is the latest, or a snapshot without a row     *)
(* forgets the others, or nothing changes.                                 *)
LEMMA LatestQuoteStep ==
    ASSUME NEW seq \in Seq(ResultType), NEW n \in 1..Len(seq)
    PROVE  LatestQuote(seq, n) = IF seq[n].top # None THEN seq[n].top.quote
                                 ELSE IF seq[n].snapshot THEN None ELSE LatestQuote(seq, n - 1)
  <1>1. n \in Nat /\ n - 1 \in Nat
    OBVIOUS
  <1>2. CASE seq[n].top # None
    <2>1. n \in Emitters(seq, n) /\ Emitters(seq, n) \in SUBSET (0..n)
      BY <1>1, <1>2 DEF Emitters
    <2>2. Max(Emitters(seq, n)) = n
      <3> DEFINE S == Emitters(seq, n)
      <3>1. S \in SUBSET (0..n) /\ n \in S
        BY <2>1
      <3> HIDE DEF S
      <3>2. Max(S) \in S /\ Max(S) >= n
        BY <1>1, <3>1, MaxProperty
      <3>3. Max(S) \in 0..n
        BY <3>1, <3>2
      <3>4. Max(S) = n
        BY <1>1, <3>2, <3>3
      <3> QED
        BY <3>4 DEF S
    <2> QED
      BY <1>2, <2>1, <2>2 DEF LatestQuote
  <1>3. CASE seq[n].top = None /\ seq[n].snapshot
    <2>1. Emitters(seq, n) = {}
      BY <1>1, <1>3 DEF Emitters
    <2> QED
      BY <1>3, <2>1 DEF LatestQuote
  <1>4. CASE seq[n].top = None /\ ~ seq[n].snapshot
    <2>1. Emitters(seq, n) = Emitters(seq, n - 1)
      <3>1. \A j \in 1..n : j # n => j \in 1..(n - 1)
        BY <1>1
      <3>2. \A j \in 1..(n - 1) :
              /\ j \in 1..n
              /\ \A k \in (j + 1)..n : k = n \/ k \in (j + 1)..(n - 1)
              /\ \A k \in (j + 1)..(n - 1) : k \in (j + 1)..n
        BY <1>1
      <3> QED
        BY <1>4, <3>1, <3>2 DEF Emitters
    <2> QED
      BY <1>4, <2>1 DEF LatestQuote
  <1> QED
    BY <1>2, <1>3, <1>4

LEMMA HistoryBookType ==
    ASSUME NEW seq \in Seq(ResultType), NEW n \in 0..Len(seq)
    PROVE  Stream!BookAfter(seq, n) \in BookType
  <1>1. CASE n = 0
    BY <1>1, NewBookType DEF Stream!BookAfter
  <1>2. CASE n # 0
    <2>1. n \in 1..Len(seq)
      BY <1>2
    <2>2. seq[n] \in ResultType
      BY <2>1
    <2>3. seq[n].book \in BookType
      BY <2>2 DEF ResultType
    <2> QED
      BY <1>2, <2>3 DEF Stream!BookAfter
  <1> QED
    BY <1>1, <1>2

(* The book after n results remembers the latest quote of theirs: the      *)
(* least n for which it does not would follow one for which it does.       *)
LEMMA PrevTopTracked ==
    ASSUME IInv, NEW p \in Product, NEW n \in 0..Len(results[p])
    PROVE  Stream!BookAfter(results[p], n).prevTop = LatestQuote(results[p], n)
  <1> DEFINE seq == results[p]
             Tracked(m) == Stream!BookAfter(seq, m).prevTop = LatestQuote(seq, m)
             Wrong == {m \in 0..Len(seq) : ~ Tracked(m)}
  <1>1. seq \in Seq(ResultType) /\ Len(seq) \in Nat /\ log[p] \in Seq(Msg)
    BY DEF IInv, TypeOK
  <1>2. Tracked(0)
    BY DEF Stream!BookAfter, NewBook, LatestQuote, Emitters
  <1>3. ASSUME NEW m \in 1..Len(seq), Tracked(m - 1) PROVE Tracked(m)
    <2>1. /\ m - 1 \in 0..Len(seq) /\ m \in 1..Len(log[p])
          /\ seq[m] = Apply(Stream!BookAfter(seq, m - 1), log[p][m])
      BY <1>1 DEF IInv, ResultsChained, TypeOK
    <2>2. Stream!BookAfter(seq, m - 1) \in BookType
      BY <1>1, <2>1, HistoryBookType
    <2>3. log[p][m] \in MsgType
      BY <1>1, <2>1, MsgAssumption
    <2>4. Stream!BookAfter(seq, m) = seq[m].book
      BY <1>1 DEF Stream!BookAfter
    <2> HIDE DEF seq
    <2> QED
      BY <1>1, <1>3, <2>1, <2>2, <2>3, <2>4, ApplyTracks, LatestQuoteStep
  <1>4. ASSUME Wrong # {} PROVE FALSE
    <2> HIDE DEF Tracked, seq
    <2>1. Wrong \in SUBSET Nat
      OBVIOUS
    <2>2. PICK m \in Wrong : \A k \in Wrong : m <= k
      BY <1>4, <2>1, LeastElement
    <2>3. m # 0 /\ m \in 1..Len(seq) /\ m - 1 \in 0..Len(seq)
      BY <1>1, <1>2, <2>2
    <2>4. m - 1 \notin Wrong
      BY <2>1, <2>2, <2>3
    <2> QED
      BY <1>3, <2>2, <2>3, <2>4
  <1> QED
    BY <1>4

(* The comment in book.py, "OFI must not bridge a reconnect": a row's OFI  *)
(* compares its quote with the latest one emitted since its snapshot, and  *)
(* is 0 for the first, however often the job was restored in between.      *)
THEOREM OfiSafety == Spec => []OfiWithinSnapshot
  <1>1. ASSUME IInv PROVE OfiWithinSnapshot
    <2> SUFFICES ASSUME NEW p \in Product, NEW i \in 1..Len(results[p]),
                        results[p][i].top # None
                 PROVE  LET seq == results[p]
                            earlier == {j \in 1..(i - 1) :
                                           /\ seq[j].top # None
                                           /\ \A k \in (j + 1)..i : ~ seq[k].snapshot}
                        IN  seq[i].top.ofi =
                                Ofi(IF earlier = {} THEN None
                                    ELSE seq[Max(earlier)].top.quote, seq[i].top.quote)
      BY DEF OfiWithinSnapshot
    <2> DEFINE seq == results[p]
               before == Stream!BookAfter(seq, i - 1)
               earlier == {j \in 1..(i - 1) :
                              /\ seq[j].top # None
                              /\ \A k \in (j + 1)..i : ~ seq[k].snapshot}
    <2>1. seq \in Seq(ResultType) /\ Len(seq) \in Nat /\ log[p] \in Seq(Msg)
      BY <1>1 DEF IInv, TypeOK
    <2>2. /\ i - 1 \in 0..Len(seq) /\ i \in 1..Len(log[p])
          /\ seq[i] = Apply(before, log[p][i])
      BY <1>1, <2>1 DEF IInv, ResultsChained, TypeOK
    <2>3. before \in BookType /\ log[p][i] \in MsgType
      <3>1. before \in BookType
        BY <2>1, <2>2, HistoryBookType
      <3>2. log[p][i] \in Msg
        BY <2>1, <2>2
      <3> QED
        BY <3>1, <3>2, MsgAssumption
    <2>4. before.prevTop = LatestQuote(seq, i - 1)
      BY <1>1, <2>2, PrevTopTracked
    <2>5. seq[i].top.ofi = Ofi(IF seq[i].snapshot THEN None ELSE before.prevTop,
                               seq[i].top.quote)
      <3> HIDE DEF before, seq
      <3> QED
        BY <2>2, <2>3, ApplyTracks DEF seq
    <2>6. CASE seq[i].snapshot
      <3>1. earlier = {}
        BY <2>6, <2>2
      <3> QED
        BY <2>5, <2>6, <3>1
    <2>7. CASE ~ seq[i].snapshot
      <3>1. earlier = Emitters(seq, i - 1)
        <4>1. \A j \in 1..(i - 1) :
                /\ \A k \in (j + 1)..i : k = i \/ k \in (j + 1)..(i - 1)
                /\ \A k \in (j + 1)..(i - 1) : k \in (j + 1)..i
          BY <2>2
        <4> HIDE DEF seq
        <4> QED
          BY <2>7, <4>1 DEF Emitters
      <3> QED
        BY <2>4, <2>5, <2>7, <3>1 DEF LatestQuote
    <2> QED
      BY <2>6, <2>7
  <1> QED
    BY <1>1, Invariance, PTL

-----------------------------------------------------------------------------
(* Checkpoints are taken, and complete, in the order of their offsets.     *)
NoLater(earlier, later) == \A p \in Product : earlier.offset[p] <= later.offset[p]

CheckpointsOrdered ==
    /\ NoLater(completed, State)
    /\ triggered # None => NoLater(completed, triggered) /\ NoLater(triggered, State)

LEMMA OrderedStep ==
    ASSUME IInv, CheckpointsOrdered, [Next]_vars PROVE CheckpointsOrdered'
  <1>1. /\ offset \in [Product -> Nat] /\ State.offset = offset /\ State'.offset = offset'
        /\ \A p \in Product : completed.offset[p] \in Nat
        /\ triggered # None => \A p \in Product : triggered.offset[p] \in Nat
    <2>1. completed \in SavedType /\ (triggered # None => triggered \in SavedType)
      BY DEF IInv, TypeOK
    <2>2. offset \in [Product -> Nat]
      BY DEF IInv, TypeOK
    <2> QED
      BY <2>1, <2>2 DEF SavedType, State
  <1>2. CASE \E p \in Product : Process(p)
    <2>1. PICK p \in Product : Process(p)
      BY <1>2
    <2>2. offset' = [offset EXCEPT ![p] = @ + 1] /\ UNCHANGED <<completed, triggered>>
      BY <2>1 DEF Process, checkpointVars
    <2>3. \A q \in Product : offset[q] <= offset'[q] /\ offset'[q] \in Nat
      BY <1>1, <2>2
    <2> QED
      BY <1>1, <2>2, <2>3 DEF CheckpointsOrdered, NoLater
  <1>3. CASE /\ UNCHANGED offset
             /\ \/ UNCHANGED <<completed, triggered>>
                \/ triggered' = State /\ UNCHANGED completed
                \/ triggered # None /\ completed' = triggered /\ triggered' = None
    BY <1>1, <1>3 DEF CheckpointsOrdered, NoLater
  <1>4. CASE Restart
    BY <1>1, <1>4 DEF Restart, CheckpointsOrdered, NoLater
  <1>5. \/ \E p \in Product : Process(p)
        \/ Restart
        \/ /\ UNCHANGED offset
           /\ \/ UNCHANGED <<completed, triggered>>
              \/ triggered' = State /\ UNCHANGED completed
              \/ triggered # None /\ completed' = triggered /\ triggered' = None
    BY DEF Next, vars, operatorVars, checkpointVars, Publish, TriggerCheckpoint,
           CompleteCheckpoint, GiveUp
  <1> QED
    BY <1>2, <1>3, <1>4, <1>5

(* Rows a completed checkpoint covers are in Iceberg, and no later one     *)
(* retracts or changes them: both hold the first results.                  *)
THEOREM CommitSafety == Spec => CommittedRowsStay
  <1> DEFINE Stay == \A p \in Product : IsPrefix(completed.rows[p], completed'.rows[p])
  <1>1. Init => CheckpointsOrdered
    BY DEF Init, CheckpointsOrdered, NoLater, State
  <1>2. IInv /\ CheckpointsOrdered /\ [Next]_vars => CheckpointsOrdered'
    BY OrderedStep
  <1>3. ASSUME IInv, CheckpointsOrdered, [Next]_vars PROVE Stay
    <2>1. completed \in SavedType /\ AgreesWith(completed, results)
      BY <1>3 DEF IInv, TypeOK, ReplayIdentical
    <2>2. CASE UNCHANGED completed
      <3>1. \A p \in Product : completed.rows[p] \in Seq(RowType \union {None})
        BY <2>1 DEF SavedType
      <3> QED
        BY <2>2, <3>1 DEF IsPrefix
    <2>3. CASE triggered # None /\ completed' = triggered
      <3>1. /\ triggered \in SavedType /\ AgreesWith(triggered, results)
            /\ NoLater(completed, triggered)
        BY <1>3, <2>3 DEF IInv, TypeOK, ReplayIdentical, CheckpointsOrdered
      <3>2. ASSUME NEW p \in Product PROVE IsPrefix(completed.rows[p], triggered.rows[p])
        <4> DEFINE early == completed.rows[p]
                   late == triggered.rows[p]
                   m == completed.offset[p]
                   n == triggered.offset[p]
        <4>1. /\ m \in Nat /\ n \in Nat /\ m <= n
              /\ early \in Seq(RowType \union {None}) /\ late \in Seq(RowType \union {None})
          BY <2>1, <3>1 DEF SavedType, NoLater
        <4>2. /\ early = [i \in 1..m |-> results[p][i].top]
              /\ late = [i \in 1..n |-> results[p][i].top]
          BY <2>1, <3>1 DEF AgreesWith
        <4> HIDE DEF early, late, m, n
        <4>3. Len(early) = m /\ Len(late) = n
          BY <4>1, <4>2
        <4>4. \A i \in 1..m : early[i] = late[i]
          BY <4>1, <4>2
        <4>5. SubSeq(early, 1, m) = SubSeq(late, 1, m)
          BY <4>1, <4>3, <4>4
        <4>6. IsPrefix(early, late)
          BY <4>1, <4>3, <4>5 DEF IsPrefix
        <4> QED
          BY <4>6 DEF early, late
      <3> QED
        BY <2>3, <3>2
    <2> QED
      BY <1>3, <2>2, <2>3
         DEF Next, vars, operatorVars, checkpointVars, Process, Publish, TriggerCheckpoint,
             CompleteCheckpoint, Restart, GiveUp
  <1>4. IInv /\ CheckpointsOrdered /\ [Next]_vars => [Stay]_vars
    BY <1>3
  <1> QED
    BY <1>1, <1>2, <1>4, Invariance, PTL DEF Spec, CommittedRowsStay

-----------------------------------------------------------------------------
(* The feed.                                                               *)

OfThisProcess(i) == topic[i].run = starts

(* A process and an epoch name one connection, and each connection has one *)
(* such name.                                                              *)
EpochsName ==
    \A i, j \in DOMAIN topic :
        (topic[i].run = topic[j].run /\ topic[i].msg.epoch = topic[j].msg.epoch)
            <=> topic[i].conn = topic[j].conn

(* The records are of this process and connection, or of earlier ones.     *)
LoopAhead ==
    /\ phase = "open" => conn > 0
    /\ \A i \in DOMAIN topic :
           /\ topic[i].conn \in 1..conn
           /\ topic[i].run <= starts
           /\ OfThisProcess(i) => topic[i].msg.epoch <= epoch
           /\ OfThisProcess(i) /\ phase = "connecting" => topic[i].msg.epoch < epoch
           /\ phase = "open" =>
                  (topic[i].conn = conn <=> OfThisProcess(i) /\ topic[i].msg.epoch = epoch)

(* The consumer's book has the epoch of a record of the connection it is   *)
(* built on.                                                               *)
BuiltOn ==
    book.epoch # None =>
        \E i \in 1..consumed : topic[i].conn = source /\ topic[i].msg.epoch = book.epoch

FeedInv ==
    /\ RunnerInv
    /\ FeedTypeOK
    /\ EpochsName
    /\ LoopAhead
    /\ BuiltOn

-----------------------------------------------------------------------------
(* What the types say of a record.                                         *)
LEMMA RecordFacts ==
    ASSUME FeedTypeOK, NEW i \in DOMAIN topic
    PROVE  /\ topic[i].msg \in MsgType /\ topic[i].msg.epoch \in Nat
           /\ topic[i].run \in Nat /\ topic[i].conn \in Nat
<1>1. topic[i] \in RecordType
  BY DEF FeedTypeOK
<1>2. topic[i].msg \in MsgType /\ topic[i].run \in Nat /\ topic[i].conn \in Nat
  BY <1>1 DEF RecordType
<1>3. topic[i].msg.epoch \in Nat
  BY <1>2 DEF MsgType
<1> QED
  BY <1>2, <1>3

(* The invariant implies the property.                                     *)
LEMMA FeedInvBinds == FeedInv => EpochBindsInProcess
<1> SUFFICES ASSUME FeedInv, consumed < Len(topic),
                    topic[consumed + 1].msg.type = "l2update",
                    ~ Apply(book, topic[consumed + 1].msg).dropped,
                    NEW i \in 1..consumed, topic[i].conn = source,
                    topic[i].run = topic[consumed + 1].run
             PROVE  topic[consumed + 1].conn = source
  BY DEF EpochBindsInProcess, FeedInv
<1> DEFINE next == topic[consumed + 1]
<1>1. /\ topic \in Seq(RecordType) /\ consumed \in 0..Len(topic)
      /\ consumed + 1 \in DOMAIN topic /\ 1..consumed \subseteq DOMAIN topic
  BY DEF FeedInv, FeedTypeOK
<1>2. next.msg \in MsgType /\ next.msg.epoch \in Nat
  BY <1>1, RecordFacts DEF FeedInv
<1>3. next.msg.epoch = book.epoch
  BY DEF Apply, Dropped
<1>4. PICK k \in 1..consumed : topic[k].conn = source /\ topic[k].msg.epoch = book.epoch
  BY <1>2, <1>3, NoneAssumption DEF FeedInv, BuiltOn
<1>5. topic[i].run = topic[k].run
  BY <1>1, <1>4 DEF FeedInv, EpochsName
<1>6. topic[k].run = next.run /\ topic[k].msg.epoch = next.msg.epoch
  BY <1>3, <1>4, <1>5
<1>7. topic[k].conn = next.conn
  BY <1>1, <1>6 DEF FeedInv, EpochsName
<1> QED
  BY <1>4, <1>7

LEMMA FeedInitInv == FeedInit => FeedInv
<1> SUFFICES ASSUME FeedInit PROVE FeedInv
  OBVIOUS
<1>1. RunnerInv
  BY RunnerInitInv DEF FeedInit
<1>2. book \in BookType /\ book.epoch = None
  BY NewBookType DEF FeedInit, NewBook
<1>3. /\ topic = <<>> /\ wire = <<>> /\ lossy = {} /\ consumed = 0 /\ conn = 0 /\ source = 0
      /\ truth = FirstBook /\ made = 0 /\ lost = 0 /\ dlq = 0 /\ phase = "stopped"
  BY DEF FeedInit, RunnerInit
<1>4. FeedTypeOK
  BY <1>1, <1>2, <1>3, FeedAssumption DEF FeedTypeOK, RunnerInv
<1>5. EpochsName /\ LoopAhead /\ BuiltOn
  BY <1>2, <1>3 DEF EpochsName, LoopAhead, BuiltOn
<1> QED
  BY <1>1, <1>4, <1>5 DEF FeedInv

-----------------------------------------------------------------------------
(* A step of the loop that keeps the topic: what it may do to the loop's   *)
(* state so that the records stay behind it.                               *)
LEMMA LoopStays ==
    ASSUME FeedInv, LoopNext, UNCHANGED <<topic, conn>>
    PROVE  LoopAhead'
<1>1. epoch \in Nat /\ starts \in Nat
  BY DEF FeedInv, FeedTypeOK, RunnerTypeOK
<1>2. \A i \in DOMAIN topic : topic[i].run \in Nat /\ topic[i].msg.epoch \in Nat
  BY RecordFacts DEF FeedInv
<1>3. CASE Start
  BY <1>1, <1>2, <1>3 DEF Start, FeedInv, LoopAhead, OfThisProcess
<1>4. CASE Wake
  BY <1>1, <1>2, <1>4 DEF Wake, FeedInv, LoopAhead, OfThisProcess
<1>5. CASE Disconnect \/ IdleTimeout \/ RouteFails \/ Cancel
  <2>1. phase' \in {"sleeping", "stopped"} /\ epoch' = epoch /\ starts' = starts
    BY <1>5, LeaveTypes DEF Disconnect, IdleTimeout, RouteFails, Cancel, BackOff, Stop
  <2> QED
    BY <2>1 DEF FeedInv, LoopAhead, OfThisProcess
<1>6. CASE GrowStable \/ FallSilent
  BY <1>6 DEF GrowStable, FallSilent, FeedInv, LoopAhead, OfThisProcess
<1> QED
  BY <1>3, <1>4, <1>5, <1>6 DEF LoopNext

(* The topic stays as it is: so does what is said of it alone.             *)
LEMMA TopicStays ==
    ASSUME FeedInv, UNCHANGED <<topic, consumerVars>>
    PROVE  EpochsName' /\ BuiltOn'
  BY DEF FeedInv, EpochsName, BuiltOn, consumerVars

(* What the exchange sends is of its type, also after a change.            *)
LEMMA ChangedType ==
    ASSUME NEW book0 \in [bids: SideType, asks: SideType], NEW change \in Change
    PROVE  [bids |-> Patched(book0.bids, "bid", <<change>>),
            asks |-> Patched(book0.asks, "ask", <<change>>)] \in [bids: SideType, asks: SideType]
<1>1. book0.bids \in SideType /\ book0.asks \in SideType
  OBVIOUS
<1>2. <<change>> \in Seq(Change)
  OBVIOUS
<1>3. /\ Patched(book0.bids, "bid", <<change>>) \in SideType
      /\ Patched(book0.asks, "ask", <<change>>) \in SideType
  BY <1>1, <1>2, PatchedType
<1> QED
  BY <1>3

LEMMA SubscribeKeeps == FeedInv /\ Subscribe => FeedInv'
<1> SUFFICES ASSUME FeedInv, Subscribe PROVE FeedInv'
  OBVIOUS
<1>1. RunnerInv'
  BY RunnerStepInv DEF FeedInv, Subscribe, RunnerNext
<1>2. /\ phase = "connecting" /\ phase' = "open" /\ epoch' = epoch /\ starts' = starts
      /\ conn' = conn + 1
      /\ UNCHANGED <<topic, lossy, lost, dlq, truth, made, consumerVars>>
  BY DEF Subscribe, Connect, kafkaVars, exchangeVars
<1>3. wire' \in Seq(SentType)
  BY DEF Subscribe, SentType, FeedInv, FeedTypeOK
<1>4. FeedTypeOK'
  BY <1>1, <1>2, <1>3 DEF FeedInv, FeedTypeOK, RunnerInv, consumerVars
<1>5. LoopAhead'
  <2>1. conn \in Nat
    BY DEF FeedInv, FeedTypeOK
  <2>2. \A i \in DOMAIN topic : /\ topic[i].conn \in 1..(conn + 1) /\ topic[i].conn # conn + 1
                                /\ OfThisProcess(i) => topic[i].msg.epoch # epoch
                                                       /\ topic[i].msg.epoch <= epoch
    <3> SUFFICES ASSUME NEW i \in DOMAIN topic
                 PROVE  /\ topic[i].conn \in 1..(conn + 1) /\ topic[i].conn # conn + 1
                        /\ OfThisProcess(i) => topic[i].msg.epoch # epoch
                                               /\ topic[i].msg.epoch <= epoch
      OBVIOUS
    <3>1. topic[i].msg.epoch \in Nat /\ epoch \in Nat
      BY RecordFacts DEF FeedInv, FeedTypeOK, RunnerTypeOK
    <3> QED
      BY <1>2, <2>1, <3>1 DEF FeedInv, LoopAhead
  <2> QED
    BY <1>2, <2>1, <2>2 DEF FeedInv, LoopAhead, OfThisProcess
<1> QED
  BY <1>1, <1>2, <1>4, <1>5, TopicStays DEF FeedInv

LEMMA ChangeBookKeeps == ASSUME FeedInv, NEW change \in Changes, ChangeBook(change) PROVE FeedInv'
<1> DEFINE changed == [bids |-> Patched(truth.bids, "bid", <<change>>),
                       asks |-> Patched(truth.asks, "ask", <<change>>)]
           sent == [type |-> "l2update", changes |-> <<change>>, truth |-> changed]
<1>1. /\ truth' = changed /\ made < MaxChanges /\ made' = made + 1
      /\ wire' = wire \/ wire' = Append(wire, sent)
      /\ UNCHANGED <<runnerVars, conn, kafkaVars, consumerVars>>
  BY DEF ChangeBook
<1>2. change \in Change /\ truth \in [bids: SideType, asks: SideType]
  BY FeedAssumption DEF FeedInv, FeedTypeOK
<1>3. changed \in [bids: SideType, asks: SideType]
  BY <1>2, ChangedType
<1>4. sent \in SentType
  BY <1>2, <1>3 DEF SentType
<1>5. RunnerInv'
  BY <1>1, RunnerStepInv DEF FeedInv
<1>6. /\ UNCHANGED <<phase, epoch, starts, topic, lossy, lost, dlq, consumed, book, source>>
  BY <1>1 DEF runnerVars, kafkaVars, consumerVars
<1>7. wire' \in Seq(SentType)
  <2>1. wire \in Seq(SentType)
    BY DEF FeedInv, FeedTypeOK
  <2>2. Append(wire, sent) \in Seq(SentType)
    BY <1>4, <2>1
  <2> QED
    BY <1>1, <2>1, <2>2, Zenon
<1>8. FeedTypeOK'
  <2>1. truth' \in [bids: SideType, asks: SideType]
    BY <1>1, <1>3
  <2>2. made' \in 0..MaxChanges
    BY <1>1, FeedAssumption DEF FeedInv, FeedTypeOK
  <2> QED
    BY <1>1, <1>5, <1>6, <1>7, <2>1, <2>2 DEF FeedInv, FeedTypeOK, RunnerInv
<1>9. LoopAhead'
  BY <1>1, <1>6 DEF FeedInv, LoopAhead, OfThisProcess
<1> QED
  BY <1>1, <1>5, <1>6, <1>8, <1>9, TopicStays DEF FeedInv

(* A record of the open connection is appended, or lost.                   *)
LEMMA RouteBookKeeps == FeedInv /\ RouteBook => FeedInv'
<1> SUFFICES ASSUME FeedInv, RouteBook PROVE FeedInv'
  OBVIOUS
<1> DEFINE sent == Head(wire)
           record == [msg |-> Stamped(sent, epoch), run |-> starts, conn |-> conn,
                      truth |-> sent.truth]
<1>1. RunnerInv'
  BY RunnerStepInv DEF FeedInv, RouteBook, RunnerNext
<1>2. /\ phase = "open" /\ phase' = "open" /\ epoch' = epoch /\ starts' = starts
      /\ UNCHANGED <<conn, truth, made, consumed, book, source>>
      /\ wire # <<>> /\ wire' = Tail(wire)
      /\ Arrives(record) \/ IsLost
  BY DEF RouteBook, Receive, exchangeVars, consumerVars
<1>3. /\ conn \in Nat /\ conn > 0 /\ starts \in Nat /\ epoch \in Nat
      /\ consumed \in 0..Len(topic) /\ topic \in Seq(RecordType)
  BY <1>2 DEF FeedInv, FeedTypeOK, RunnerTypeOK, LoopAhead
<1>4. record \in RecordType /\ record.msg.epoch = epoch
  <2>1. sent \in SentType
    BY <1>2 DEF FeedInv, FeedTypeOK
  <2>2. /\ sent.changes \in Seq(Change) /\ sent.truth \in [bids: SideType, asks: SideType]
        /\ sent.truth.bids \in SideType /\ sent.truth.asks \in SideType
    BY <2>1 DEF SentType
  <2>3. Stamped(sent, epoch) \in MsgType /\ Stamped(sent, epoch).epoch = epoch
    BY <1>3, <2>2 DEF Stamped, Snapshot, Delta, MsgType
  <2> QED
    BY <1>3, <2>2, <2>3 DEF RecordType
<1>5. wire' \in Seq(SentType)
  BY <1>2 DEF FeedInv, FeedTypeOK
<1>6. CASE Arrives(record)
  <2>1. topic' = Append(topic, record) /\ UNCHANGED <<lossy, lost, dlq>>
    BY <1>6 DEF Arrives
  <2>2. /\ topic' \in Seq(RecordType) /\ Len(topic') = Len(topic) + 1
        /\ DOMAIN topic' = DOMAIN topic \union {Len(topic) + 1}
        /\ Len(topic) + 1 \notin DOMAIN topic
        /\ \A i \in DOMAIN topic : topic'[i] = topic[i]
        /\ topic'[Len(topic) + 1] = record
    BY <1>3, <1>4, <2>1
  <2>3. FeedTypeOK'
    BY <1>1, <1>2, <1>3, <1>5, <2>1, <2>2 DEF FeedInv, FeedTypeOK, RunnerInv
  <2>4. \A i \in DOMAIN topic :
            (topic[i].run = record.run /\ topic[i].msg.epoch = record.msg.epoch)
                <=> topic[i].conn = record.conn
    BY <1>2, <1>4 DEF FeedInv, LoopAhead, OfThisProcess
  <2>5. EpochsName'
    BY <2>2, <2>4 DEF FeedInv, EpochsName
  <2>6. LoopAhead'
    <3> SUFFICES ASSUME NEW i \in DOMAIN topic'
                 PROVE  /\ topic'[i].conn \in 1..conn
                        /\ topic'[i].run <= starts
                        /\ topic'[i].run = starts => topic'[i].msg.epoch <= epoch
                        /\ topic'[i].conn = conn
                              <=> topic'[i].run = starts /\ topic'[i].msg.epoch = epoch
      BY <1>2, <1>3 DEF LoopAhead, OfThisProcess
    <3>1. CASE i \in DOMAIN topic
      BY <1>2, <2>2, <3>1 DEF FeedInv, LoopAhead, OfThisProcess
    <3>2. CASE i = Len(topic) + 1
      BY <1>3, <1>4, <2>2, <3>2
    <3> QED
      BY <2>2, <3>1, <3>2
  <2>7. BuiltOn'
    BY <1>2, <1>3, <2>2 DEF FeedInv, BuiltOn
  <2> QED
    BY <1>1, <2>3, <2>5, <2>6, <2>7 DEF FeedInv
<1>7. CASE IsLost
  <2>1. /\ topic' = topic /\ lossy' = lossy \union {conn}
        /\ lost + dlq < MaxLost
        /\ \/ lost' = lost + 1 /\ dlq' = dlq
           \/ dlq' = dlq + 1 /\ lost' = lost
    BY <1>7 DEF IsLost
  <2>2. lost' \in Nat /\ dlq' \in Nat /\ lost' + dlq' <= MaxLost
    BY <2>1, FeedAssumption DEF FeedInv, FeedTypeOK
  <2>3. FeedTypeOK'
    BY <1>1, <1>2, <1>3, <1>5, <2>1, <2>2 DEF FeedInv, FeedTypeOK, RunnerInv
  <2>4. LoopAhead'
    BY <1>2, <2>1 DEF FeedInv, LoopAhead, OfThisProcess
  <2> QED
    BY <1>1, <1>2, <2>1, <2>3, <2>4, TopicStays DEF FeedInv, consumerVars
<1> QED
  BY <1>2, <1>6, <1>7

(* The consumer applies a record: a snapshot moves the book to its          *)
(* connection and epoch, a delta leaves it on both.                        *)
LEMMA ConsumeKeeps == FeedInv /\ ConsumeRecord => FeedInv'
<1> SUFFICES ASSUME FeedInv, ConsumeRecord PROVE FeedInv'
  OBVIOUS
<1> DEFINE record == topic[consumed + 1]
           res == Apply(book, record.msg)
<1>1. /\ consumed < Len(topic) /\ consumed' = consumed + 1 /\ book' = res.book
      /\ source' = IF res.snapshot THEN record.conn ELSE source
      /\ UNCHANGED <<runnerVars, truth, made, conn, wire, topic, lossy, lost, dlq>>
  BY DEF ConsumeRecord, exchangeVars, linkVars, kafkaVars
<1>2. RunnerInv'
  BY <1>1, RunnerStepInv DEF FeedInv
<1>3. consumed \in Nat /\ consumed + 1 \in DOMAIN topic /\ conn \in Nat
  BY <1>1 DEF FeedInv, FeedTypeOK
<1>4. record.msg \in MsgType /\ record.conn \in 1..conn
  BY <1>3, RecordFacts DEF FeedInv, LoopAhead
<1>5. book \in BookType
  BY DEF FeedInv, FeedTypeOK
<1>6. res.book \in BookType
  BY <1>4, <1>5, ApplyType DEF ResultType
<1>7. FeedTypeOK'
  <2>1. consumed' \in 0..Len(topic) /\ source' \in 0..conn
    BY <1>1, <1>3, <1>4 DEF FeedInv, FeedTypeOK
  <2> QED
    BY <1>1, <1>2, <1>6, <2>1 DEF FeedInv, FeedTypeOK, RunnerInv
<1>8. \/ res.snapshot /\ res.book.epoch = record.msg.epoch
      \/ ~ res.snapshot /\ res.book.epoch = book.epoch
  <2>1. CASE record.msg.type = "snapshot"
    BY <1>5, <2>1 DEF Apply, Applied, Advanced, Replaced, BookType
  <2>2. CASE record.msg.type # "snapshot"
    BY <1>5, <2>2 DEF Apply, Applied, Advanced, Updated, Dropped, BookType
  <2> QED
    BY <2>1, <2>2
<1>9. BuiltOn'
  <2> SUFFICES ASSUME book'.epoch # None
               PROVE  \E i \in 1..(consumed + 1) :
                          topic[i].conn = source' /\ topic[i].msg.epoch = book'.epoch
    BY <1>1 DEF BuiltOn
  <2>1. CASE res.snapshot /\ res.book.epoch = record.msg.epoch
    BY <1>1, <1>3, <2>1
  <2>2. CASE ~ res.snapshot /\ res.book.epoch = book.epoch
    BY <1>1, <1>3, <2>2 DEF FeedInv, BuiltOn
  <2> QED
    BY <1>8, <2>1, <2>2
<1>10. EpochsName' /\ LoopAhead'
  BY <1>1 DEF FeedInv, EpochsName, LoopAhead, OfThisProcess, runnerVars
<1> QED
  BY <1>2, <1>7, <1>9, <1>10 DEF FeedInv

(* Whatever else the loop does, the topic and the consumer stay.           *)
LEMMA RunLoopKeeps == FeedInv /\ (RunLoop \/ RouteOther) => FeedInv'
<1> SUFFICES ASSUME FeedInv, RunLoop \/ RouteOther PROVE FeedInv'
  OBVIOUS
<1>1. RunnerInv'
  BY RunnerStepInv DEF FeedInv, RunLoop, RouteOther, RunnerNext
<1>2. /\ UNCHANGED <<truth, made, conn, topic, lossy, lost, dlq, consumed, book, source>>
      /\ wire' = wire \/ wire' = <<>>
  BY DEF RunLoop, RouteOther, exchangeVars, linkVars, kafkaVars, consumerVars
<1>3. wire' \in Seq(SentType)
  <2>1. wire \in Seq(SentType) /\ <<>> \in Seq(SentType)
    BY DEF FeedInv, FeedTypeOK
  <2> QED
    BY <1>2, <2>1, Zenon
<1>4. FeedTypeOK'
  BY <1>1, <1>2, <1>3 DEF FeedInv, FeedTypeOK, RunnerInv
<1>5. LoopAhead'
  <2>1. CASE RunLoop
    BY <1>2, <2>1, LoopStays DEF RunLoop
  <2>2. CASE RouteOther
    BY <1>2, <2>2 DEF RouteOther, Receive, FeedInv, LoopAhead, OfThisProcess
  <2> QED
    BY <2>1, <2>2
<1> QED
  BY <1>1, <1>2, <1>4, <1>5, TopicStays DEF FeedInv, consumerVars

LEMMA FeedStepInv == FeedInv /\ [FeedNext]_feedVars => FeedInv'
<1> SUFFICES ASSUME FeedInv, [FeedNext]_feedVars PROVE FeedInv'
  OBVIOUS
<1>1. CASE UNCHANGED feedVars
  <2>1. RunnerInv'
    BY <1>1, RunnerStepInv DEF FeedInv, feedVars
  <2>2. FeedTypeOK'
    BY <1>1, <2>1 DEF FeedInv, FeedTypeOK, RunnerInv, feedVars, exchangeVars, linkVars, kafkaVars,
                      consumerVars
  <2>3. EpochsName' /\ LoopAhead' /\ BuiltOn'
    BY <1>1 DEF FeedInv, EpochsName, LoopAhead, BuiltOn, OfThisProcess, feedVars, runnerVars,
                linkVars, kafkaVars, consumerVars
  <2> QED
    BY <2>1, <2>2, <2>3 DEF FeedInv
<1>2. ASSUME NEW change \in Changes, ChangeBook(change) PROVE FeedInv'
  BY <1>2, ChangeBookKeeps
<1> QED
  BY <1>1, <1>2, SubscribeKeeps, RouteBookKeeps, RunLoopKeeps, ConsumeKeeps DEF FeedNext

(* The feed keeps its invariant whatever is lost, restarted or too large.  *)
THEOREM FeedInvariance == FeedSpec => []FeedInv
<1> QED
  BY FeedInitInv, FeedStepInv, PTL DEF FeedSpec

(* Within a process, however connections, records and acknowledgements are  *)
(* lost, no delta is applied to the snapshot of another connection.        *)
THEOREM EpochsBindInProcess == FeedSpec => []EpochBindsInProcess
<1> QED
  BY FeedInvariance, FeedInvBinds, PTL

-----------------------------------------------------------------------------
(* The second theorem: the book is the exchange's.  Each record that is    *)
(* not a snapshot continues the one before it, as long as its connection   *)
(* has lost none; what is on the wire continues the topic and ends with    *)
(* the exchange's book.                                                    *)
Moved(levels, changes) ==
    [bids |-> Patched(levels.bids, "bid", changes), asks |-> Patched(levels.asks, "ask", changes)]

Continues(sent, levels) == sent.type = "l2update" /\ sent.truth = Moved(levels, sent.changes)

TopicAtConn == topic # <<>> /\ topic[Len(topic)].conn = conn

WireChained == \A i \in DOMAIN wire : i > 1 => Continues(wire[i], wire[i - 1].truth)

WireNext ==
    phase = "open" /\ wire # <<>> /\ conn \notin lossy =>
        \/ wire[1].type = "snapshot"
        \/ TopicAtConn /\ Continues(wire[1], topic[Len(topic)].truth)

WireCurrent ==
    phase = "open" /\ ~ quiet =>
        /\ wire # <<>> => wire[Len(wire)].truth = truth
        /\ wire = <<>> /\ conn \notin lossy => TopicAtConn /\ topic[Len(topic)].truth = truth

TopicChained ==
    \A i \in DOMAIN topic :
        topic[i].conn \notin lossy =>
            \/ /\ topic[i].msg.type = "snapshot"
               /\ topic[i].truth = [bids |-> topic[i].msg.bids, asks |-> topic[i].msg.asks]
            \/ /\ i > 1 /\ topic[i - 1].conn = topic[i].conn
               /\ topic[i].msg.type = "l2update"
               /\ topic[i].truth = Moved(topic[i - 1].truth, topic[i].msg.changes)

BookCurrent ==
    consumed > 0 /\ topic[consumed].conn \notin lossy =>
        /\ [bids |-> book.bids, asks |-> book.asks] = topic[consumed].truth
        /\ book.epoch = topic[consumed].msg.epoch

ChainInv ==
    /\ WireChained
    /\ WireNext
    /\ WireCurrent
    /\ TopicChained
    /\ BookCurrent

LEMMA ChainInitInv == FeedInit => ChainInv
  BY DEF FeedInit, RunnerInit, ChainInv, WireChained, WireNext, WireCurrent, TopicChained, BookCurrent

LEMMA SubscribeChains == FeedInv /\ ChainInv /\ Subscribe => ChainInv'
<1> SUFFICES ASSUME FeedInv, ChainInv, Subscribe PROVE ChainInv'
  OBVIOUS
<1> DEFINE first == [type |-> "snapshot", changes |-> <<>>, truth |-> truth]
<1>1. /\ wire' = <<first>>
      /\ UNCHANGED <<truth, topic, lossy, consumed, book>>
  BY DEF Subscribe, exchangeVars, kafkaVars, consumerVars
<1>2. Len(wire') = 1 /\ DOMAIN wire' = {1} /\ wire' # <<>> /\ wire'[1] = first
  BY <1>1
<1>3. WireChained' /\ WireNext' /\ WireCurrent'
  BY <1>1, <1>2 DEF WireChained, WireNext, WireCurrent
<1>4. TopicChained' /\ BookCurrent'
  BY <1>1 DEF ChainInv, TopicChained, BookCurrent
<1> QED
  BY <1>3, <1>4 DEF ChainInv

LEMMA ChangeBookChains ==
    ASSUME FeedInv, ChainInv, NEW change \in Changes, ChangeBook(change)
    PROVE  ChainInv'
<1> DEFINE changed == Moved(truth, <<change>>)
           sent == [type |-> "l2update", changes |-> <<change>>, truth |-> changed]
<1>1. /\ truth' = changed
      /\ wire' = IF phase = "open" /\ ~ quiet THEN Append(wire, sent) ELSE wire
      /\ UNCHANGED <<phase, quiet, conn, topic, lossy, consumed, book>>
  BY DEF ChangeBook, Moved, runnerVars, kafkaVars, consumerVars
<1>2. Continues(sent, truth)
  BY DEF Continues
<1>3. wire \in Seq(SentType)
  BY DEF FeedInv, FeedTypeOK
<1>4. CASE phase = "open" /\ ~ quiet
  <2> HIDE DEF sent
  <2>1. /\ wire' = Append(wire, sent) /\ wire' # <<>>
        /\ Len(wire') = Len(wire) + 1 /\ Len(wire) \in Nat
        /\ DOMAIN wire' = DOMAIN wire \union {Len(wire) + 1}
        /\ wire'[Len(wire')] = sent
        /\ \A i \in DOMAIN wire : wire'[i] = wire[i]
        /\ DOMAIN wire = 1..Len(wire)
    BY <1>1, <1>3, <1>4
  <2>2. wire # <<>> => Len(wire) \in DOMAIN wire
    BY <1>3
  <2>3. WireChained'
    <3> SUFFICES ASSUME NEW i \in DOMAIN wire', i > 1
                 PROVE  Continues(wire'[i], wire'[i - 1].truth)
      BY DEF WireChained, Continues
    <3>1. CASE i \in DOMAIN wire
      BY <2>1, <3>1 DEF ChainInv, WireChained
    <3>2. CASE i = Len(wire) + 1
      <4>1. wire # <<>> /\ wire'[i - 1] = wire[Len(wire)]
        <5>1. Len(wire) > 0 /\ i - 1 = Len(wire) /\ i - 1 \in DOMAIN wire
          BY <2>1, <3>2
        <5>2. wire # <<>>
          BY <5>1
        <5> QED
          BY <2>1, <5>1, <5>2
      <4> QED
        BY <1>2, <1>4, <2>1, <3>2, <4>1 DEF ChainInv, WireCurrent
    <3> QED
      BY <2>1, <3>1, <3>2
  <2>4. WireNext'
    <3> SUFFICES ASSUME conn \notin lossy
                 PROVE  \/ wire'[1].type = "snapshot"
                        \/ TopicAtConn /\ Continues(wire'[1], topic[Len(topic)].truth)
      BY <1>1 DEF WireNext, TopicAtConn, Continues
    <3>1. CASE wire = <<>>
      <4>1. wire'[1] = sent
        BY <2>1, <3>1
      <4> QED
        BY <1>2, <1>4, <3>1, <4>1 DEF ChainInv, WireCurrent
    <3>2. CASE wire # <<>>
      <4>1. wire'[1] = wire[1]
        BY <2>1, <2>2, <3>2
      <4> QED
        BY <1>4, <3>2, <4>1 DEF ChainInv, WireNext
    <3> QED
      BY <3>1, <3>2
  <2>5. sent.truth = truth'
    BY <1>1 DEF sent
  <2>6. WireCurrent'
    BY <2>1, <2>5 DEF WireCurrent
  <2>7. TopicChained' /\ BookCurrent'
    BY <1>1 DEF ChainInv, TopicChained, BookCurrent
  <2> QED
    BY <2>3, <2>4, <2>6, <2>7 DEF ChainInv
<1>5. CASE ~ (phase = "open" /\ ~ quiet)
  BY <1>1, <1>5 DEF ChainInv, WireChained, WireNext, WireCurrent, TopicChained, BookCurrent,
                    TopicAtConn, Continues
<1> QED
  BY <1>4, <1>5

LEMMA RouteBookChains == FeedInv /\ ChainInv /\ RouteBook => ChainInv'
<1> SUFFICES ASSUME FeedInv, ChainInv, RouteBook PROVE ChainInv'
  OBVIOUS
<1> DEFINE sent == Head(wire)
           record == [msg |-> Stamped(sent, epoch), run |-> starts, conn |-> conn,
                      truth |-> sent.truth]
<1>1. /\ phase = "open" /\ ~ quiet /\ phase' = "open" /\ quiet' = quiet
      /\ UNCHANGED <<conn, truth, consumed, book>>
      /\ wire # <<>> /\ wire' = Tail(wire)
      /\ Arrives(record) \/ IsLost
  BY DEF RouteBook, Receive, exchangeVars, consumerVars
<1>2. /\ wire \in Seq(SentType) /\ topic \in Seq(RecordType) /\ consumed \in 0..Len(topic)
      /\ lossy \subseteq 1..conn
  BY DEF FeedInv, FeedTypeOK
<1>3. /\ sent = wire[1] /\ Len(wire) \in Nat /\ Len(wire) > 0 /\ Len(wire') = Len(wire) - 1
      /\ DOMAIN wire = 1..Len(wire) /\ DOMAIN wire' = 1..(Len(wire) - 1)
      /\ \A i \in 1..(Len(wire) - 1) : wire'[i] = wire[i + 1]
      /\ wire' = <<>> <=> Len(wire) = 1
      /\ sent \in SentType
  <2>1. /\ sent = wire[1] /\ Len(wire) \in Nat /\ Len(wire) > 0 /\ DOMAIN wire = 1..Len(wire)
    BY <1>1, <1>2
  <2>2. sent \in SentType
    BY <1>2, <2>1
  <2>3. /\ wire' \in Seq(SentType) /\ Len(wire') = Len(wire) - 1
        /\ DOMAIN wire' = 1..(Len(wire) - 1)
        /\ \A i \in 1..(Len(wire) - 1) : wire'[i] = wire[i + 1]
    BY <1>1, <1>2
  <2>4. wire' = <<>> <=> Len(wire) = 1
    BY <2>1, <2>3
  <2> QED
    BY <2>1, <2>2, <2>3, <2>4
<1>4. WireChained'
  <2> SUFFICES ASSUME NEW i \in DOMAIN wire', i > 1
               PROVE  Continues(wire'[i], wire'[i - 1].truth)
    BY DEF WireChained, Continues
  <2>1. /\ i + 1 \in DOMAIN wire /\ i + 1 > 1 /\ (i + 1) - 1 = i
        /\ wire'[i] = wire[i + 1] /\ wire'[i - 1] = wire[i]
    BY <1>3
  <2>2. Continues(wire[i + 1], wire[(i + 1) - 1].truth)
    BY <2>1 DEF ChainInv, WireChained
  <2> QED
    BY <2>1, <2>2
<1>5. CASE Arrives(record)
  <2>1. topic' = Append(topic, record) /\ lossy' = lossy
    BY <1>5 DEF Arrives
  <2>2. /\ Len(topic) \in Nat /\ Len(topic') = Len(topic) + 1
        /\ DOMAIN topic = 1..Len(topic) /\ DOMAIN topic' = 1..(Len(topic) + 1)
        /\ \A i \in DOMAIN topic : topic'[i] = topic[i]
        /\ topic'[Len(topic) + 1] = record
        /\ topic # <<>> => Len(topic) \in DOMAIN topic
        /\ topic # <<>> => Len(topic) > 0
        /\ topic' # <<>>
    BY <1>2, <2>1
  <2>3. TopicAtConn' /\ topic'[Len(topic')].truth = sent.truth
    BY <1>1, <2>2 DEF TopicAtConn
  <2>4. WireNext'
    <3> SUFFICES ASSUME wire' # <<>>, conn \notin lossy
                 PROVE  TopicAtConn' /\ Continues(wire'[1], sent.truth)
      BY <1>1, <2>1, <2>3 DEF WireNext, Continues
    <3>1. wire'[1] = wire[2] /\ 2 \in DOMAIN wire
      BY <1>3
    <3> QED
      BY <1>3, <2>3, <3>1 DEF ChainInv, WireChained
  <2>5. WireCurrent'
    <3>1. CASE wire' # <<>>
      <4>1. wire'[Len(wire')] = wire[Len(wire)]
        BY <1>3, <3>1
      <4> QED
        BY <1>1, <3>1, <4>1 DEF ChainInv, WireCurrent
    <3>2. CASE wire' = <<>>
      <4>1. sent.truth = truth
        BY <1>1, <1>3, <3>2 DEF ChainInv, WireCurrent
      <4> QED
        BY <1>1, <2>3, <3>2, <4>1 DEF WireCurrent
    <3> QED
      BY <3>1, <3>2
  <2>6. TopicChained'
    <3> SUFFICES ASSUME NEW i \in DOMAIN topic', topic'[i].conn \notin lossy
                 PROVE  \/ /\ topic'[i].msg.type = "snapshot"
                           /\ topic'[i].truth = [bids |-> topic'[i].msg.bids,
                                                 asks |-> topic'[i].msg.asks]
                        \/ /\ i > 1 /\ topic'[i - 1].conn = topic'[i].conn
                           /\ topic'[i].msg.type = "l2update"
                           /\ topic'[i].truth = Moved(topic'[i - 1].truth, topic'[i].msg.changes)
      BY <2>1 DEF TopicChained, Moved
    <3>1. CASE i \in DOMAIN topic
      <4>1. topic'[i] = topic[i] /\ (i > 1 => topic'[i - 1] = topic[i - 1])
        BY <2>2, <3>1
      <4> QED
        BY <3>1, <4>1 DEF ChainInv, TopicChained
    <3>2. CASE i = Len(topic) + 1
      <4>1. topic'[i] = record /\ conn \notin lossy
        BY <2>2, <3>2
      <4>2. CASE sent.type = "snapshot"
        <5>1. record.msg = Snapshot(epoch, sent.truth.bids, sent.truth.asks)
          BY <4>2 DEF Stamped
        <5>2. sent.truth = [bids |-> sent.truth.bids, asks |-> sent.truth.asks]
          BY <1>3 DEF SentType
        <5> QED
          BY <4>1, <5>1, <5>2 DEF Snapshot
      <4>3. CASE TopicAtConn /\ Continues(sent, topic[Len(topic)].truth)
        <5>1. record.msg = Delta(epoch, sent.changes)
          BY <4>3 DEF Continues, Stamped
        <5>2. i > 1 /\ topic'[i - 1] = topic[Len(topic)]
          BY <2>2, <3>2, <4>3 DEF TopicAtConn
        <5> QED
          BY <4>1, <4>3, <5>1, <5>2 DEF Continues, TopicAtConn, Delta
      <4> QED
        BY <1>1, <1>3, <4>1, <4>2, <4>3 DEF ChainInv, WireNext
    <3> QED
      BY <2>2, <3>1, <3>2
  <2>7. BookCurrent'
    BY <1>1, <1>2, <2>1, <2>2 DEF ChainInv, BookCurrent
  <2> QED
    BY <1>4, <2>4, <2>5, <2>6, <2>7 DEF ChainInv
<1>6. CASE IsLost
  <2>1. topic' = topic /\ lossy' = lossy \union {conn}
    BY <1>6 DEF IsLost
  <2>2. WireNext'
    BY <1>1, <2>1 DEF WireNext
  <2>3. WireCurrent'
    <3>1. wire' # <<>> => wire'[Len(wire')] = wire[Len(wire)]
      BY <1>3
    <3> QED
      BY <1>1, <2>1, <3>1 DEF ChainInv, WireCurrent
  <2>4. TopicChained' /\ BookCurrent'
    BY <1>1, <2>1 DEF ChainInv, TopicChained, BookCurrent
  <2> QED
    BY <1>4, <2>2, <2>3, <2>4 DEF ChainInv
<1> QED
  BY <1>1, <1>5, <1>6

(* The consumer's book continues with the topic: a delta it applies is the *)
(* one after the record its book stands at, and of the same epoch.         *)
LEMMA ConsumeChains == FeedInv /\ ChainInv /\ ConsumeRecord => ChainInv'
<1> SUFFICES ASSUME FeedInv, ChainInv, ConsumeRecord PROVE ChainInv'
  OBVIOUS
<1> DEFINE record == topic[consumed + 1]
           res == Apply(book, record.msg)
<1>1. /\ consumed < Len(topic) /\ consumed' = consumed + 1 /\ book' = res.book
      /\ UNCHANGED <<phase, quiet, truth, conn, wire, topic, lossy>>
  BY DEF ConsumeRecord, runnerVars, exchangeVars, linkVars, kafkaVars
<1>2. /\ consumed \in Nat /\ consumed + 1 \in DOMAIN topic
      /\ consumed > 0 => consumed \in DOMAIN topic
      /\ book \in BookType
  BY <1>1 DEF FeedInv, FeedTypeOK
<1>3. WireChained' /\ WireNext' /\ WireCurrent' /\ TopicChained'
  BY <1>1 DEF ChainInv, WireChained, WireNext, WireCurrent, TopicChained, TopicAtConn, Continues
<1>4. ASSUME record.conn \notin lossy
      PROVE  /\ [bids |-> res.book.bids, asks |-> res.book.asks] = record.truth
             /\ res.book.epoch = record.msg.epoch
  <2>1. CASE /\ record.msg.type = "snapshot"
             /\ record.truth = [bids |-> record.msg.bids, asks |-> record.msg.asks]
    <3>1. res.book = Advanced(Replaced(book, record.msg))
      BY <2>1 DEF Apply, Applied
    <3>2. /\ res.book.bids = record.msg.bids /\ res.book.asks = record.msg.asks
          /\ res.book.epoch = record.msg.epoch
      BY <1>2, <3>1 DEF Advanced, Replaced, BookType
    <3> QED
      BY <2>1, <3>2
  <2>2. CASE /\ consumed + 1 > 1 /\ topic[consumed].conn = record.conn
             /\ record.msg.type = "l2update"
             /\ record.truth = Moved(topic[consumed].truth, record.msg.changes)
    <3>1. /\ consumed > 0
          /\ [bids |-> book.bids, asks |-> book.asks] = topic[consumed].truth
          /\ book.epoch = topic[consumed].msg.epoch
      BY <1>2, <1>4, <2>2 DEF ChainInv, BookCurrent
    <3>2. record.msg.epoch = book.epoch
      BY <1>2, <2>2, <3>1 DEF FeedInv, EpochsName
    <3>3. res.book = Advanced(Updated(book, record.msg.changes))
      BY <2>2, <3>2 DEF Apply, Applied
    <3>4. /\ res.book.bids = Patched(book.bids, "bid", record.msg.changes)
          /\ res.book.asks = Patched(book.asks, "ask", record.msg.changes)
          /\ res.book.epoch = book.epoch
      BY <1>2, <3>3 DEF Advanced, Updated, BookType
    <3>5. topic[consumed].truth.bids = book.bids /\ topic[consumed].truth.asks = book.asks
      BY <3>1
    <3> QED
      BY <2>2, <3>2, <3>4, <3>5 DEF Moved
  <2>3. (consumed + 1) - 1 = consumed
    BY <1>2
  <2> QED
    BY <1>2, <1>4, <2>1, <2>2, <2>3 DEF ChainInv, TopicChained
<1>5. BookCurrent'
  BY <1>1, <1>4 DEF BookCurrent
<1> QED
  BY <1>3, <1>5 DEF ChainInv

LEMMA RunLoopChains == FeedInv /\ ChainInv /\ (RunLoop \/ RouteOther) => ChainInv'
<1> SUFFICES ASSUME FeedInv, ChainInv, RunLoop \/ RouteOther PROVE ChainInv'
  OBVIOUS
<1>1. /\ UNCHANGED <<truth, conn, topic, lossy, consumed, book>>
      /\ wire' = wire \/ wire' = <<>>
      /\ phase' = "open" => phase = "open" /\ wire' = wire /\ (~ quiet' => ~ quiet)
  <2>1. CASE RouteOther
    BY <2>1 DEF RouteOther, Receive, exchangeVars, linkVars, kafkaVars, consumerVars
  <2>2. CASE RunLoop
    <3>1. /\ UNCHANGED <<truth, conn, topic, lossy, consumed, book>>
          /\ wire' = IF phase' = "open" THEN wire ELSE <<>>
      BY <2>2 DEF RunLoop, exchangeVars, kafkaVars, consumerVars
    <3>2. phase' = "open" => phase = "open" /\ (~ quiet' => ~ quiet)
      BY <2>2, LeaveTypes DEF RunLoop, LoopNext, Start, Disconnect, IdleTimeout, BackOff, Wake,
                              RouteFails, Cancel, Stop, GrowStable, FallSilent
    <3> QED
      BY <3>1, <3>2
  <2> QED
    BY <2>1, <2>2
<1>2. WireChained'
  BY <1>1 DEF ChainInv, WireChained, Continues
<1>3. WireNext' /\ WireCurrent'
  BY <1>1 DEF ChainInv, WireNext, WireCurrent, TopicAtConn, Continues
<1>4. TopicChained' /\ BookCurrent'
  BY <1>1 DEF ChainInv, TopicChained, BookCurrent
<1> QED
  BY <1>2, <1>3, <1>4 DEF ChainInv

LEMMA ChainStepInv == FeedInv /\ ChainInv /\ [FeedNext]_feedVars => ChainInv'
<1> SUFFICES ASSUME FeedInv, ChainInv, [FeedNext]_feedVars PROVE ChainInv'
  OBVIOUS
<1>1. CASE UNCHANGED feedVars
  BY <1>1 DEF ChainInv, WireChained, WireNext, WireCurrent, TopicChained, BookCurrent, TopicAtConn,
              Continues, feedVars, runnerVars, exchangeVars, linkVars, kafkaVars, consumerVars
<1>2. ASSUME NEW change \in Changes, ChangeBook(change) PROVE ChainInv'
  BY <1>2, ChangeBookChains
<1> QED
  BY <1>1, <1>2, SubscribeChains, RouteBookChains, RunLoopChains, ConsumeChains DEF FeedNext

(* However often connections and processes come and go, and whatever was   *)
(* lost before: once the consumer has processed a record of a connection   *)
(* that lost nothing, its book is the exchange's as of that record.        *)
THEOREM BookAlwaysTrue == FeedSpec => []BookTrue
<1>1. ChainInv => BookTrue
  BY DEF ChainInv, BookCurrent, BookTrue
<1> QED
  BY <1>1, ChainInitInv, ChainStepInv, FeedInvariance, PTL DEF FeedSpec

=============================================================================
