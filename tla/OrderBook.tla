------------------------------ MODULE OrderBook ------------------------------
(***************************************************************************)
(* The L2 order book of src/flink/book.py as pure operators: a book, the   *)
(* messages that change it, and what applying one message yields.          *)
(*                                                                         *)
(* A side of the book is a function from prices to sizes in which 0 stands *)
(* for a price the Python dictionary does not hold.  Prices and sizes are  *)
(* integers (ticks and lots).  mid and spread, which are functions of the  *)
(* two best prices, and the timestamps are left out of the emitted row.    *)
(***************************************************************************)
EXTENDS Integers, Sequences, FiniteSetsExt

CONSTANTS
    MaxPrice,     \* the highest price a level may have, in ticks
    Depth,        \* DEPTH_LEVELS: how many levels count as the top of a side
    None          \* Python's None

Price == 1..MaxPrice

SideType == [Price -> Nat]
Quote == [bid: Price, bidQty: Nat, ask: Price, askQty: Nat]
BookType == [bids: SideType, asks: SideType,
             epoch: Nat \union {None}, prevTop: Quote \union {None}]
MetaType == [epoch: Nat \union {None}, prevTop: Quote \union {None}]
Change == [side: {"bid", "ask"}, price: Price, size: Nat]
MsgType ==      [type: {"snapshot"}, epoch: Nat, bids: SideType, asks: SideType]
         \union [type: {"l2update"}, epoch: Nat, changes: Seq(Change)]

RowType == [quote: Quote, bidTop: SideType, askTop: SideType,
            ofi: Int, epoch: Nat \union {None}]

ASSUME PriceAssumption == MaxPrice \in Nat
ASSUME DepthAssumption == Depth \in Nat \ {0}
ASSUME NoneAssumption ==
    /\ None \notin Nat
    /\ None \notin Quote
    /\ None \notin BookType
    /\ None \notin MetaType
    /\ None \notin RowType

-----------------------------------------------------------------------------
(* The book.                                                               *)

EmptySide == [p \in Price |-> 0]

NewBook == [bids |-> EmptySide, asks |-> EmptySide, epoch |-> None, prevTop |-> None]

(* What keyed state keeps besides the levels; the variant forgets prevTop. *)
MetaWithoutTop(book) == [epoch |-> book.epoch, prevTop |-> None]

Meta(book) == [epoch |-> book.epoch, prevTop |-> book.prevTop]

Restore(bids, asks, meta) ==
    [bids |-> bids, asks |-> asks, epoch |-> meta.epoch, prevTop |-> meta.prevTop]

Levels(side) == {p \in Price : side[p] # 0}

BestBid(book) == Max(Levels(book.bids))
BestAsk(book) == Min(Levels(book.asks))

(* _top emits nothing for an empty side, or for a crossed or locked book.  *)
Emittable(book) ==
    /\ Levels(book.bids) # {}
    /\ Levels(book.asks) # {}
    /\ BestBid(book) < BestAsk(book)

QuoteOf(book) ==
    [bid |-> BestBid(book), bidQty |-> book.bids[BestBid(book)],
     ask |-> BestAsk(book), askQty |-> book.asks[BestAsk(book)]]

(* A side cut down to its DEPTH_LEVELS best levels (heapq.nlargest and     *)
(* nsmallest), which bid_depth5 and ask_depth5 add up.                     *)
HighestBids(side) ==
    [p \in Price |-> IF Cardinality({q \in Levels(side) : q > p}) < Depth THEN side[p] ELSE 0]

LowestAsks(side) ==
    [p \in Price |-> IF Cardinality({q \in Levels(side) : q < p}) < Depth THEN side[p] ELSE 0]

-----------------------------------------------------------------------------
(* Order flow imbalance between the previous emitted quote and this one.   *)

If(condition, amount) == IF condition THEN amount ELSE 0

Ofi(prev, cur) ==
    IF prev = None THEN 0
    ELSE   If(cur.bid >= prev.bid, cur.bidQty) - If(cur.bid <= prev.bid, prev.bidQty)
         - If(cur.ask <= prev.ask, cur.askQty) + If(cur.ask >= prev.ask, prev.askQty)

(* _top: the row of a book, and the book that remembers it as prevTop.     *)
TopOf(book) ==
    IF Emittable(book)
    THEN [quote    |-> QuoteOf(book),
          bidTop   |-> HighestBids(book.bids),
          askTop   |-> LowestAsks(book.asks),
          ofi      |-> Ofi(book.prevTop, QuoteOf(book)),
          epoch    |-> book.epoch]
    ELSE None

Advanced(book) ==
    [book EXCEPT !.prevTop = IF Emittable(book) THEN QuoteOf(book) ELSE @]

(* A book that has a quote remembers that one, so applying a message that  *)
(* changes no level changes nothing.                                       *)
Fresh(book) == Emittable(book) => book.prevTop = QuoteOf(book)

-----------------------------------------------------------------------------
(* The messages of book.l2.raw.  The changes of a delta are applied in     *)
(* order, so the last change of a price decides its level; size 0 deletes. *)

Snapshot(epoch, bids, asks) == [type |-> "snapshot", epoch |-> epoch, bids |-> bids, asks |-> asks]
Delta(epoch, changes) == [type |-> "l2update", epoch |-> epoch, changes |-> changes]

Patched(levels, side, changes) ==
    [p \in Price |->
        LET hits == {i \in DOMAIN changes : changes[i].side = side /\ changes[i].price = p}
        IN  IF hits = {} THEN levels[p] ELSE changes[Max(hits)].size]

(* A snapshot replaces the levels and forgets prevTop; the variants    *)
(* keep prevTop, or the levels the snapshot does not name.                 *)
ReplacedKeepingTop(book, msg) ==
    [book EXCEPT !.bids = msg.bids, !.asks = msg.asks, !.epoch = msg.epoch]

ReplacedByMerging(book, msg) ==
    LET Merge(old, new) == [p \in Price |-> IF new[p] # 0 THEN new[p] ELSE old[p]]
    IN  [book EXCEPT !.bids = Merge(@, msg.bids), !.asks = Merge(@, msg.asks),
                     !.epoch = msg.epoch, !.prevTop = None]

Replaced(book, msg) ==
    [book EXCEPT !.bids = msg.bids, !.asks = msg.asks, !.epoch = msg.epoch, !.prevTop = None]

Updated(book, changes) ==
    [book EXCEPT !.bids = Patched(@, "bid", changes), !.asks = Patched(@, "ask", changes)]

Applied(book, snapshot, changes) ==
    [book |-> Advanced(book), top |-> TopOf(book),
     snapshot |-> snapshot, changes |-> changes, dropped |-> FALSE]

(* A delta of another epoch than the book's has no snapshot: it is dropped. *)
Dropped(book) ==
    [book |-> book, top |-> None, snapshot |-> FALSE, changes |-> <<>>, dropped |-> TRUE]

ApplyAnyEpoch(book, msg) ==
    IF msg.type = "snapshot" THEN Applied(Replaced(book, msg), TRUE, <<>>)
    ELSE Applied(Updated(book, msg.changes), FALSE, msg.changes)

Apply(book, msg) ==
    IF msg.type = "snapshot"        THEN Applied(Replaced(book, msg), TRUE, <<>>)
    ELSE IF msg.epoch = book.epoch  THEN Applied(Updated(book, msg.changes), FALSE, msg.changes)
    ELSE Dropped(book)

-----------------------------------------------------------------------------
(* What applying a message yields (ApplyResult).                           *)

ResultType == [book: BookType, top: RowType \union {None}, snapshot: BOOLEAN,
               changes: Seq(Change), dropped: BOOLEAN]

=============================================================================
