------------------------------- MODULE GoldBuild -------------------------------
(***************************************************************************)
(* The gold build (orchestration/definitions.py around                     *)
(* scripts/gold_features.sql): a refresh inserts the rows of the minutes   *)
(* after each product's last one and then checks the table.  Refreshes are *)
(* started by a schedule and by hand, overlap as they like, lose their     *)
(* connection to Trino at any point, and are retried.                      *)
(*                                                                         *)
(* The two bar tables grow independently: a commit of the bars job brings  *)
(* one of them, for all products, up to some second.  Trino and Iceberg    *)
(* are external: a statement reads one snapshot when it is planned and     *)
(* appends its rows in one commit later, if at all; a statement whose      *)
(* client is gone may still commit.                                        *)
(***************************************************************************)
EXTENDS GoldRows

CONSTANTS
    Product,
    BookBar,        \* bound: the book bars there will be, <<product, second>>
    TradeBar,       \* bound: the trade bars there will be
    CommitAt,       \* bound: the seconds up to which a commit may bring a table
    Refresh,        \* bound: the refreshes that may run at a time
    Schedule,       \* the one of them the schedule starts
    MaxRetries,     \* TRINO_RETRY.max_retries
    MaxSequence,    \* how many entries Trino's sequence() may have: 10000
    MaxLost         \* bound: how many connections are lost

ASSUME GoldBuildAssumption ==
    /\ IsFiniteSet(Product)
    /\ BookBar \subseteq Product \X Nat /\ IsFiniteSet(BookBar)
    /\ TradeBar \subseteq Product \X Nat
    /\ CommitAt \subseteq Nat
    /\ Schedule \in Refresh
    /\ {MaxRetries, MaxSequence, MaxLost} \subseteq Nat

VARIABLES
    bookFront,  \* iceberg.market.book_bars_1s has the bars up to this second
    tradeFront, \* and trade_bars_1s up to this one
    gold,       \* features_5m: its rows, those of one minute numbered by copy
    refresh,    \* the refreshes, each with the rows its INSERT has planned
    abandoned,  \* the rows of INSERTs still running whose client is gone
    lost,
    overlapped  \* history: an INSERT was planned while another was running

buildVars == <<gold, refresh, abandoned, lost, overlapped>>
goldVars == <<bookFront, tradeFront, buildVars>>

Fronts == CommitAt \union {Never}

(* behind is history: when the row was planned, the trade table was behind *)
(* the book table by more than the label's window.                         *)
GoldRowType ==
    [product: Product, asOf: Nat, features: [book: SUBSET Nat, base: Nat \union {Never},
                                             recent: SUBSET Nat, trades: SUBSET Nat],
     label: SUBSET Nat, behind: BOOLEAN, copy: Nat]

Steps == {"idle", "building", "inserting", "committed", "checking"}

GoldTypeOK ==
    /\ bookFront \in Fronts /\ tradeFront \in Fronts
    /\ \A row \in gold : row \in GoldRowType
    /\ \A r \in Refresh : /\ refresh[r].step \in Steps
                          /\ refresh[r].tries \in 0..MaxRetries
                          /\ \A row \in refresh[r].rows : row \in GoldRowType
    /\ \A rows \in abandoned : \A row \in rows : row \in GoldRowType
    /\ lost \in 0..MaxLost
    /\ overlapped \in BOOLEAN

NoRefresh == [step |-> "idle", tries |-> 0, rows |-> {}]

GoldInit ==
    /\ bookFront = Never
    /\ tradeFront = Never
    /\ gold = {}
    /\ refresh = [r \in Refresh |-> NoRefresh]
    /\ abandoned = {}
    /\ lost = 0
    /\ overlapped = FALSE

-----------------------------------------------------------------------------
(* The tables, as a statement planned now reads them.                      *)
BookSeconds(product) == {s \in 0..bookFront : <<product, s>> \in BookBar}
TradeSeconds(product) == {s \in 0..tradeFront : <<product, s>> \in TradeBar}
Built(product) == {row.asOf : row \in {r \in gold : r.product = product}}

(* existing: a product's last minute in gold.                              *)
Existing(product) == IF Built(product) = {} THEN Never ELSE Max(Built(product))

(* grid: the minutes after it; the variant begins with it.                 *)
GridFromExisting(product) ==
    LET last == Existing(product) IN {t \in FullGrid(BookSeconds(product)) : t >= last}

Grid(product) ==
    LET last == Existing(product) IN {t \in FullGrid(BookSeconds(product)) : t > last}

(* The entries of sequence(), for the products with bars: at least one, up *)
(* to the last minute that can be built.  The variant spans all the bars.  *)
AllSequencesFit ==
    \A p \in Product :
        BookSeconds(p) # {} =>
            Cardinality({t \in Min(BookSeconds(p))..Max(BookSeconds(p)) : t % Minute = 0}) <= MaxSequence

SequencesFit ==
    \A p \in Product :
        BookSeconds(p) # {} => Max({1, Cardinality(Grid(p))}) <= MaxSequence

(* The rows of the INSERT for a product.                                   *)
NewRows(product) ==
    LET book == BookSeconds(product)
        trades == TradeSeconds(product)
    IN  {[product |-> product, asOf |-> t, features |-> GoldFeatures(book, trades, t),
          label |-> Label(book, t), behind |-> bookFront - tradeFront > Short, copy |-> 1] :
             t \in {u \in Grid(product) : Joined(book, u) # {}}}

(* The commit of an INSERT adds its rows, whatever is there already.       *)
Appended(rows) ==
    gold \union {[row EXCEPT !.copy = 1 + Cardinality({r \in gold : r.product = row.product
                                                                     /\ r.asOf = row.asOf})] : row \in rows}

(* gold_quality: the rows less the distinct (product_id, as_of_ts).        *)
Duplicates == Cardinality({row \in gold : row.copy > 1})

-----------------------------------------------------------------------------
(* The bars job commits (external).                                        *)
CommitBookBars ==
    /\ bookFront' \in {s \in CommitAt : s > bookFront}
    /\ UNCHANGED <<tradeFront, buildVars>>

CommitTradeBars ==
    /\ tradeFront' \in {s \in CommitAt : s > tradeFront}
    /\ UNCHANGED <<bookFront, buildVars>>

(* A refresh starts: the schedule's, or one by hand.                       *)
StartRefresh(r) ==
    /\ refresh[r].step = "idle"
    /\ refresh' = [refresh EXCEPT ![r].step = "building"]
    /\ UNCHANGED <<bookFront, tradeFront, gold, abandoned, lost, overlapped>>

(* gold_features executes the INSERT, which Trino plans.                   *)
Plan(r) ==
    /\ refresh[r].step = "building"
    /\ SequencesFit
    /\ refresh' = [refresh EXCEPT ![r].step = "inserting", ![r].rows = UNION {NewRows(p) : p \in Product}]
    /\ overlapped' = (overlapped \/ abandoned # {}
                        \/ \E other \in Refresh : refresh[other].step = "inserting")
    /\ UNCHANGED <<bookFront, tradeFront, gold, abandoned, lost>>

(* It commits, and gold_features hears of it.                              *)
Commit(r) ==
    /\ refresh[r].step = "inserting"
    /\ gold' = Appended(refresh[r].rows)
    /\ refresh' = [refresh EXCEPT ![r].step = "committed", ![r].rows = {}]
    /\ UNCHANGED <<bookFront, tradeFront, abandoned, lost, overlapped>>

Inserted(r) ==
    /\ refresh[r].step = "committed"
    /\ refresh' = [refresh EXCEPT ![r] = [NoRefresh EXCEPT !.step = "checking"]]
    /\ UNCHANGED <<bookFront, tradeFront, gold, abandoned, lost, overlapped>>

(* An op that fails is tried again from its beginning, and its run fails   *)
(* with its last try; the variant's never does.                            *)
RetriedForever(r) ==
    [step |-> IF refresh[r].step = "checking" THEN "checking" ELSE "building",
     tries |-> refresh[r].tries + 1, rows |-> {}]

Retried(r) ==
    IF refresh[r].tries = MaxRetries THEN NoRefresh
    ELSE [step |-> IF refresh[r].step = "checking" THEN "checking" ELSE "building",
          tries |-> refresh[r].tries + 1, rows |-> {}]

(* gold_quality counts the duplicates.                                     *)
CheckPasses(r) ==
    /\ refresh[r].step = "checking"
    /\ Duplicates = 0
    /\ refresh' = [refresh EXCEPT ![r] = NoRefresh]
    /\ UNCHANGED <<bookFront, tradeFront, gold, abandoned, lost, overlapped>>

(* gold_quality finds some and raises, or Trino refuses the INSERT because *)
(* sequence() has too many entries.                                        *)
TryFails(r) ==
    /\ \/ refresh[r].step = "checking" /\ Duplicates > 0
       \/ refresh[r].step = "building" /\ ~ SequencesFit
    /\ refresh' = [refresh EXCEPT ![r] = Retried(r)]
    /\ UNCHANGED <<bookFront, tradeFront, gold, abandoned, lost, overlapped>>

(* The connection to Trino is lost; a running INSERT goes on without its   *)
(* client, or ends with the server.                                        *)
LoseConnection(r) ==
    /\ refresh[r].step # "idle"
    /\ lost < MaxLost
    /\ lost' = lost + 1
    /\ refresh' = [refresh EXCEPT ![r] = Retried(r)]
    /\ \/ /\ refresh[r].step = "inserting"
          /\ abandoned' = abandoned \union {refresh[r].rows}
       \/ UNCHANGED abandoned
    /\ UNCHANGED <<bookFront, tradeFront, gold, overlapped>>

CommitAbandoned ==
    /\ \E rows \in abandoned :
           /\ gold' = Appended(rows)
           /\ abandoned' = abandoned \ {rows}
    /\ UNCHANGED <<bookFront, tradeFront, refresh, lost, overlapped>>

EndAbandoned ==
    /\ \E rows \in abandoned : abandoned' = abandoned \ {rows}
    /\ UNCHANGED <<bookFront, tradeFront, gold, refresh, lost, overlapped>>

RefreshNext(r) ==
    Plan(r) \/ Commit(r) \/ Inserted(r) \/ CheckPasses(r) \/ TryFails(r)

GoldNext ==
    \/ CommitBookBars \/ CommitTradeBars
    \/ \E r \in Refresh : StartRefresh(r) \/ LoseConnection(r) \/ RefreshNext(r)
    \/ CommitAbandoned \/ EndAbandoned

GoldSpec == GoldInit /\ [][GoldNext]_goldVars

(* The bars job commits, and the schedule fires, again and again; Trino    *)
(* answers.                                                                *)
GoldFairness ==
    /\ WF_goldVars(CommitBookBars)
    /\ WF_goldVars(CommitTradeBars)
    /\ WF_goldVars(StartRefresh(Schedule))
    /\ WF_goldVars(RefreshNext(Schedule))

-----------------------------------------------------------------------------
(* The bars there will be, once the tables are complete, and the minutes   *)
(* gold can have rows for.                                                 *)
AllBook == [p \in Product |-> {b[2] : b \in {c \in BookBar : c[1] = p}}]
AllTrade == [p \in Product |-> {b[2] : b \in {c \in TradeBar : c[1] = p}}]

Buildable ==
    [p \in Product |-> {t \in FullGrid(AllBook[p]) : Joined(AllBook[p], t) # {}}]

(* definitions.py: "re-running is always safe".  However often a refresh   *)
(* is started or tried again, before or after its INSERT has committed, a  *)
(* minute is built once, unless an INSERT ran while another was planned;   *)
(* and none is passed over for good: gold has every minute with bars up to *)
(* the last one it has, product by product, although a refresh looks at    *)
(* nothing but the last one.                                               *)
EachMinuteOnce ==
    /\ overlapped \/ Duplicates = 0
    /\ \A p \in Product : Built(p) = {t \in Buildable[p] : t <= Existing(p)}

(* A row is never rebuilt, so it must be final when it is built: what book *)
(* bars arrive later changes none, nor do trade bars unless their table    *)
(* was behind by more than the label's window.                             *)
RowsFinal ==
    \A row \in gold :
        LET final == GoldFeatures(AllBook[row.product], AllTrade[row.product], row.asOf)
        IN  /\ [row.features EXCEPT !.trades = {}] = [final EXCEPT !.trades = {}]
            /\ row.label = Label(AllBook[row.product], row.asOf)
            /\ ~ row.behind => row.features.trades = final.trades

(* definitions.py: "rerunning IS the backfill, it catches up from wherever *)
(* the bars tables are".  Every minute with bars is built in the end.      *)
CatchesUp == <>(\A p \in Product : Buildable[p] \subseteq Built(p))

=============================================================================
