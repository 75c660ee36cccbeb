---------------------------- MODULE OfflineProofs -----------------------------
(***************************************************************************)
(* Theorems about the offline side.  The gold build, for any products, bars, *)
(* minutes, windows and refreshes: a row is final when it is built,        *)
(* whichever refresh built it, every minute is built, once unless INSERTs  *)
(* overlapped, and the split keeps the test labels unseen.  The promotion  *)
(* gate, for any trainings, however many run at a time, and any numbers of *)
(* rows and versions.                                                      *)
(*                                                                         *)
(* The rows a statement plans depend on what the tables held then; that    *)
(* they are final says that they do not.  So the invariant is about every  *)
(* row, committed or not, and the constants alone; and about the minutes   *)
(* of an INSERT against the last one that is built.                        *)
(***************************************************************************)
EXTENDS TimeSplit, Promotion, Extremes

-----------------------------------------------------------------------------
(* date_trunc.                                                             *)

LEMMA AsOfBelow == ASSUME NEW s \in Nat PROVE AsOf(s) \in Nat /\ AsOf(s) <= s
  BY RoundedDown, GoldAssumption DEF AsOf

LEMMA AsOfMonotone == ASSUME NEW a \in Nat, NEW b \in Nat, a <= b PROVE AsOf(a) <= AsOf(b)
  BY RoundingMonotone, GoldAssumption DEF AsOf

-----------------------------------------------------------------------------
(* What a statement reads of a product are the bars up to some second.     *)
UpTo(seconds, front) == {s \in seconds : s <= front}

LEMMA BookSecondsAre ==
    ASSUME NEW p \in Product, bookFront \in Int
    PROVE  AllBook[p] \in SUBSET Nat /\ BookSeconds(p) = UpTo(AllBook[p], bookFront)
  <1>1. AllBook[p] = {b[2] : b \in {c \in BookBar : c[1] = p}}
    BY DEF AllBook
  <1>2. \A b \in BookBar : b[1] \in Product /\ b[2] \in Nat /\ b = <<b[1], b[2]>>
    BY GoldBuildAssumption
  <1>3. \A s : s \in AllBook[p] <=> s \in Nat /\ <<p, s>> \in BookBar
    BY <1>1, <1>2
  <1>4. \A s : s \in 0..bookFront <=> s \in Nat /\ s <= bookFront
    OBVIOUS
  <1>5. \A s : s \in BookSeconds(p) <=> s \in UpTo(AllBook[p], bookFront)
    BY <1>3, <1>4 DEF BookSeconds, UpTo
  <1>6. BookSeconds(p) = UpTo(AllBook[p], bookFront)
    BY <1>5
  <1> QED
    BY <1>3, <1>6

LEMMA TradeSecondsAre ==
    ASSUME NEW p \in Product, tradeFront \in Int
    PROVE  AllTrade[p] \in SUBSET Nat /\ TradeSeconds(p) = UpTo(AllTrade[p], tradeFront)
  <1>1. AllTrade[p] = {b[2] : b \in {c \in TradeBar : c[1] = p}}
    BY DEF AllTrade
  <1>2. \A b \in TradeBar : b[1] \in Product /\ b[2] \in Nat /\ b = <<b[1], b[2]>>
    BY GoldBuildAssumption
  <1>3. \A s : s \in AllTrade[p] <=> s \in Nat /\ <<p, s>> \in TradeBar
    BY <1>1, <1>2
  <1>4. \A s : s \in 0..tradeFront <=> s \in Nat /\ s <= tradeFront
    OBVIOUS
  <1>5. \A s : s \in TradeSeconds(p) <=> s \in UpTo(AllTrade[p], tradeFront)
    BY <1>3, <1>4 DEF TradeSeconds, UpTo
  <1>6. TradeSeconds(p) = UpTo(AllTrade[p], tradeFront)
    BY <1>5
  <1> QED
    BY <1>3, <1>6

(* The image of a finite set is finite.                                    *)
LEMMA FiniteImage ==
    ASSUME NEW S, IsFiniteSet(S), NEW f, NEW T,
           T = {f[x] : x \in S}, f = [x \in S |-> f[x]]
    PROVE  IsFiniteSet(T)
  <1>1. f \in Surjection(S, T)
    BY DEF Surjection
  <1> QED
    BY <1>1, FS_Surjection

LEMMA AllBookFinite == ASSUME NEW p \in Product PROVE IsFiniteSet(AllBook[p])
  <1> DEFINE S == {c \in BookBar : c[1] = p}
             f == [b \in S |-> b[2]]
  <1>1. IsFiniteSet(S)
    BY GoldBuildAssumption, FS_Subset
  <1>2. AllBook[p] = {f[x] : x \in S}
    BY DEF AllBook
  <1>3. f = [x \in S |-> f[x]]
    OBVIOUS
  <1> HIDE DEF S, f
  <1> QED
    BY <1>1, <1>2, <1>3, FiniteImage

-----------------------------------------------------------------------------
(* Bars after the front change no window that ends before it.              *)
LEMMA WindowFinal ==
    ASSUME NEW seconds \in SUBSET Nat, NEW front \in Int, NEW t \in Int, t <= front, NEW length
    PROVE  Window(UpTo(seconds, front), t, length) = Window(seconds, t, length)
  <1>1. \A s \in (t - length + 1)..t : s <= t
    BY DEF Window
  <1>2. \A s \in seconds : s \in (t - length + 1)..t => s <= front
    BY <1>1
  <1> QED
    BY <1>2 DEF Window, UpTo

LEMMA LagFinal ==
    ASSUME NEW seconds \in SUBSET Nat, NEW front \in Int, NEW s \in Int, s <= front
    PROVE  Lag(UpTo(seconds, front), s) = Lag(seconds, s)
  <1>1. {u \in UpTo(seconds, front) : u < s} = {u \in seconds : u < s}
    <2>1. \A u \in seconds : u < s => u <= front
      OBVIOUS
    <2> QED
      BY <2>1 DEF UpTo
  <1> QED
    BY <1>1 DEF Lag

LEMMA JoinedFinal ==
    ASSUME NEW seconds \in SUBSET Nat, NEW front \in Int, NEW t \in Int, t + Short <= front
    PROVE  Joined(UpTo(seconds, front), t) = Joined(seconds, t)
  <1>1. \A s \in seconds : s <= t + Short => s <= front
    BY GoldAssumption
  <1> QED
    BY <1>1 DEF Joined, UpTo

LEMMA FeaturesFinal ==
    ASSUME NEW seconds \in SUBSET Nat, NEW front \in Int, NEW t \in Int, t + Short <= front,
           NEW trades
    PROVE  /\ GoldFeatures(UpTo(seconds, front), trades, t) = GoldFeatures(seconds, trades, t)
           /\ Label(UpTo(seconds, front), t) = Label(seconds, t)
  <1>1. t <= front /\ Long \in Nat /\ Short \in Nat
    BY GoldAssumption
  <1> DEFINE long == Window(seconds, t, Long)
             start == IF long = {} THEN t ELSE Min(long)
  <1>2. /\ Window(UpTo(seconds, front), t, Long) = long
        /\ Window(UpTo(seconds, front), t, Short) = Window(seconds, t, Short)
    BY <1>1, WindowFinal
  <1>3. start \in Int /\ start <= front
    <2>1. CASE long = {}
      BY <1>1, <2>1
    <2>2. CASE long # {}
      <3>1. long \in SUBSET Nat /\ \A s \in long : s <= t
        BY <1>1 DEF Window
      <3> HIDE DEF long
      <3>2. Min(long) \in long
        BY <2>2, <3>1, MinProperty
      <3>3. Min(long) \in Nat /\ Min(long) <= t
        BY <3>1, <3>2
      <3> QED
        BY <1>1, <2>2, <3>3
    <2> QED
      BY <2>1, <2>2
  <1>4. Lag(UpTo(seconds, front), start) = Lag(seconds, start)
    <2> HIDE DEF start
    <2> QED
      BY <1>3, LagFinal
  <1>5. Joined(UpTo(seconds, front), t) = Joined(seconds, t)
    BY JoinedFinal
  <1> QED
    BY <1>2, <1>4, <1>5 DEF GoldFeatures, Label

-----------------------------------------------------------------------------
(* The grid a statement finds is the one there will be, up to its end.     *)
LEMMA GridFinal ==
    ASSUME NEW seconds \in SUBSET Nat, IsFiniteSet(seconds), NEW front \in Int,
           UpTo(seconds, front) # {}
    PROVE  /\ EndT(UpTo(seconds, front)) \in Int
           /\ EndT(UpTo(seconds, front)) + Short <= front
           /\ FullGrid(UpTo(seconds, front)) =
                  {t \in FullGrid(seconds) : t <= EndT(UpTo(seconds, front))}
           /\ FullGrid(seconds) \subseteq Nat
  <1> DEFINE read == UpTo(seconds, front)
  <1>1. read \in SUBSET Nat /\ read \subseteq seconds /\ read # {} /\ seconds # {}
        /\ (\A s \in read : s <= front) /\ (\A s \in seconds : s \in read \/ s > front)
    <2>1. \A s : s \in read <=> s \in seconds /\ s <= front
      BY DEF UpTo
    <2>2. \A s \in seconds : s \in Nat /\ (s <= front \/ s > front)
      OBVIOUS
    <2> HIDE DEF read
    <2>3. read # {}
      BY DEF read
    <2> QED
      BY <2>1, <2>2, <2>3
  <1>2. IsFiniteSet(read)
    BY <1>1, FS_Subset
  <1> HIDE DEF read
  <1>3. /\ Min(read) \in read /\ \A s \in read : Min(read) <= s
        /\ Min(seconds) \in seconds /\ \A s \in seconds : Min(seconds) <= s
    BY <1>1, MinProperty
  <1>4. /\ Max(read) \in read /\ \A s \in read : Max(read) >= s
        /\ Max(seconds) \in seconds /\ \A s \in seconds : Max(seconds) >= s
    BY <1>1, <1>2, FiniteMaxProperty
  <1>5. Min(read) = Min(seconds)
    <2>1. Min(read) \in Nat /\ Min(seconds) \in Nat /\ Min(seconds) <= Min(read)
          /\ Min(read) <= front
      BY <1>1, <1>3
    <2>2. Min(seconds) \in read
      BY <1>1, <1>3, <2>1
    <2> QED
      BY <1>3, <2>1, <2>2
  <1>6. /\ Max(read) \in Nat /\ Max(seconds) \in Nat /\ Max(read) <= Max(seconds)
        /\ Max(read) <= front /\ Min(seconds) \in Nat
    BY <1>1, <1>3, <1>4
  <1>7. /\ AsOf(Max(read)) \in Int /\ AsOf(Max(read)) <= front
        /\ AsOf(Max(read)) <= AsOf(Max(seconds)) /\ AsOf(Max(seconds)) \in Int
        /\ AsOf(Min(seconds)) \in Nat
    BY <1>6, AsOfBelow, AsOfMonotone
  <1>8. Short \in Nat /\ Long \in Nat /\ Minute \in Nat
    BY GoldAssumption
  <1>9. /\ EndT(read) \in Int /\ EndT(read) + Short <= front /\ EndT(read) <= EndT(seconds)
        /\ EndT(seconds) \in Int
    BY <1>7, <1>8 DEF EndT
  <1>10. StartT(read) = StartT(seconds) /\ StartT(seconds) \in Nat
    BY <1>5, <1>7, <1>8 DEF StartT
  <1>11. /\ FullGrid(read) = {t \in StartT(seconds)..EndT(read) : t % Minute = 0}
         /\ FullGrid(seconds) = {t \in StartT(seconds)..EndT(seconds) : t % Minute = 0}
    BY <1>1, <1>10 DEF FullGrid
  <1> QED
    BY <1>9, <1>10, <1>11 DEF read

LEMMA BuildableType == ASSUME NEW p \in Product PROVE Buildable[p] \subseteq Nat
  <1>1. AllBook[p] \in SUBSET Nat
    <2>1. \A b \in BookBar : b[2] \in Nat
      BY GoldBuildAssumption
    <2> QED
      BY <2>1 DEF AllBook
  <1>2. FullGrid(AllBook[p]) \subseteq Nat
    <2>1. CASE AllBook[p] = {}
      BY <2>1 DEF FullGrid
    <2>2. CASE AllBook[p] # {}
      <3> DEFINE A == AllBook[p]
      <3> HIDE DEF A
      <3>1. A \in SUBSET Nat /\ A # {}
        BY <1>1, <2>2 DEF A
      <3>2. Min(A) \in Nat
        BY <3>1, MinProperty
      <3>3. StartT(A) \in Nat
        BY <3>2, AsOfBelow, GoldAssumption DEF StartT
      <3>4. FullGrid(A) \subseteq Nat
        BY <3>1, <3>3 DEF FullGrid
      <3> QED
        BY <3>4 DEF A
    <2> QED
      BY <2>1, <2>2
  <1> QED
    BY <1>2 DEF Buildable

-----------------------------------------------------------------------------
(* A table of rows and its minutes.                                        *)
MinutesOf(rows, p) == {row.asOf : row \in {r \in rows : r.product = p}}

LastOf(rows, p) == IF MinutesOf(rows, p) = {} THEN Never ELSE Max(MinutesOf(rows, p))

(* A row is what all the bars there will be give for its minute.           *)
Final(row) ==
    LET final == GoldFeatures(AllBook[row.product], AllTrade[row.product], row.asOf)
    IN  /\ [row.features EXCEPT !.trades = {}] = [final EXCEPT !.trades = {}]
        /\ row.label = Label(AllBook[row.product], row.asOf)
        /\ ~ row.behind => row.features.trades = final.trades
        /\ \A s \in row.features.trades : s <= row.asOf

SoundRows(rows, front) ==
    /\ rows \subseteq GoldRowType
    /\ IsFiniteSet(rows)
    /\ \A row \in rows : Final(row) /\ row.asOf <= front

(* The table has every minute with bars up to its last one ...             *)
SoundTable(table, front) ==
    /\ SoundRows(table, front)
    /\ \A p \in Product :
           MinutesOf(table, p) = {t \in Buildable[p] : t <= LastOf(table, p)}

(* ... and an INSERT has every one from some minute to some other, which   *)
(* the table's last one may have passed by now.                            *)
SoundBatch(rows, front, table) ==
    /\ SoundRows(rows, front)
    /\ \A p \in Product : \E first \in Int, last \in Int :
           /\ first <= LastOf(table, p)
           /\ MinutesOf(rows, p) = {t \in Buildable[p] : first < t /\ t <= last}

LEMMA LastProperty ==
    ASSUME NEW rows, NEW front \in Int, SoundRows(rows, front), NEW p \in Product
    PROVE  /\ MinutesOf(rows, p) \in SUBSET Nat
           /\ LastOf(rows, p) \in Int /\ LastOf(rows, p) >= Never
           /\ MinutesOf(rows, p) # {} => LastOf(rows, p) \in MinutesOf(rows, p)
           /\ \A t \in MinutesOf(rows, p) : t <= LastOf(rows, p)
  <1>1. \A row \in rows : row.asOf \in Nat /\ row.asOf <= front
    BY DEF SoundRows, GoldRowType
  <1>2. MinutesOf(rows, p) \in SUBSET Nat /\ \A t \in MinutesOf(rows, p) : t <= front
    BY <1>1 DEF MinutesOf
  <1>3. CASE MinutesOf(rows, p) = {}
    BY <1>2, <1>3 DEF LastOf, Never
  <1>4. CASE MinutesOf(rows, p) # {}
    <2> DEFINE M == MinutesOf(rows, p)
    <2>1. M \in SUBSET Nat /\ M # {} /\ \A t \in M : t <= front
      BY <1>2, <1>4
    <2>2. LastOf(rows, p) = Max(M)
      BY <1>4 DEF LastOf
    <2> HIDE DEF M
    <2>3. front \in Nat
      <3>1. PICK t \in M : TRUE
        BY <2>1
      <3>2. t \in Nat /\ t <= front
        BY <2>1
      <3> QED
        BY <3>2
    <2>4. M \in SUBSET (0..front)
      BY <2>1, <2>3
    <2>5. Max(M) \in M /\ \A t \in M : Max(M) >= t
      BY <2>1, <2>3, <2>4, MaxProperty
    <2>6. Max(M) \in Nat /\ \A t \in M : t \in Nat /\ t <= Max(M)
      BY <2>1, <2>5
    <2> QED
      BY <2>1, <2>2, <2>5, <2>6 DEF M, Never
  <1> QED
    BY <1>3, <1>4

LEMMA EmptyBatch ==
    ASSUME NEW front \in Int, NEW table, SoundRows(table, front)
    PROVE  SoundBatch({}, front, table) /\ SoundRows({}, front)
  <1>1. SoundRows({}, front)
    BY FS_EmptySet DEF SoundRows
  <1>2. ASSUME NEW p \in Product
        PROVE  \E first \in Int, last \in Int :
                   /\ first <= LastOf(table, p)
                   /\ MinutesOf({}, p) = {t \in Buildable[p] : first < t /\ t <= last}
    <2>1. LastOf(table, p) \in Int
      BY LastProperty
    <2>2. Buildable[p] \in SUBSET Int
      <3>1. Buildable[p] \subseteq FullGrid(AllBook[p])
        BY DEF Buildable
      <3>2. AllBook[p] \in SUBSET Nat
        <4>1. \A b \in BookBar : b[2] \in Nat
          BY GoldBuildAssumption
        <4> QED
          BY <4>1 DEF AllBook
      <3> QED
        BY <3>1 DEF FullGrid
    <2>3. MinutesOf({}, p) =
              {t \in Buildable[p] : LastOf(table, p) < t /\ t <= LastOf(table, p)}
      BY <2>1, <2>2 DEF MinutesOf
    <2> QED
      BY <2>1, <2>3
  <1> QED
    BY <1>1, <1>2 DEF SoundBatch

(* Rows and batches stay sound as the fronts and the table grow.           *)
LEMMA RowsStaySound ==
    ASSUME NEW rows, NEW front \in Int, NEW later \in Int, front <= later,
           SoundRows(rows, front)
    PROVE  SoundRows(rows, later)
  <1>1. \A row \in rows : row.asOf \in Nat
    BY DEF SoundRows, GoldRowType
  <1> QED
    BY <1>1 DEF SoundRows

LEMMA BatchStaysSound ==
    ASSUME NEW rows, NEW front \in Int, NEW later \in Int, front <= later,
           NEW table, NEW grown, SoundRows(table, front), SoundRows(grown, later),
           \A p \in Product : LastOf(table, p) <= LastOf(grown, p),
           SoundBatch(rows, front, table)
    PROVE  SoundBatch(rows, later, grown)
  <1>1. SoundRows(rows, later)
    BY RowsStaySound DEF SoundBatch
  <1>2. \A p \in Product : LastOf(table, p) \in Int /\ LastOf(grown, p) \in Int
    BY LastProperty
  <1>3. \A p \in Product : \A first \in Int :
            first <= LastOf(table, p) => first <= LastOf(grown, p)
    BY <1>2
  <1> QED
    BY <1>1, <1>3 DEF SoundBatch

-----------------------------------------------------------------------------
(* The commit of an INSERT.                                                *)
Copies(table, row) ==
    1 + Cardinality({r \in table : r.product = row.product /\ r.asOf = row.asOf})

Copied(table, row) == [row EXCEPT !.copy = Copies(table, row)]

AppendedTo(table, rows) == table \union {Copied(table, row) : row \in rows}

LEMMA CopiedIs ==
    ASSUME NEW table, IsFiniteSet(table), NEW row \in GoldRowType
    PROVE  /\ Copied(table, row) \in GoldRowType
           /\ Copied(table, row).product = row.product /\ Copied(table, row).asOf = row.asOf
           /\ Final(row) => Final(Copied(table, row))
           /\ (\A r \in table : ~ (r.product = row.product /\ r.asOf = row.asOf)) =>
                  Copied(table, row).copy = 1
  <1> DEFINE same == {r \in table : r.product = row.product /\ r.asOf = row.asOf}
             n == Copies(table, row)
  <1>1. Cardinality(same) \in Nat /\ n = 1 + Cardinality(same)
    <2>1. IsFiniteSet(same)
      BY FS_Subset
    <2> QED
      BY <2>1, FS_CardinalityType DEF Copies
  <1>2. (\A r \in table : ~ (r.product = row.product /\ r.asOf = row.asOf)) => n = 1
    <2>1. (\A r \in table : ~ (r.product = row.product /\ r.asOf = row.asOf)) => same = {}
      OBVIOUS
    <2> HIDE DEF same, n
    <2> QED
      BY <1>1, <2>1, FS_EmptySet
  <1>3. Copied(table, row) = [row EXCEPT !.copy = n]
    BY DEF Copied
  <1>4. n \in Nat
    BY <1>1
  <1> HIDE DEF n
  <1>5. /\ Copied(table, row) \in GoldRowType
        /\ Copied(table, row).product = row.product /\ Copied(table, row).asOf = row.asOf
        /\ Copied(table, row).features = row.features /\ Copied(table, row).label = row.label
        /\ Copied(table, row).behind = row.behind /\ Copied(table, row).copy = n
    BY <1>3, <1>4 DEF GoldRowType
  <1> QED
    BY <1>2, <1>5 DEF Final

LEMMA AppendedRowsSound ==
    ASSUME NEW front \in Int, NEW table, NEW rows, SoundRows(table, front),
           SoundRows(rows, front)
    PROVE  /\ SoundRows(AppendedTo(table, rows), front)
           /\ \A p \in Product :
                  /\ MinutesOf(AppendedTo(table, rows), p) =
                         MinutesOf(table, p) \union MinutesOf(rows, p)
                  /\ LastOf(table, p) <= LastOf(AppendedTo(table, rows), p)
  <1> DEFINE added == {Copied(table, row) : row \in rows}
             f == [row \in rows |-> Copied(table, row)]
             all == AppendedTo(table, rows)
  <1>1. IsFiniteSet(added)
    <2>1. added = {f[row] : row \in rows} /\ f = [row \in rows |-> f[row]]
      OBVIOUS
    <2>2. IsFiniteSet(rows)
      BY DEF SoundRows
    <2> HIDE DEF added, f
    <2> QED
      BY <2>1, <2>2, FiniteImage
  <1>2. \A row \in rows :
          /\ Copied(table, row) \in GoldRowType /\ Final(Copied(table, row))
          /\ Copied(table, row).product = row.product /\ Copied(table, row).asOf = row.asOf
    BY CopiedIs DEF SoundRows
  <1>3. \A row \in rows : Copied(table, row).asOf <= front
    BY <1>2 DEF SoundRows
  <1>4. all = table \union added
    BY DEF AppendedTo
  <1>5. SoundRows(all, front)
    <2>1. IsFiniteSet(all)
      BY <1>1, <1>4, FS_Union DEF SoundRows
    <2>2. \A row \in all : row \in GoldRowType /\ Final(row) /\ row.asOf <= front
      BY <1>2, <1>3, <1>4 DEF SoundRows
    <2> HIDE DEF all
    <2> QED
      BY <2>1, <2>2 DEF SoundRows
  <1>6. ASSUME NEW p \in Product
        PROVE  MinutesOf(all, p) = MinutesOf(table, p) \union MinutesOf(rows, p)
    <2>1. MinutesOf(added, p) = MinutesOf(rows, p)
      BY <1>2 DEF MinutesOf
    <2> HIDE DEF added, all
    <2> QED
      BY <1>4, <2>1 DEF MinutesOf
  <1>7. ASSUME NEW p \in Product PROVE LastOf(table, p) <= LastOf(all, p)
    <2> HIDE DEF all
    <2>1. CASE MinutesOf(table, p) = {}
      <3>1. LastOf(table, p) = Never
        BY <2>1 DEF LastOf
      <3> QED
        BY <1>5, <3>1, LastProperty DEF Never
    <2>2. CASE MinutesOf(table, p) # {}
      <3>1. LastOf(table, p) \in MinutesOf(table, p)
        BY <2>2, LastProperty
      <3>2. LastOf(table, p) \in MinutesOf(all, p)
        BY <1>6, <3>1
      <3> QED
        BY <1>5, <3>2, LastProperty
    <2> QED
      BY <2>1, <2>2
  <1> QED
    BY <1>5, <1>6, <1>7

(* An INSERT's minutes continue the table's, or lie behind its last one.   *)
LEMMA AppendedSound ==
    ASSUME NEW front \in Int, NEW table, NEW rows,
           SoundTable(table, front), SoundBatch(rows, front, table)
    PROVE  SoundTable(AppendedTo(table, rows), front)
  <1> DEFINE all == AppendedTo(table, rows)
  <1>1. SoundRows(table, front) /\ SoundRows(rows, front)
    BY DEF SoundTable, SoundBatch
  <1>2. SoundRows(all, front)
    BY <1>1, AppendedRowsSound
  <1>3. ASSUME NEW p \in Product
        PROVE  MinutesOf(all, p) = {t \in Buildable[p] : t <= LastOf(all, p)}
    <2> DEFINE B == Buildable[p]
               M == MinutesOf(table, p)
               N == MinutesOf(rows, p)
               E == LastOf(table, p)
               L == LastOf(all, p)
    <2>1. MinutesOf(all, p) = M \union N /\ E <= L
      BY <1>1, AppendedRowsSound
    <2>2. M = {t \in B : t <= E}
      BY DEF SoundTable
    <2>3. PICK first \in Int, last \in Int :
            first <= E /\ N = {t \in B : first < t /\ t <= last}
      BY DEF SoundBatch
    <2>4. E \in Int /\ L \in Int
      BY <1>1, <1>2, LastProperty
    <2>5. /\ M \union N # {} => L \in M \union N
          /\ \A t \in M \union N : t <= L
          /\ M \union N \subseteq Nat
      <3> HIDE DEF all, M, N, L
      <3>1. /\ MinutesOf(all, p) # {} => LastOf(all, p) \in MinutesOf(all, p)
            /\ \A t \in MinutesOf(all, p) : t <= LastOf(all, p)
            /\ MinutesOf(all, p) \in SUBSET Nat
        BY <1>2, LastProperty
      <3> QED
        BY <2>1, <3>1 DEF L
    <2>6. B \subseteq Int
      <3>1. AllBook[p] \in SUBSET Nat
        <4>1. \A b \in BookBar : b[2] \in Nat
          BY GoldBuildAssumption
        <4> QED
          BY <4>1 DEF AllBook
      <3> QED
        BY <3>1 DEF Buildable, FullGrid
    <2>7. L = E \/ L \in M \union N
      <3>1. CASE M \union N = {}
        <4>1. L = Never /\ E = Never
          BY <2>1, <3>1 DEF LastOf
        <4> QED
          BY <4>1
      <3> QED
        BY <2>5, <3>1
    <2> HIDE DEF B, M, N, E, L, all
    <2>8. ASSUME NEW t \in B, t <= L PROVE t \in M \union N
      <3>1. t \in Int
        BY <2>6
      <3>2. CASE t <= E
        BY <2>2, <3>2
      <3>3. CASE t > E
        <4>1. L \in N
          BY <2>2, <2>4, <2>7, <2>8, <3>1, <3>3
        <4>2. L <= last /\ first < t
          BY <2>3, <2>4, <3>1, <3>3, <4>1
        <4>3. t <= last
          BY <2>3, <2>4, <2>8, <3>1, <4>2
        <4> QED
          BY <2>3, <4>2, <4>3
      <3> QED
        BY <2>4, <3>1, <3>2, <3>3
    <2>9. M \union N \subseteq B
      BY <2>2, <2>3
    <2>10. M \union N = {t \in B : t <= L}
      BY <2>5, <2>8, <2>9
    <2> QED
      BY <2>1, <2>10 DEF B, L
  <1> QED
    BY <1>2, <1>3 DEF SoundTable

-----------------------------------------------------------------------------
(* What a statement plans for a product.                                   *)
FeaturesType == [book: SUBSET Nat, base: Nat \union {Never}, recent: SUBSET Nat,
                 trades: SUBSET Nat]

LEMMA FeaturesTyped ==
    ASSUME NEW seconds \in SUBSET Nat, IsFiniteSet(seconds), NEW trades \in SUBSET Nat, NEW t \in Nat
    PROVE  GoldFeatures(seconds, trades, t) \in FeaturesType
  <1>1. \A x : Lag(seconds, x) \in Nat \union {Never}
    <2> TAKE x
    <2> DEFINE before == {s \in seconds : s < x}
    <2>1. before \in SUBSET Nat /\ IsFiniteSet(before)
      BY FS_Subset
    <2>2. Lag(seconds, x) = IF before = {} THEN Never ELSE Max(before)
      BY DEF Lag
    <2> HIDE DEF before
    <2>3. before # {} => Max(before) \in Nat
      <3> HAVE before # {}
      <3>1. before \in SUBSET Int
        BY <2>1
      <3>2. Max(before) \in before
        BY <2>1, <3>1, FiniteMaxProperty
      <3> QED
        BY <2>1, <3>2
    <2> QED
      BY <2>2, <2>3
  <1>2. \A length : /\ Window(seconds, t, length) \in SUBSET Nat
                    /\ Window(trades, t, length) \in SUBSET Nat
    BY DEF Window
  <1> QED
    BY <1>1, <1>2 DEF GoldFeatures, FeaturesType

LEMMA FeaturesOfTrades ==
    ASSUME NEW seconds, NEW trades, NEW others, NEW t
    PROVE  /\ [GoldFeatures(seconds, trades, t) EXCEPT !.trades = {}] =
                  [GoldFeatures(seconds, others, t) EXCEPT !.trades = {}]
           /\ GoldFeatures(seconds, trades, t).trades = Window(trades, t, Short)
           /\ Window(trades, t, Short) = Window(others, t, Short) =>
                  GoldFeatures(seconds, trades, t) = GoldFeatures(seconds, others, t)
  BY DEF GoldFeatures

RowFor(p, t) ==
    [product |-> p, asOf |-> t, features |-> GoldFeatures(BookSeconds(p), TradeSeconds(p), t),
     label |-> Label(BookSeconds(p), t), behind |-> bookFront - tradeFront > Short, copy |-> 1]

LEMMA RowForSound ==
    ASSUME bookFront \in Int, tradeFront \in Int, NEW p \in Product, NEW t \in Nat,
           t + Short <= bookFront
    PROVE  RowFor(p, t) \in GoldRowType /\ Final(RowFor(p, t))
  <1> DEFINE A == AllBook[p]
             T == AllTrade[p]
             book == BookSeconds(p)
             trades == TradeSeconds(p)
             row == RowFor(p, t)
  <1>1. /\ A \in SUBSET Nat /\ book = UpTo(A, bookFront) /\ IsFiniteSet(A)
        /\ T \in SUBSET Nat /\ trades = UpTo(T, tradeFront)
    BY BookSecondsAre, TradeSecondsAre, AllBookFinite
  <1>2. book \in SUBSET Nat /\ IsFiniteSet(book) /\ trades \in SUBSET Nat
    <2>1. book \in SUBSET A /\ trades \in SUBSET T
      BY <1>1 DEF UpTo
    <2> HIDE DEF book, trades, A, T
    <2> QED
      BY <1>1, <2>1, FS_Subset
  <1>3. /\ row.product = p /\ row.asOf = t /\ row.features = GoldFeatures(book, trades, t)
        /\ row.label = Label(book, t) /\ row.behind = (bookFront - tradeFront > Short)
    BY DEF RowFor
  <1> HIDE DEF row
  <1>4. row \in GoldRowType
    <2>1. GoldFeatures(book, trades, t) \in FeaturesType
      <3> HIDE DEF book, trades
      <3> QED
        BY <1>2, FeaturesTyped
    <2>2. Label(book, t) \in SUBSET Nat
      <3> HIDE DEF book
      <3> QED
        BY <1>2 DEF Label, Joined
    <2>3. (bookFront - tradeFront > Short) \in BOOLEAN
      BY SMT, GoldAssumption
    <2>4. row = [product |-> p, asOf |-> t, features |-> GoldFeatures(book, trades, t),
                 label |-> Label(book, t), behind |-> bookFront - tradeFront > Short,
                 copy |-> 1]
      BY DEF row, RowFor
    <2> DEFINE late == (bookFront - tradeFront > Short)
               fs == GoldFeatures(book, trades, t)
               lb == Label(book, t)
    <2>5. /\ 1 \in Nat /\ late \in BOOLEAN /\ fs \in FeaturesType /\ lb \in SUBSET Nat
          /\ row = [product |-> p, asOf |-> t, features |-> fs, label |-> lb,
                    behind |-> late, copy |-> 1]
      BY <2>1, <2>2, <2>3, <2>4
    <2> HIDE DEF late, fs, lb
    <2> QED
      BY <2>5, Zenon DEF GoldRowType, FeaturesType
  <1>5. /\ GoldFeatures(book, trades, t) = GoldFeatures(A, trades, t)
        /\ Label(book, t) = Label(A, t)
    <2> HIDE DEF A, book, trades
    <2>1. A \in SUBSET Nat /\ IsFiniteSet(A) /\ book = UpTo(A, bookFront)
      BY <1>1
    <2>2. /\ GoldFeatures(UpTo(A, bookFront), trades, t) = GoldFeatures(A, trades, t)
          /\ Label(UpTo(A, bookFront), t) = Label(A, t)
      BY <2>1, FeaturesFinal
    <2> QED
      BY <2>1, <2>2
  <1>6. ~ row.behind => Window(trades, t, Short) = Window(T, t, Short)
    <2>1. ~ row.behind => t <= tradeFront
      <3>1. ~ row.behind => ~ (bookFront - tradeFront > Short)
        BY <1>3, Zenon
      <3>2. ~ (bookFront - tradeFront > Short) => t <= tradeFront
        BY GoldAssumption
      <3> QED
        BY <3>1, <3>2
    <2> HIDE DEF T, trades, row
    <2>2. T \in SUBSET Nat /\ trades = UpTo(T, tradeFront)
      BY <1>1
    <2>3. t <= tradeFront => Window(UpTo(T, tradeFront), t, Short) = Window(T, t, Short)
      BY <2>2, WindowFinal
    <2> QED
      BY <2>1, <2>2, <2>3
  <1>7. Final(row)
    <2>1. /\ [row.features EXCEPT !.trades = {}] = [GoldFeatures(A, T, t) EXCEPT !.trades = {}]
          /\ ~ row.behind => row.features.trades = GoldFeatures(A, T, t).trades
      <3> HIDE DEF A, T, book, trades
      <3> QED
        BY <1>3, <1>5, <1>6, FeaturesOfTrades
    <2>2. \A s \in row.features.trades : s <= t
      <3>1. row.features.trades = Window(trades, t, Short)
        BY <1>3 DEF GoldFeatures
      <3> QED
        BY <3>1 DEF Window
    <2> QED
      BY <1>3, <1>5, <2>1, <2>2 DEF Final
  <1> QED
    BY <1>4, <1>7 DEF row

(* An INSERT's rows, for a product: those of the minutes with bars after   *)
(* the last one that is built.                                             *)
LEMMA NewRowsSound ==
    ASSUME bookFront \in Int, tradeFront \in Int, SoundRows(gold, bookFront), NEW p \in Product
    PROVE  /\ SoundRows(NewRows(p), bookFront)
           /\ \A row \in NewRows(p) : row.product = p /\ row.asOf > Existing(p)
           /\ \E last \in Int : MinutesOf(NewRows(p), p) =
                                    {t \in Buildable[p] : Existing(p) < t /\ t <= last}
  <1> DEFINE A == AllBook[p]
             book == BookSeconds(p)
             minutes == {t \in Grid(p) : Joined(book, t) # {}}
  <1>1. A \in SUBSET Nat /\ book = UpTo(A, bookFront) /\ IsFiniteSet(A)
    BY BookSecondsAre, AllBookFinite
  <1>2. Existing(p) \in Int
    <2>1. Existing(p) = LastOf(gold, p)
      BY DEF Existing, Built, LastOf, MinutesOf
    <2> QED
      BY <2>1, LastProperty
  <1>3. Buildable[p] = {t \in FullGrid(A) : Joined(A, t) # {}}
    BY DEF Buildable
  <1>4. NewRows(p) = {RowFor(p, t) : t \in minutes}
    BY DEF NewRows, RowFor
  <1>5. PICK last \in Int :
          /\ \A t \in minutes : t \in Nat /\ t + Short <= bookFront
          /\ minutes = {t \in Buildable[p] : Existing(p) < t /\ t <= last}
    <2>1. CASE book = {}
      <3>1. minutes = {}
        BY <2>1 DEF Grid, FullGrid
      <3>2. Buildable[p] \subseteq Int
        BY <1>1, <1>3 DEF FullGrid
      <3>3. minutes = {t \in Buildable[p] : Existing(p) < t /\ t <= Existing(p)}
        <4> HIDE DEF minutes
        <4> QED
          BY <1>2, <3>1, <3>2
      <3> HIDE DEF minutes
      <3> QED
        BY <1>2, <3>1, <3>3
    <2>2. CASE book # {}
      <3> HIDE DEF A
      <3>1. /\ EndT(book) \in Int /\ EndT(book) + Short <= bookFront
            /\ FullGrid(book) = {t \in FullGrid(A) : t <= EndT(book)}
            /\ FullGrid(A) \subseteq Nat
        <4> HIDE DEF book
        <4> QED
          BY <1>1, <2>2, GridFinal
      <3>2. Grid(p) = {t \in FullGrid(book) : t > Existing(p)}
        BY DEF Grid
      <3>3. \A t \in FullGrid(book) :
              t \in Nat /\ t + Short <= bookFront /\ Joined(book, t) = Joined(A, t)
        <4> TAKE t \in FullGrid(book)
        <4>1. t \in Nat /\ t <= EndT(book)
          BY <3>1
        <4>2. t + Short <= bookFront
          BY <3>1, <4>1, GoldAssumption
        <4> HIDE DEF book
        <4> QED
          BY <1>1, <4>1, <4>2, JoinedFinal
      <3> HIDE DEF book
      <3>4. minutes = {t \in Buildable[p] : Existing(p) < t /\ t <= EndT(book)}
        <4>1. \A t : t \in minutes <=>
                       t \in FullGrid(A) /\ t <= EndT(book) /\ t > Existing(p)
                           /\ Joined(A, t) # {}
          BY <3>1, <3>2, <3>3
        <4>2. \A t \in FullGrid(A) : t > Existing(p) <=> Existing(p) < t
          BY <1>2, <3>1
        <4> HIDE DEF minutes
        <4>3. \A t : t \in minutes <=>
                       t \in {u \in Buildable[p] : Existing(p) < u /\ u <= EndT(book)}
          BY <1>3, <4>1, <4>2
        <4> QED
          BY <4>3
      <3>5. \A t \in minutes : t \in Nat /\ t + Short <= bookFront
        BY <3>2, <3>3
      <3> HIDE DEF minutes
      <3> QED
        BY <3>1, <3>4, <3>5
    <2> QED
      BY <2>1, <2>2
  <1>6. IsFiniteSet(minutes)
    <2>1. minutes \in SUBSET Nat /\ \A t \in minutes : t <= bookFront
      <3> HIDE DEF minutes
      <3> QED
        BY <1>5, GoldAssumption
    <2> HIDE DEF minutes
    <2>2. CASE minutes = {}
      BY <2>2, FS_EmptySet
    <2>3. CASE minutes # {}
      <3>1. PICK t \in minutes : TRUE
        BY <2>3
      <3>2. bookFront \in Nat
        BY <2>1, <3>1
      <3> QED
        BY <2>1, <3>2, FS_BoundedSetOfNaturals
    <2> QED
      BY <2>2, <2>3
  <1>7. IsFiniteSet(NewRows(p))
    <2> DEFINE f == [t \in minutes |-> RowFor(p, t)]
    <2>1. NewRows(p) = {f[t] : t \in minutes} /\ f = [t \in minutes |-> f[t]]
      <3> HIDE DEF minutes
      <3> QED
        BY <1>4
    <2> HIDE DEF minutes, f
    <2> QED
      BY <1>6, <2>1, FiniteImage
  <1> HIDE DEF minutes
  <1>8. \A row \in NewRows(p) :
          /\ row \in GoldRowType /\ Final(row) /\ row.product = p
          /\ row.asOf \in minutes /\ row.asOf <= bookFront
    <2>1. ASSUME NEW t \in minutes
          PROVE  /\ RowFor(p, t) \in GoldRowType /\ Final(RowFor(p, t))
                 /\ RowFor(p, t).product = p /\ RowFor(p, t).asOf = t /\ t <= bookFront
      <3>1. t \in Nat /\ t + Short <= bookFront
        BY <1>5
      <3>2. t <= bookFront
        BY <3>1, GoldAssumption
      <3> QED
        BY <3>1, <3>2, RowForSound DEF RowFor
    <2> QED
      BY <1>4, <2>1
  <1>9. MinutesOf(NewRows(p), p) = minutes
    <2>1. \A t \in minutes : RowFor(p, t).product = p /\ RowFor(p, t).asOf = t
      BY DEF RowFor
    <2> QED
      BY <1>4, <1>8, <2>1 DEF MinutesOf
  <1>10. SoundRows(NewRows(p), bookFront)
    BY <1>7, <1>8 DEF SoundRows
  <1>11. \A t \in minutes : t > Existing(p)
    BY <1>2, <1>5
  <1> QED
    BY <1>5, <1>8, <1>9, <1>10, <1>11

PlannedRows == UNION {NewRows(p) : p \in Product}

LEMMA PlannedSound ==
    ASSUME bookFront \in Int, tradeFront \in Int, SoundRows(gold, bookFront)
    PROVE  /\ SoundBatch(PlannedRows, bookFront, gold)
           /\ \A row \in PlannedRows : row.asOf \notin Built(row.product)
  <1>1. \A p \in Product :
          /\ SoundRows(NewRows(p), bookFront)
          /\ \A row \in NewRows(p) : row.product = p /\ row.asOf > Existing(p)
    BY NewRowsSound
  <1>2. IsFiniteSet(PlannedRows)
    <2> DEFINE f == [p \in Product |-> NewRows(p)]
               S == {NewRows(p) : p \in Product}
    <2>1. S = {f[p] : p \in Product} /\ f = [p \in Product |-> f[p]]
      OBVIOUS
    <2>2. \A T \in S : IsFiniteSet(T)
      BY <1>1 DEF SoundRows
    <2>3. PlannedRows = UNION S
      BY DEF PlannedRows
    <2> HIDE DEF f, S
    <2>4. IsFiniteSet(S)
      BY <2>1, FiniteImage, GoldBuildAssumption
    <2> QED
      BY <2>2, <2>3, <2>4, FS_UNION
  <1>3. \A row \in PlannedRows :
          /\ row.product \in Product /\ row \in NewRows(row.product)
          /\ row \in GoldRowType /\ Final(row) /\ row.asOf <= bookFront
          /\ row.asOf > Existing(row.product)
    BY <1>1 DEF PlannedRows, SoundRows
  <1>4. SoundRows(PlannedRows, bookFront)
    BY <1>2, <1>3 DEF SoundRows
  <1>5. \A p \in Product : Existing(p) = LastOf(gold, p) /\ Built(p) = MinutesOf(gold, p)
    BY DEF Existing, Built, LastOf, MinutesOf
  <1>6. ASSUME NEW p \in Product
        PROVE  \E first \in Int, last \in Int :
                   /\ first <= LastOf(gold, p)
                   /\ MinutesOf(PlannedRows, p) =
                          {t \in Buildable[p] : first < t /\ t <= last}
    <2>1. MinutesOf(PlannedRows, p) = MinutesOf(NewRows(p), p)
      <3>1. \A row : row \in PlannedRows /\ row.product = p <=>
                     row \in NewRows(p) /\ row.product = p
        BY <1>3 DEF PlannedRows
      <3> QED
        BY <3>1 DEF MinutesOf
    <2>2. Existing(p) \in Int /\ Existing(p) <= LastOf(gold, p)
      BY <1>5, LastProperty
    <2> QED
      BY <2>1, <2>2, NewRowsSound
  <1>7. ASSUME NEW row \in PlannedRows PROVE row.asOf \notin Built(row.product)
    <2>1. row.product \in Product /\ row.asOf > Existing(row.product)
      BY <1>3
    <2>2. LastOf(gold, row.product) \in Int /\ row.asOf \in Nat
      BY <1>3, <2>1, LastProperty DEF GoldRowType
    <2>3. \A t \in MinutesOf(gold, row.product) : t <= LastOf(gold, row.product)
      BY <2>1, LastProperty
    <2> QED
      BY <1>5, <2>1, <2>2, <2>3
  <1> QED
    BY <1>4, <1>6, <1>7 DEF SoundBatch

-----------------------------------------------------------------------------
(* The invariant.  As long as no INSERT was planned while another was      *)
(* running, at most one is, of a refresh or of a client that is gone, and  *)
(* its minutes are new.                                                    *)
RefreshType == [step: Steps, tries: 0..MaxRetries, rows: SUBSET GoldRowType]

Inserting(r) == refresh[r].step = "inserting"

New(rows) == \A row \in rows : row.asOf \notin Built(row.product)

Alone ==
    /\ \A row \in gold : row.copy = 1
    /\ \A r \in Refresh : Inserting(r) => New(refresh[r].rows) /\ abandoned = {}
    /\ \A r \in Refresh, s \in Refresh : Inserting(r) /\ Inserting(s) => r = s
    /\ \A rows \in abandoned : New(rows)
    /\ \A rows \in abandoned, others \in abandoned : rows = others

GoldInv ==
    /\ bookFront \in Fronts /\ tradeFront \in Fronts
    /\ lost \in 0..MaxLost /\ overlapped \in BOOLEAN
    /\ refresh \in [Refresh -> RefreshType]
    /\ \A r \in Refresh : ~ Inserting(r) => refresh[r].rows = {}
    /\ SoundTable(gold, bookFront)
    /\ \A r \in Refresh : SoundBatch(refresh[r].rows, bookFront, gold)
    /\ \A rows \in abandoned : SoundBatch(rows, bookFront, gold)
    /\ ~ overlapped => Alone

LEMMA FrontsAre == \A front \in Fronts : front \in Int
  BY GoldBuildAssumption DEF Fronts, Never

LEMMA GoldStarts == GoldInit => GoldInv
  <1> SUFFICES ASSUME GoldInit PROVE GoldInv
    OBVIOUS
  <1>1. SoundRows({}, bookFront)
    BY FS_EmptySet DEF SoundRows
  <1>2. bookFront \in Int /\ bookFront \in Fronts /\ tradeFront \in Fronts
    BY DEF GoldInit, Fronts, Never
  <1>3. SoundTable(gold, bookFront)
    <2>1. ASSUME NEW p \in Product
          PROVE  MinutesOf({}, p) = {t \in Buildable[p] : t <= LastOf({}, p)}
      <3>1. MinutesOf({}, p) = {} /\ LastOf({}, p) = Never
        BY DEF MinutesOf, LastOf
      <3>2. Buildable[p] \subseteq Nat
        BY BuildableType
      <3> QED
        BY <3>1, <3>2 DEF Never
    <2> QED
      BY <1>1, <2>1 DEF SoundTable, GoldInit
  <1>4. SoundBatch({}, bookFront, gold)
    BY <1>1, <1>2, EmptyBatch DEF GoldInit
  <1>5. NoRefresh \in RefreshType /\ NoRefresh.rows = {} /\ NoRefresh.step # "inserting"
    BY GoldBuildAssumption DEF NoRefresh, RefreshType, Steps
  <1>6. /\ refresh \in [Refresh -> RefreshType]
        /\ \A r \in Refresh : refresh[r].rows = {} /\ ~ Inserting(r)
    BY <1>5 DEF GoldInit, Inserting
  <1>7. lost \in 0..MaxLost /\ overlapped \in BOOLEAN
    <2>1. lost \in 0..MaxLost
      BY GoldBuildAssumption DEF GoldInit
    <2>2. overlapped \in BOOLEAN
      BY Zenon DEF GoldInit
    <2> QED
      BY <2>1, <2>2
  <1>8. Alone
    BY <1>6 DEF Alone, GoldInit
  <1> QED
    BY <1>2, <1>3, <1>4, <1>6, <1>7, <1>8 DEF GoldInv, GoldInit

-----------------------------------------------------------------------------
(* The steps.                                                              *)

(* Bars arrive: what was final stays so.                                   *)
LEMMA FrontsGrow ==
    ASSUME GoldInv, bookFront' \in Fronts, tradeFront' \in Fronts, bookFront <= bookFront',
           UNCHANGED buildVars
    PROVE  GoldInv'
  <1>1. /\ gold' = gold /\ refresh' = refresh /\ abandoned' = abandoned
        /\ lost' = lost /\ overlapped' = overlapped
    BY DEF buildVars
  <1>2. bookFront \in Int /\ bookFront' \in Int
    BY FrontsAre DEF GoldInv
  <1>3. SoundRows(gold, bookFront)
    BY DEF GoldInv, SoundTable
  <1>4. SoundRows(gold, bookFront')
    BY <1>2, <1>3, RowsStaySound
  <1>5. SoundTable(gold, bookFront')
    BY <1>4 DEF GoldInv, SoundTable
  <1>6. \A p \in Product : LastOf(gold, p) <= LastOf(gold, p)
    BY <1>2, <1>3, LastProperty
  <1>7. \A rows : SoundBatch(rows, bookFront, gold) => SoundBatch(rows, bookFront', gold)
    BY <1>2, <1>3, <1>4, <1>6, BatchStaysSound
  <1>8. Alone => Alone'
    BY <1>1 DEF Alone, New, Inserting, Built
  <1> QED
    BY <1>1, <1>5, <1>7, <1>8 DEF GoldInv, Inserting

(* A refresh goes to a step in which it has no INSERT running; the one it  *)
(* had may go on without it.                                               *)
LEMMA RefreshStep ==
    ASSUME GoldInv, NEW r \in Refresh, NEW v \in RefreshType, v.step # "inserting", v.rows = {},
           refresh' = [refresh EXCEPT ![r] = v],
           \/ abandoned' = abandoned
           \/ Inserting(r) /\ abandoned' = abandoned \union {refresh[r].rows},
           lost' \in 0..MaxLost,
           UNCHANGED <<bookFront, tradeFront, gold, overlapped>>
    PROVE  GoldInv'
  <1>1. /\ refresh' \in [Refresh -> RefreshType]
        /\ refresh'[r] = v
        /\ \A s \in Refresh : s # r => refresh'[s] = refresh[s]
    BY DEF GoldInv
  <1>2. \A s \in Refresh : Inserting(s)' => s # r /\ Inserting(s)
    BY <1>1 DEF Inserting
  <1>3. bookFront \in Int /\ SoundRows(gold, bookFront)
    BY FrontsAre DEF GoldInv, SoundTable
  <1>4. SoundBatch({}, bookFront, gold)
    BY <1>3, EmptyBatch
  <1>5. \A s \in Refresh : SoundBatch(refresh'[s].rows, bookFront, gold)
    BY <1>1, <1>4 DEF GoldInv
  <1>6. \A rows \in abandoned' : rows \in abandoned \/ (Inserting(r) /\ rows = refresh[r].rows)
    OBVIOUS
  <1>7. \A rows \in abandoned' : SoundBatch(rows, bookFront, gold)
    BY <1>6 DEF GoldInv
  <1>8. \A s \in Refresh : ~ Inserting(s)' => refresh'[s].rows = {}
    BY <1>1 DEF GoldInv, Inserting
  <1>9. ASSUME Alone PROVE Alone'
    <2>1. \A rows : New(rows)' <=> New(rows)
      BY DEF New, Built
    <2>2. \A s \in Refresh : Inserting(s)' => New(refresh[s].rows)' /\ abandoned' = {}
      <3> SUFFICES ASSUME NEW s \in Refresh, Inserting(s)'
                   PROVE  New(refresh[s].rows)' /\ abandoned' = {}
        OBVIOUS
      <3>1. s # r /\ Inserting(s) /\ refresh'[s] = refresh[s]
        BY <1>1, <1>2
      <3>2. ~ Inserting(r)
        BY <1>9, <3>1 DEF Alone
      <3> QED
        BY <1>9, <2>1, <3>1, <3>2 DEF Alone
    <2>3. \A rows \in abandoned' : New(rows)'
      BY <1>6, <1>9, <2>1 DEF Alone
    <2>4. \A rows \in abandoned', others \in abandoned' : rows = others
      BY <1>6, <1>9 DEF Alone
    <2>5. \A s \in Refresh, u \in Refresh : Inserting(s)' /\ Inserting(u)' => s = u
      BY <1>2, <1>9 DEF Alone
    <2> QED
      BY <1>9, <2>2, <2>3, <2>4, <2>5 DEF Alone
  <1> QED
    BY <1>1, <1>5, <1>7, <1>8, <1>9 DEF GoldInv

(* An INSERT is planned.                                                   *)
LEMMA PlanStep == ASSUME GoldInv, NEW r \in Refresh, Plan(r) PROVE GoldInv'
  <1>1. /\ refresh[r].step = "building"
        /\ refresh' = [refresh EXCEPT ![r].step = "inserting", ![r].rows = PlannedRows]
        /\ overlapped' = (overlapped \/ abandoned # {} \/ \E other \in Refresh : Inserting(other))
        /\ UNCHANGED <<bookFront, tradeFront, gold, abandoned, lost>>
    BY DEF Plan, PlannedRows, Inserting
  <1>2. /\ bookFront \in Int /\ tradeFront \in Int /\ SoundRows(gold, bookFront)
        /\ refresh \in [Refresh -> RefreshType]
    BY FrontsAre DEF GoldInv, SoundTable
  <1>3. SoundBatch(PlannedRows, bookFront, gold) /\ New(PlannedRows)
    BY <1>2, PlannedSound DEF New
  <1>4. PlannedRows \in SUBSET GoldRowType
    BY <1>3 DEF SoundBatch, SoundRows
  <1> DEFINE v == [refresh[r] EXCEPT !.step = "inserting", !.rows = PlannedRows]
  <1>5. v \in RefreshType /\ v.step = "inserting" /\ v.rows = PlannedRows
    <2>1. refresh[r] \in RefreshType
      BY <1>2
    <2> QED
      BY <1>4, <2>1 DEF RefreshType, Steps
  <1>6. refresh' = [refresh EXCEPT ![r] = v]
    BY <1>1, <1>2
  <1> HIDE DEF v
  <1>7. /\ refresh' \in [Refresh -> RefreshType]
        /\ refresh'[r] = v
        /\ \A s \in Refresh : s # r => refresh'[s] = refresh[s]
    BY <1>2, <1>5, <1>6
  <1>8. \A s \in Refresh : SoundBatch(refresh'[s].rows, bookFront, gold)
    BY <1>3, <1>5, <1>7 DEF GoldInv
  <1>9. \A s \in Refresh : ~ Inserting(s)' => refresh'[s].rows = {}
    BY <1>5, <1>7 DEF GoldInv, Inserting
  <1>10. overlapped' \in BOOLEAN
    BY <1>1, Zenon
  <1>11. ASSUME ~ overlapped' PROVE Alone'
    <2>1. Alone /\ abandoned = {} /\ \A s \in Refresh : ~ Inserting(s)
      BY <1>1, <1>11 DEF GoldInv
    <2>2. \A s \in Refresh : Inserting(s)' => s = r
      BY <1>7, <2>1 DEF Inserting
    <2>3. \A rows : New(rows)' <=> New(rows)
      BY <1>1 DEF New, Built
    <2>4. \A s \in Refresh : Inserting(s)' => New(refresh[s].rows)' /\ abandoned' = {}
      BY <1>1, <1>3, <1>5, <1>7, <2>1, <2>2, <2>3
    <2> QED
      BY <1>1, <2>1, <2>2, <2>4 DEF Alone
  <1> QED
    BY <1>1, <1>3, <1>7, <1>8, <1>9, <1>10, <1>11 DEF GoldInv

(* An INSERT commits.                                                      *)
LEMMA AppendStep ==
    ASSUME GoldInv, NEW rows, SoundBatch(rows, bookFront, gold),
           gold' = Appended(rows), UNCHANGED bookFront
    PROVE  /\ SoundTable(gold', bookFront')
           /\ \A batch : SoundBatch(batch, bookFront, gold) => SoundBatch(batch, bookFront', gold')
           /\ (\A row \in gold : row.copy = 1) /\ New(rows) => \A row \in gold' : row.copy = 1
  <1>1. gold' = AppendedTo(gold, rows)
    BY DEF Appended, AppendedTo, Copied, Copies
  <1>2. bookFront \in Int /\ SoundTable(gold, bookFront) /\ SoundRows(gold, bookFront)
    BY FrontsAre DEF GoldInv, SoundTable
  <1>3. SoundRows(rows, bookFront)
    BY DEF SoundBatch
  <1>4. SoundTable(gold', bookFront)
    BY <1>1, <1>2, AppendedSound
  <1>5. SoundRows(gold', bookFront) /\ \A p \in Product : LastOf(gold, p) <= LastOf(gold', p)
    BY <1>1, <1>2, <1>3, AppendedRowsSound
  <1>6. bookFront <= bookFront
    BY <1>2
  <1>7. \A batch : SoundBatch(batch, bookFront, gold) => SoundBatch(batch, bookFront, gold')
    BY <1>2, <1>5, <1>6, BatchStaysSound
  <1>8. ASSUME \A row \in gold : row.copy = 1, New(rows) PROVE \A row \in gold' : row.copy = 1
    <2>1. ASSUME NEW row \in rows PROVE Copied(gold, row).copy = 1
      <3>1. row \in GoldRowType /\ IsFiniteSet(gold)
        BY <1>2, <1>3 DEF SoundRows
      <3>2. \A r \in gold : ~ (r.product = row.product /\ r.asOf = row.asOf)
        BY <1>8 DEF New, Built
      <3> QED
        BY <3>1, <3>2, CopiedIs
    <2> QED
      BY <1>1, <1>8, <2>1 DEF AppendedTo
  <1> QED
    BY <1>4, <1>7, <1>8

LEMMA CommitStep == ASSUME GoldInv, NEW r \in Refresh, Commit(r) PROVE GoldInv'
  <1>1. /\ Inserting(r)
        /\ gold' = Appended(refresh[r].rows)
        /\ refresh' = [refresh EXCEPT ![r].step = "committed", ![r].rows = {}]
        /\ UNCHANGED <<bookFront, tradeFront, abandoned, lost, overlapped>>
    BY DEF Commit, Inserting
  <1> DEFINE v == [refresh[r] EXCEPT !.step = "committed", !.rows = {}]
  <1>2. refresh \in [Refresh -> RefreshType]
    BY DEF GoldInv
  <1>3. v \in RefreshType /\ v.step # "inserting" /\ v.rows = {}
    <2>1. refresh[r] \in RefreshType
      BY <1>2
    <2> QED
      BY <2>1 DEF RefreshType, Steps
  <1>4. refresh' = [refresh EXCEPT ![r] = v]
    BY <1>1, <1>2
  <1> HIDE DEF v
  <1>5. /\ refresh' \in [Refresh -> RefreshType]
        /\ refresh'[r] = v
        /\ \A s \in Refresh : s # r => refresh'[s] = refresh[s]
    BY <1>2, <1>3, <1>4
  <1>6. SoundBatch(refresh[r].rows, bookFront, gold)
    BY DEF GoldInv
  <1>7. /\ SoundTable(gold', bookFront')
        /\ \A batch : SoundBatch(batch, bookFront, gold) => SoundBatch(batch, bookFront', gold')
        /\ (\A row \in gold : row.copy = 1) /\ New(refresh[r].rows) => \A row \in gold' : row.copy = 1
    BY <1>1, <1>6, AppendStep
  <1>8. SoundBatch({}, bookFront, gold)
    BY FrontsAre, EmptyBatch DEF GoldInv, SoundTable
  <1>9. \A s \in Refresh : SoundBatch(refresh'[s].rows, bookFront', gold')
    BY <1>3, <1>5, <1>7, <1>8 DEF GoldInv
  <1>10. \A s \in Refresh : ~ Inserting(s)' => refresh'[s].rows = {}
    BY <1>3, <1>5 DEF GoldInv, Inserting
  <1>11. ASSUME Alone PROVE Alone'
    <2>1. New(refresh[r].rows) /\ abandoned = {} /\ \A s \in Refresh : Inserting(s) => s = r
      BY <1>1, <1>11 DEF Alone
    <2>2. \A s \in Refresh : ~ Inserting(s)'
      BY <1>3, <1>5, <2>1 DEF Inserting
    <2>3. \A row \in gold' : row.copy = 1
      BY <1>7, <1>11, <2>1 DEF Alone
    <2> QED
      BY <1>1, <2>1, <2>2, <2>3 DEF Alone
  <1> QED
    BY <1>1, <1>5, <1>7, <1>9, <1>10, <1>11 DEF GoldInv

LEMMA AbandonedStep ==
    ASSUME GoldInv, CommitAbandoned \/ EndAbandoned PROVE GoldInv'
  <1>1. UNCHANGED <<bookFront, tradeFront, refresh, lost, overlapped>>
    BY DEF CommitAbandoned, EndAbandoned
  <1>2. PICK rows \in abandoned :
          abandoned' = abandoned \ {rows} /\ (gold' = Appended(rows) \/ gold' = gold)
    BY DEF CommitAbandoned, EndAbandoned
  <1>3. SoundBatch(rows, bookFront, gold) /\ SoundTable(gold, bookFront)
    BY DEF GoldInv
  <1>4. /\ SoundTable(gold', bookFront')
        /\ \A batch : SoundBatch(batch, bookFront, gold) => SoundBatch(batch, bookFront', gold')
        /\ (\A row \in gold : row.copy = 1) /\ New(rows) => \A row \in gold' : row.copy = 1
    <2>1. CASE gold' = gold
      BY <1>1, <1>3, <2>1
    <2>2. CASE gold' = Appended(rows)
      BY <1>1, <1>3, <2>2, AppendStep
    <2> QED
      BY <1>2, <2>1, <2>2
  <1>5. ASSUME Alone PROVE Alone'
    <2>1. New(rows) /\ abandoned' = {} /\ \A s \in Refresh : ~ Inserting(s)
      BY <1>2, <1>5 DEF Alone
    <2>2. \A s \in Refresh : ~ Inserting(s)'
      BY <1>1, <2>1 DEF Inserting
    <2> QED
      BY <1>4, <1>5, <2>1, <2>2 DEF Alone
  <1> QED
    BY <1>1, <1>2, <1>4, <1>5 DEF GoldInv, Inserting

(* A try that failed.                                                      *)
LEMMA RetriedType ==
    ASSUME GoldInv, NEW r \in Refresh
    PROVE  /\ Retried(r) \in RefreshType
           /\ Retried(r).step # "inserting" /\ Retried(r).rows = {}
  <1>1. refresh[r] \in RefreshType
    BY DEF GoldInv
  <1>2. refresh[r].tries \in 0..MaxRetries /\ MaxRetries \in Nat
    BY <1>1, GoldBuildAssumption DEF RefreshType
  <1>3. CASE refresh[r].tries = MaxRetries
    BY <1>2, <1>3 DEF Retried, NoRefresh, RefreshType, Steps
  <1>4. CASE refresh[r].tries # MaxRetries
    <2>1. refresh[r].tries + 1 \in 0..MaxRetries
      BY <1>2, <1>4
    <2> QED
      BY <1>4, <2>1 DEF Retried, RefreshType, Steps
  <1> QED
    BY <1>3, <1>4

LEMMA GoldStep == GoldInv /\ [GoldNext]_goldVars => GoldInv'
  <1> SUFFICES ASSUME GoldInv, [GoldNext]_goldVars PROVE GoldInv'
    OBVIOUS
  <1>1. /\ refresh \in [Refresh -> RefreshType] /\ lost \in 0..MaxLost
        /\ bookFront \in Int /\ bookFront \in Fronts /\ tradeFront \in Fronts
    BY FrontsAre DEF GoldInv
  <1>2. CASE CommitBookBars
    <2>1. bookFront' \in Fronts /\ bookFront <= bookFront' /\ UNCHANGED <<tradeFront, buildVars>>
      <3>1. bookFront' \in CommitAt /\ bookFront' > bookFront
        BY <1>2 DEF CommitBookBars
      <3>2. bookFront' \in Nat
        BY <3>1, GoldBuildAssumption
      <3> QED
        BY <1>1, <1>2, <3>1, <3>2 DEF CommitBookBars, Fronts
    <2> QED
      BY <1>1, <2>1, FrontsGrow
  <1>3. CASE CommitTradeBars
    <2>1. tradeFront' \in Fronts /\ UNCHANGED <<bookFront, buildVars>>
      BY <1>3 DEF CommitTradeBars, Fronts
    <2> QED
      BY <1>1, <2>1, FrontsGrow
  <1>4. ASSUME NEW r \in Refresh, StartRefresh(r) PROVE GoldInv'
    <2> DEFINE v == [refresh[r] EXCEPT !.step = "building"]
    <2>1. refresh[r] \in RefreshType /\ refresh[r].rows = {}
      BY <1>1, <1>4 DEF StartRefresh, GoldInv, Inserting
    <2>2. v \in RefreshType /\ v.step # "inserting" /\ v.rows = {}
      BY <2>1 DEF RefreshType, Steps
    <2>3. refresh' = [refresh EXCEPT ![r] = v]
      BY <1>1, <1>4 DEF StartRefresh
    <2> HIDE DEF v
    <2> QED
      BY <1>1, <1>4, <2>2, <2>3, RefreshStep DEF StartRefresh
  <1>5. ASSUME NEW r \in Refresh, Plan(r) PROVE GoldInv'
    BY <1>5, PlanStep
  <1>6. ASSUME NEW r \in Refresh, Commit(r) PROVE GoldInv'
    BY <1>6, CommitStep
  <1>7. ASSUME NEW r \in Refresh, Inserted(r) \/ CheckPasses(r) PROVE GoldInv'
    <2>1. PICK v \in {NoRefresh, [NoRefresh EXCEPT !.step = "checking"]} :
            refresh' = [refresh EXCEPT ![r] = v]
      BY <1>7 DEF Inserted, CheckPasses
    <2>2. v \in RefreshType /\ v.step # "inserting" /\ v.rows = {}
      BY <2>1, GoldBuildAssumption DEF NoRefresh, RefreshType, Steps
    <2>3. UNCHANGED <<bookFront, tradeFront, gold, abandoned, lost, overlapped>>
      BY <1>7 DEF Inserted, CheckPasses
    <2> QED
      BY <1>1, <2>1, <2>2, <2>3, RefreshStep
  <1>8. ASSUME NEW r \in Refresh, TryFails(r) PROVE GoldInv'
    <2>1. /\ refresh' = [refresh EXCEPT ![r] = Retried(r)]
          /\ UNCHANGED <<bookFront, tradeFront, gold, abandoned, lost, overlapped>>
      BY <1>8 DEF TryFails
    <2> QED
      BY <1>1, <2>1, RetriedType, RefreshStep
  <1>9. ASSUME NEW r \in Refresh, LoseConnection(r) PROVE GoldInv'
    <2>1. /\ lost' = lost + 1 /\ lost < MaxLost
          /\ refresh' = [refresh EXCEPT ![r] = Retried(r)]
          /\ UNCHANGED <<bookFront, tradeFront, gold, overlapped>>
          /\ \/ abandoned' = abandoned
             \/ Inserting(r) /\ abandoned' = abandoned \union {refresh[r].rows}
      BY <1>9 DEF LoseConnection, Inserting
    <2>2. lost' \in 0..MaxLost
      BY <1>1, <2>1, GoldBuildAssumption
    <2> QED
      BY <2>1, <2>2, RetriedType, RefreshStep
  <1>10. CASE CommitAbandoned \/ EndAbandoned
    BY <1>10, AbandonedStep
  <1>11. CASE UNCHANGED goldVars
    BY <1>1, <1>11, FrontsGrow DEF goldVars
  <1> QED
    BY <1>2, <1>3, <1>4, <1>5, <1>6, <1>7, <1>8, <1>9, <1>10, <1>11 DEF GoldNext, RefreshNext

-----------------------------------------------------------------------------
(* Every behaviour satisfies the invariant.                                *)
THEOREM GoldInvariance == GoldSpec => []GoldInv
  BY GoldStarts, GoldStep, PTL DEF GoldSpec

(* The rows of the table and of every INSERT are rows, and a refresh is at *)
(* one of its steps with a try left.                                       *)
THEOREM GoldTypes == GoldSpec => []GoldTypeOK
  <1>1. GoldInv => GoldTypeOK
    <2> SUFFICES ASSUME GoldInv PROVE GoldTypeOK
      OBVIOUS
    <2>1. \A r \in Refresh : refresh[r] \in RefreshType
      BY DEF GoldInv
    <2>2. \A r \in Refresh : /\ refresh[r].step \in Steps
                             /\ refresh[r].tries \in 0..MaxRetries
                             /\ \A row \in refresh[r].rows : row \in GoldRowType
      BY <2>1 DEF RefreshType
    <2>3. \A row \in gold : row \in GoldRowType
      BY DEF GoldInv, SoundTable, SoundRows
    <2>4. \A rows \in abandoned : \A row \in rows : row \in GoldRowType
      BY DEF GoldInv, SoundBatch, SoundRows
    <2> QED
      BY <2>2, <2>3, <2>4 DEF GoldInv, GoldTypeOK
  <1> QED
    BY <1>1, GoldInvariance, PTL

(* A row of gold is final: the bars that arrive after it was planned,      *)
(* before it is committed or later, would not change it.                   *)
THEOREM RowsAlwaysFinal == GoldSpec => []RowsFinal
  <1>1. GoldInv => RowsFinal
    <2>1. GoldInv => \A row \in gold : Final(row)
      BY DEF GoldInv, SoundTable, SoundRows
    <2> QED
      BY <2>1, Zenon DEF RowsFinal, Final
  <1> QED
    BY <1>1, GoldInvariance, PTL

(* Every minute with bars up to a product's last one is in gold, and once, *)
(* unless an INSERT ran while another was planned.                         *)
THEOREM EachMinuteAlwaysOnce == GoldSpec => []EachMinuteOnce
  <1>1. GoldInv => EachMinuteOnce
    <2> SUFFICES ASSUME GoldInv PROVE EachMinuteOnce
      OBVIOUS
    <2>1. \A p \in Product : Built(p) = {t \in Buildable[p] : t <= Existing(p)}
      <3>1. \A p \in Product : Existing(p) = LastOf(gold, p) /\ Built(p) = MinutesOf(gold, p)
        BY DEF Existing, Built, LastOf, MinutesOf
      <3> QED
        BY <3>1 DEF GoldInv, SoundTable
    <2>2. ASSUME ~ overlapped PROVE Duplicates = 0
      <3> DEFINE copies == {row \in gold : row.copy > 1}
      <3>1. \A row \in gold : row.copy = 1
        BY <2>2 DEF GoldInv, Alone
      <3>2. copies = {}
        BY <3>1
      <3>3. Duplicates = Cardinality(copies)
        BY DEF Duplicates
      <3> HIDE DEF copies
      <3> QED
        BY <3>2, <3>3, FS_EmptySet
    <2> QED
      BY <2>1, <2>2 DEF EachMinuteOnce
  <1> QED
    BY <1>1, GoldInvariance, PTL

-----------------------------------------------------------------------------
(* The split.  A finite set of minutes has one with any smaller number of  *)
(* them before it: the least with at least as many.                        *)
Before(minutes, t) == {u \in minutes : u < t}

LEMMA QuantileExists ==
    ASSUME NEW minutes \in SUBSET Nat, IsFiniteSet(minutes),
           NEW k \in Nat, k < Cardinality(minutes)
    PROVE  \E t \in minutes : Cardinality(Before(minutes, t)) = k
  <1> DEFINE enough == {t \in minutes : Cardinality(Before(minutes, t)) >= k}
  <1>1. \A t : IsFiniteSet(Before(minutes, t)) /\ Cardinality(Before(minutes, t)) \in Nat
    BY FS_Subset, FS_CardinalityType DEF Before
  <1>2. minutes # {}
    BY FS_EmptySet
  (* The set of the minutes before a last one is that one less.            *)
  <1>3. ASSUME NEW S \in SUBSET minutes, S # {}, IsFiniteSet(S)
        PROVE  \E last \in S : /\ \A t \in S : t <= last
                              /\ Cardinality(S \ {last}) = Cardinality(S) - 1
    <2>1. S \in SUBSET Nat
      OBVIOUS
    <2>2. Max(S) \in S /\ \A t \in S : Max(S) >= t
      BY <1>3, <2>1, FiniteMaxProperty
    <2>3. \A t \in S : t <= Max(S)
      BY <2>1, <2>2
    <2>4. Cardinality(S \ {Max(S)}) = Cardinality(S) - 1
      BY <1>3, <2>2, FS_RemoveElement
    <2> QED
      BY <2>2, <2>3, <2>4
  <1>4. enough # {}
    <2>1. PICK last \in minutes : /\ \A t \in minutes : t <= last
                                 /\ Cardinality(minutes \ {last}) = Cardinality(minutes) - 1
      BY <1>2, <1>3
    <2>2. \A t \in minutes : t \in Nat /\ last \in Nat
      OBVIOUS
    <2>3. Before(minutes, last) = minutes \ {last}
      <3>1. \A u \in minutes : u < last <=> u # last
        BY <2>1, <2>2
      <3> QED
        BY <3>1, Zenon DEF Before
    <2>4. Cardinality(minutes) \in Nat
      BY FS_CardinalityType
    <2>5. Cardinality(Before(minutes, last)) >= k
      BY <2>1, <2>3, <2>4
    <2> QED
      BY <2>5
  <1>5. PICK t \in enough : \A u \in enough : t <= u
    BY <1>4, LeastElement
  <1>6. ASSUME Cardinality(Before(minutes, t)) > k PROVE FALSE
    <2> DEFINE S == Before(minutes, t)
    <2>1. S \in SUBSET minutes /\ IsFiniteSet(S) /\ Cardinality(S) > k /\ \A u \in S : u < t
      BY <1>1, <1>6 DEF Before
    <2> HIDE DEF S
    <2>2. S # {}
      BY <2>1, FS_EmptySet
    <2>3. PICK last \in S : /\ \A u \in S : u <= last
                           /\ Cardinality(S \ {last}) = Cardinality(S) - 1
      BY <1>3, <2>1, <2>2
    <2>4. last \in minutes /\ last < t /\ t \in Nat /\ last \in Nat
      BY <2>1
    <2>5. Before(minutes, last) = S \ {last}
      <3>1. \A u \in minutes : u \in Nat
        OBVIOUS
      <3>2. \A u : u \in S <=> u \in minutes /\ u < t
        BY DEF S, Before
      <3>3. \A u \in minutes : u < last <=> u \in S /\ u # last
        BY <2>3, <2>4, <3>1, <3>2
      <3>4. \A u : u \in Before(minutes, last) <=> u \in S \ {last}
        BY <2>1, <3>3 DEF Before
      <3> QED
        BY <3>4
    <2>6. Cardinality(S) \in Nat
      BY <2>1, FS_CardinalityType
    <2>7. Cardinality(Before(minutes, last)) >= k
      BY <2>1, <2>3, <2>5, <2>6
    <2>8. last \in enough
      BY <2>4, <2>7
    <2> QED
      BY <1>5, <2>4, <2>8
  <1>7. Cardinality(Before(minutes, t)) = k
    BY <1>1, <1>5, <1>6
  <1> QED
    BY <1>7

LEMMA CutExists ==
    ASSUME NEW rows, IsFiniteSet(rows), rows # {}, \A row \in rows : row.asOf \in Nat
    PROVE  Cut(rows) \in Nat
  <1> DEFINE minutes == {row.asOf : row \in rows}
             f == [row \in rows |-> row.asOf]
             k == (Cardinality(minutes) * 4) \div 5
  <1>1. minutes \in SUBSET Nat /\ minutes # {}
    OBVIOUS
  <1>2. IsFiniteSet(minutes)
    <2>1. minutes = {f[row] : row \in rows} /\ f = [row \in rows |-> f[row]]
      OBVIOUS
    <2> HIDE DEF minutes, f
    <2> QED
      BY <2>1, FiniteImage
  <1>3. Cut(rows) = CHOOSE t \in minutes : Cardinality(Before(minutes, t)) = k
    BY DEF Cut, Before
  <1> HIDE DEF minutes
  <1>4. Cardinality(minutes) \in Nat /\ Cardinality(minutes) # 0
    BY <1>1, <1>2, FS_CardinalityType, FS_EmptySet
  <1>5. k \in Nat /\ k < Cardinality(minutes)
    BY <1>4
  <1> HIDE DEF k
  <1>6. \E t \in minutes : Cardinality(Before(minutes, t)) = k
    BY <1>1, <1>2, <1>5, QuantileExists
  <1>7. Cut(rows) \in minutes
    BY <1>3, <1>6
  <1> QED
    BY <1>1, <1>7

(* A row's bars end with its label, and its label begins after its minute. *)
LEMMA BarsWithin ==
    ASSUME NEW front \in Int, NEW rows, SoundRows(rows, front), NEW row \in rows
    PROVE  /\ row.asOf \in Nat
           /\ \A s \in Bars(row) : s \in Nat /\ s <= row.asOf + Short
           /\ \A s \in row.label : s \in Nat /\ row.asOf < s
  <1> DEFINE A == AllBook[row.product]
             T == AllTrade[row.product]
             t == row.asOf
  <1>1. row \in GoldRowType /\ Final(row) /\ t \in Nat
    BY DEF SoundRows, GoldRowType
  <1>2. Short \in Nat /\ Long \in Nat
    BY GoldAssumption
  <1>3. /\ row.features.book \in SUBSET Nat /\ row.features.recent \in SUBSET Nat
        /\ row.features.trades \in SUBSET Nat /\ row.label \in SUBSET Nat
    BY <1>1 DEF GoldRowType
  <1>4. /\ [row.features EXCEPT !.trades = {}] = [GoldFeatures(A, T, t) EXCEPT !.trades = {}]
        /\ row.label = Label(A, t)
        /\ \A s \in row.features.trades : s <= t
    BY <1>1 DEF Final
  <1>5. row.features.book = Window(A, t, Long) /\ row.features.recent = Window(A, t, Short)
    <2>1. row.features \in FeaturesType
      BY <1>1 DEF GoldRowType, FeaturesType
    <2>2. /\ [row.features EXCEPT !.trades = {}].book = row.features.book
          /\ [row.features EXCEPT !.trades = {}].recent = row.features.recent
      BY <2>1 DEF FeaturesType
    <2>3. /\ [GoldFeatures(A, T, t) EXCEPT !.trades = {}].book = Window(A, t, Long)
          /\ [GoldFeatures(A, T, t) EXCEPT !.trades = {}].recent = Window(A, t, Short)
      BY DEF GoldFeatures
    <2> QED
      BY <1>4, <2>2, <2>3
  <1>6. \A s \in row.features.book \union row.features.recent : s <= t
    BY <1>5 DEF Window
  <1>7. \A s \in row.label : t < s /\ s <= t + Short
    BY <1>4 DEF Label, Joined
  <1> HIDE DEF t
  <1>8. \A s \in Bars(row) : s \in Nat /\ s <= t + Short
    <2>1. \A s \in Bars(row) : s \in Nat /\ (s <= t \/ s <= t + Short)
      BY <1>3, <1>4, <1>6, <1>7 DEF Bars
    <2> QED
      BY <1>1, <1>2, <2>1
  <1> QED
    BY <1>1, <1>3, <1>7, <1>8 DEF t

(* time_split keeps the labels of the test rows from the training, in      *)
(* whatever state a training finds gold.                                   *)
THEOREM TestLabelsAlwaysUnseen == GoldSpec => []TestLabelsUnseen
  <1>1. GoldInv => TestLabelsUnseen
    <2> SUFFICES ASSUME GoldInv,
                        NEW train \in Train(LoadGold), NEW test \in Test(LoadGold),
                        NEW s \in Bars(train), s \in test.label
                 PROVE  FALSE
      BY DEF TestLabelsUnseen
    <2>1. bookFront \in Int /\ SoundRows(gold, bookFront)
      BY FrontsAre DEF GoldInv, SoundTable
    <2>2. /\ train \in LoadGold /\ train.asOf + Short <= Cut(LoadGold)
          /\ test \in LoadGold /\ test.asOf >= Cut(LoadGold)
      BY DEF Train, Test
    <2>3. LoadGold \subseteq gold
      BY DEF LoadGold
    <2>4. Cut(LoadGold) \in Nat
      <3>1. IsFiniteSet(LoadGold)
        BY <2>1, <2>3, FS_Subset DEF SoundRows
      <3>2. \A row \in LoadGold : row.asOf \in Nat
        BY <2>1, <2>3 DEF SoundRows, GoldRowType
      <3> QED
        BY <2>2, <3>1, <3>2, CutExists
    <2>5. /\ train.asOf \in Nat /\ s \in Nat /\ s <= train.asOf + Short
          /\ test.asOf \in Nat /\ test.asOf < s
      BY <2>1, <2>2, <2>3, BarsWithin
    <2> QED
      BY <2>2, <2>4, <2>5, GoldAssumption
  <1> QED
    BY <1>1, GoldInvariance, PTL

-----------------------------------------------------------------------------
(* The promotion gate.  That only the first version may lack skill is not  *)
(* inductive: what is about to be registered must be known to have been    *)
(* let in by an empty registry that nobody else is about to fill.          *)

Promoting(t) == training[t].step = "promoting"

(* A model without skill is about to be registered only into an empty      *)
(* registry, as the only one, unless trainings raced.                      *)
UnskilledAlone ==
    \A t \in Trainer :
        Promoting(t) /\ ~ training[t].version.skilled /\ ~ raced =>
            /\ registry = <<>>
            /\ \A other \in Trainer : Promoting(other) => other = t

PromotionInv ==
    /\ PromotionTypeOK
    /\ OnlyFirstUnskilled
    /\ UnskilledAlone

LEMMA PromotionInitInv == PromotionInit => PromotionInv
<1> SUFFICES ASSUME PromotionInit PROVE PromotionInv
  OBVIOUS
<1>1. raced \in BOOLEAN
  BY Zenon DEF PromotionInit
<1>2. /\ usable = 0 /\ registry = <<>> /\ result = "none"
      /\ training = [t \in Trainer |-> Idle]
  BY DEF PromotionInit
<1> QED
  BY <1>1, <1>2, PromotionAssumption
     DEF PromotionInv, PromotionTypeOK, OnlyFirstUnskilled, UnskilledAlone, Promoting, Training,
         Results, Idle

-----------------------------------------------------------------------------
(* A training that is over, or has not come to the gate, is not promoting: *)
(* the invariant survives when only one training moves on to such a step.  *)
LEMMA StepsAside ==
    ASSUME PromotionInv, NEW t \in Trainer, NEW next \in Training, next.step # "promoting",
           training' = [training EXCEPT ![t] = next],
           UNCHANGED <<usable, registry, raced>>, result' \in Results
    PROVE  PromotionInv'
<1>1. PromotionTypeOK'
  BY DEF PromotionInv, PromotionTypeOK
<1>2. OnlyFirstUnskilled'
  BY DEF PromotionInv, OnlyFirstUnskilled
<1>3. \A s \in Trainer : Promoting(s)' => Promoting(s) /\ training'[s] = training[s]
  BY DEF PromotionInv, PromotionTypeOK, Promoting
<1>4. UnskilledAlone'
  BY <1>3 DEF PromotionInv, UnskilledAlone
<1> QED
  BY <1>1, <1>2, <1>4 DEF PromotionInv

(* The gate: a model without skill passes it only on an empty registry, and *)
(* whoever passes while another one is promoting makes it a race.          *)
LEMMA GateKeeps ==
    ASSUME PromotionInv, NEW t \in Trainer, NEW answered \in BOOLEAN, Gate(t, answered)
    PROVE  PromotionInv'
<1>1. PICK skilled \in BOOLEAN :
          LET promote == skilled \/ Bootstrap(answered)
          IN  /\ training' = [training EXCEPT ![t] =
                     [step |-> IF promote THEN "promoting" ELSE "rejecting",
                      version |-> [rows |-> training[t].rows, skilled |-> skilled]]]
              /\ raced' = (raced \/ (promote /\ \E other \in Trainer :
                                                    training[other].step = "promoting"))
  BY DEF Gate
<1> DEFINE version == [rows |-> training[t].rows, skilled |-> skilled]
           promote == skilled \/ Bootstrap(answered)
<1>2. /\ usable' = usable /\ registry' = registry /\ result' = result
      /\ training[t].step = "loaded"
  BY DEF Gate
<1>3. version \in Version
  BY <1>2 DEF PromotionInv, PromotionTypeOK, Training, Version
<1>4. raced' \in BOOLEAN
  BY <1>1, Zenon DEF PromotionInv, PromotionTypeOK
<1>5. /\ [step |-> "promoting", version |-> version] \in Training
      /\ [step |-> "rejecting", version |-> version] \in Training
  BY <1>3 DEF Training
<1>6. PromotionTypeOK'
  BY <1>1, <1>2, <1>4, <1>5 DEF PromotionInv, PromotionTypeOK
<1>7. raced => raced'
  BY <1>1
<1>8. OnlyFirstUnskilled'
  BY <1>2, <1>7 DEF PromotionInv, OnlyFirstUnskilled
<1>9. UnskilledAlone'
  <2> SUFFICES ASSUME NEW s \in Trainer, Promoting(s)', ~ training'[s].version.skilled, ~ raced'
               PROVE  registry = <<>> /\ \A other \in Trainer : Promoting(other)' => other = s
    BY <1>2 DEF UnskilledAlone
  <2>1. \A other \in Trainer : other # t => training'[other] = training[other]
    BY <1>1 DEF PromotionInv, PromotionTypeOK
  <2>2. CASE promote
    <3>1. \A other \in Trainer : ~ Promoting(other)
      BY <1>1, <2>2 DEF Promoting
    <3>2. s = t
      BY <2>1, <3>1 DEF Promoting
    <3>3. ~ skilled
      BY <1>1, <3>2 DEF PromotionInv, PromotionTypeOK
    <3>4. registry = <<>>
      BY <2>2, <3>3 DEF Bootstrap
    <3> QED
      BY <2>1, <3>1, <3>2, <3>4 DEF Promoting
  <2>3. CASE ~ promote
    <3>1. training'[t].step = "rejecting"
      BY <1>1, <2>3 DEF PromotionInv, PromotionTypeOK
    <3>2. s # t /\ Promoting(s) /\ ~ training[s].version.skilled /\ ~ raced
      BY <1>7, <2>1, <3>1 DEF Promoting
    <3> QED
      BY <2>1, <3>1, <3>2 DEF PromotionInv, UnskilledAlone, Promoting
  <2> QED
    BY <2>2, <2>3
<1> QED
  BY <1>6, <1>8, <1>9 DEF PromotionInv

(* The registration: a model without skill finds the registry empty, and   *)
(* nobody else is left promoting behind one that has it.                   *)
LEMMA RegisterKeeps ==
    ASSUME PromotionInv, NEW t \in Trainer, Register(t)
    PROVE  PromotionInv'
<1> DEFINE version == training[t].version
<1>1. /\ Promoting(t) /\ version \in Version
      /\ [training[t] EXCEPT !.step = "registered"] \in Training
      /\ [training[t] EXCEPT !.step = "registered"].step = "registered"
  BY DEF Register, Promoting, PromotionInv, PromotionTypeOK, Training
<1>2. /\ registry' = Append(registry, version)
      /\ training' = [training EXCEPT ![t] = [training[t] EXCEPT !.step = "registered"]]
      /\ usable' = usable /\ result' = result /\ raced' = raced
  BY DEF Register
<1>3. PromotionTypeOK'
  BY <1>1, <1>2 DEF PromotionInv, PromotionTypeOK
<1>4. OnlyFirstUnskilled'
  <2> SUFFICES ASSUME NEW i \in DOMAIN registry', i > 1, ~ registry'[i].skilled
               PROVE  raced
    BY <1>2 DEF OnlyFirstUnskilled
  <2>1. registry \in Seq(Version)
    BY DEF PromotionInv, PromotionTypeOK
  <2>2. CASE i \in DOMAIN registry
    BY <1>2, <2>1, <2>2 DEF PromotionInv, OnlyFirstUnskilled
  <2>3. CASE i = Len(registry) + 1
    <3>1. registry'[i] = version /\ registry # <<>>
      BY <1>1, <1>2, <2>1, <2>3
    <3> QED
      BY <1>1, <3>1 DEF PromotionInv, UnskilledAlone, PromotionTypeOK
  <2> QED
    BY <1>1, <1>2, <2>1, <2>2, <2>3
<1>5. UnskilledAlone'
  <2> SUFFICES ASSUME NEW s \in Trainer, Promoting(s)', ~ training'[s].version.skilled
               PROVE  raced
    BY <1>2 DEF UnskilledAlone
  <2>1. s # t /\ training'[s] = training[s]
    BY <1>1, <1>2 DEF Promoting, PromotionInv, PromotionTypeOK
  <2> QED
    BY <1>1, <2>1 DEF Promoting, PromotionInv, UnskilledAlone, PromotionTypeOK
<1> QED
  BY <1>3, <1>4, <1>5 DEF PromotionInv

LEMMA PromotionStepInv == PromotionInv /\ [PromotionNext]_promotionVars => PromotionInv'
<1> SUFFICES ASSUME PromotionInv, [PromotionNext]_promotionVars
             PROVE  PromotionInv'
  OBVIOUS
<1> USE PromotionAssumption
<1>1. CASE MoreRows
  BY <1>1 DEF MoreRows, PromotionInv, PromotionTypeOK, OnlyFirstUnskilled, UnskilledAlone, Promoting
<1>2. ASSUME NEW t \in Trainer, Load(t) PROVE PromotionInv'
  <2>1. [step |-> "loaded", rows |-> usable] \in Training
    BY <1>2 DEF Load, PromotionInv, PromotionTypeOK, Training
  <2> QED
    BY <1>2, <2>1, StepsAside DEF Load, PromotionInv, PromotionTypeOK
<1>3. ASSUME NEW t \in Trainer, TooFewRows(t) PROVE PromotionInv'
  BY <1>3 DEF TooFewRows, PromotionInv, PromotionTypeOK, OnlyFirstUnskilled, UnskilledAlone,
              Promoting, Results
<1>4. ASSUME NEW t \in Trainer, Register(t) PROVE PromotionInv'
  BY <1>4, RegisterKeeps
<1>5. ASSUME NEW t \in Trainer, Finish(t) \/ Fail(t) PROVE PromotionInv'
  <2>1. Idle \in Training /\ Idle.step # "promoting"
    BY DEF Idle, Training
  <2> QED
    BY <1>5, <2>1, StepsAside DEF Finish, Fail, PromotionInv, PromotionTypeOK, Results
<1>6. ASSUME NEW t \in Trainer, NEW answered \in BOOLEAN, Gate(t, answered) PROVE PromotionInv'
  BY <1>6, GateKeeps
<1>7. CASE UNCHANGED promotionVars
  BY <1>7 DEF promotionVars, PromotionInv, PromotionTypeOK, OnlyFirstUnskilled, UnskilledAlone,
              Promoting
<1> QED
  BY <1>1, <1>2, <1>3, <1>4, <1>5, <1>6, <1>7 DEF PromotionNext

(* The registry and the trainings keep their invariant, however trainings  *)
(* interleave.                                                             *)
THEOREM PromotionInvariance == PromotionSpec => []PromotionInv
<1> QED
  BY PromotionInitInv, PromotionStepInv, PTL DEF PromotionSpec

(* Every variable keeps its type; a training that has got past load_gold   *)
(* was given the rows it needs.                                            *)
THEOREM PromotionTypes == PromotionSpec => []PromotionTypeOK
<1>1. PromotionInv => PromotionTypeOK
  BY DEF PromotionInv
<1> QED
  BY <1>1, PromotionInvariance, PTL

(* However many trainings overlap, fail and are tried again, no version    *)
(* but the first lacks skill, unless two raced to register.                *)
THEOREM AlwaysOnlyFirstUnskilled == PromotionSpec => []OnlyFirstUnskilled
<1>1. PromotionInv => OnlyFirstUnskilled
  BY DEF PromotionInv
<1> QED
  BY <1>1, PromotionInvariance, PTL

=============================================================================
