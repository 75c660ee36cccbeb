------------------------------- MODULE TimeSplit -------------------------------
(***************************************************************************)
(* How a training splits gold (ml/data.py): the usable rows, sorted by     *)
(* time, are cut at one instant for all products, and the rows before it   *)
(* whose label reaches past it are left out of both sides.                 *)
(***************************************************************************)
EXTENDS GoldBuild

CONSTANT MinCoverage    \* MIN_BAR_COVERAGE: 290 bars

ASSUME MinCoverageAssumption == MinCoverage \in Nat \ {0}

(* A row without a return in its last five minutes is dropped, too.        *)
HasReturn(features) ==
    \/ Cardinality(features.recent) > 1
    \/ features.recent # {} /\ features.base # Never

LoadGold ==
    {row \in gold : /\ Cardinality(row.features.recent) >= MinCoverage
                    /\ Cardinality(row.label) >= MinCoverage
                    /\ HasReturn(row.features)}

(* time_split: four fifths of the minutes lie before the cut.              *)
Cut(rows) ==
    LET minutes == {row.asOf : row \in rows}
    IN  CHOOSE t \in minutes :
            Cardinality({u \in minutes : u < t}) = (Cardinality(minutes) * 4) \div 5

(* The variant keeps the rows whose label crosses the cut.                 *)
TrainUnpurged(rows) == {row \in rows : row.asOf < Cut(rows)}

Train(rows) == {row \in rows : row.asOf + Short <= Cut(rows)}
Test(rows) == {row \in rows : row.asOf >= Cut(rows)}

-----------------------------------------------------------------------------
Bars(row) ==
    row.features.book \union row.features.recent \union row.features.trades \union row.label

(* No training learns what it is tested on: whatever gold holds when it    *)
(* loads it, duplicates and rows of lagging products among them, no second *)
(* of a test row's label is in any window of a train row.                  *)
TestLabelsUnseen ==
    \A train \in Train(LoadGold), test \in Test(LoadGold) : Bars(train) \intersect test.label = {}

=============================================================================
