------------------------------ MODULE BarWindows ------------------------------
(***************************************************************************)
(* The windows of the bars job (flink/bars_job.py): the records of a       *)
(* topic's partitions are grouped into bars of one second per product; a   *)
(* watermark, the least of the partitions' that are not idle, says which   *)
(* seconds are complete; their bars go to the bar topic and to Iceberg.    *)
(* The trades and the book are two instances of it.                        *)
(*                                                                         *)
(* Flink is external: it reads the partitions in any order, emits a        *)
(* watermark now and then, finding any of them idle, drops the records of  *)
(* seconds already complete, and fires windows in the order of their       *)
(* seconds.  A checkpoint holds the offsets, the open windows and the      *)
(* watermark; what was written to Iceberg since is undone by a restart,    *)
(* the bar topic keeps it.  The trackers of the partitions start anew.     *)
(***************************************************************************)
EXTENDS Integers, Sequences, FiniteSets, FiniteSetsExt, SequencesExt

CONSTANTS
    Partition,      \* the partitions of the topic
    Log,            \* bound: their records, [product, time, stamp]; stamp is
                    \* the time the watermark goes by
    OutOfOrder,     \* how late a record may be: 30 seconds
    MaxRestarts     \* bound: how often the job is restarted

ASSUME WindowsAssumption ==
    /\ IsFiniteSet(Partition)
    /\ \A p \in Partition :
           /\ Len(Log[p]) \in Nat
           /\ DOMAIN Log[p] = 1..Len(Log[p])
           /\ \A i \in DOMAIN Log[p] : Log[p][i].time \in Nat /\ Log[p][i].stamp \in Nat
    /\ OutOfOrder \in Nat
    /\ MaxRestarts \in Nat

VARIABLES
    pos,        \* how many records of each partition have been read
    marks,      \* the latest stamp of each partition, since the job (re)started
    watermark,  \* the windows' watermark
    open,       \* the records in windows that have not fired
    dropped,    \* the records that came too late
    written,    \* the bars written to Iceberg, up to the job's position
    topic,      \* the bar topic
    saved,      \* the last checkpoint
    restarts,
    leftOut     \* history: the partitions the watermark has passed while idle

jobVars == <<pos, open, watermark, written, dropped>>
windowVars == <<jobVars, marks, topic, saved, restarts, leftOut>>

(* No watermark yet.                                                       *)
Start == -1 - OutOfOrder

(* A record is its partition and its position there.                       *)
Record == UNION {{p} \X DOMAIN Log[p] : p \in Partition}
At(record) == Log[record[1]][record[2]]
Product == {At(r).product : r \in Record}
Time == {At(r).time : r \in Record}

(* A bar: its second and the records it is the aggregate of.               *)
Bar == [product: Product, second: Time, of: SUBSET Record]

Job == [pos |-> pos, open |-> open, watermark |-> watermark, written |-> written, dropped |-> dropped]

Become(job) ==
    /\ pos' = job.pos
    /\ open' = job.open
    /\ watermark' = job.watermark
    /\ written' = job.written
    /\ dropped' = job.dropped

NewJob ==
    [pos |-> [p \in Partition |-> 0], open |-> {}, watermark |-> Start, written |-> {},
     dropped |-> {}]

WindowsTypeOK ==
    /\ pos \in [Partition -> Nat] /\ \A p \in Partition : pos[p] <= Len(Log[p])
    /\ marks \in [Partition -> Int]
    /\ watermark \in Int /\ watermark >= saved.watermark
    /\ open \subseteq Record
    /\ dropped \subseteq Record
    /\ written \subseteq Bar
    /\ topic \in Seq(Bar)
    /\ restarts \in 0..MaxRestarts
    /\ leftOut \subseteq Partition

WindowsInit ==
    /\ pos = NewJob.pos
    /\ open = NewJob.open
    /\ watermark = NewJob.watermark
    /\ written = NewJob.written
    /\ dropped = NewJob.dropped
    /\ marks = [p \in Partition |-> -1]
    /\ topic = <<>>
    /\ saved = NewJob
    /\ restarts = 0
    /\ leftOut = {}

-----------------------------------------------------------------------------
(* A second is complete, and its records are late, once the watermark has  *)
(* passed it; the variant takes late records all the same.                 *)
NeverLate(record) == FALSE

Complete(second, mark) == second <= mark

Late(record) == Complete(At(record).time, watermark)

(* The next record of a partition goes to its window.                      *)
Read(p) ==
    LET record == <<p, pos[p] + 1>>
    IN  /\ pos[p] < Len(Log[p])
        /\ pos' = [pos EXCEPT ![p] = @ + 1]
        /\ marks' = [marks EXCEPT ![p] = Max({@, At(record).stamp})]
        /\ IF Late(record) THEN dropped' = dropped \union {record} /\ UNCHANGED open
           ELSE open' = open \union {record} /\ UNCHANGED dropped
        /\ UNCHANGED <<watermark, written, topic, saved, restarts, leftOut>>

(* The watermark: the least of the partitions that are not idle, and never *)
(* going back.  One variant has one tracker for all partitions, another    *)
(* one knows no idleness.                                                  *)
FurthestMark(idle) == Max({watermark} \union {marks[p] - OutOfOrder : p \in Partition \ idle})

MarkOfAll(idle) == Max({watermark, Min({marks[p] - OutOfOrder : p \in Partition})})

Mark(idle) ==
    IF idle = Partition THEN watermark
    ELSE Max({watermark, Min({marks[p] - OutOfOrder : p \in Partition \ idle})})

(* The bars of the windows that fire.                                      *)
Fired(mark) ==
    LET ready == {r \in open : Complete(At(r).time, mark)}
        Of(product, second) == {r \in ready : At(r).product = product /\ At(r).time = second}
    IN  {[product |-> At(r).product, second |-> At(r).time, of |-> Of(At(r).product, At(r).time)] :
             r \in ready}

(* They fire in the order of their seconds, those of one second in any;    *)
(* the variant takes the latest second first.                              *)
LatestFirst(bars) == \A i, j \in DOMAIN bars : i < j => bars[i].second >= bars[j].second

InOrder(bars) == \A i, j \in DOMAIN bars : i < j => bars[i].second <= bars[j].second

(* What is appended to the topic; the variant skips the seconds that are   *)
(* there already.                                                          *)
PublishNew(bars) ==
    LET New(bar) == \A old \in Range(topic) :
                        <<old.product, old.second>> # <<bar.product, bar.second>>
    IN  topic \o SelectSeq(bars, New)

Published(bars) == topic \o bars

(* A watermark is emitted, and windows fire.                               *)
EmitWatermark(idle) ==
    LET bars == Fired(Mark(idle))
    IN  /\ Mark(idle) > watermark
        /\ watermark' = Mark(idle)
        /\ open' = open \ UNION {bar.of : bar \in bars}
        /\ written' = written \union bars
        /\ \E order \in SetToSeqs(bars) : InOrder(order) /\ topic' = Published(order)
        /\ leftOut' = leftOut \union {p \in idle : marks[p] - OutOfOrder < Mark(idle)}
        /\ UNCHANGED <<pos, marks, dropped, saved, restarts>>

FindIdle == \E idle \in SUBSET Partition : EmitWatermark(idle)

(* A checkpoint completes: the job's state is saved, and Iceberg commits.  *)
(* One that nothing restarts from any more is left out.                    *)
Saved == Job

Checkpoint ==
    /\ restarts < MaxRestarts
    /\ saved' = Saved
    /\ UNCHANGED <<jobVars, marks, topic, restarts, leftOut>>

(* The job goes on from its last checkpoint; the variant is submitted anew. *)
RestartFromEarliest ==
    /\ restarts < MaxRestarts
    /\ restarts' = restarts + 1
    /\ Become(NewJob)
    /\ marks' = [p \in Partition |-> -1]
    /\ UNCHANGED <<topic, saved, leftOut>>

Restart ==
    /\ restarts < MaxRestarts
    /\ restarts' = restarts + 1
    /\ Become(saved)
    /\ marks' = [p \in Partition |-> -1]
    /\ UNCHANGED <<topic, saved, leftOut>>

WindowsNext ==
    \/ \E p \in Partition : Read(p)
    \/ FindIdle
    \/ Checkpoint
    \/ Restart

WindowsSpec == WindowsInit /\ [][WindowsNext]_windowVars

(* The job reads what there is, and from time to time finds idle only the  *)
(* partitions that have given it nothing since it (re)started.             *)
Silent == {p \in Partition : marks[p] = -1}

WindowsFairness ==
    /\ \A p \in Partition : WF_windowVars(Read(p))
    /\ WF_windowVars(EmitWatermark(Silent))

FairWindows == WindowsSpec /\ WindowsFairness

-----------------------------------------------------------------------------
(* The docstring: "without duplicates".  Every record read is in one bar,  *)
(* waits in one window, or came too late, and Iceberg has one bar of a     *)
(* product and a second, through any restart.                              *)
EachRecordOnce ==
    LET Holding(r) == {bar \in written : r \in bar.of}
        Places(r) == Cardinality(Holding(r)) + Cardinality({r} \intersect open)
                        + Cardinality({r} \intersect dropped)
    IN  /\ \A r \in Record : Places(r) = IF r[2] <= pos[r[1]] THEN 1 ELSE 0
        /\ \A a, b \in written : a.product = b.product /\ a.second = b.second => a = b

(* The comment on per-partition watermarks: with one for all, the other    *)
(* product's windows "all get dropped as late".  A record is dropped only  *)
(* if its own partition was found idle, or it is more than OutOfOrder      *)
(* behind a record of its own partition; how far the other partitions have *)
(* been read does not matter.                                              *)
DropsOnlyWhenIdle ==
    \A r \in dropped :
        \/ r[1] \in leftOut
        \/ \E j \in 1..(r[2] - 1) : Log[r[1]][j].stamp >= At(r).time + OutOfOrder

(* What a consumer of the topic ends up with: of each product and second   *)
(* the last bar.                                                           *)
LastBars ==
    {topic[i] : i \in {k \in DOMAIN topic :
        \A j \in (k + 1)..Len(topic) :
            <<topic[j].product, topic[j].second>> # <<topic[k].product, topic[k].second>>}}

(* The comment on the Kafka sink: "Iceberg and Kafka receive identical     *)
(* rows".  They do but for what a restart undid and late records took      *)
(* away: every bar of the table is the last one of its second in the       *)
(* topic; a bar that is last in the topic but not in the table is one none *)
(* of whose records is in the table, for each is yet to be read again,     *)
(* waits in a window, or came too late this time.  Without a restart there *)
(* is no such bar.                                                         *)
SinksDifferByLateOnly ==
    /\ written \subseteq LastBars
    /\ \A bar \in LastBars \ written : \A r \in bar.of :
           r[2] > pos[r[1]] \/ r \in open \/ r \in dropped
    /\ restarts = 0 => LastBars = written

(* The bar topic is a BarStream: what the online features rely on.         *)
Keys(bars) == [i \in DOMAIN bars |-> [product |-> bars[i].product, second |-> bars[i].second]]

Stream == INSTANCE BarStream WITH
        topic <- Keys(topic),
        front <- Max({bar.second : bar \in written} \union {-1})

PublishesInOrder == Stream!StreamSpec

(* The comment on scan.watermark.idle-timeout: an empty partition must not *)
(* hold "the event-time clock at -inf forever".  If every partition that   *)
(* has records keeps delivering them, every second OutOfOrder before their *)
(* ends gets its bars.                                                     *)
Ends == {Log[p][Len(Log[p])].stamp : p \in {q \in Partition : Log[q] # <<>>}}

BarsFire ==
    <>[](\A p \in Partition : Log[p] # <<>> => p \notin Silent)
        => <>[](\A r \in Record : Complete(At(r).time, Min(Ends) - OutOfOrder)
                                      => r \notin open /\ r[2] <= pos[r[1]])

=============================================================================
