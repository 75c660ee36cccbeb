--------------------------- MODULE BarWindowsProofs ---------------------------
(***************************************************************************)
(* Theorems about the windows of the bars job, for any partitions, any     *)
(* records, idleness, checkpoints and restarts: the types, that each       *)
(* record is in one place, when one may be dropped, how the bar topic and  *)
(* the table may differ, and that the topic is a BarStream.                *)
(*                                                                         *)
(* What holds of the job must also hold of its checkpoint, which a restart *)
(* makes the job: hence the operators about a job, Sound and Justified.    *)
(* And a bar that fires is new because the watermark is between the        *)
(* seconds that have fired and those of the records that wait.             *)
(***************************************************************************)
EXTENDS BarWindows, Extremes

(* Sound: the records a job has read are those in a bar, in a window or    *)
(* dropped, each in one of these; the watermark has passed its bars and    *)
(* none of the records that wait.                                          *)
JobTypes(job) ==
    /\ job.pos \in [Partition -> Nat] /\ \A p \in Partition : job.pos[p] <= Len(Log[p])
    /\ job.open \subseteq Record
    /\ job.dropped \subseteq Record
    /\ job.written \subseteq Bar
    /\ job.watermark \in Int /\ job.watermark >= Start

InBar(job, r) == \E bar \in job.written : r \in bar.of

ReadIsHeld(job) ==
    \A r \in Record :
        r[2] <= job.pos[r[1]] <=> r \in job.open \/ r \in job.dropped \/ InBar(job, r)

HeldOnce(job) ==
    /\ \A r \in job.open : r \notin job.dropped /\ job.watermark < At(r).time
    /\ \A bar \in job.written :
           /\ bar.second <= job.watermark
           /\ \A r \in bar.of :
                  r \notin job.dropped /\ At(r).product = bar.product /\ At(r).time = bar.second
    /\ \A a, b \in job.written : a.product = b.product /\ a.second = b.second => a = b

Sound(job) ==
    /\ JobTypes(job)
    /\ ReadIsHeld(job)
    /\ HeldOnce(job)

(* Justified: a partition the watermark has not left out has a record far  *)
(* enough ahead of it, and what was dropped came too late.                 *)
Reached(job, p) ==
    job.watermark = Start \/ \E j \in 1..job.pos[p] : Log[p][j].stamp >= job.watermark + OutOfOrder

Excused(r) ==
    r[1] \in leftOut \/ \E j \in 1..(r[2] - 1) : Log[r[1]][j].stamp >= At(r).time + OutOfOrder

Justified(job) ==
    /\ \A p \in Partition \ leftOut : Reached(job, p)
    /\ \A r \in job.dropped : Excused(r)

MarksRead ==
    \A p \in Partition : marks[p] = -1 \/ \E j \in 1..pos[p] : marks[p] = Log[p][j].stamp

(* Each bar of the table is the last one in the topic.                     *)
TableIsLast ==
    \A bar \in written :
        \E i \in DOMAIN topic :
            /\ topic[i] = bar
            /\ \A j \in (i + 1)..Len(topic) :
                   <<topic[j].product, topic[j].second>> # <<bar.product, bar.second>>

(* A bar in the topic is of records of its product and second; until a     *)
(* restart the table has it, too.                                          *)
TopicBarAt(bar) ==
    /\ \A r \in bar.of : At(r).product = bar.product /\ At(r).time = bar.second
    /\ restarts = 0 => bar \in written

TopicBars == \A i \in DOMAIN topic : TopicBarAt(topic[i])

WindowsInv ==
    /\ WindowsTypeOK
    /\ Sound(Job) /\ Sound(saved)
    /\ Justified(Job) /\ Justified(saved)
    /\ saved.written \subseteq written
    /\ MarksRead
    /\ TableIsLast
    /\ TopicBars

-----------------------------------------------------------------------------
(* Partitions, records, and the marks of the partitions.                   *)
LEMMA RecordIs ==
    /\ \A r \in Record :
           /\ r[1] \in Partition /\ r[2] \in 1..Len(Log[r[1]]) /\ r[2] \in Nat
           /\ r = <<r[1], r[2]>>
           /\ At(r).time \in Nat /\ At(r).stamp \in Nat
    /\ \A p \in Partition : \A i \in 1..Len(Log[p]) : <<p, i>> \in Record
<1>1. \A p \in Partition :
          /\ Len(Log[p]) \in Nat /\ DOMAIN Log[p] = 1..Len(Log[p])
          /\ \A i \in 1..Len(Log[p]) : Log[p][i].time \in Nat /\ Log[p][i].stamp \in Nat
  BY WindowsAssumption
<1>2. ASSUME NEW r \in Record
      PROVE  /\ r[1] \in Partition /\ r[2] \in 1..Len(Log[r[1]]) /\ r[2] \in Nat
             /\ r = <<r[1], r[2]>>
  <2>1. PICK p \in Partition : r \in {p} \X DOMAIN Log[p]
    BY DEF Record
  <2> QED
    BY <1>1, <2>1
<1>3. ASSUME NEW p \in Partition, NEW i \in 1..Len(Log[p]) PROVE <<p, i>> \in Record
  BY <1>1 DEF Record
<1> QED
  BY <1>1, <1>2, <1>3 DEF At

LEMMA RecordFinite == IsFiniteSet(Record)
<1> DEFINE f == [p \in Partition |-> {p} \X DOMAIN Log[p]]
           parts == {{p} \X DOMAIN Log[p] : p \in Partition}
<1>1. f \in Surjection(Partition, parts)
  BY DEF Surjection
<1>2. IsFiniteSet(parts)
  BY <1>1, FS_Surjection, WindowsAssumption
<1>3. ASSUME NEW S \in parts PROVE IsFiniteSet(S)
  <2>1. PICK p \in Partition : S = {p} \X DOMAIN Log[p]
    OBVIOUS
  <2>2. PICK one, places : one = {p} /\ places = DOMAIN Log[p]
    OBVIOUS
  <2>3. IsFiniteSet(one)
    BY <2>2, FS_Singleton
  <2>4. IsFiniteSet(places)
    <3>1. PICK n \in Nat : DOMAIN Log[p] = 1..n
      BY WindowsAssumption
    <3> QED
      BY <2>2, <3>1, FS_Interval
  <2>5. IsFiniteSet(one \X places)
    BY <2>3, <2>4, FS_Product
  <2> QED
    BY <2>1, <2>2, <2>5
<1>4. Record = UNION parts
  BY DEF Record
<1> HIDE DEF parts
<1>5. IsFiniteSet(UNION parts)
  BY <1>2, <1>3, FS_UNION
<1> QED
  BY <1>4, <1>5

LEMMA StartIs == Start \in Int /\ Start <= -1 /\ OutOfOrder \in Nat
  BY WindowsAssumption DEF Start

(* What is in a job.                                                       *)
LEMMA JobIs ==
    /\ Job.pos = pos /\ Job.open = open /\ Job.watermark = watermark
    /\ Job.written = written /\ Job.dropped = dropped
  BY DEF Job

(* The watermark that is emitted is not ahead of a partition that counts.  *)
LEMMA MarkIs ==
    ASSUME WindowsTypeOK, NEW idle \in SUBSET Partition, Mark(idle) > watermark
    PROVE  /\ Mark(idle) \in Int
           /\ \A p \in Partition \ idle : Mark(idle) <= marks[p] - OutOfOrder
<1> DEFINE awake == Partition \ idle
           f == [p \in awake |-> marks[p] - OutOfOrder]
           ahead == {marks[p] - OutOfOrder : p \in awake}
<1>1. watermark \in Int /\ \A p \in awake : marks[p] - OutOfOrder \in Int
  BY StartIs DEF WindowsTypeOK
<1>2. idle # Partition /\ Mark(idle) = Max({watermark, Min(ahead)})
  BY <1>1 DEF Mark
<1>3. f \in Surjection(awake, ahead)
  BY DEF Surjection
<1>4. IsFiniteSet(ahead)
  <2>1. IsFiniteSet(awake)
    BY WindowsAssumption, FS_Difference
  <2> QED
    BY <1>3, <2>1, FS_Surjection
<1>5. ahead \in SUBSET Int /\ ahead # {}
  <2>1. PICK p \in awake : TRUE
    BY <1>2
  <2>2. marks[p] - OutOfOrder \in ahead
    OBVIOUS
  <2> QED
    BY <1>1, <2>2
<1>6. Min(ahead) \in Int /\ \A x \in ahead : Min(ahead) <= x
  <2> HIDE DEF ahead
  <2> QED
    BY <1>4, <1>5, FiniteMinProperty
<1>7. PICK least \in Int : least = Min(ahead)
  BY <1>6
<1>8. Max({watermark, least}) \in {watermark, least} /\ Max({watermark, least}) \in Int
  BY <1>1, MaxOfTwo
<1>9. Mark(idle) = least
  BY <1>1, <1>2, <1>7, <1>8
<1> QED
  BY <1>6, <1>7, <1>9

(* The bars that fire: those of the records that wait and are complete.    *)
LEMMA FiredAre ==
    ASSUME WindowsInv, NEW mark \in Int, NEW bars, bars = Fired(mark)
    PROVE  /\ \A bar \in bars :
                  /\ bar \in Bar /\ bar.second \in Nat
                  /\ watermark < bar.second /\ bar.second <= mark
                  /\ \A r \in bar.of :
                         r \in open /\ At(r).product = bar.product /\ At(r).time = bar.second
           /\ \A a, b \in bars : a.product = b.product /\ a.second = b.second => a = b
           /\ \A r \in open : At(r).time <= mark <=> \E bar \in bars : r \in bar.of
           /\ IsFiniteSet(bars)
<1> DEFINE ready == {r \in open : At(r).time <= mark}
           Of(product, second) == {r \in ready : At(r).product = product /\ At(r).time = second}
           BarOf(r) == [product |-> At(r).product, second |-> At(r).time,
                        of |-> Of(At(r).product, At(r).time)]
           f == [r \in ready |-> BarOf(r)]
<1>1. bars = {BarOf(r) : r \in ready}
  BY DEF Fired, Complete
<1>2. open \subseteq Record /\ \A r \in open : watermark < At(r).time /\ At(r).time \in Nat
  BY RecordIs, JobIs DEF WindowsInv, WindowsTypeOK, Sound, HeldOnce
<1>3. ASSUME NEW bar \in bars
      PROVE  /\ bar \in Bar /\ bar.second \in Nat
             /\ watermark < bar.second /\ bar.second <= mark
             /\ bar.of = Of(bar.product, bar.second)
  <2>1. PICK r \in ready : bar = BarOf(r)
    BY <1>1
  <2>2. r \in Record /\ At(r).product \in Product /\ At(r).time \in Time
    BY <1>2 DEF Product, Time
  <2>3. bar.of \in SUBSET Record
    BY <1>2, <2>1
  <2> QED
    BY <1>2, <2>1, <2>2, <2>3 DEF Bar
<1>4. \A a, b \in bars : a.product = b.product /\ a.second = b.second => a = b
  <2> SUFFICES ASSUME NEW a \in bars, NEW b \in bars, a.product = b.product, a.second = b.second
               PROVE  a = b
    OBVIOUS
  <2>1. PICK r \in ready, s \in ready : a = BarOf(r) /\ b = BarOf(s)
    BY <1>1
  <2>2. At(r).product = At(s).product /\ At(r).time = At(s).time
    BY <2>1
  <2> QED
    BY <2>1, <2>2
<1>5. \A r \in open : At(r).time <= mark => r \in BarOf(r).of /\ BarOf(r) \in bars
  BY <1>1
<1>6. IsFiniteSet(bars)
  <2>1. IsFiniteSet(ready)
    BY <1>2, RecordFinite, FS_Subset
  <2>2. f \in Surjection(ready, bars)
    BY <1>1 DEF Surjection
  <2> HIDE DEF ready, f
  <2> QED
    BY <2>1, <2>2, FS_Surjection
<1>7. \A r \in open : (\E bar \in bars : r \in bar.of) => At(r).time <= mark
  BY <1>3
<1>8. \A r \in open : At(r).time <= mark => \E bar \in bars : r \in bar.of
  BY <1>5
<1>9. \A bar \in bars : \A r \in bar.of :
          r \in open /\ At(r).product = bar.product /\ At(r).time = bar.second
  BY <1>3
<1> QED
  BY <1>3, <1>4, <1>6, <1>7, <1>8, <1>9

(* What the invariant says of the job.                                     *)
LEMMA JobSound ==
    WindowsInv =>
        /\ pos \in [Partition -> Nat] /\ \A p \in Partition : pos[p] <= Len(Log[p])
        /\ open \subseteq Record /\ dropped \subseteq Record /\ written \subseteq Bar
        /\ watermark \in Int /\ watermark >= Start
        /\ \A r \in Record :
               r[2] <= pos[r[1]] <=> r \in open \/ r \in dropped \/ \E bar \in written : r \in bar.of
        /\ HeldOnce(Job)
  BY JobIs DEF WindowsInv, Sound, JobTypes, ReadIsHeld, InBar

LEMMA WindowsInitInv == WindowsInit => WindowsInv
<1> SUFFICES ASSUME WindowsInit PROVE WindowsInv
  OBVIOUS
<1>1. /\ pos = [p \in Partition |-> 0] /\ open = {} /\ watermark = Start
      /\ written = {} /\ dropped = {} /\ marks = [p \in Partition |-> -1]
      /\ topic = <<>> /\ saved = NewJob /\ restarts = 0 /\ leftOut = {}
  BY DEF WindowsInit, NewJob
<1>2. Job = NewJob
  BY <1>1 DEF Job, NewJob
<1>3. Sound(NewJob)
  <2>1. JobTypes(NewJob)
    BY StartIs, WindowsAssumption DEF NewJob, JobTypes
  <2>2. ReadIsHeld(NewJob)
    BY RecordIs DEF NewJob, ReadIsHeld, InBar
  <2>3. HeldOnce(NewJob)
    BY DEF NewJob, HeldOnce
  <2> QED
    BY <2>1, <2>2, <2>3 DEF Sound
<1>4. Justified(NewJob)
  BY DEF Justified, Reached, NewJob
<1>5. WindowsTypeOK
  BY <1>1, StartIs, WindowsAssumption DEF WindowsTypeOK, NewJob
<1>6. saved.written \subseteq written /\ MarksRead /\ TableIsLast /\ TopicBars
  BY <1>1 DEF NewJob, MarksRead, TableIsLast, TopicBars
<1> QED
  BY <1>1, <1>2, <1>3, <1>4, <1>5, <1>6 DEF WindowsInv

-----------------------------------------------------------------------------
(* A record is read: nothing held it before, and now its window does, or   *)
(* it is dropped.                                                          *)
LEMMA ReadKeeps == ASSUME WindowsInv, NEW p \in Partition, Read(p) PROVE WindowsInv'
<1>1. PICK r : r = <<p, pos[p] + 1>>
  OBVIOUS
<1>2. /\ pos[p] < Len(Log[p]) /\ pos' = [pos EXCEPT ![p] = @ + 1]
      /\ marks' = [marks EXCEPT ![p] = Max({@, At(r).stamp})]
      /\ \/ At(r).time <= watermark /\ dropped' = dropped \union {r} /\ UNCHANGED open
         \/ ~ (At(r).time <= watermark) /\ open' = open \union {r} /\ UNCHANGED dropped
      /\ UNCHANGED <<watermark, written, topic, saved, restarts, leftOut>>
  BY <1>1 DEF Read, Late, Complete
<1>3. /\ pos \in [Partition -> Nat] /\ \A q \in Partition : pos[q] <= Len(Log[q])
      /\ Len(Log[p]) \in Nat
      /\ marks \in [Partition -> Int]
  BY WindowsAssumption DEF WindowsInv, WindowsTypeOK
<1>4. /\ r \in Record /\ r[1] = p /\ r[2] = pos[p] + 1 /\ At(r) = Log[p][pos[p] + 1]
      /\ At(r).time \in Nat /\ At(r).stamp \in Nat
  <2>1. pos[p] + 1 \in 1..Len(Log[p])
    BY <1>2, <1>3
  <2>2. r \in Record
    BY <1>1, <2>1, RecordIs
  <2> QED
    BY <1>1, <2>2, RecordIs DEF At
<1>5. /\ pos' \in [Partition -> Nat] /\ pos'[p] = pos[p] + 1
      /\ \A q \in Partition : q # p => pos'[q] = pos[q]
      /\ \A q \in Partition : pos[q] <= pos'[q] /\ pos'[q] <= Len(Log[q])
  BY <1>2, <1>3
<1>6. \A x \in Record : x[2] <= pos'[x[1]] <=> x[2] <= pos[x[1]] \/ x = r
  <2> SUFFICES ASSUME NEW x \in Record
               PROVE  x[2] <= pos'[x[1]] <=> x[2] <= pos[x[1]] \/ x = r
    OBVIOUS
  <2>1. x[1] \in Partition /\ x[2] \in Nat /\ x = <<x[1], x[2]>>
    BY RecordIs
  <2>2. CASE x[1] # p
    BY <1>4, <1>5, <2>1, <2>2
  <2>3. CASE x[1] = p
    BY <1>1, <1>3, <1>4, <1>5, <2>1, <2>3
  <2> QED
    BY <2>2, <2>3
<1>7. r \notin open /\ r \notin dropped /\ \A bar \in written : r \notin bar.of
  <2>1. ~ (r[2] <= pos[r[1]])
    BY <1>3, <1>4
  <2> QED
    BY <1>4, <2>1, JobSound
<1>8. Sound(Job)'
  <2>1. JobTypes(Job)'
    BY <1>2, <1>4, <1>5, JobSound DEF JobTypes, Job
  <2>2. ReadIsHeld(Job)'
    BY <1>2, <1>6, JobSound DEF ReadIsHeld, InBar, Job
  <2>3. HeldOnce(Job)'
    <3>1. HeldOnce(Job) /\ watermark \in Int
      BY JobSound
    <3>2. CASE At(r).time <= watermark /\ dropped' = dropped \union {r} /\ UNCHANGED open
      BY <1>2, <1>7, <3>1, <3>2 DEF HeldOnce, Job
    <3>3. CASE ~ (At(r).time <= watermark) /\ open' = open \union {r} /\ UNCHANGED dropped
      BY <1>2, <1>4, <1>7, <3>1, <3>3 DEF HeldOnce, Job
    <3> QED
      BY <1>2, <3>2, <3>3
  <2> QED
    BY <2>1, <2>2, <2>3 DEF Sound
<1>9. Justified(Job)'
  <2>1. ASSUME NEW q \in Partition, Reached(Job, q) PROVE Reached(Job, q)'
    BY <1>2, <1>3, <1>5, <2>1 DEF Reached, Job
  <2>2. At(r).time <= watermark => Excused(r)
    <3> SUFFICES ASSUME At(r).time <= watermark, p \notin leftOut
                 PROVE  \E j \in 1..(r[2] - 1) : Log[p][j].stamp >= At(r).time + OutOfOrder
      BY <1>4 DEF Excused
    <3>1. Reached(Job, p) /\ watermark \in Int
      BY JobSound DEF WindowsInv, Justified
    <3>2. watermark # Start
      BY <1>4, StartIs
    <3>3. PICK j \in 1..pos[p] : Log[p][j].stamp >= watermark + OutOfOrder
      BY <3>1, <3>2 DEF Reached, Job
    <3>4. Log[p][j].stamp \in Nat
      BY <1>3, WindowsAssumption
    <3>5. Log[p][j].stamp >= At(r).time + OutOfOrder
      BY <1>4, <3>1, <3>3, <3>4, StartIs
    <3> QED
      BY <1>3, <1>4, <3>3, <3>5
  <2>3. \A x \in dropped' : Excused(x)
    BY <1>2, <2>2, JobIs DEF WindowsInv, Justified
  <2> QED
    BY <1>2, <2>1, <2>3 DEF WindowsInv, Justified, Job, Excused
<1>10. Sound(saved)' /\ Justified(saved)' /\ (saved.written \subseteq written)'
  BY <1>2 DEF WindowsInv, Sound, JobTypes, ReadIsHeld, HeldOnce, InBar, Justified, Reached, Excused
<1>11. Max({marks[p], At(r).stamp}) \in {marks[p], At(r).stamp} /\ Max({marks[p], At(r).stamp}) \in Int
  <2>1. PICK a \in Int, b \in Int : a = marks[p] /\ b = At(r).stamp
    BY <1>3, <1>4
  <2>2. Max({a, b}) \in {a, b} /\ Max({a, b}) \in Int
    BY MaxOfTwo
  <2> QED
    BY <2>1, <2>2
<1>12. MarksRead'
  <2> SUFFICES ASSUME NEW q \in Partition
               PROVE  marks'[q] = -1 \/ \E j \in 1..pos'[q] : marks'[q] = Log[q][j].stamp
    BY DEF MarksRead
  <2>1. marks[q] = -1 \/ \E j \in 1..pos[q] : marks[q] = Log[q][j].stamp
    BY DEF WindowsInv, MarksRead
  <2>2. \/ marks'[q] = marks[q]
        \/ q = p /\ marks'[q] = Log[p][pos[p] + 1].stamp
    BY <1>2, <1>3, <1>4, <1>11
  <2>3. pos[p] + 1 \in 1..pos'[p]
    BY <1>3, <1>5
  <2>4. 1..pos[q] \subseteq 1..pos'[q]
    BY <1>3, <1>5
  <2> QED
    BY <2>1, <2>2, <2>3, <2>4
<1>13. TableIsLast' /\ TopicBars'
  BY <1>2 DEF WindowsInv, TableIsLast, TopicBars, TopicBarAt
<1>14. WindowsTypeOK'
  <2>1. marks' \in [Partition -> Int]
    BY <1>2, <1>3, <1>11
  <2>2. open' \subseteq Record /\ dropped' \subseteq Record
    BY <1>2, <1>4, JobSound
  <2> QED
    BY <1>2, <1>5, <2>1, <2>2 DEF WindowsInv, WindowsTypeOK
<1> QED
  BY <1>8, <1>9, <1>10, <1>12, <1>13, <1>14 DEF WindowsInv

-----------------------------------------------------------------------------
(* Windows fire.  What is appended to the topic: each of the bars once, in *)
(* the order of their seconds.                                             *)
LEMMA Appends ==
    ASSUME WindowsInv, NEW idle \in SUBSET Partition, EmitWatermark(idle),
           NEW bars, bars = Fired(Mark(idle)),
           NEW old, old = Len(topic), NEW new, new = Len(topic')
    PROVE  /\ old \in Nat /\ new \in Nat /\ old <= new
           /\ DOMAIN topic = 1..old /\ DOMAIN topic' = 1..new /\ topic' \in Seq(Bar)
           /\ \A i \in 1..old : topic'[i] = topic[i]
           /\ \A i \in (old + 1)..new : topic'[i] \in bars
           /\ \A bar \in bars : \E i \in (old + 1)..new : topic'[i] = bar
           /\ \A i, j \in (old + 1)..new :
                  i < j => topic'[i].second <= topic'[j].second /\ topic'[i] # topic'[j]
<1>1. PICK order \in SetToSeqs(bars) : InOrder(order) /\ topic' = topic \o order
  BY DEF EmitWatermark, Published
<1>2. Mark(idle) \in Int
  BY MarkIs DEF EmitWatermark, WindowsInv
<1>3. IsFiniteSet(bars) /\ bars \subseteq Bar
  BY <1>2, FiredAre
<1>4. PICK n \in Nat : n = Cardinality(bars)
  BY <1>3, FS_CardinalityType
<1>5. order \in [1..n -> bars] /\ \A i, j \in 1..n : i # j => order[i] # order[j]
  BY <1>1, <1>4 DEF SetToSeqs
<1>6. \A bar \in bars : \E k \in 1..n : order[k] = bar
  <2>1. order \in Injection(1..n, bars)
    BY <1>5 DEF Injection, IsInjective
  <2>2. IsFiniteSet(1..n) /\ Cardinality(1..n) = n
    <3>1. PICK a \in Int, b \in Int : a = 1 /\ b = n
      OBVIOUS
    <3>2. IsFiniteSet(a..b) /\ Cardinality(a..b) = IF a > b THEN 0 ELSE b - a + 1
      BY FS_Interval
    <3>3. (IF a > b THEN 0 ELSE b - a + 1) = n
      BY <3>1
    <3> QED
      BY <3>1, <3>2, <3>3
  <2>3. order \in Surjection(1..n, bars)
    BY <1>3, <1>4, <2>1, <2>2, FS_Injection
  <2> QED
    BY <2>3 DEF Surjection
<1>7. order \in Seq(Bar) /\ Len(order) = n /\ topic \in Seq(Bar)
  <2>1. order \in [1..n -> Bar]
    BY <1>3, <1>5
  <2>2. topic \in Seq(Bar)
    BY DEF WindowsInv, WindowsTypeOK
  <2> QED
    BY <2>1, <2>2
<1>8. /\ old \in Nat /\ new = old + n /\ new \in Nat /\ topic' \in Seq(Bar)
      /\ DOMAIN topic = 1..old /\ DOMAIN topic' = 1..new
      /\ \A i \in 1..old : topic'[i] = topic[i]
      /\ \A k \in 1..n : topic'[old + k] = order[k]
  BY <1>1, <1>7
<1>9. \A i \in (old + 1)..new : i - old \in 1..n /\ topic'[i] = order[i - old]
  <2> SUFFICES ASSUME NEW i \in (old + 1)..new
               PROVE  i - old \in 1..n /\ topic'[i] = order[i - old]
    OBVIOUS
  <2>1. PICK k \in 1..n : i = old + k
    BY <1>8
  <2> QED
    BY <1>8, <2>1
<1>10. \A k \in 1..n : old + k \in (old + 1)..new
  BY <1>8
<1>11. \A i, j \in (old + 1)..new :
           i < j => topic'[i].second <= topic'[j].second /\ topic'[i] # topic'[j]
  <2> SUFFICES ASSUME NEW i \in (old + 1)..new, NEW j \in (old + 1)..new, i < j
               PROVE  topic'[i].second <= topic'[j].second /\ topic'[i] # topic'[j]
    OBVIOUS
  <2>1. i - old \in 1..n /\ j - old \in 1..n /\ i - old < j - old /\ i - old # j - old
    BY <1>8, <1>9
  <2>2. order[i - old].second <= order[j - old].second /\ order[i - old] # order[j - old]
    BY <1>1, <1>5, <2>1 DEF InOrder
  <2> QED
    BY <1>9, <2>2
<1>12. \A bar \in bars : \E i \in (old + 1)..new : topic'[i] = bar
  BY <1>6, <1>8, <1>10
<1> QED
  BY <1>5, <1>8, <1>9, <1>11, <1>12

(* The records in these bars have waited and do so no more; the bars are   *)
(* new, for their seconds were not complete.                               *)
LEMMA EmitKeeps ==
    ASSUME WindowsInv, NEW idle \in SUBSET Partition, EmitWatermark(idle)
    PROVE  WindowsInv'
<1>1. PICK mark, bars : mark = Mark(idle) /\ bars = Fired(mark)
  OBVIOUS
<1>2. /\ mark > watermark /\ watermark' = mark
      /\ open' = open \ UNION {bar.of : bar \in bars}
      /\ written' = written \union bars
      /\ leftOut' = leftOut \union {p \in idle : marks[p] - OutOfOrder < mark}
      /\ UNCHANGED <<pos, marks, dropped, saved, restarts>>
  BY <1>1 DEF EmitWatermark
<1>3. mark \in Int /\ \A p \in Partition \ idle : mark <= marks[p] - OutOfOrder
  BY <1>1, <1>2, MarkIs DEF WindowsInv
<1>4. /\ \A bar \in bars :
             /\ bar \in Bar /\ bar.second \in Nat
             /\ watermark < bar.second /\ bar.second <= mark
             /\ \A r \in bar.of :
                    r \in open /\ At(r).product = bar.product /\ At(r).time = bar.second
      /\ \A a, b \in bars : a.product = b.product /\ a.second = b.second => a = b
      /\ \A r \in open : At(r).time <= mark <=> \E bar \in bars : r \in bar.of
  BY <1>1, <1>3, FiredAre
<1>5. \A r : r \in open' <=> r \in open /\ \A bar \in bars : r \notin bar.of
  BY <1>2
<1>6. /\ watermark \in Int /\ watermark >= Start /\ Start \in Int
      /\ \A bar \in written : bar \in Bar /\ bar.second <= watermark /\ bar.second \in Nat
  <2>1. \A bar \in written : bar \in Bar /\ bar.second <= watermark
    BY JobSound, JobIs DEF HeldOnce
  <2>2. Time \subseteq Nat
    BY RecordIs DEF Time
  <2> QED
    BY <2>1, <2>2, JobSound, StartIs DEF Bar
<1>7. Sound(Job)'
  <2>1. JobTypes(Job)'
    BY <1>2, <1>3, <1>4, <1>5, <1>6, JobSound DEF JobTypes, Job
  <2>2. ReadIsHeld(Job)'
    BY <1>2, <1>4, <1>5, JobSound DEF ReadIsHeld, InBar, Job
  <2>3. HeldOnce(Job)'
    <3>1. /\ \A r \in open : r \notin dropped /\ watermark < At(r).time /\ At(r).time \in Nat
          /\ \A bar \in written : \A r \in bar.of :
                 r \notin dropped /\ At(r).product = bar.product /\ At(r).time = bar.second
          /\ \A a, b \in written : a.product = b.product /\ a.second = b.second => a = b
      BY JobSound, JobIs, RecordIs DEF HeldOnce
    <3>2. \A r \in open' : r \notin dropped' /\ watermark' < At(r).time
      BY <1>2, <1>3, <1>4, <1>5, <3>1
    <3>3. \A bar \in written' :
              /\ bar.second <= watermark'
              /\ \A r \in bar.of :
                     r \notin dropped' /\ At(r).product = bar.product /\ At(r).time = bar.second
      BY <1>2, <1>3, <1>4, <1>6, <3>1
    <3>4. \A a, b \in written' : a.product = b.product /\ a.second = b.second => a = b
      BY <1>2, <1>3, <1>4, <1>6, <3>1
    <3> QED
      BY <3>2, <3>3, <3>4 DEF HeldOnce, Job
  <2> QED
    BY <2>1, <2>2, <2>3 DEF Sound
<1>8. Justified(Job)'
  <2>1. ASSUME NEW p \in Partition, p \notin leftOut'
        PROVE  \E j \in 1..pos[p] : Log[p][j].stamp >= mark + OutOfOrder
    <3>1. marks[p] \in Int
      BY DEF WindowsInv, WindowsTypeOK
    <3>2. mark <= marks[p] - OutOfOrder
      BY <1>2, <1>3, <2>1, <3>1, StartIs
    <3>3. marks[p] # -1 /\ marks[p] >= mark + OutOfOrder
      BY <1>2, <1>3, <1>6, <3>1, <3>2, StartIs DEF Start
    <3>4. PICK j \in 1..pos[p] : marks[p] = Log[p][j].stamp
      BY <3>3 DEF WindowsInv, MarksRead
    <3> QED
      BY <3>3, <3>4
  <2>2. \A r \in dropped : Excused(r)
    BY JobIs DEF WindowsInv, Justified
  <2> QED
    BY <1>2, <2>1, <2>2 DEF Justified, Reached, Excused, Job
<1>9. Sound(saved)' /\ Justified(saved)' /\ (saved.written \subseteq written)'
  BY <1>2 DEF WindowsInv, Sound, JobTypes, ReadIsHeld, HeldOnce, InBar, Justified, Reached, Excused
<1>10. MarksRead'
  BY <1>2 DEF WindowsInv, MarksRead
<1>11. PICK old, new : old = Len(topic) /\ new = Len(topic')
  OBVIOUS
<1>12. /\ old \in Nat /\ new \in Nat /\ old <= new
       /\ DOMAIN topic = 1..old /\ DOMAIN topic' = 1..new /\ topic' \in Seq(Bar)
       /\ \A i \in 1..old : topic'[i] = topic[i]
       /\ \A i \in (old + 1)..new : topic'[i] \in bars
       /\ \A bar \in bars : \E i \in (old + 1)..new : topic'[i] = bar
       /\ \A i, j \in (old + 1)..new :
              i < j => topic'[i].second <= topic'[j].second /\ topic'[i] # topic'[j]
  BY <1>1, <1>11, Appends
<1>13. TableIsLast'
  <2>1. ASSUME NEW bar \in written
        PROVE  \E i \in 1..new :
                   /\ topic'[i] = bar
                   /\ \A j \in (i + 1)..new :
                          <<topic'[j].product, topic'[j].second>> # <<bar.product, bar.second>>
    <3>1. PICK i \in 1..old :
              /\ topic[i] = bar
              /\ \A j \in (i + 1)..old :
                     <<topic[j].product, topic[j].second>> # <<bar.product, bar.second>>
      BY <1>11, <1>12, <2>1 DEF WindowsInv, TableIsLast
    <3>2. ASSUME NEW j \in (i + 1)..new
          PROVE  <<topic'[j].product, topic'[j].second>> # <<bar.product, bar.second>>
      <4>1. CASE j <= old
        BY <1>12, <3>1, <3>2, <4>1
      <4>2. CASE j > old
        <5>1. topic'[j] \in bars
          BY <1>12, <3>1, <3>2, <4>2
        <5>2. bar.second < topic'[j].second
          BY <1>4, <1>6, <2>1, <5>1
        <5> QED
          BY <1>4, <1>6, <2>1, <5>1, <5>2
      <4> QED
        BY <1>12, <3>1, <3>2, <4>1, <4>2
    <3> QED
      BY <1>12, <3>1, <3>2
  <2>2. ASSUME NEW bar \in bars
        PROVE  \E i \in 1..new :
                   /\ topic'[i] = bar
                   /\ \A j \in (i + 1)..new :
                          <<topic'[j].product, topic'[j].second>> # <<bar.product, bar.second>>
    <3>1. PICK i \in (old + 1)..new : topic'[i] = bar
      BY <1>12, <2>2
    <3>2. ASSUME NEW j \in (i + 1)..new
          PROVE  <<topic'[j].product, topic'[j].second>> # <<bar.product, bar.second>>
      <4>1. j \in (old + 1)..new /\ i < j
        BY <1>12, <3>1, <3>2
      <4>2. topic'[j] \in bars /\ topic'[j] # bar
        BY <1>12, <3>1, <4>1
      <4> QED
        BY <1>4, <2>2, <4>2
    <3> QED
      BY <1>12, <3>1, <3>2
  <2> QED
    BY <1>2, <1>11, <1>12, <2>1, <2>2 DEF TableIsLast
<1>14. TopicBars'
  <2>1. ASSUME NEW i \in 1..new, NEW bar, bar = topic'[i]
        PROVE  /\ \A r \in bar.of : At(r).product = bar.product /\ At(r).time = bar.second
               /\ restarts = 0 => bar \in written'
    <3>1. CASE i <= old
      <4>1. i \in DOMAIN topic /\ bar = topic[i]
        BY <1>12, <2>1, <3>1
      <4> QED
        BY <1>2, <4>1 DEF WindowsInv, TopicBars, TopicBarAt
    <3>2. CASE i > old
      <4>1. bar \in bars
        BY <1>12, <2>1, <3>2
      <4> QED
        BY <1>2, <1>4, <4>1
    <3> QED
      BY <1>12, <2>1, <3>1, <3>2
  <2> QED
    BY <1>2, <1>12, <2>1 DEF TopicBars, TopicBarAt
<1>15. WindowsTypeOK'
  <2>1. saved.watermark \in Int /\ watermark >= saved.watermark
    BY DEF WindowsInv, WindowsTypeOK, Sound, JobTypes
  <2>2. watermark' \in Int /\ watermark' >= saved.watermark
    BY <1>2, <1>3, <1>6, <2>1
  <2>3. open' \subseteq Record /\ written' \subseteq Bar /\ leftOut' \subseteq Partition
    BY <1>2, <1>4, JobSound DEF WindowsInv, WindowsTypeOK
  <2> QED
    BY <1>2, <1>12, <2>2, <2>3 DEF WindowsInv, WindowsTypeOK
<1> QED
  BY <1>7, <1>8, <1>9, <1>10, <1>13, <1>14, <1>15 DEF WindowsInv

-----------------------------------------------------------------------------
(* A checkpoint is a job that is sound, and so is one that goes on from it: *)
(* the topic has the last bars of a part of the table, too.                *)
LEMMA CheckpointKeeps == WindowsInv /\ Checkpoint => WindowsInv'
<1> SUFFICES ASSUME WindowsInv, Checkpoint PROVE WindowsInv'
  OBVIOUS
<1>1. /\ saved' = Job
      /\ UNCHANGED <<pos, open, watermark, written, dropped, marks, topic, restarts, leftOut>>
  BY DEF Checkpoint, Saved, jobVars
<1>2. Job' = Job
  BY <1>1 DEF Job
<1>3. Sound(Job)' /\ Sound(saved)' /\ Justified(Job)' /\ Justified(saved)'
  BY <1>1, <1>2 DEF WindowsInv, Sound, JobTypes, ReadIsHeld, HeldOnce, InBar,
                    Justified, Reached, Excused
<1>4. (saved.written \subseteq written)' /\ MarksRead' /\ TableIsLast' /\ TopicBars'
  BY <1>1, JobIs DEF WindowsInv, MarksRead, TableIsLast, TopicBars, TopicBarAt
<1>5. WindowsTypeOK'
  BY <1>1, JobIs DEF WindowsInv, WindowsTypeOK
<1> QED
  BY <1>3, <1>4, <1>5 DEF WindowsInv

LEMMA RestartKeeps == WindowsInv /\ Restart => WindowsInv'
<1> SUFFICES ASSUME WindowsInv, Restart PROVE WindowsInv'
  OBVIOUS
<1>1. /\ pos' = saved.pos /\ open' = saved.open /\ watermark' = saved.watermark
      /\ written' = saved.written /\ dropped' = saved.dropped
      /\ marks' = [p \in Partition |-> -1]
      /\ restarts < MaxRestarts /\ restarts' = restarts + 1
      /\ UNCHANGED <<topic, saved, leftOut>>
  BY DEF Restart, Become
<1>2. Sound(Job)' /\ Sound(saved)'
  BY <1>1 DEF WindowsInv, Sound, JobTypes, ReadIsHeld, HeldOnce, InBar, Job
<1>3. Justified(Job)' /\ Justified(saved)'
  BY <1>1 DEF WindowsInv, Justified, Reached, Excused, Job
<1>4. MarksRead' /\ (saved.written \subseteq written)'
  BY <1>1 DEF MarksRead
<1>5. TableIsLast' /\ TopicBars'
  <2>1. restarts \in Nat
    BY WindowsAssumption DEF WindowsInv, WindowsTypeOK
  <2> QED
    BY <1>1, <2>1 DEF WindowsInv, TableIsLast, TopicBars, TopicBarAt
<1>6. WindowsTypeOK'
  BY <1>1, WindowsAssumption DEF WindowsInv, WindowsTypeOK, Sound, JobTypes
<1> QED
  BY <1>2, <1>3, <1>4, <1>5, <1>6 DEF WindowsInv

LEMMA WindowsStepInv == WindowsInv /\ [WindowsNext]_windowVars => WindowsInv'
<1> SUFFICES ASSUME WindowsInv, [WindowsNext]_windowVars PROVE WindowsInv'
  OBVIOUS
<1>1. CASE \E p \in Partition : Read(p)
  BY <1>1, ReadKeeps
<1>2. CASE FindIdle
  BY <1>2, EmitKeeps DEF FindIdle
<1>3. CASE Checkpoint
  BY <1>3, CheckpointKeeps
<1>4. CASE Restart
  BY <1>4, RestartKeeps
<1>5. CASE UNCHANGED windowVars
  <2>1. /\ UNCHANGED <<pos, open, watermark, written, dropped>>
        /\ UNCHANGED <<marks, topic, saved, restarts, leftOut>>
    BY <1>5 DEF windowVars, jobVars
  <2>2. Sound(Job)' /\ Sound(saved)' /\ Justified(Job)' /\ Justified(saved)'
    BY <2>1 DEF WindowsInv, Sound, JobTypes, ReadIsHeld, HeldOnce, InBar,
                Justified, Reached, Excused, Job
  <2> QED
    BY <2>1, <2>2 DEF WindowsInv, WindowsTypeOK, MarksRead, TableIsLast, TopicBars, TopicBarAt
<1> QED
  BY <1>1, <1>2, <1>3, <1>4, <1>5 DEF WindowsNext

THEOREM WindowsInvariance == WindowsSpec => []WindowsInv
  BY WindowsInitInv, WindowsStepInv, PTL DEF WindowsSpec

-----------------------------------------------------------------------------
(* The types hold: no partition is read beyond its end, and what waits, is *)
(* dropped or fires is made of the records there are.                      *)
THEOREM WindowsTypes == WindowsSpec => []WindowsTypeOK
<1>1. WindowsInv => WindowsTypeOK
  BY DEF WindowsInv
<1> QED
  BY <1>1, WindowsInvariance, PTL

(* A record that was read is in one bar, one window or dropped, and in one *)
(* of these only, and Iceberg has one bar of a product and a second,       *)
(* through any number of checkpoints and restarts.                         *)
THEOREM EachRecordAlwaysOnce == WindowsSpec => []EachRecordOnce
<1>1. ASSUME WindowsInv PROVE EachRecordOnce
  <2> DEFINE Holding(r) == {bar \in written : r \in bar.of}
             Places(r) == Cardinality(Holding(r)) + Cardinality({r} \intersect open)
                             + Cardinality({r} \intersect dropped)
  <2>1. /\ \A r \in open : r \notin dropped /\ watermark < At(r).time /\ At(r).time \in Nat
        /\ watermark \in Int
        /\ \A bar \in written :
               /\ bar.second <= watermark
               /\ \A r \in bar.of :
                      r \notin dropped /\ At(r).product = bar.product /\ At(r).time = bar.second
        /\ \A a, b \in written : a.product = b.product /\ a.second = b.second => a = b
    BY <1>1, JobSound, JobIs, RecordIs DEF HeldOnce
  <2>2. ASSUME NEW r \in Record PROVE Places(r) = IF r[2] <= pos[r[1]] THEN 1 ELSE 0
    <3>1. r[2] <= pos[r[1]] <=> r \in open \/ r \in dropped \/ \E bar \in written : r \in bar.of
      BY <1>1, JobSound
    <3>2. Cardinality({}) = 0 /\ \A x : Cardinality({x}) = 1
      BY FS_EmptySet, FS_Singleton
    <3> DEFINE held == Cardinality(Holding(r))
               waits == Cardinality({r} \intersect open)
               late == Cardinality({r} \intersect dropped)
    <3>3. Places(r) = held + waits + late
      OBVIOUS
    <3>4. CASE r \in open
      <4>1. \A bar \in written : r \notin bar.of
        BY <2>1, <3>4
      <4>2. Holding(r) = {} /\ {r} \intersect open = {r} /\ {r} \intersect dropped = {}
        BY <2>1, <3>4, <4>1
      <4>3. held = 0 /\ waits = 1 /\ late = 0
        BY <3>2, <4>2
      <4> HIDE DEF held, waits, late, Places
      <4> QED
        BY <3>3, <3>1, <3>4, <4>3
    <3>5. CASE r \in dropped
      <4>1. Holding(r) = {} /\ {r} \intersect open = {} /\ {r} \intersect dropped = {r}
        BY <2>1, <3>5
      <4>2. held = 0 /\ waits = 0 /\ late = 1
        BY <3>2, <4>1
      <4> HIDE DEF held, waits, late, Places
      <4> QED
        BY <3>3, <3>1, <3>5, <4>2
    <3>6. ASSUME NEW bar \in written, r \in bar.of
          PROVE  Places(r) = IF r[2] <= pos[r[1]] THEN 1 ELSE 0
      <4>1. Holding(r) = {bar}
        BY <2>1, <3>6
      <4>2. {r} \intersect open = {} /\ {r} \intersect dropped = {}
        BY <2>1, <3>6
      <4>3. held = 1 /\ waits = 0 /\ late = 0
        BY <3>2, <4>1, <4>2
      <4> HIDE DEF held, waits, late, Places
      <4> QED
        BY <3>3, <3>1, <3>6, <4>3
    <3>7. CASE r \notin open /\ r \notin dropped /\ \A bar \in written : r \notin bar.of
      <4>1. Holding(r) = {} /\ {r} \intersect open = {} /\ {r} \intersect dropped = {}
        BY <3>7
      <4>2. held = 0 /\ waits = 0 /\ late = 0
        BY <3>2, <4>1
      <4> HIDE DEF held, waits, late, Places
      <4> QED
        BY <3>3, <3>1, <3>7, <4>2
    <3> QED
      BY <3>4, <3>5, <3>6, <3>7
  <2> QED
    BY <2>1, <2>2 DEF EachRecordOnce
<1> QED
  BY <1>1, WindowsInvariance, PTL

(* A record is dropped only if its own partition was found idle, or a      *)
(* record before it in its own partition is later by OutOfOrder or more:   *)
(* reading the partitions at different speeds drops none.                  *)
THEOREM AlwaysDropsOnlyWhenIdle == WindowsSpec => []DropsOnlyWhenIdle
<1>1. WindowsInv => DropsOnlyWhenIdle
  BY JobIs DEF WindowsInv, Justified, Excused, DropsOnlyWhenIdle
<1> QED
  BY <1>1, WindowsInvariance, PTL

(* Each bar of the table is the last in the topic of its product and       *)
(* second, and a last bar the table does not have is one a restart undid:  *)
(* none of its records has come into a bar since.                          *)
THEOREM SinksAlwaysDifferByLateOnly == WindowsSpec => []SinksDifferByLateOnly
<1>1. ASSUME WindowsInv PROVE SinksDifferByLateOnly
  <2> DEFINE Final(k) == \A j \in (k + 1)..Len(topic) :
                  <<topic[j].product, topic[j].second>> # <<topic[k].product, topic[k].second>>
  <2>1. LastBars = {topic[i] : i \in {k \in DOMAIN topic : Final(k)}}
    BY DEF LastBars
  <2>2. topic \in Seq(Bar) /\ DOMAIN topic = 1..Len(topic) /\ Len(topic) \in Nat
    BY <1>1 DEF WindowsInv, WindowsTypeOK
  <2>3. written \subseteq LastBars
    BY <1>1, <2>1 DEF WindowsInv, TableIsLast
  <2>4. ASSUME NEW bar \in LastBars, bar \notin written, NEW r \in bar.of
        PROVE  r[2] > pos[r[1]] \/ r \in open \/ r \in dropped
    <3>1. PICK k \in DOMAIN topic : topic[k] = bar /\ Final(k)
      BY <2>1
    <3>2. bar \in Bar /\ At(r).product = bar.product /\ At(r).time = bar.second
      BY <1>1, <2>2, <3>1 DEF WindowsInv, TopicBars, TopicBarAt
    <3>3. r \in Record /\ r[2] \in Nat /\ pos[r[1]] \in Nat
      BY <1>1, <3>2, RecordIs, JobSound DEF Bar
    <3>4. ASSUME NEW other \in written, r \in other.of PROVE FALSE
      <4>1. other.product = bar.product /\ other.second = bar.second
        BY <1>1, <3>2, <3>4, JobSound, JobIs DEF HeldOnce
      <4>2. PICK i \in DOMAIN topic :
                /\ topic[i] = other
                /\ \A j \in (i + 1)..Len(topic) :
                       <<topic[j].product, topic[j].second>> # <<other.product, other.second>>
        BY <1>1 DEF WindowsInv, TableIsLast
      <4>3. ~ (i < k)
        BY <2>2, <3>1, <4>1, <4>2
      <4>4. ~ (k < i)
        BY <2>2, <3>1, <4>1, <4>2
      <4>5. i = k
        BY <2>2, <3>1, <4>2, <4>3, <4>4
      <4> QED
        BY <2>4, <3>1, <4>2, <4>5
    <3> QED
      BY <1>1, <3>3, <3>4, JobSound
  <2>5. restarts = 0 => LastBars \subseteq written
    BY <1>1, <2>1 DEF WindowsInv, TopicBars, TopicBarAt
  <2> QED
    BY <2>3, <2>4, <2>5 DEF SinksDifferByLateOnly
<1> QED
  BY <1>1, WindowsInvariance, PTL

-----------------------------------------------------------------------------
(* The bar topic is a BarStream.  How far its writer has got:              *)
Seconds(bars) == {bar.second : bar \in bars} \union {-1}

LEMMA FrontIs ==
    ASSUME NEW bars \in SUBSET Bar
    PROVE  /\ Max(Seconds(bars)) \in Seconds(bars) /\ Seconds(bars) \subseteq Int
           /\ \A x \in Seconds(bars) : Max(Seconds(bars)) >= x
<1> DEFINE f == [r \in Record |-> At(r).time]
<1>1. f \in Surjection(Record, Time)
  BY DEF Surjection, Time
<1>2. IsFiniteSet(Time)
  BY <1>1, RecordFinite, FS_Surjection
<1>3. IsFiniteSet(Time \union {-1})
  BY <1>2, FS_AddElement
<1>4. Seconds(bars) \in SUBSET (Time \union {-1})
  BY DEF Seconds, Bar
<1>5. Time \union {-1} \subseteq Int
  BY RecordIs DEF Time
<1>6. IsFiniteSet(Seconds(bars))
  BY <1>3, <1>4, FS_Subset
<1>7. Seconds(bars) \in SUBSET Int /\ Seconds(bars) # {}
  BY <1>4, <1>5 DEF Seconds
<1> QED
  BY <1>6, <1>7, FiniteMaxProperty

LEMMA FunctionIsSequence ==
    ASSUME NEW n \in Nat, NEW S, NEW f \in [1..n -> S]
    PROVE  f \in Seq(S)
  OBVIOUS

LEMMA KeysAre ==
    ASSUME NEW bars \in Seq(Bar)
    PROVE  /\ Keys(bars) \in Seq([product: Product, second: Time])
           /\ Len(Keys(bars)) = Len(bars)
           /\ \A i \in 1..Len(bars) :
                  Keys(bars)[i] = [product |-> bars[i].product, second |-> bars[i].second]
<1>1. PICK n \in Nat : n = Len(bars) /\ DOMAIN bars = 1..n
  OBVIOUS
<1>2. \A i \in 1..n : bars[i] \in Bar
  BY <1>1
<1>3. Keys(bars) \in [1..n -> [product: Product, second: Time]]
  BY <1>1, <1>2 DEF Keys, Bar
<1>4. Keys(bars) \in Seq([product: Product, second: Time])
  BY <1>1, <1>3, FunctionIsSequence
<1>5. Len(Keys(bars)) = n
  BY <1>1 DEF Keys
<1> QED
  BY <1>1, <1>4, <1>5 DEF Keys

(* Windows that fire publish their bars, unless there are none.            *)
LEMMA EmitPublishes ==
    ASSUME WindowsInv, NEW idle \in SUBSET Partition, EmitWatermark(idle)
    PROVE  Stream!Publish \/ UNCHANGED <<Keys(topic), Max({bar.second : bar \in written} \union {-1})>>
<1>1. PICK mark, bars : mark = Mark(idle) /\ bars = Fired(mark)
  OBVIOUS
<1>2. mark \in Int /\ written' = written \union bars
  BY <1>1, MarkIs DEF EmitWatermark, WindowsInv
<1>3. /\ \A bar \in bars :
             bar \in Bar /\ bar.second \in Nat /\ watermark < bar.second
      /\ \A a, b \in bars : a.product = b.product /\ a.second = b.second => a = b
  BY <1>1, <1>2, FiredAre
<1>4. /\ watermark \in Int /\ written \subseteq Bar
      /\ \A bar \in written : bar.second <= watermark /\ bar.second \in Nat
  <2>1. written \subseteq Bar /\ \A bar \in written : bar.second <= watermark
    BY JobSound, JobIs DEF HeldOnce
  <2>2. Time \subseteq Nat
    BY RecordIs DEF Time
  <2> QED
    BY <2>1, <2>2, JobSound DEF Bar
<1>5. PICK old, new : old = Len(topic) /\ new = Len(topic')
  OBVIOUS
<1>6. /\ old \in Nat /\ new \in Nat /\ old <= new
      /\ DOMAIN topic = 1..old /\ DOMAIN topic' = 1..new /\ topic' \in Seq(Bar)
      /\ \A i \in 1..old : topic'[i] = topic[i]
      /\ \A i \in (old + 1)..new : topic'[i] \in bars
      /\ \A bar \in bars : \E i \in (old + 1)..new : topic'[i] = bar
      /\ \A i, j \in (old + 1)..new :
             i < j => topic'[i].second <= topic'[j].second /\ topic'[i] # topic'[j]
  BY <1>1, <1>5, Appends
<1>7. topic \in Seq(Bar)
  BY DEF WindowsInv, WindowsTypeOK
<1>8. CASE new = old
  <2>1. bars = {}
    BY <1>6, <1>8
  <2>2. topic' = topic
    BY <1>5, <1>6, <1>7, <1>8
  <2> QED
    BY <1>2, <2>1, <2>2 DEF Keys
<1>9. CASE new > old
  <2>1. PICK was, is : was = Keys(topic) /\ is = Keys(topic')
    OBVIOUS
  <2>2. /\ was \in Seq([product: Product, second: Time]) /\ Len(was) = old
        /\ is \in Seq([product: Product, second: Time]) /\ Len(is) = new
        /\ \A i \in 1..old :
               was[i] = [product |-> topic[i].product, second |-> topic[i].second]
        /\ \A i \in 1..new :
               is[i] = [product |-> topic'[i].product, second |-> topic'[i].second]
    <3>1. /\ was \in Seq([product: Product, second: Time]) /\ Len(was) = old
          /\ \A i \in 1..old :
                 was[i] = [product |-> topic[i].product, second |-> topic[i].second]
      BY <1>5, <1>7, <2>1, KeysAre
    <3>2. PICK bigger \in Seq(Bar) : bigger = topic'
      BY <1>6
    <3>3. /\ is \in Seq([product: Product, second: Time]) /\ Len(is) = new
          /\ \A i \in 1..new :
                 is[i] = [product |-> bigger[i].product, second |-> bigger[i].second]
      BY <1>5, <2>1, <3>2, KeysAre
    <3> QED
      BY <3>1, <3>2, <3>3
  <2>3. SubSeq(is, 1, old) = was
    <3>1. \A i \in 1..old : is[i] = was[i]
      BY <1>6, <2>2
    <3> QED
      BY <1>6, <2>2, <3>1
  <2>4. /\ Max(Seconds(written)) \in Seconds(written)
        /\ Max(Seconds(written)) \in Int
        /\ Max(Seconds(written)') \in Seconds(written)'
        /\ Max(Seconds(written)') \in Int
        /\ \A x \in Seconds(written)' : Max(Seconds(written)') >= x
    <3>1. written' \in SUBSET Bar
      BY <1>2, <1>3, <1>4
    <3>2. Seconds(written)' = Seconds(written')
      BY DEF Seconds
    <3> QED
      BY <1>4, <3>1, <3>2, FrontIs
  <2>5. \A i \in (old + 1)..new : is[i].second > Max(Seconds(written))
    <3> SUFFICES ASSUME NEW i \in (old + 1)..new PROVE is[i].second > Max(Seconds(written))
      OBVIOUS
    <3>1. topic'[i] \in bars /\ is[i].second = topic'[i].second
      BY <1>6, <2>2
    <3>2. is[i].second \in Nat /\ is[i].second > watermark
      BY <1>3, <1>4, <3>1
    <3>3. Max(Seconds(written)) = -1 \/ Max(Seconds(written)) <= watermark
      BY <1>4, <2>4 DEF Seconds
    <3> QED
      BY <1>4, <2>4, <3>2, <3>3
  <2>6. \A i, j \in (old + 1)..new : i < j => is[i].second <= is[j].second /\ is[i] # is[j]
    <3> SUFFICES ASSUME NEW i \in (old + 1)..new, NEW j \in (old + 1)..new, i < j
                 PROVE  is[i].second <= is[j].second /\ is[i] # is[j]
      OBVIOUS
    <3>1. /\ topic'[i] \in bars /\ topic'[j] \in bars
          /\ is[i] = [product |-> topic'[i].product, second |-> topic'[i].second]
          /\ is[j] = [product |-> topic'[j].product, second |-> topic'[j].second]
          /\ topic'[i].second <= topic'[j].second /\ topic'[i] # topic'[j]
      BY <1>6, <2>2
    <3> QED
      BY <1>3, <3>1
  <2>7. Max(Seconds(written)') = is[new].second
    <3>1. new \in (old + 1)..new /\ topic'[new] \in bars /\ is[new].second = topic'[new].second
      BY <1>6, <1>9, <2>2
    <3>2. is[new].second \in Nat /\ is[new].second > watermark /\ is[new].second \in Seconds(written)'
      BY <1>2, <1>3, <3>1 DEF Seconds
    <3>3. \A x \in Seconds(written)' : x \in Int /\ is[new].second >= x
      <4>1. \A bar \in bars : bar.second \in Nat /\ is[new].second >= bar.second
        <5> SUFFICES ASSUME NEW bar \in bars
                     PROVE  bar.second \in Nat /\ is[new].second >= bar.second
          OBVIOUS
        <5>1. PICK i \in (old + 1)..new : topic'[i] = bar
          BY <1>6
        <5>2. i < new \/ i = new
          BY <1>6
        <5> QED
          BY <1>3, <1>6, <3>1, <3>2, <5>1, <5>2
      <4>2. \A bar \in written : bar.second \in Nat /\ is[new].second >= bar.second
        BY <1>4, <3>2
      <4> QED
        BY <1>2, <3>2, <4>1, <4>2 DEF Seconds
    <3> QED
      BY <2>4, <3>2, <3>3
  <2>8. Keys(topic)' = is /\ Keys(topic) = was
    BY <2>1 DEF Keys
  <2>9. Stream!Publish
    BY <1>9, <2>2, <2>3, <2>5, <2>6, <2>7, <2>8 DEF Stream!Publish, Seconds
  <2> QED
    BY <2>9
<1> QED
  BY <1>6, <1>8, <1>9

(* WindowsSpec implements BarStream: windows that fire append bars above   *)
(* all the table has, in the order of their seconds; a restart goes back   *)
(* to a part of the table, or to all of it.                                *)
THEOREM StreamRefinement == WindowsSpec => PublishesInOrder
<1>1. WindowsInit => Stream!StreamInit
  <2> SUFFICES ASSUME WindowsInit PROVE Stream!StreamInit
    OBVIOUS
  <2>1. topic = <<>> /\ written = {}
    BY DEF WindowsInit, NewJob
  <2>2. Max(Seconds({})) = -1
    BY FrontIs DEF Seconds
  <2>3. Keys(topic) = <<>>
    BY <2>1 DEF Keys
  <2> QED
    BY <2>1, <2>2, <2>3 DEF Stream!StreamInit, Seconds
<1>2. ASSUME WindowsInv, WindowsInv', [WindowsNext]_windowVars
      PROVE  \/ Stream!Publish
             \/ Stream!GoBack
             \/ UNCHANGED <<Keys(topic), Max({bar.second : bar \in written} \union {-1})>>
  <2>1. CASE FindIdle
    BY <1>2, <2>1, EmitPublishes DEF FindIdle
  <2>2. CASE Restart
    <3>1. topic' = topic /\ written' \subseteq written
      BY <1>2, <2>2 DEF Restart, Become, WindowsInv
    <3>2. written \in SUBSET Bar /\ written' \in SUBSET Bar
      BY <1>2, <3>1 DEF WindowsInv, WindowsTypeOK
    <3>3. Seconds(written') \subseteq Seconds(written)
      BY <3>1 DEF Seconds
    <3>4. /\ Max(Seconds(written')) \in Int /\ Max(Seconds(written)) \in Int
          /\ Max(Seconds(written')) <= Max(Seconds(written))
      BY <3>2, <3>3, FrontIs
    <3>5. CASE Max(Seconds(written')) < Max(Seconds(written))
      BY <3>1, <3>5 DEF Stream!GoBack, Seconds, Keys
    <3>6. CASE Max(Seconds(written')) = Max(Seconds(written))
      BY <3>1, <3>6 DEF Seconds, Keys
    <3> QED
      BY <3>4, <3>5, <3>6
  <2>3. CASE (\E p \in Partition : Read(p)) \/ Checkpoint \/ UNCHANGED windowVars
    <3>1. UNCHANGED <<topic, written>>
      BY <2>3 DEF Read, Checkpoint, jobVars, windowVars
    <3> QED
      BY <3>1 DEF Keys
  <2> QED
    BY <1>2, <2>1, <2>2, <2>3 DEF WindowsNext
<1> QED
  BY <1>1, <1>2, WindowsInvariance, PTL DEF WindowsSpec, PublishesInOrder, Stream!StreamSpec

=============================================================================
