------------------------------- MODULE BarStream -------------------------------
(***************************************************************************)
(* What a bar topic promises the online features: its writer publishes the *)
(* bars in the order of their seconds, each once; now and then it goes     *)
(* back to an earlier second (the job has restarted) and publishes from    *)
(* there again.                                                            *)
(***************************************************************************)
EXTENDS Integers, Sequences

VARIABLES
    topic,      \* the bars in the topic, each a product and a second
    front       \* the second the writer has got to, -1 before the first

StreamInit ==
    /\ topic = <<>>
    /\ front = -1

(* Some bars more: none at or before front, and their seconds ascend.      *)
Publish ==
    LET old == Len(topic)
    IN  /\ Len(topic') > old
        /\ SubSeq(topic', 1, old) = topic
        /\ \A i \in (old + 1)..Len(topic') : topic'[i].second > front
        /\ \A i, j \in (old + 1)..Len(topic') :
               i < j => /\ topic'[i].second <= topic'[j].second
                        /\ topic'[i] # topic'[j]
        /\ front' = topic'[Len(topic')].second

GoBack ==
    /\ front' < front
    /\ UNCHANGED topic

StreamSpec == StreamInit /\ [][Publish \/ GoBack]_<<topic, front>>

=============================================================================
