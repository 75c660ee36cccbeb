------------------------------ MODULE BookStream ------------------------------
(***************************************************************************)
(* What the book half of the bars job promises (the docstring of           *)
(* src/flink/bars_job.py and SPEC.md call it exactly-once): every message  *)
(* of a product's partition is applied to that product's book once, in     *)
(* order, and its result is never taken back.  There is no cache, no keyed *)
(* state, no checkpoint and no crash here; BookJob implements this.        *)
(***************************************************************************)
EXTENDS Naturals, Sequences

CONSTANTS
    Product,        \* the products
    Msg,            \* the messages of book.l2.raw
    NewBook,        \* the book before any message
    Apply(_, _)     \* what applying a message to a book yields: [book |-> ..., ...]

VARIABLES
    log,        \* [Product -> Seq(Msg)]: the product's partition of book.l2.raw
    results     \* [Product -> sequence]: what applying each message yielded

streamVars == <<log, results>>

(* The book after the first n results.                                     *)
BookAfter(resultSeq, n) == IF n = 0 THEN NewBook ELSE resultSeq[n].book

StreamInit ==
    /\ log = [p \in Product |-> <<>>]
    /\ results = [p \in Product |-> <<>>]

(* The producer appends a message to the partition of its product.         *)
Publish(p, msg) ==
    /\ log' = [log EXCEPT ![p] = Append(@, msg)]
    /\ UNCHANGED results

(* The next message of a partition is applied to the product's book.       *)
Consume(p) ==
    LET n == Len(results[p])
    IN  /\ n < Len(log[p])
        /\ results' = [results EXCEPT ![p] =
                           Append(@, Apply(BookAfter(results[p], n), log[p][n + 1]))]
        /\ UNCHANGED log

StreamNext ==
    \E p \in Product : Consume(p) \/ \E msg \in Msg : Publish(p, msg)

StreamSpec == StreamInit /\ [][StreamNext]_streamVars

=============================================================================
