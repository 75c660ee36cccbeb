------------------------------- MODULE MCScoring -------------------------------
(* Scoring of one product, with one endpoint besides the loop.             *)
EXTENDS Scoring

CONSTANTS btc, endpoint

MCProducts == <<btc>>

MCCoroutine == {Loop, endpoint}

=============================================================================
