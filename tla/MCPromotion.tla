------------------------------ MODULE MCPromotion -----------------------------
(* Promotion with a scheduled training and one by hand.                    *)
EXTENDS Promotion

CONSTANTS scheduled, manual

=============================================================================
