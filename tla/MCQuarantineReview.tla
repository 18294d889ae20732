------------------------- MODULE MCQuarantineReview -------------------------
(***************************************************************************)
(* QuarantineReview for TLC: operators are interchangeable in the runs that *)
(* check safety only.                                                       *)
(***************************************************************************)
EXTENDS QuarantineReviewInv, TLC

OperatorSymmetry == Permutations(Operator)
=============================================================================
