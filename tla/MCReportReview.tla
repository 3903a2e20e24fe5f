--------------------------- MODULE MCReportReview ---------------------------
(* Two notices that share one span, a span that only one of them has, and  *)
(* a span the model made up.                                               *)
EXTENDS ReportReview, TLC
CONSTANTS n1, n2, own, shared, madeup

MCBinding == own :> <<n1>> @@ shared :> <<n1, n2>> @@ madeup :> <<>>
MCStored  == {<<n1, own>>, <<n1, shared>>}
=============================================================================
