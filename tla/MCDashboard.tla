---------------------------- MODULE MCDashboard ----------------------------
(* Two datasets with the same reviews, so that their signatures agree; of *)
(* the two filters the default one keeps them all.                        *)
EXTENDS Dashboard

CONSTANTS d1, d2, f1, f2

MCContent == [d \in Dataset |-> "reviews"]
MCWhole == Dataset \X {DefaultFilter}
=============================================================================
