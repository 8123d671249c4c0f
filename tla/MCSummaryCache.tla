--------------------------- MODULE MCSummaryCache ---------------------------
(* Two datasets with the same two reviews, of which the filters keep both. *)
EXTENDS SummaryCache

CONSTANTS r1, r2, r3, r4, d1, d2, f1, i1

Request(k, d, f, i) == [kind |-> k, dataset |-> d, filter |-> f, insight |-> i]

\* The same summary twice, then without its insight, and a question about
\* the twin dataset with it.
MCReaders ==
  [r \in Reader |->
     CASE r = r3 -> Request("summary", d1, f1, None)
       [] r = r4 -> Request("agent", d2, f1, i1)
       [] OTHER  -> Request("summary", d1, f1, i1)]

MCSubject == [i \in Insight |-> <<d1, f1>>]
MCContent == [d \in Dataset |-> "reviews"]
MCSize == [f \in Filter |-> 2]
=============================================================================
