----------------------------- MODULE MCMetrics -----------------------------
(* A value of a tag that holds the separator and the name of the next tag.  *)
EXTENDS Metrics
DottedFields == {<<"a">>, <<"a", ".", "t2", ".", "a">>}
=============================================================================
