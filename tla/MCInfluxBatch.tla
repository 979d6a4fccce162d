--------------------------- MODULE MCInfluxBatch ---------------------------
(* InfluxBatch on a handful of messages, of which the filter rejects one.  *)
EXTENDS InfluxBatch

MCFiltered == {2}
=============================================================================
