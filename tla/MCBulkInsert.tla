--------------------------- MODULE MCBulkInsert ---------------------------
(* Instances of BulkInsert for TLC: calls of several batches, the last one *)
(* full or not.                                                            *)
EXTENDS BulkInsert
=============================================================================
