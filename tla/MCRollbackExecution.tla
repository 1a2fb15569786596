------------------------- MODULE MCRollbackExecution -------------------------
(***************************************************************************)
(* A small instance of RollbackExecution: five statements of two lengths,  *)
(* so that batches close by count and by bytes and the first can be retried *)
(* at half its size.                                                       *)
(***************************************************************************)
EXTENDS RollbackExecution

TwoSizes == {1, 3}
OneSize  == {1}

==============================================================================
