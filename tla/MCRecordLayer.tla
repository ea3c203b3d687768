--------------------------- MODULE MCRecordLayer ---------------------------
(* Instance of the record layer for TLC. *)
EXTENDS RecordLayer
=============================================================================
