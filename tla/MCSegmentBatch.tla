---------------------------- MODULE MCSegmentBatch ----------------------------
(* Instances of SegmentBatch for TLC. *)
EXTENDS SegmentBatch
=============================================================================
