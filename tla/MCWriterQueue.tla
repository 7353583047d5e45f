---------------------------- MODULE MCWriterQueue ----------------------------
(* Instances of WriterQueue for TLC. *)
EXTENDS WriterQueue
=============================================================================
