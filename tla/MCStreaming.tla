----------------------------- MODULE MCStreaming -----------------------------
(* Streaming for TLC: buffers small enough to try every sequence of reads.   *)
EXTENDS Streaming
=============================================================================
