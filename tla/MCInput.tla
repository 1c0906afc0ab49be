------------------------------- MODULE MCInput -------------------------------
(* Two devices with queues of two buffers share a ring of two slots; u16     *)
(* wraps at four, so that the indices wrap while the events go through.      *)
EXTENDS Input
=============================================================================
