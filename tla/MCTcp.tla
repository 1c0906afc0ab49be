------------------------------- MODULE MCTcp -------------------------------
(* Small instance of Tcp: two bytes, in either direction or one each way.  *)
EXTENDS Tcp
=============================================================================
