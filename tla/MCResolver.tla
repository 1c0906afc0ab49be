---------------------------- MODULE MCResolver ----------------------------
(* Small instance of Resolver: three questions, each sent up to twice.     *)
EXTENDS Resolver
=============================================================================
