------------------------------ MODULE CacheMC ------------------------------
(***************************************************************************)
(* Finite instances of Cache.                                              *)
(***************************************************************************)
EXTENDS Cache

Nobody == {}

=============================================================================
