---------------------------- MODULE StateStoreMC ----------------------------
(***************************************************************************)
(* Finite instances of StateStore.  There are fewer identities than tasks  *)
(* and creations, so that they are reused.                                 *)
(***************************************************************************)
EXTENDS StateStore

=============================================================================
