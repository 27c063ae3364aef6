---------------------------- MODULE MCTTLCache ----------------------------
(* TTLCache on a small instance: no definition of it needs an override. *)
EXTENDS TTLCache
=============================================================================
