----------------------------- MODULE MCKVConfig -----------------------------
(* Instances of KVConfig for TLC. *)
EXTENDS KVConfig
=============================================================================
