----------------------------- MODULE MCRedisCalls -----------------------------
(* Instances of RedisCalls for TLC. The runs check liveness, so no symmetry. *)
EXTENDS RedisCalls
=============================================================================
