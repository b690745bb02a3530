-------------------------- MODULE MC_DelegatorTests --------------------------
(* The harness of command_delegator.rs's tests with the commands they use. *)
EXTENDS DelegatorTests

MCNames == {"lpush", "lpop", "lset"}
=============================================================================
