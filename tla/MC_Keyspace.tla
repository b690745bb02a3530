---------------------------- MODULE MC_Keyspace ----------------------------
(* Two keys, two members and srem calls of up to three members, so that   *)
(* a member can be named twice and an absent one named as well.           *)
EXTENDS Keyspace, TLC

CONSTANTS k1, k2, m1, m2

MCKeys == {k1, k2}
MCMembers == {m1, m2}
=============================================================================
