---------------------------- MODULE MCUbxWatch ------------------------------
(* A small instance of UbxWatch.                                            *)
EXTENDS UbxWatch

\* A sample that keeps the order of the payload's bytes and one value for each.
Reversed(payload) == <<"sample", Reverse(payload)>>
==============================================================================
