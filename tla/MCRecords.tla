------------------------------ MODULE MCRecords ------------------------------
(***************************************************************************)
(* An instance of Records for TLC: two document types, one check type, a   *)
(* broker and a client user.                                               *)
(***************************************************************************)
EXTENDS Records, TLC

CONSTANTS kyc, ann, rita, q1, q2, q3, q4

Calls == Permutations(Request)
=============================================================================
