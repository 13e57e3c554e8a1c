-------------------------- MODULE MCAccreditation --------------------------
(***************************************************************************)
(* Instances of Accreditation for TLC: up to two accreditations of one     *)
(* scope or of two, held through one business, with different histories on *)
(* file.                                                                   *)
(***************************************************************************)
EXTENDS Accreditation, TLC

CONSTANTS a1, a2, home, car, firm, rita, sam, q1, q2, q3

SameScope     == [i \in Id |-> home]
TwoScopes     == (a1 :> home @@ a2 :> car)
SameBusiness  == [i \in Id |-> firm]

FirstRequested == [i \in Id |-> IF i = a1 THEN <<"request">> ELSE <<>>]
FirstEscalated == [i \in Id |-> IF i = a1 THEN <<"request", "escalate">> ELSE <<>>]
BothApproved   == [i \in Id |-> <<"request", "approve">>]

Calls == Permutations(Request)
=============================================================================
