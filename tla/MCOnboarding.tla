---------------------------- MODULE MCOnboarding ----------------------------
(***************************************************************************)
(* An instance of Onboarding for TLC: a broker with his own licence and at *)
(* most one membership, and one client user.                               *)
(***************************************************************************)
EXTENDS Onboarding, TLC

CONSTANTS rita, m1, q1, q2, q3

Patches == { [fills |-> {}, clears |-> {}, licence |-> "credit_representative"],
             [fills |-> {}, clears |-> {"address"}, licence |-> "own_credit_licence"] }

Calls == Permutations(Request)
=============================================================================
