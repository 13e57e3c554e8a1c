----------------------------- MODULE MCSessions -----------------------------
(***************************************************************************)
(* An instance of Sessions for TLC: an address that is not yet registered, *)
(* a client user who has finished MFA enrolment, one who has not, and a    *)
(* platform administrator.  Each existing account has a session and an     *)
(* unredeemed reset from before, and one backup code is enough for two     *)
(* calls to want the same one.                                             *)
(***************************************************************************)
EXTENDS Sessions, TLC

CONSTANTS bea, uma, una, adm, bea0, uma0, una0, adm0, q1, q2, q3, k1

FirstOf == (bea :> bea0 @@ uma :> uma0 @@ una :> una0 @@ adm :> adm0)

Calls == Permutations(Request)
=============================================================================
