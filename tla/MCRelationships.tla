-------------------------- MODULE MCRelationships --------------------------
(***************************************************************************)
(* Instances of Relationships for TLC.  Three brokers (one of them without *)
(* an account) and two client organisations; the ids are the rows the      *)
(* calls may create.                                                       *)
(***************************************************************************)
EXTENDS Relationships, TLC

CONSTANTS ann, ben, cat, lender, aggregator, r1, r2, q1, q2, q3, q4

\* Every row links the same broker and organisation.
SameBroker == [i \in Id |-> ann]
SameOrg    == [i \in Id |-> lender]
SamePanel  == [i \in Id |-> "lender_panel"]

\* Different parties.  cat has no account, and ben is party to no row.
MixedBroker == (r1 :> ann @@ r2 :> cat)
MixedOrg    == (r1 :> lender @@ r2 :> aggregator)
MixedType   == (r1 :> "lender_panel" @@ r2 :> "aggregator_membership")

Calls == Permutations(Request)
=============================================================================
