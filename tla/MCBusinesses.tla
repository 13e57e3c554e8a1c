---------------------------- MODULE MCBusinesses ----------------------------
(***************************************************************************)
(* Instances of Businesses for TLC: a trust ann has founded and ben has    *)
(* asked to join, and a sole trader's business that does not exist yet.    *)
(***************************************************************************)
EXTENDS Businesses, TLC

CONSTANTS ann, ben, trust, solo, a1, a2, q1, q2, q3

Entities == (trust :> "trust" @@ solo :> "sole_trader")

Founded == [broker |-> ann, business |-> trust, status |-> "active", ended_at |-> FALSE]
Asked   == [broker |-> ben, business |-> trust, status |-> "pending_confirmation",
            ended_at |-> FALSE]

Affiliated == (a1 :> Founded @@ a2 :> Asked)

Calls == Permutations(Request)
=============================================================================
