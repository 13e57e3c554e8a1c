----------------------------- MODULE MCDemoData -----------------------------
(***************************************************************************)
(* An instance of DemoData for TLC: two runs of one seed and one purge, a  *)
(* broker who signed up herself, and the demo broker joining her business. *)
(***************************************************************************)
EXTENDS DemoData, TLC

CONSTANTS bank, rita, ava, sue, s1, s2, p1

TwoSeeds == (s1 :> "demo" @@ s2 :> "demo" @@ p1 :> "purge")
Rosters  == [s \in Seeds |-> IF s = "demo" THEN <<rita, ava>> ELSE <<bank>>]
Targets  == (ava :> "requested")

\* The demo broker registered by s1 joins sue's business, and her confirmation is audited; an
\* accreditation of hers names the business of the one registered by s2 as licence holder.
Meanwhile == {Affiliation(<<ava, s1>>, sue), <<"others_audit", <<ava, s1>>, sue>>,
              Licensed(sue, <<ava, s2>>)}
=============================================================================
