-------------------------- MODULE VisibilityGrant --------------------------
(***************************************************************************)
(* What a relationship promises, without transactions: one broker/client   *)
(* link is withheld, granted or closed.  It is granted only together with  *)
(* the broker's consent, it may fall back to withheld, and once closed it  *)
(* never grants anything again.  Relationships implements this module.     *)
(***************************************************************************)

CONSTANT Id                 \* relationship rows

VARIABLES grant,            \* grant[i]: what row i lets the client organisation see
          consents          \* the rows whose broker consent is on record

vars == <<grant, consents>>

Init == /\ grant = [i \in Id |-> "withheld"]
        /\ consents = {}

\* Consent and visibility arrive in one step.
Grant(i) == /\ grant[i] = "withheld"
            /\ grant' = [grant EXCEPT ![i] = "granted"]
            /\ consents' = consents \union {i}

\* A late refusal takes the grant back; the consent stays on record.
Withhold(i) == /\ grant[i] = "granted"
               /\ grant' = [grant EXCEPT ![i] = "withheld"]
               /\ UNCHANGED consents

\* Revoked by the broker or ended by the client: final, and only after a consent.
Close(i) == /\ grant[i] # "closed"
            /\ i \in consents
            /\ grant' = [grant EXCEPT ![i] = "closed"]
            /\ UNCHANGED consents

Next == \E i \in Id : Grant(i) \/ Withhold(i) \/ Close(i)

Spec == Init /\ [][Next]_vars
=============================================================================
