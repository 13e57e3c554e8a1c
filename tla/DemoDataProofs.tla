--------------------------- MODULE DemoDataProofs ---------------------------
(***************************************************************************)
(* What holds of DemoData for every set of runs, every roster and whatever *)
(* the application writes meanwhile, also with several purges at once.     *)
(***************************************************************************)
EXTENDS DemoData, SequenceTheorems, TLAPS

(***************************************************************************)
(* The inductive invariant.                                                *)
(***************************************************************************)
\* Where a run is agrees with its script, its roster and the item it is at.
Places ==
  \A r \in Run :
    /\ IsSeed(r) => /\ pc[r] \in {"find", "create", "call", "done", "failed"}
                    /\ pc[r] # "done" => at[r] \in DOMAIN Roster[ScriptOf[r]]
                    /\ pc[r] = "done" => at[r] = Len(Roster[ScriptOf[r]]) + 1
    /\ IsPurge(r) => pc[r] \notin {"find", "create", "call"}
    /\ pc[r] = "call" => made[r][Current(r)] \in 1..(Len(Calls(Current(r), r)) - 1)

\* A run begins an item when it gets to it, and goes on to its last call or breaks off there.
Progress ==
  \A r \in Run :
    /\ IsPurge(r) => \A x \in Item : made[r][x] = 0
    /\ IsSeed(r) => \A i \in DOMAIN Roster[ScriptOf[r]] :
         LET x == Roster[ScriptOf[r]][i] IN
         /\ at[r] < i \/ (at[r] = i /\ pc[r] \in {"find", "create"}) => made[r][x] = 0
         /\ i < at[r] => \E w \in Run : made[w][x] > 0
    /\ \A x \in Item : made[r][x] <= Len(Calls(x, r))
    /\ \A x \in Item : made[r][x] > 0 =>
         \/ made[r][x] = Len(Calls(x, r))
         \/ IsSeed(r) /\ pc[r] \in {"call", "failed"} /\ Current(r) = x

\* The rows are well formed, and name brokers who have registered.
WellFormed(x) == /\ x[2] # Nobody \/ x[3] # Nobody
                 /\ x[1] = "broker_profiles" => x = Profile(x[2])
                 /\ x[1] = "broker_businesses" => x = Business(x[3])
                 /\ OfAccreditation(x) => x[1] \in AboutAccreditation

Shapes ==
  /\ \A x \in rows : WellFormed(x)
  /\ \A x \in rows, e \in Email, w \in Run : x[2] = <<e, w>> => made[w][e] > 0
  /\ \A e \in Email, w \in Run : Business(<<e, w>>) \in rows => made[w][e] > 5

\* The foreign keys, also for what stays if the purges commit.
ForeignKeys ==
  /\ \A x \in rows : Parents(x) \subseteq rows
  /\ \A r \in Run : \A x \in rows \ doomed[r] : Parents(x) \intersect doomed[r] = {}
  /\ \A r, q \in Run : r # q => doomed[r] \intersect doomed[q] = {}

\* Rows about an accreditation go with it, and a founder is affiliated with his business.
Companions ==
  /\ \A x \in rows : OfAccreditation(x) /\ Profile(x[2]) \in rows
                       => Accreditation(x[2], x[3]) \in rows
  /\ \A e \in Email, w \in Run :
       LET b == <<e, w>> IN
       Profile(b) \in rows /\ Business(b) \in rows => Affiliation(b, b) \in rows

\* What a purge has read.
ReadsOf(r) ==
  LET c == collected[r] IN
  /\ \A e \in Email, w \in Run : /\ <<e, w>> \in c.brokers => made[w][e] > 0
                                 /\ <<e, w>> \in c.businesses => made[w][e] > 5
  /\ pc[r] \in {"accreditations", "delete", "commit"} =>
       \A b \in c.brokers \ c.businesses :
         Profile(b) \in rows /\ Business(b) \in rows => Business(b) \in late[r]
  /\ pc[r] \in {"delete", "commit"} =>
       /\ \A x \in c.accreditations : x[2] \in c.brokers
       /\ \A x \in rows : x[1] \in Accreditations /\ x[2] \in c.brokers
                         => x \in c.accreditations \/ x \in late[r]

Reads == \A r \in Run : ReadsOf(r)

\* What a purge has deleted so far.
DeletesOf(r) ==
  LET c == collected[r] IN
  /\ pc[r] \notin {"delete", "commit"} => doomed[r] = {}
  /\ IsPurge(r) /\ ~Open(r) => late[r] = {}
  /\ pc[r] \in {"brokers", "businesses", "accreditations"} => at[r] = 1
  /\ pc[r] = "delete" => at[r] \in 1..LastTurn
  /\ pc[r] = "commit" => at[r] = LastTurn + 1
  /\ pc[r] \in {"delete", "commit"} =>
       /\ \A x \in doomed[r] : Turn[x[1]] \in 1..(at[r] - 1) /\ Matches(x, c)
       /\ \A x \in rows : Turn[x[1]] \in 1..(at[r] - 1) /\ Matches(x, c)
                            => x \in doomed[r] \union late[r]
       /\ at[r] > Turn["broker_profiles"] =>
            \A b \in c.brokers : Profile(b) \in rows => Profile(b) \in doomed[r]
       /\ at[r] > Turn["broker_businesses"] =>
            \A z \in c.businesses : Business(z) \in rows => Business(z) \in doomed[r]

Deletes == \A r \in Run : DeletesOf(r)

IInv == /\ TypeOK
        /\ Places
        /\ Progress
        /\ Shapes
        /\ ForeignKeys
        /\ Companions
        /\ Reads
        /\ Deletes
        /\ NeverHalfPurged

(***************************************************************************)
(* The schema and the calls.                                               *)
(***************************************************************************)
USE DEF Accreditations, Others

\* The tables of the schema.
LEMMA TableIs ==
  Table = {"notifications", "training_confirmations", "accreditation_decisions",
           "accreditations", "evidence", "check_result", "check_with_evidence",
           "relationships", "business_principals", "business_affiliations",
           "broker_businesses", "association_memberships", "metering_event", "audit_log",
           "broker_profiles", "licensed_accreditations", "others_audit", "others_notices"}
BY DEF Table, Turn

\* The statement that deletes from each table.
LEMMA TurnIs ==
  /\ \A t \in Table : Turn[t] \in 0..LastTurn /\ (t \notin Others => Turn[t] \in 1..LastTurn)
  /\ Turn["others_audit"] = 0 /\ Turn["others_notices"] = 0
  /\ Turn["licensed_accreditations"] = 4
  /\ Turn["accreditation_decisions"] = 3 /\ Turn["training_confirmations"] = 2
  /\ Turn["accreditations"] = 4 /\ Turn["relationships"] = 7
  /\ Turn["business_principals"] = 8 /\ Turn["business_affiliations"] = 9
  /\ Turn["broker_businesses"] = 10 /\ Turn["association_memberships"] = 11
  /\ Turn["metering_event"] = 12 /\ Turn["broker_profiles"] = 14
  /\ Turn["notifications"] = 1 /\ Turn["audit_log"] = 13
BY TableIs DEF Turn, LastTurn, Others

\* The rows about broker b that a call may write after the one that registers him, without
\* his business.
OwnRows(b) ==
  {y \in Row : /\ y[1] \notin {"broker_profiles", "broker_businesses"}
               /\ y[2] \in {b, Nobody}
               /\ y[3] \in {b, Nobody}
               /\ y[2] = b \/ y[3] = b
               /\ OfAccreditation(y) => y[1] \in AboutAccreditation}

LEMMA OwnRow ==
  ASSUME NEW b \in Broker, NEW t \in Table, t \notin {"broker_profiles", "broker_businesses"}
  PROVE  /\ <<t, b, Nobody>> \in OwnRows(b)
         /\ <<t, Nobody, b>> \in OwnRows(b)
         /\ t \in AboutAccreditation \union {"business_affiliations"} => <<t, b, b>> \in OwnRows(b)
BY NameAssumption DEF OwnRows, Row, Party, OfAccreditation

\* What a call leaves behind besides the profile and the business are rows about b.
LEMMA OwnWrites ==
  ASSUME NEW b \in Broker
  PROVE  /\ \A S \in SUBSET OwnRows(b) : Audited(b, S) \in SUBSET OwnRows(b)
         /\ {<<"association_memberships", b, Nobody>>} \in SUBSET OwnRows(b)
         /\ {Notice(b)} \in SUBSET OwnRows(b)
         /\ {Affiliation(b, b)} \in SUBSET OwnRows(b)
         /\ {<<"business_principals", Nobody, b>>} \in SUBSET OwnRows(b)
         /\ {Relationship(b), <<"metering_event", b, Nobody>>} \in SUBSET OwnRows(b)
         /\ {Relationship(b), <<"others_audit", b, Nobody>>} \in SUBSET OwnRows(b)
         /\ {Accreditation(b, b), <<"notifications", b, b>>} \in SUBSET OwnRows(b)
         /\ Decided(b) \in SUBSET OwnRows(b)
         /\ Escalated(b) \in SUBSET OwnRows(b)
         /\ Trained(b) \in SUBSET OwnRows(b)
         /\ Activated(b) \in SUBSET OwnRows(b)
         /\ Deadline \in SUBSET OwnRows(b)
BY OwnRow, TableIs
   DEF Audited, Notice, Affiliation, Relationship, Accreditation, Decided, Escalated, Trained,
       Activated, Logged, Deadline, AboutAccreditation

\* The decisions of either seed write rows about b.
LEMMA DecisionsOwn ==
  ASSUME NEW b \in Broker
  PROVE  /\ \A t \in DemoTarget \ {"invited_only"} : DemoDecisions(b)[t] \in Seq(SUBSET OwnRows(b))
         /\ \A t \in AmpTarget : AmpDecisions(b)[t] \in Seq(SUBSET OwnRows(b))
<1> DEFINE D == SUBSET OwnRows(b)
<1>1. /\ Decided(b) \in D /\ Escalated(b) \in D /\ Trained(b) \in D
      /\ Activated(b) \in D /\ Deadline \in D
  BY OwnWrites
<1> HIDE DEF D
<1>2. ASSUME NEW t \in DemoTarget \ {"invited_only"}
      PROVE  DemoDecisions(b)[t] \in Seq(D)
  <2>1. CASE t = "requested" BY <2>1 DEF DemoDecisions
  <2>2. CASE t = "information_required" BY <1>1, <2>2 DEF DemoDecisions
  <2>8. CASE t = "declined" BY <1>1, <2>8 DEF DemoDecisions
  <2>9. CASE t = "pending" BY <1>1, <2>9 DEF DemoDecisions
  <2>3. CASE t = "exception_escalated" BY <1>1, <2>3 DEF DemoDecisions
  <2>4. CASE t = "active" BY <1>1, <2>4 DEF DemoDecisions
  <2>5. CASE t = "active_partial_training" BY <1>1, <2>5 DEF DemoDecisions
  <2>6. CASE t = "lapsed" BY <1>1, <2>6 DEF DemoDecisions
  <2> QED BY <2>1, <2>2, <2>3, <2>4, <2>5, <2>6, <2>8, <2>9 DEF DemoTarget
<1>3. ASSUME NEW t \in AmpTarget
      PROVE  AmpDecisions(b)[t] \in Seq(D)
  <2>1. CASE t = "requested" BY <2>1 DEF AmpDecisions
  <2>2. CASE t = "information_required" BY <1>1, <2>2 DEF AmpDecisions
  <2>8. CASE t = "declined" BY <1>1, <2>8 DEF AmpDecisions
  <2>9. CASE t = "pending_healthy" BY <1>1, <2>9 DEF AmpDecisions
  <2>3. CASE t = "exception_escalated" BY <1>1, <2>3 DEF AmpDecisions
  <2>4. CASE t = "active" BY <1>1, <2>4 DEF AmpDecisions
  <2>5. CASE t = "active_partial_training" BY <1>1, <2>5 DEF AmpDecisions
  <2>6. CASE t = "lapsed" BY <1>1, <2>6 DEF AmpDecisions
  <2>7. CASE t = "pending_urgent" BY <1>1, <2>7 DEF AmpDecisions
  <2>10. CASE t = "pending_soon" BY <1>1, <2>10 DEF AmpDecisions
  <2> QED BY <2>1, <2>2, <2>3, <2>4, <2>5, <2>6, <2>7, <2>8, <2>9, <2>10 DEF AmpTarget
<1> QED BY <1>2, <1>3 DEF D

\* The calls for a broker: registration first, his business at the sixth, and besides them
\* nothing but rows about him.
LEMMA CallsOfEmail ==
  ASSUME NEW x \in Email, NEW r \in Run
  PROVE  LET b == <<x, r>> IN
         /\ Len(Calls(x, r)) \in Nat /\ Len(Calls(x, r)) >= 8
         /\ Calls(x, r)[1] = Audited(b, {Profile(b)})
         /\ Calls(x, r)[6] = Audited(b, {Business(b), Affiliation(b, b)})
         /\ \A n \in 1..Len(Calls(x, r)) : n \notin {1, 6} => Calls(x, r)[n] \subseteq OwnRows(b)
<1> DEFINE b == <<x, r>>
           D == SUBSET OwnRows(b)
           A == D \union {Audited(b, {Profile(b)}), Audited(b, {Business(b), Affiliation(b, b)})}
<1>1. b \in Broker
  BY DEF Broker, DemoBroker
<1>2. /\ Audited(b, {}) \in D
      /\ Audited(b, {<<"association_memberships", b, Nobody>>}) \in D
      /\ Audited(b, {Notice(b)}) \in D
      /\ Audited(b, {<<"business_principals", Nobody, b>>}) \in D
      /\ Audited(b, {Relationship(b), <<"metering_event", b, Nobody>>}) \in D
      /\ Audited(b, {Accreditation(b, b), <<"notifications", b, b>>}) \in D
      /\ {Relationship(b), <<"others_audit", b, Nobody>>} \in D
  BY <1>1, OwnWrites
<1> HIDE DEF b
<1>3. D \subseteq A /\ Audited(b, {Profile(b)}) \in A
      /\ Audited(b, {Business(b), Affiliation(b, b)}) \in A
  OBVIOUS
<1> HIDE DEF D, A
<1>4. /\ Onboarded(b) \in Seq(A)
      /\ Len(Onboarded(b)) = 8
      /\ Onboarded(b)[1] = Audited(b, {Profile(b)})
      /\ Onboarded(b)[6] = Audited(b, {Business(b), Affiliation(b, b)})
      /\ \A n \in 1..8 : n \notin {1, 6} => Onboarded(b)[n] \in D
  <2>1. Onboarded(b) \in Seq(A) /\ Len(Onboarded(b)) = 8
    BY <1>2, <1>3 DEF Onboarded
  <2>2. /\ Onboarded(b)[1] = Audited(b, {Profile(b)})
        /\ Onboarded(b)[6] = Audited(b, {Business(b), Affiliation(b, b)})
    BY DEF Onboarded
  <2>3. ASSUME NEW n \in 1..8, n \notin {1, 6} PROVE Onboarded(b)[n] \in D
    BY <1>2, <2>3 DEF Onboarded
  <2> QED BY <2>1, <2>2, <2>3
<1>5. Linked(b) \in Seq(D)
  BY <1>2 DEF Linked
<1>6. \E R \in Seq(D) : Calls(x, r) = Onboarded(b) \o R
  <2> USE DEF b
  <2>1. /\ \A t \in DemoTarget \ {"invited_only"} : DemoDecisions(b)[t] \in Seq(D)
        /\ \A t \in AmpTarget : AmpDecisions(b)[t] \in Seq(D)
    BY <1>1, DecisionsOwn DEF D
  <2>2. x \notin Organisation /\ x \notin Reviewer
    BY NameAssumption
  <2>3. CASE x \in DemoEmail /\ Target[x] = "invited_only"
    <3>1. <<{Relationship(b), <<"others_audit", b, Nobody>>}>> \in Seq(D)
      BY <1>2
    <3> QED BY <3>1, <2>2, <2>3 DEF Calls, DemoCalls
  <2>4. CASE x \in DemoEmail /\ Target[x] # "invited_only"
    <3>1. DemoDecisions(b)[Target[x]] \in Seq(D)
      BY <2>1, <2>4, ScriptAssumption
    <3>2. Linked(b) \o DemoDecisions(b)[Target[x]] \in Seq(D)
      BY <3>1, <1>5, ConcatProperties
    <3> QED BY <3>2, <2>2, <2>4 DEF Calls, DemoCalls
  <2>5. CASE x \in AmpEmail
    <3>1. AmpDecisions(b)[Target[x]] \in Seq(D)
      BY <2>1, <2>5, ScriptAssumption
    <3>2. Linked(b) \o AmpDecisions(b)[Target[x]] \in Seq(D)
      BY <3>1, <1>5, ConcatProperties
    <3>3. x \notin DemoEmail
      BY <2>5, NameAssumption
    <3> QED BY <3>2, <3>3, <2>2 DEF Calls, AmpCalls
  <2> QED BY <2>3, <2>4, <2>5 DEF Email
<1>7. PICK R \in Seq(D) : Calls(x, r) = Onboarded(b) \o R
  BY <1>6
<1>8. R \in Seq(A)
  BY <1>3
<1>9. /\ Len(Calls(x, r)) = 8 + Len(R)
      /\ \A i \in 1 .. 8 + Len(R) :
           Calls(x, r)[i] = IF i <= 8 THEN Onboarded(b)[i] ELSE R[i - 8]
  <2>1. Onboarded(b) \in Seq(A)
    BY <1>4
  <2>2. /\ Len(Onboarded(b) \o R) = Len(Onboarded(b)) + Len(R)
        /\ \A i \in 1 .. Len(Onboarded(b)) + Len(R) : (Onboarded(b) \o R)[i] =
              IF i <= Len(Onboarded(b)) THEN Onboarded(b)[i] ELSE R[i - Len(Onboarded(b))]
    BY ONLY <2>1, <1>8, ConcatProperties, ZenonT(60)
  <2> QED BY <2>2, <1>4, <1>7, ZenonT(60)
<1>10. Len(R) \in Nat /\ \A i \in 1..Len(R) : R[i] \in D
  OBVIOUS
<1>11. ASSUME NEW n \in 1..Len(Calls(x, r)), n \notin {1, 6}
       PROVE  Calls(x, r)[n] \in D
  <2>1. CASE n <= 8
    <3>1. n \in 1..8 /\ n \in 1 .. 8 + Len(R) BY <2>1, <1>9
    <3>2. Calls(x, r)[n] = Onboarded(b)[n] BY <3>1, <2>1, <1>9
    <3> QED BY <3>1, <3>2, <1>4, <1>11
  <2>2. CASE n > 8
    <3>1. n - 8 \in 1..Len(R) BY <2>2, <1>9, <1>10
    <3> QED BY <3>1, <2>2, <1>9, <1>10
  <2> QED BY <2>1, <2>2
<1>12. Calls(x, r)[1] = Onboarded(b)[1] /\ Calls(x, r)[6] = Onboarded(b)[6]
  BY <1>9, <1>10
<1>13. Len(Calls(x, r)) \in Nat /\ Len(Calls(x, r)) >= 8
  BY <1>9, <1>10
<1>14. \A n \in 1..Len(Calls(x, r)) : n \notin {1, 6} => Calls(x, r)[n] \subseteq OwnRows(b)
  BY <1>11 DEF D
<1> QED BY <1>4, <1>12, <1>13, <1>14 DEF b

\* Organisations and reviewers take two calls, which write no row of the demo.
LEMMA CallsOfOthers ==
  ASSUME NEW x \in Organisation \union Reviewer, NEW r \in Run
  PROVE  /\ Len(Calls(x, r)) = 2
         /\ Calls(x, r)[1] = {} /\ Calls(x, r)[2] = {}
BY NameAssumption DEF Calls, OrganisationCalls, ReviewerCalls


(***************************************************************************)
(* Steps that write rows, for a seed or for the application.               *)
(***************************************************************************)
SeedPlace == {"find", "create", "call", "done", "failed"}

\* What a step of a seed or of the application leaves to the purges.
Apart ==
  /\ collected' = collected
  /\ \A p \in Run : IsPurge(p) => pc'[p] = pc[p] /\ at'[p] = at[p]
  /\ \A p \in Run : IsSeed(p) => pc'[p] \in SeedPlace
  /\ made' \in [Run -> [Item -> Nat]]
  /\ \A e \in Email, w \in Run : made'[w][e] >= made[w][e]

\* What such a step may write.
Fresh(W) ==
  /\ W \subseteq Row
  /\ \A y \in W : WellFormed(y)
  /\ \A y \in W, e \in Email, w \in Run : y[2] = <<e, w>> => made'[w][e] > 0
  /\ \A b \in Stranger : Profile(b) \notin W /\ Business(b) \notin W
  /\ \A e \in Email, w \in Run : Profile(<<e, w>>) \in W => made[w][e] = 0
  /\ \A e \in Email, w \in Run :
       Business(<<e, w>>) \in W => /\ made[w][e] = 5 /\ made'[w][e] > 5
                                   /\ Affiliation(<<e, w>>, <<e, w>>) \in W
  /\ \A e \in Email, w \in Run : \A n \in 1..made'[w][e] :
       n <= made[w][e] \/ Calls(e, w)[n] \subseteq W

\* A broker is one of the seeds' or a stranger.
LEMMA Brokers ==
  /\ \A b \in Broker : b \in Stranger \/ \E e \in Email, w \in Run : b = <<e, w>>
  /\ \A e \in Email, w \in Run : <<e, w>> \in Broker /\ <<e, w>> \in DemoBroker
  /\ \A b \in Stranger : b \in Broker /\ b \notin DemoBroker
  /\ Nobody \notin Broker
BY NameAssumption DEF Broker, DemoBroker

\* A run is a seed or a purge, and only a purge is at a purge's places.
LEMMA Runs ==
  ASSUME Places, NEW r \in Run
  PROVE  /\ IsSeed(r) \/ IsPurge(r)
         /\ ~(IsSeed(r) /\ IsPurge(r))
         /\ IsSeed(r) => pc[r] \in SeedPlace
BY ScriptAssumption DEF Places, IsSeed, IsPurge, Seeds, SeedPlace

\* The rows stay well formed.
LEMMA WriteShapes ==
  ASSUME TypeOK, Shapes, NEW W, Write(W), Fresh(W), Apart
  PROVE  Shapes'
<1>1. rows' = rows \union W
  BY DEF Write
<1>2. \A x \in rows' : WellFormed(x)
  BY <1>1 DEF Shapes, Fresh
<1>3. ASSUME NEW x \in rows', NEW e \in Email, NEW w \in Run, x[2] = <<e, w>>
      PROVE  made'[w][e] > 0
  <2>1. made[w][e] \in Nat /\ made'[w][e] \in Nat
    BY DEF TypeOK, Apart, Item
  <2> QED BY <1>1, <1>3, <2>1 DEF Shapes, Fresh, Apart
<1>4. ASSUME NEW e \in Email, NEW w \in Run, Business(<<e, w>>) \in rows'
      PROVE  made'[w][e] > 5
  <2>1. made[w][e] \in Nat /\ made'[w][e] \in Nat
    BY DEF TypeOK, Apart, Item
  <2> QED BY <1>1, <1>4, <2>1 DEF Shapes, Fresh, Apart
<1> QED BY <1>2, <1>3, <1>4 DEF Shapes, WellFormed, OfAccreditation, Profile, Business

\* The rows written find their parents outside what the purges have deleted.
LEMMA WriteForeignKeys ==
  ASSUME TypeOK, ForeignKeys, NEW W, Write(W)
  PROVE  ForeignKeys'
<1>1. /\ rows' = rows \union W
      /\ \A p \in Run : doomed'[p] = doomed[p] \ W
      /\ \A x \in W : Parents(x) \subseteq (rows \ Locked) \union W
  BY DEF Write, Admitted
<1>2. \A p \in Run : doomed[p] \subseteq Locked
  BY DEF Locked
<1>3. \A x \in rows' : Parents(x) \subseteq rows'
  BY <1>1 DEF ForeignKeys
<1>4. ASSUME NEW r \in Run, NEW x \in rows' \ doomed'[r]
      PROVE  Parents(x) \intersect doomed'[r] = {}
  <2>1. CASE x \in W BY <2>1, <1>1, <1>2
  <2>2. CASE x \notin W
    <3>1. x \in rows \ doomed[r] BY <2>2, <1>1, <1>4
    <3> QED BY <3>1, <1>1 DEF ForeignKeys
  <2> QED BY <2>1, <2>2
<1>5. \A r, q \in Run : r # q => doomed'[r] \intersect doomed'[q] = {}
  BY <1>1 DEF ForeignKeys
<1> QED BY <1>3, <1>4, <1>5 DEF ForeignKeys, Parents, NamesBroker, NamesBusiness,
    Profile, Business, Relationship, Accreditation

\* What is about an accreditation finds it, and the business comes with its affiliation.
LEMMA WriteCompanions ==
  ASSUME TypeOK, Shapes, Companions, NEW W, Write(W), Fresh(W)
  PROVE  Companions'
<1>1. /\ rows' = rows \union W
      /\ \A x \in W : Lookups(x) \subseteq rows \union W
  BY DEF Write, Admitted
<1>2. ASSUME NEW x \in rows', OfAccreditation(x), Profile(x[2]) \in rows'
      PROVE  Accreditation(x[2], x[3]) \in rows'
  <2>1. CASE x \in W
    BY <2>1, <1>1, <1>2 DEF Lookups
  <2>2. CASE x \in rows /\ Profile(x[2]) \in rows
    BY <2>2, <1>1, <1>2 DEF Companions
  <2>3. CASE x \in rows /\ Profile(x[2]) \in W
    <3>1. x[2] \in Broker
      BY <2>3, <1>2 DEF TypeOK, Row, Party, OfAccreditation
    <3>2. x[2] \notin Stranger
      BY <2>3 DEF Fresh
    <3>3. PICK e \in Email, w \in Run : x[2] = <<e, w>>
      BY <3>1, <3>2, Brokers
    <3>4. made[w][e] = 0 /\ made[w][e] > 0
      BY <2>3, <3>3 DEF Fresh, Shapes
    <3> QED BY <3>4
  <2> QED BY <2>1, <2>2, <2>3, <1>1, <1>2
<1>3. ASSUME NEW e \in Email, NEW w \in Run,
             Profile(<<e, w>>) \in rows', Business(<<e, w>>) \in rows'
      PROVE  Affiliation(<<e, w>>, <<e, w>>) \in rows'
  <2>1. CASE Business(<<e, w>>) \in W
    BY <2>1, <1>1 DEF Fresh
  <2>2. CASE Business(<<e, w>>) \in rows /\ Profile(<<e, w>>) \in rows
    BY <2>2, <1>1 DEF Companions
  <2>3. CASE Business(<<e, w>>) \in rows /\ Profile(<<e, w>>) \in W
    <3>1. made[w][e] = 0 /\ made[w][e] > 5
      BY <2>3 DEF Fresh, Shapes
    <3> QED BY <3>1
  <2> QED BY <2>1, <2>2, <2>3, <1>1, <1>3
<1> QED BY <1>2, <1>3 DEF Companions, OfAccreditation, Profile, Business, Affiliation, Accreditation

\* What appears after a purge has read it is among the late rows.
LEMMA WriteReads ==
  ASSUME TypeOK, Places, Shapes, Reads, NEW W, Write(W), Fresh(W), Apart
  PROVE  Reads'
<1>1. /\ rows' = rows \union W
      /\ late' = [p \in Run |-> IF Open(p) THEN late[p] \union W ELSE late[p]]
  BY DEF Write
<1> SUFFICES ASSUME NEW r \in Run PROVE ReadsOf(r)'
  BY DEF Reads
<1> DEFINE c == collected[r]
<1>2. collected'[r] = c
  BY DEF Apart
<1>3. ASSUME NEW e \in Email, NEW w \in Run
      PROVE  /\ <<e, w>> \in c.brokers => made'[w][e] > 0
             /\ <<e, w>> \in c.businesses => made'[w][e] > 5
  <2>1. made[w][e] \in Nat /\ made'[w][e] \in Nat /\ made'[w][e] >= made[w][e]
    BY DEF TypeOK, Apart, Item
  <2> QED BY <2>1 DEF Reads, ReadsOf
<1>4. ASSUME pc'[r] \in {"accreditations", "delete", "commit"}
      PROVE  /\ pc'[r] = pc[r]
             /\ late'[r] = late[r] \union W
  BY <1>1, <1>4, Runs DEF Apart, SeedPlace, Open
<1>5. ASSUME pc'[r] \in {"accreditations", "delete", "commit"}, NEW b \in c.brokers \ c.businesses,
             Profile(b) \in rows', Business(b) \in rows'
      PROVE  Business(b) \in late'[r]
  <2>1. CASE Business(b) \in W
    BY <2>1, <1>4, <1>5
  <2>2. CASE Business(b) \in rows /\ Profile(b) \in rows
    BY <2>2, <1>4, <1>5 DEF Reads, ReadsOf
  <2>3. CASE Profile(b) \in W
    <3>1. PICK e \in Email, w \in Run : b = <<e, w>>
      BY DEF TypeOK, DemoBroker
    <3>2. made[w][e] = 0 /\ made[w][e] > 0
      BY <2>3, <3>1 DEF Fresh, Reads, ReadsOf
    <3> QED BY <3>2
  <2> QED BY <2>1, <2>2, <2>3, <1>1, <1>5
<1>6. ASSUME pc'[r] \in {"delete", "commit"}
      PROVE  /\ \A x \in c.accreditations : x[2] \in c.brokers
             /\ \A x \in rows' : x[1] \in Accreditations /\ x[2] \in c.brokers
                                  => x \in c.accreditations \/ x \in late'[r]
  <2>1. pc[r] \in {"delete", "commit"}
    BY <1>4, <1>6
  <2> QED BY <1>1, <1>4, <1>6, <2>1 DEF Reads, ReadsOf
<1> QED BY <1>2, <1>3, <1>5, <1>6 DEF ReadsOf, Profile, Business

\* A profile or a business that a purge has deleted does not come back.
LEMMA WriteDeletes ==
  ASSUME TypeOK, Places, Shapes, Reads, Deletes, NEW W, Write(W), Fresh(W), Apart
  PROVE  Deletes'
<1>1. /\ rows' = rows \union W
      /\ \A p \in Run : doomed'[p] = doomed[p] \ W
      /\ late' = [p \in Run |-> IF Open(p) THEN late[p] \union W ELSE late[p]]
  BY DEF Write
<1> SUFFICES ASSUME NEW r \in Run PROVE DeletesOf(r)'
  BY DEF Deletes
<1>2. CASE IsSeed(r)
  <2>1. ~IsPurge(r) /\ pc[r] \in SeedPlace /\ pc'[r] \in SeedPlace
    BY <1>2, Runs DEF Apart
  <2>2. doomed[r] = {}
    BY <2>1 DEF Deletes, DeletesOf, SeedPlace
  <2> QED BY <1>1, <2>1, <2>2 DEF DeletesOf, SeedPlace, IsPurge
<1>3. CASE IsPurge(r)
  <2> DEFINE c == collected[r]
  <2>1. pc'[r] = pc[r] /\ at'[r] = at[r] /\ collected'[r] = c
    BY <1>3 DEF Apart
  <2>2. pc'[r] \notin {"delete", "commit"} => doomed'[r] = {}
    BY <1>1, <2>1 DEF Deletes, DeletesOf
  <2>3. ~Open(r)' => late'[r] = {}
    BY <1>1, <1>3, <2>1 DEF Deletes, DeletesOf, Open
  <2>4. /\ pc'[r] \in {"brokers", "businesses", "accreditations"} => at'[r] = 1
        /\ pc'[r] = "delete" => at'[r] \in 1..LastTurn
        /\ pc'[r] = "commit" => at'[r] = LastTurn + 1
    BY <2>1 DEF Deletes, DeletesOf
  <2>5. ASSUME pc'[r] \in {"delete", "commit"}
        PROVE  /\ \A x \in doomed'[r] : Turn[x[1]] \in 1..(at'[r] - 1) /\ Matches(x, c)
               /\ \A x \in rows' : Turn[x[1]] \in 1..(at'[r] - 1) /\ Matches(x, c)
                                    => x \in doomed'[r] \union late'[r]
    <3>1. late'[r] = late[r] \union W
      BY <1>1, <1>3, <2>1, <2>5 DEF Open
    <3> QED BY <1>1, <2>1, <2>5, <3>1 DEF Deletes, DeletesOf
  <2>6. ASSUME pc'[r] \in {"delete", "commit"}, at'[r] > Turn["broker_profiles"],
               NEW b \in c.brokers, Profile(b) \in rows'
        PROVE  Profile(b) \in doomed'[r]
    <3>1. PICK e \in Email, w \in Run : b = <<e, w>>
      BY DEF TypeOK, DemoBroker
    <3>2. made[w][e] > 0 /\ made[w][e] \in Nat
      BY <3>1 DEF Reads, ReadsOf, TypeOK, Item
    <3>3. Profile(b) \notin W
      BY <3>1, <3>2 DEF Fresh
    <3> QED BY <1>1, <2>1, <2>6, <3>3 DEF Deletes, DeletesOf
  <2>7. ASSUME pc'[r] \in {"delete", "commit"}, at'[r] > Turn["broker_businesses"],
               NEW z \in c.businesses, Business(z) \in rows'
        PROVE  Business(z) \in doomed'[r]
    <3>1. Business(z) \notin W
      <4>1. z \in Broker
        BY DEF TypeOK
      <4>2. CASE z \in Stranger
        BY <4>2 DEF Fresh
      <4>3. CASE z \notin Stranger
        <5>1. PICK e \in Email, w \in Run : z = <<e, w>>
          BY <4>1, <4>3, Brokers
        <5>2. made[w][e] > 5 /\ made[w][e] \in Nat
          BY <5>1 DEF Reads, ReadsOf, TypeOK, Item
        <5> QED BY <5>1, <5>2 DEF Fresh
      <4> QED BY <4>2, <4>3
    <3> QED BY <1>1, <2>1, <2>7, <3>1 DEF Deletes, DeletesOf
  <2> QED BY <1>3, <2>1, <2>2, <2>3, <2>4, <2>5, <2>6, <2>7
          DEF DeletesOf, IsPurge, Profile, Business, Matches, OfAccreditation
<1> QED BY <1>2, <1>3, Runs

\* What a broker's calls have written is there, the last call's rows included.
LEMMA WriteNeverHalfPurged ==
  ASSUME TypeOK, NeverHalfPurged, NEW W, Write(W), Fresh(W), Apart
  PROVE  NeverHalfPurged'
<1>1. rows' = rows \union W
  BY DEF Write
<1> SUFFICES ASSUME NEW x \in Email, NEW r \in Run,
                    Profile(<<x, r>>) \in rows', ~SweptAside(<<x, r>>)',
                    NEW n \in 1..made'[r][x]
             PROVE  Calls(x, r)[n] \subseteq rows'
  BY DEF NeverHalfPurged, Profile
<1>2. ~SweptAside(<<x, r>>)
  BY DEF SweptAside, Apart
<1>3. made[r][x] \in Nat /\ made'[r][x] \in Nat
  BY DEF TypeOK, Apart, Item
<1>4. CASE Calls(x, r)[n] \subseteq W
  BY <1>4, <1>1
<1>5. CASE n <= made[r][x]
  <2>1. Profile(<<x, r>>) \notin W
    BY <1>3, <1>5 DEF Fresh
  <2>2. n \in 1..made[r][x]
    BY <1>3, <1>5
  <2> QED BY <2>1, <2>2, <1>1, <1>2 DEF NeverHalfPurged
<1> QED BY <1>4, <1>5 DEF Fresh


\* A step that neither writes nor deletes, nor carries out a broker's call.
LEMMA QuietKeeps ==
  ASSUME IInv, UNCHANGED <<rows, doomed, late>>, Apart,
         \A e \in Email, w \in Run : made'[w][e] = made[w][e]
  PROVE  Shapes' /\ ForeignKeys' /\ Companions' /\ Reads' /\ Deletes' /\ NeverHalfPurged'
<1>1. Shapes'
  BY DEF IInv, Shapes, WellFormed, OfAccreditation, Profile, Business
<1>2. ForeignKeys'
  BY DEF IInv, ForeignKeys, Parents, NamesBroker, NamesBusiness,
      Profile, Business, Relationship, Accreditation
<1>3. Companions'
  BY DEF IInv, Companions, OfAccreditation, Profile, Business, Affiliation, Accreditation
<1>4. \A r \in Run : IsPurge(r) \/ (IsSeed(r) /\ pc[r] \in SeedPlace)
  BY Runs DEF IInv
<1>5. Reads'
  <2>1. \A r \in Run : pc'[r] \in {"accreditations", "delete", "commit"} => pc'[r] = pc[r]
    BY <1>4 DEF Apart, SeedPlace
  <2> QED BY <2>1 DEF IInv, Reads, ReadsOf, Apart, Profile, Business
<1>6. Deletes'
  <2>1. ASSUME NEW r \in Run, IsSeed(r)
        PROVE  /\ doomed[r] = {} /\ ~IsPurge(r)
               /\ pc'[r] \notin {"brokers", "businesses", "accreditations", "delete", "commit"}
    BY <1>4, <2>1, Runs DEF Apart, SeedPlace, Deletes, DeletesOf, IInv
  <2>2. ASSUME NEW r \in Run, IsPurge(r)
        PROVE  pc'[r] = pc[r] /\ at'[r] = at[r]
    BY <2>2 DEF Apart
  <2>3. \A r \in Run : Open(r)' <=> IsPurge(r) /\ pc'[r] \in {"businesses", "accreditations", "delete", "commit"}
    BY DEF Open, IsPurge
  <2>4. \A r \in Run : IsSeed(r) \/ IsPurge(r)
    BY <1>4
  <2> QED BY <2>1, <2>2, <2>3, <2>4
      DEF IInv, Deletes, DeletesOf, Apart, Open, Matches, OfAccreditation, Profile, Business
<1>7. NeverHalfPurged'
  BY DEF IInv, NeverHalfPurged, SweptAside, Apart, Profile
<1> QED BY <1>1, <1>2, <1>3, <1>5, <1>6, <1>7

(***************************************************************************)
(* A seed's place in its roster.                                           *)
(***************************************************************************)
\* Every item takes two calls or more.
LEMMA CallsLen ==
  ASSUME NEW x \in Item, NEW r \in Run
  PROVE  Len(Calls(x, r)) \in Nat /\ Len(Calls(x, r)) >= 2
<1>1. CASE x \in Email
  <2>1. Len(Calls(x, r)) \in Nat /\ Len(Calls(x, r)) >= 8
    BY <1>1, CallsOfEmail, Zenon
  <2> QED BY <2>1
<1>2. CASE x \in Organisation \union Reviewer BY <1>2, CallsOfOthers
<1> QED BY <1>1, <1>2 DEF Item

\* A run that is at an item is a seed, inside a roster without repeats.
LEMMA SeedAtItem ==
  ASSUME TypeOK, Places, NEW r \in Run, pc[r] \in {"find", "create", "call"}
  PROVE  /\ IsSeed(r) /\ ~IsPurge(r)
         /\ Roster[ScriptOf[r]] \in Seq(Item)
         /\ Len(Roster[ScriptOf[r]]) \in Nat
         /\ DOMAIN Roster[ScriptOf[r]] = 1..Len(Roster[ScriptOf[r]])
         /\ at[r] \in 1..Len(Roster[ScriptOf[r]])
         /\ Current(r) \in Item
         /\ \A i, j \in 1..Len(Roster[ScriptOf[r]]) :
              Roster[ScriptOf[r]][i] = Roster[ScriptOf[r]][j] => i = j
<1>1. IsSeed(r) /\ ~IsPurge(r)
  BY Runs DEF Places
<1>2. /\ Roster[ScriptOf[r]] \in Seq(Item)
      /\ \A i, j \in DOMAIN Roster[ScriptOf[r]] :
           Roster[ScriptOf[r]][i] = Roster[ScriptOf[r]][j] => i = j
  BY <1>1, ScriptAssumption DEF IsSeed
<1>3. DOMAIN Roster[ScriptOf[r]] = 1..Len(Roster[ScriptOf[r]]) /\ Len(Roster[ScriptOf[r]]) \in Nat
  BY <1>2
<1>4. at[r] \in 1..Len(Roster[ScriptOf[r]])
  BY <1>1, <1>3 DEF Places
<1> QED BY <1>1, <1>2, <1>3, <1>4 DEF Current

\* At the loop's head and before the first call, nothing of the item is done, and every item
\* begun before it is complete.
LEMMA NotBegun ==
  ASSUME TypeOK, Places, Progress, NEW r \in Run, pc[r] \in {"find", "create"}
  PROVE  /\ made[r][Current(r)] = 0
         /\ \A x \in Item : made[r][x] > 0 => made[r][x] = Len(Calls(x, r))
<1>1. /\ IsSeed(r) /\ at[r] \in 1..Len(Roster[ScriptOf[r]])
      /\ DOMAIN Roster[ScriptOf[r]] = 1..Len(Roster[ScriptOf[r]])
  BY SeedAtItem
<1> QED BY <1>1 DEF Progress, Current

\* Going on to create the item, or breaking off there.
LEMMA MoveKeeps ==
  ASSUME TypeOK, Places, Progress, NEW r \in Run, NEW p,
         \/ pc[r] = "find" /\ p = "create"
         \/ pc[r] \in {"find", "create", "call"} /\ p = "failed",
         Goto(r, p), UNCHANGED <<at, made>>
  PROVE  Places' /\ Progress' /\ pc' \in [Run -> Where]
<1>1. pc' = [pc EXCEPT ![r] = p] /\ pc \in [Run -> Where] /\ p \in Where
  BY DEF Goto, TypeOK, Where
<1>2. /\ IsSeed(r) /\ ~IsPurge(r)
      /\ at[r] \in DOMAIN Roster[ScriptOf[r]]
  BY SeedAtItem
<1>3. \A q \in Run : Current(q)' = Current(q)
  BY DEF Current
<1>4. Places'
  <2>1. \A q \in Run : pc'[q] = "call" => q # r /\ pc[q] = "call"
    BY <1>1
  <2> QED BY <1>1, <1>2, <1>3, <2>1 DEF Places, IsSeed, IsPurge
<1>5. Progress'
  <2>1. ASSUME NEW q \in Run, IsSeed(q), NEW i \in DOMAIN Roster[ScriptOf[q]]
        PROVE  LET x == Roster[ScriptOf[q]][i] IN
               /\ at[q] < i \/ (at[q] = i /\ pc'[q] \in {"find", "create"}) => made[q][x] = 0
               /\ i < at[q] => \E w \in Run : made[w][x] > 0
    BY <1>1, <2>1 DEF Progress
  <2>2. ASSUME NEW q \in Run, NEW x \in Item, made[q][x] > 0
        PROVE  \/ made[q][x] = Len(Calls(x, q))
               \/ IsSeed(q) /\ pc'[q] \in {"call", "failed"} /\ Current(q) = x
    <3>1. CASE q # r BY <3>1, <1>1, <2>2 DEF Progress
    <3>2. CASE q = r BY <3>2, <1>1, <2>2, NotBegun DEF Progress
    <3> QED BY <3>1, <3>2
  <2> QED BY <2>1, <2>2, <1>3 DEF Progress, IsSeed, IsPurge
<1>6. pc' \in [Run -> Where]
  BY <1>1
<1> QED BY <1>4, <1>5, <1>6

\* An item that some run has begun is passed over.
LEMMA SkipKeeps ==
  ASSUME TypeOK, Places, Progress, NEW r \in Run, pc[r] \in {"find", "create"},
         NextItem(r), UNCHANGED made, \E w \in Run : made[w][Current(r)] > 0
  PROVE  Places' /\ Progress' /\ pc' \in [Run -> Where] /\ at' \in [Run -> Nat]
<1> DEFINE R == Roster[ScriptOf[r]]
           p == IF at[r] = Len(R) THEN "done" ELSE "find"
<1>1. /\ pc' = [pc EXCEPT ![r] = p] /\ pc \in [Run -> Where] /\ p \in Where
      /\ at' = [at EXCEPT ![r] = @ + 1] /\ at \in [Run -> Nat]
  BY DEF NextItem, Goto, TypeOK, Where
<1>2. /\ IsSeed(r) /\ ~IsPurge(r)
      /\ at[r] \in 1..Len(R) /\ Len(R) \in Nat
      /\ DOMAIN R = 1..Len(R)
  BY SeedAtItem
<1> HIDE DEF p
<1>3. p \in {"done", "find"} /\ (p = "done" <=> at[r] = Len(R))
  BY DEF p
<1>4. \A q \in Run : q # r => Current(q)' = Current(q) /\ pc'[q] = pc[q] /\ at'[q] = at[q]
  BY <1>1 DEF Current
<1>5. pc'[r] = p /\ at'[r] = at[r] + 1
  BY <1>1
<1>6. Places'
  <2>1. \A q \in Run : pc'[q] = "call" => q # r /\ pc[q] = "call"
    BY <1>3, <1>4, <1>5
  <2>2. /\ pc'[r] # "done" => at'[r] \in DOMAIN R
        /\ pc'[r] = "done" => at'[r] = Len(R) + 1
    BY <1>2, <1>3, <1>5
  <2> QED BY <1>2, <1>3, <1>4, <1>5, <2>1, <2>2 DEF Places, IsSeed, IsPurge
<1>7. Progress'
  <2>1. ASSUME NEW q \in Run, IsSeed(q), NEW i \in DOMAIN Roster[ScriptOf[q]]
        PROVE  LET x == Roster[ScriptOf[q]][i] IN
               /\ at'[q] < i \/ (at'[q] = i /\ pc'[q] \in {"find", "create"}) => made[q][x] = 0
               /\ i < at'[q] => \E w \in Run : made[w][x] > 0
    <3>1. CASE q # r BY <3>1, <1>4, <2>1 DEF Progress
    <3>2. CASE q = r
      <4>1. i \in Nat /\ at[r] \in Nat
        BY <3>2, <1>2
      <4>2. (at'[r] < i \/ at'[r] = i) => at[r] < i
        BY <4>1, <1>5
      <4>3. i < at'[r] => i < at[r] \/ i = at[r]
        BY <4>1, <1>5
      <4> QED BY <3>2, <4>2, <4>3, <2>1 DEF Progress, Current
    <3> QED BY <3>1, <3>2
  <2>2. ASSUME NEW q \in Run, NEW x \in Item, made[q][x] > 0
        PROVE  \/ made[q][x] = Len(Calls(x, q))
               \/ IsSeed(q) /\ pc'[q] \in {"call", "failed"} /\ Current(q)' = x
    <3>1. CASE q # r BY <3>1, <1>4, <2>2 DEF Progress
    <3>2. CASE q = r BY <3>2, <2>2, NotBegun
    <3> QED BY <3>1, <3>2
  <2> QED BY <2>1, <2>2 DEF Progress, IsSeed, IsPurge
<1>8. pc' \in [Run -> Where] /\ at' \in [Run -> Nat]
  BY <1>1
<1> QED BY <1>6, <1>7, <1>8

\* The first call of an item, or the second factor of a reviewer who is there.
LEMMA BeginKeeps ==
  ASSUME TypeOK, Places, Progress, NEW r \in Run, pc[r] \in {"find", "create"},
         made' = [made EXCEPT ![r][Current(r)] = 1], Goto(r, "call"), UNCHANGED at
  PROVE  Places' /\ Progress' /\ pc' \in [Run -> Where] /\ made' \in [Run -> [Item -> Nat]]
<1> DEFINE R == Roster[ScriptOf[r]]
           cur == Current(r)
<1>1. /\ pc' = [pc EXCEPT ![r] = "call"] /\ pc \in [Run -> Where] /\ "call" \in Where
      /\ made' = [made EXCEPT ![r][cur] = 1] /\ made \in [Run -> [Item -> Nat]]
  BY DEF Goto, TypeOK, Where
<1>2. /\ IsSeed(r) /\ ~IsPurge(r)
      /\ at[r] \in 1..Len(R) /\ Len(R) \in Nat
      /\ DOMAIN R = 1..Len(R)
      /\ cur \in Item
      /\ \A i, j \in 1..Len(R) : R[i] = R[j] => i = j
  BY SeedAtItem
<1>3. cur = R[at[r]]
  BY DEF Current
<1>4. \A q \in Run : Current(q)' = Current(q)
  BY DEF Current
<1>5. /\ made[r][cur] = 0 /\ made'[r][cur] = 1
      /\ \A x \in Item : x # cur => made'[r][x] = made[r][x]
      /\ \A q \in Run : q # r => made'[q] = made[q]
      /\ \A q \in Run, x \in Item : made[q][x] \in Nat
  BY <1>1, <1>2, NotBegun
<1>6. /\ pc'[r] = "call" /\ \A q \in Run : q # r => pc'[q] = pc[q]
  BY <1>1
<1>7. Len(Calls(cur, r)) \in Nat /\ Len(Calls(cur, r)) >= 2
  BY <1>2, CallsLen
<1> HIDE DEF cur
<1>8. Places'
  <2>1. Current(r)' = cur /\ made'[r][cur] \in 1..(Len(Calls(cur, r)) - 1)
    BY <1>4, <1>5, <1>7 DEF cur
  <2>2. at[r] \in DOMAIN R
    BY <1>2
  <2>3. ASSUME NEW q \in Run
        PROVE  /\ IsSeed(q) => /\ pc'[q] \in {"find", "create", "call", "done", "failed"}
                               /\ pc'[q] # "done" => at[q] \in DOMAIN Roster[ScriptOf[q]]
                               /\ pc'[q] = "done" => at[q] = Len(Roster[ScriptOf[q]]) + 1
               /\ IsPurge(q) => pc'[q] \notin {"find", "create", "call"}
               /\ pc'[q] = "call" => made'[q][Current(q)'] \in 1..(Len(Calls(Current(q)', q)) - 1)
    <3>1. CASE q = r BY <3>1, <1>2, <1>6, <2>1, <2>2
    <3>2. CASE q # r BY <3>2, <1>4, <1>5, <1>6 DEF Places
    <3> QED BY <3>1, <3>2
  <2> QED BY <2>3, <1>4 DEF Places, IsSeed, IsPurge
<1>9. Progress'
  <2>1. ASSUME NEW q \in Run, IsPurge(q), NEW x \in Item
        PROVE  made'[q][x] = 0
    BY <1>2, <1>5, <2>1 DEF Progress
  <2>2. ASSUME NEW q \in Run, IsSeed(q), NEW i \in DOMAIN Roster[ScriptOf[q]]
        PROVE  LET x == Roster[ScriptOf[q]][i] IN
               /\ at[q] < i \/ (at[q] = i /\ pc'[q] \in {"find", "create"}) => made'[q][x] = 0
               /\ i < at[q] => \E w \in Run : made'[w][x] > 0
    <3> DEFINE x == Roster[ScriptOf[q]][i]
    <3>1. x \in Item
      BY <2>2, ScriptAssumption DEF IsSeed
    <3>2. at[q] < i \/ (at[q] = i /\ pc'[q] \in {"find", "create"}) => made'[q][x] = 0
      <4>1. CASE q # r BY <4>1, <1>5, <1>6, <2>2 DEF Progress
      <4>2. CASE q = r
        <5>1. SUFFICES ASSUME at[r] < i PROVE made'[r][x] = 0
          BY <4>2, <1>6
        <5>2. x # cur
          BY <4>2, <5>1, <1>2, <1>3, <2>2
        <5> QED BY <4>2, <5>1, <5>2, <3>1, <1>5, <2>2 DEF Progress
      <4> QED BY <4>1, <4>2
    <3>3. i < at[q] => \E w \in Run : made'[w][x] > 0
      <4>1. SUFFICES ASSUME i < at[q] PROVE \E w \in Run : made'[w][x] > 0
        OBVIOUS
      <4>2. PICK w \in Run : made[w][x] > 0
        BY <4>1, <2>2 DEF Progress
      <4>3. made'[w][x] > 0
        BY <4>2, <3>1, <1>5
      <4> QED BY <4>3
    <3> QED BY <3>2, <3>3
  <2>3. ASSUME NEW q \in Run, NEW x \in Item, made'[q][x] > 0
        PROVE  \/ made'[q][x] = Len(Calls(x, q))
               \/ IsSeed(q) /\ pc'[q] \in {"call", "failed"} /\ Current(q)' = x
    <3>1. CASE q # r BY <3>1, <1>4, <1>5, <1>6, <2>3 DEF Progress
    <3>2. CASE q = r /\ x = cur BY <3>2, <1>2, <1>4, <1>6 DEF cur
    <3>3. CASE q = r /\ x # cur BY <3>3, <1>5, <2>3, NotBegun
    <3> QED BY <3>1, <3>2, <3>3
  <2>4. ASSUME NEW q \in Run, NEW x \in Item
        PROVE  made'[q][x] <= Len(Calls(x, q))
    <3>1. CASE q = r /\ x = cur BY <3>1, <1>5, <1>7
    <3>2. CASE q # r \/ x # cur BY <3>2, <1>5 DEF Progress
    <3> QED BY <3>1, <3>2
  <2> QED BY <2>1, <2>2, <2>3, <2>4 DEF Progress, IsSeed, IsPurge
<1>10. made' \in [Run -> [Item -> Nat]]
  <2>1. [made[r] EXCEPT ![cur] = 1] \in [Item -> Nat]
    BY <1>1, <1>2
  <2> QED BY <2>1, <1>1
<1>11. pc' \in [Run -> Where]
  BY <1>1
<1> QED BY <1>8, <1>9, <1>10, <1>11

\* One more call of the item, with the last of them the item is complete.
LEMMA CallKeeps ==
  ASSUME TypeOK, Places, Progress, NEW r \in Run, Call(r)
  PROVE  /\ Places' /\ Progress'
         /\ pc' \in [Run -> Where] /\ at' \in [Run -> Nat] /\ made' \in [Run -> [Item -> Nat]]
<1> DEFINE R == Roster[ScriptOf[r]]
           cur == Current(r)
           n == made[r][cur] + 1
           all == Len(Calls(cur, r))
<1>1. /\ pc[r] = "call" /\ pc \in [Run -> Where]
      /\ made' = [made EXCEPT ![r][cur] = n] /\ made \in [Run -> [Item -> Nat]]
      /\ at \in [Run -> Nat]
      /\ IF n = all THEN NextItem(r) ELSE UNCHANGED <<pc, at>>
  BY DEF Call, TypeOK
<1>2. /\ IsSeed(r) /\ ~IsPurge(r)
      /\ at[r] \in 1..Len(R) /\ Len(R) \in Nat
      /\ DOMAIN R = 1..Len(R)
      /\ cur \in Item
      /\ \A i, j \in 1..Len(R) : R[i] = R[j] => i = j
  BY <1>1, SeedAtItem
<1>3. cur = R[at[r]]
  BY DEF Current
<1>4. all \in Nat /\ all >= 2 /\ made[r][cur] \in 1..(all - 1) /\ n \in 2..all
  BY <1>1, <1>2, CallsLen DEF Places
<1>5. \/ n = all /\ at' = [at EXCEPT ![r] = @ + 1]
         /\ pc' = [pc EXCEPT ![r] = IF at[r] = Len(R) THEN "done" ELSE "find"]
      \/ n # all /\ at' = at /\ pc' = pc
  BY <1>1 DEF NextItem, Goto
<1> HIDE DEF cur, n, all
<1>6. /\ made'[r][cur] = n /\ made'[r][cur] > 0
      /\ \A x \in Item : x # cur => made'[r][x] = made[r][x]
      /\ \A q \in Run : q # r => made'[q] = made[q] /\ pc'[q] = pc[q] /\ at'[q] = at[q]
      /\ \A q \in Run, x \in Item : made[q][x] \in Nat
  BY <1>1, <1>2, <1>4, <1>5
<1>7. \/ n = all /\ at'[r] = at[r] + 1
         /\ pc'[r] = (IF at[r] = Len(R) THEN "done" ELSE "find")
      \/ n # all /\ at'[r] = at[r] /\ pc'[r] = "call"
  BY <1>1, <1>5
<1>8. \A q \in Run : q # r => Current(q)' = Current(q)
  BY <1>6 DEF Current
<1>9. n # all => Current(r)' = cur
  BY <1>7, <1>3 DEF Current
<1>10. Places'
  <2>1. ASSUME NEW q \in Run
        PROVE  /\ IsSeed(q) => /\ pc'[q] \in {"find", "create", "call", "done", "failed"}
                               /\ pc'[q] # "done" => at'[q] \in DOMAIN Roster[ScriptOf[q]]
                               /\ pc'[q] = "done" => at'[q] = Len(Roster[ScriptOf[q]]) + 1
               /\ IsPurge(q) => pc'[q] \notin {"find", "create", "call"}
               /\ pc'[q] = "call" => made'[q][Current(q)'] \in 1..(Len(Calls(Current(q)', q)) - 1)
    <3>1. CASE q # r BY <3>1, <1>6, <1>8 DEF Places
    <3>2. CASE q = r /\ n = all BY <3>2, <1>2, <1>7
    <3>3. CASE q = r /\ n # all
      <4>1. made'[r][cur] \in 1..(all - 1)
        BY <3>3, <1>4, <1>6
      <4> QED BY <4>1, <3>3, <1>2, <1>7, <1>9 DEF all
    <3> QED BY <3>1, <3>2, <3>3
  <2> QED BY <2>1 DEF Places, IsSeed, IsPurge
<1>11. Progress'
  <2>1. ASSUME NEW q \in Run, IsPurge(q), NEW x \in Item
        PROVE  made'[q][x] = 0
    BY <1>2, <1>6, <2>1 DEF Progress
  <2>2. ASSUME NEW q \in Run, IsSeed(q), NEW i \in DOMAIN Roster[ScriptOf[q]]
        PROVE  LET x == Roster[ScriptOf[q]][i] IN
               /\ at'[q] < i \/ (at'[q] = i /\ pc'[q] \in {"find", "create"}) => made'[q][x] = 0
               /\ i < at'[q] => \E w \in Run : made'[w][x] > 0
    <3> DEFINE x == Roster[ScriptOf[q]][i]
    <3>1. x \in Item
      BY <2>2, ScriptAssumption DEF IsSeed
    <3>2. at'[q] < i \/ (at'[q] = i /\ pc'[q] \in {"find", "create"}) => made'[q][x] = 0
      <4>1. CASE q # r BY <4>1, <1>6, <2>2 DEF Progress
      <4>2. CASE q = r
        <5>1. i \in 1..Len(R)
          BY <4>2, <1>2
        <5>2. SUFFICES ASSUME at[r] < i PROVE made'[r][x] = 0
          BY <4>2, <5>1, <1>2, <1>7
        <5>3. x # cur
          BY <4>2, <5>1, <5>2, <1>2, <1>3
        <5>4. made[r][x] = 0
          BY <4>2, <5>2, <2>2 DEF Progress
        <5> QED BY <4>2, <5>3, <5>4, <3>1, <1>6
      <4> QED BY <4>1, <4>2
    <3>3. i < at'[q] => \E w \in Run : made'[w][x] > 0
      <4>1. CASE q = r /\ i = at[r]
        BY <4>1, <1>3, <1>6
      <4>2. CASE i < at[q]
        <5>1. PICK w \in Run : made[w][x] > 0
          BY <4>2, <2>2 DEF Progress
        <5>2. made'[w][x] > 0
          BY <5>1, <3>1, <1>6
        <5> QED BY <5>2
      <4>3. i < at'[q] => i < at[q] \/ (q = r /\ i = at[r])
        <5>1. CASE q # r BY <5>1, <1>6
        <5>2. CASE q = r
          <6>1. i \in Nat /\ at[r] \in Nat BY <5>2, <1>2
          <6> QED BY <5>2, <6>1, <1>7
        <5> QED BY <5>1, <5>2
      <4> QED BY <4>1, <4>2, <4>3
    <3> QED BY <3>2, <3>3
  <2>3. ASSUME NEW q \in Run, NEW x \in Item, made'[q][x] > 0
        PROVE  \/ made'[q][x] = Len(Calls(x, q))
               \/ IsSeed(q) /\ pc'[q] \in {"call", "failed"} /\ Current(q)' = x
    <3>1. CASE q # r BY <3>1, <1>6, <1>8, <2>3 DEF Progress
    <3>2. CASE q = r /\ x = cur BY <3>2, <1>2, <1>6, <1>7, <1>9 DEF all
    <3>3. CASE q = r /\ x # cur
      <4>1. made[r][x] > 0 /\ made'[r][x] = made[r][x]
        BY <3>3, <1>6, <2>3
      <4> QED BY <3>3, <4>1 DEF Progress, cur
    <3> QED BY <3>1, <3>2, <3>3
  <2>4. ASSUME NEW q \in Run, NEW x \in Item
        PROVE  made'[q][x] <= Len(Calls(x, q))
    <3>1. CASE q = r /\ x = cur BY <3>1, <1>4, <1>6 DEF all
    <3>2. CASE q # r \/ x # cur BY <3>2, <1>6 DEF Progress
    <3> QED BY <3>1, <3>2
  <2> QED BY <2>1, <2>2, <2>3, <2>4 DEF Progress, IsSeed, IsPurge
<1>12. made' \in [Run -> [Item -> Nat]]
  BY <1>1, <1>2, <1>4
<1>13. at' \in [Run -> Nat]
  <2>1. at' = at \/ at' = [at EXCEPT ![r] = @ + 1]
    BY <1>5
  <2> QED BY <2>1, <1>1
<1>14. pc' \in [Run -> Where]
  <2> DEFINE p == IF at[r] = Len(R) THEN "done" ELSE "find"
  <2>1. p \in Where
    BY DEF Where
  <2>2. pc' = pc \/ pc' = [pc EXCEPT ![r] = p]
    BY <1>5
  <2> HIDE DEF p
  <2> QED BY <2>1, <2>2, <1>1
<1> QED BY <1>10, <1>11, <1>12, <1>13, <1>14

(***************************************************************************)
(* The steps of a seed and of the application.                             *)
(***************************************************************************)
\* Rows about a broker are well formed.
LEMMA OwnRowsWellFormed ==
  ASSUME NEW b \in Broker, NEW y \in OwnRows(b)
  PROVE  /\ y \in Row /\ WellFormed(y)
         /\ y[2] \in {b, Nobody}
         /\ \A a \in Broker : y # Profile(a) /\ y # Business(a)
<1>1. b # Nobody
  BY Brokers
<1> QED BY <1>1 DEF OwnRows, WellFormed, Profile, Business

\* The first call registers a broker, or writes nothing.
LEMMA CreateFresh ==
  ASSUME TypeOK, Places, Progress, NEW r \in Run, Create(r)
  PROVE  Fresh(Calls(Current(r), r)[1]) /\ \A e \in Email, w \in Run : made'[w][e] >= made[w][e]
<1> DEFINE cur == Current(r)
           W == Calls(cur, r)[1]
<1>1. cur \in Item /\ made[r][cur] = 0
  BY SeedAtItem, NotBegun DEF Create
<1>2. /\ made'[r][cur] = 1
      /\ \A e \in Item : e # cur => made'[r][e] = made[r][e]
      /\ \A w \in Run : w # r => made'[w] = made[w]
      /\ \A e \in Item, w \in Run : made[w][e] \in Nat
  BY <1>1 DEF Create, TypeOK
<1>3. Email \subseteq Item
  BY DEF Item
<1> HIDE DEF cur
<1>4. CASE cur \in Email
  <2> DEFINE b == <<cur, r>>
  <2>1. b \in Broker /\ b \notin Stranger /\ b # Nobody
    BY <1>4, Brokers
  <2>2. W = Audited(b, {Profile(b)})
    BY <1>4, CallsOfEmail
  <2>3. <<"audit_log", b, Nobody>> \in OwnRows(b)
    BY <2>1, OwnRow, TableIs
  <2> HIDE DEF b, W
  <2>4. Profile(b) \in Row /\ WellFormed(Profile(b))
    BY <2>1, TableIs DEF Profile, Row, Party, WellFormed, OfAccreditation
  <2>5. W = {Profile(b), <<"audit_log", b, Nobody>>}
    BY <2>2 DEF Audited
  <2>6. W \subseteq Row /\ \A y \in W : WellFormed(y)
    BY <2>1, <2>3, <2>4, <2>5, OwnRowsWellFormed
  <2>7. ASSUME NEW y \in W, NEW e \in Email, NEW w \in Run, y[2] = <<e, w>>
        PROVE  made'[w][e] > 0
    <3>1. y[2] = b
      BY <2>5 DEF Profile
    <3> QED BY <3>1, <2>7, <1>2 DEF b
  <2>8. \A a \in Broker : Business(a) \notin W /\ (Profile(a) \in W => a = b)
    BY <2>5 DEF Profile, Business
  <2>9. ASSUME NEW e \in Email, NEW w \in Run, NEW n \in 1..made'[w][e]
        PROVE  n <= made[w][e] \/ Calls(e, w)[n] \subseteq W
    <3>1. CASE e = cur /\ w = r
      <4>1. n = 1 BY <3>1, <1>2
      <4> QED BY <3>1, <4>1 DEF W
    <3>2. CASE e # cur \/ w # r
      <4>1. made'[w][e] = made[w][e] /\ made[w][e] \in Nat BY <3>2, <1>2, <1>3
      <4> QED BY <4>1
    <3> QED BY <3>1, <3>2
  <2>10. \A e \in Email, w \in Run : Profile(<<e, w>>) \in W => made[w][e] = 0
    BY <2>8, <1>1, Brokers DEF b
  <2> QED BY <2>1, <2>6, <2>7, <2>8, <2>9, <2>10, <1>1, <1>2, <1>3, Brokers DEF Fresh, W, cur
<1>5. CASE cur \notin Email
  <2>1. W = {}
    BY <1>1, <1>5, CallsOfOthers DEF Item
  <2>2. \A e \in Email, w \in Run : made'[w][e] = made[w][e] /\ made[w][e] \in Nat
    BY <1>2, <1>3, <1>5
  <2>3. \A e \in Email, w \in Run : \A n \in 1..made'[w][e] : n <= made[w][e]
    BY <2>2
  <2> QED BY <2>1, <2>2, <2>3 DEF Fresh, W, cur
<1> QED BY <1>4, <1>5

\* A later call founds the broker's business, as the sixth, or writes rows about him.
LEMMA CallFresh ==
  ASSUME TypeOK, Places, Progress, NEW r \in Run, Call(r)
  PROVE  /\ Fresh(Calls(Current(r), r)[made[r][Current(r)] + 1])
         /\ \A e \in Email, w \in Run : made'[w][e] >= made[w][e]
<1> DEFINE cur == Current(r)
           n == made[r][cur] + 1
           W == Calls(cur, r)[n]
<1>1. cur \in Item /\ made[r][cur] \in 1..(Len(Calls(cur, r)) - 1) /\ Len(Calls(cur, r)) \in Nat
  BY SeedAtItem, CallsLen DEF Call, Places
<1>2. /\ made'[r][cur] = n
      /\ \A e \in Item : e # cur => made'[r][e] = made[r][e]
      /\ \A w \in Run : w # r => made'[w] = made[w]
      /\ \A e \in Item, w \in Run : made[w][e] \in Nat
  BY <1>1 DEF Call, TypeOK
<1>3. Email \subseteq Item
  BY DEF Item
<1>4. n \in 2..Len(Calls(cur, r)) /\ n = made[r][cur] + 1
  BY <1>1
<1> HIDE DEF cur, n
<1>5. \A e \in Email, w \in Run : made'[w][e] >= made[w][e]
  <2>1. made'[r][cur] >= made[r][cur] BY <1>1, <1>2, <1>4
  <2>2. ASSUME NEW e \in Email, NEW w \in Run, e # cur \/ w # r
        PROVE  made'[w][e] = made[w][e] /\ made[w][e] \in Nat
    BY <1>2, <1>3, <2>2
  <2> QED BY <2>1, <2>2
<1>6. CASE cur \in Email
  <2> DEFINE b == <<cur, r>>
  <2>1. b \in Broker /\ b \notin Stranger /\ b # Nobody
    BY <1>6, Brokers
  <2>2. /\ n # 6 => W \subseteq OwnRows(b)
        /\ n = 6 => W = Audited(b, {Business(b), Affiliation(b, b)})
    <3>1. /\ Calls(cur, r)[6] = Audited(b, {Business(b), Affiliation(b, b)})
          /\ \A m \in 1..Len(Calls(cur, r)) : m \notin {1, 6} => Calls(cur, r)[m] \subseteq OwnRows(b)
      BY <1>6, CallsOfEmail, Zenon
    <3>2. n \in 1..Len(Calls(cur, r)) /\ n # 1
      BY <1>4
    <3> QED BY <3>1, <3>2
  <2>3. <<"audit_log", b, Nobody>> \in OwnRows(b) /\ Affiliation(b, b) \in OwnRows(b)
    BY <2>1, OwnRow, TableIs DEF Affiliation
  <2> HIDE DEF b, W
  <2>4. Business(b) \in Row /\ WellFormed(Business(b)) /\ Business(b)[2] = Nobody
    BY <2>1, TableIs DEF Business, Row, Party, WellFormed, OfAccreditation
  <2>5. \A y \in W : y \in OwnRows(b) \/ (n = 6 /\ y = Business(b))
    BY <2>2, <2>3 DEF Audited
  <2>6. W \subseteq Row /\ \A y \in W : WellFormed(y) /\ y[2] \in {b, Nobody}
    BY <2>1, <2>4, <2>5, OwnRowsWellFormed
  <2>7. ASSUME NEW y \in W, NEW e \in Email, NEW w \in Run, y[2] = <<e, w>>
        PROVE  made'[w][e] > 0
    <3>1. y[2] = b
      <4>1. <<e, w>> \in Broker /\ Nobody \notin Broker BY Brokers
      <4> QED BY <4>1, <2>6, <2>7
    <3>2. e = cur /\ w = r
      BY <3>1, <2>7 DEF b
    <3> QED BY <3>2, <1>2, <1>4
  <2>8. \A a \in Broker : Profile(a) \notin W /\ (Business(a) \in W => a = b /\ n = 6)
    <3>1. \A a \in Broker : Profile(a) # Business(b) /\ (Business(a) = Business(b) => a = b)
      BY DEF Profile, Business
    <3> QED BY <3>1, <2>1, <2>5, OwnRowsWellFormed
  <2>9. ASSUME NEW e \in Email, NEW w \in Run, NEW m \in 1..made'[w][e]
        PROVE  m <= made[w][e] \/ Calls(e, w)[m] \subseteq W
    <3>1. CASE e = cur /\ w = r
      <4>1. m <= made[r][cur] \/ m = n BY <3>1, <1>1, <1>2, <1>4
      <4> QED BY <3>1, <4>1 DEF W
    <3>2. CASE e # cur \/ w # r
      <4>1. made'[w][e] = made[w][e] /\ made[w][e] \in Nat BY <3>2, <1>2, <1>3
      <4> QED BY <4>1
    <3> QED BY <3>1, <3>2
  <2>10. ASSUME NEW e \in Email, NEW w \in Run, Business(<<e, w>>) \in W
         PROVE  /\ made[w][e] = 5 /\ made'[w][e] > 5
                /\ Affiliation(<<e, w>>, <<e, w>>) \in W
    <3>1. <<e, w>> = b /\ n = 6
      BY <2>8, <2>10, Brokers
    <3>2. e = cur /\ w = r
      BY <3>1 DEF b
    <3>3. Affiliation(b, b) \in W
      BY <2>2, <3>1 DEF Audited
    <3> QED BY <3>1, <3>2, <3>3, <1>1, <1>2, <1>4
  <2>11. Fresh(W)
    <3>1. \A a \in Stranger : Profile(a) \notin W /\ Business(a) \notin W
      BY <2>1, <2>8, Brokers
    <3>2. \A e \in Email, w \in Run : Profile(<<e, w>>) \notin W
      BY <2>8, Brokers
    <3> QED BY <2>6, <2>7, <2>9, <2>10, <3>1, <3>2 DEF Fresh
  <2> QED BY <2>11, <1>5 DEF W, cur, n
<1>7. CASE cur \notin Email
  <2>1. W = {}
    BY <1>1, <1>4, <1>7, CallsOfOthers DEF Item
  <2>2. \A e \in Email, w \in Run : made'[w][e] = made[w][e] /\ made[w][e] \in Nat
    BY <1>2, <1>3, <1>7
  <2>3. \A e \in Email, w \in Run : \A m \in 1..made'[w][e] : m <= made[w][e]
    BY <2>2
  <2> HIDE DEF W
  <2>4. Fresh(W)
    BY <2>1, <2>3 DEF Fresh
  <2> QED BY <2>4, <1>5 DEF W, cur, n
<1> QED BY <1>6, <1>7

\* What the application adds is about brokers and businesses there are.
LEMMA AppFresh ==
  ASSUME TypeOK, Shapes, NEW x \in AppRow, AppCall(x)
  PROVE  Fresh({x})
<1>1. /\ x \in Row /\ x[1] \notin {"broker_profiles", "broker_businesses"}
      /\ WellFormed(x)
  BY AppAssumption DEF WellFormed
<1>2. ASSUME NEW e \in Email, NEW w \in Run, x[2] = <<e, w>>
      PROVE  made'[w][e] > 0
  <2>1. Profile(<<e, w>>) \in rows /\ Profile(<<e, w>>)[2] = <<e, w>>
    BY <1>2, Brokers DEF AppCall, Profile
  <2> QED BY <2>1 DEF Shapes, AppCall
<1>3. \A a \in Broker : Profile(a) # x /\ Business(a) # x
  BY <1>1 DEF Profile, Business
<1>4. \A e \in Email, w \in Run : \A n \in 1..made'[w][e] : n <= made[w][e]
  BY DEF TypeOK, AppCall, Item
<1> QED BY <1>1, <1>2, <1>3, <1>4, Brokers DEF Fresh

\* A seed's step is none of the purges' business.
LEMMA SeedApart ==
  ASSUME TypeOK, Places', NEW r \in Run, ~IsPurge(r), UNCHANGED collected,
         \A q \in Run : q # r => pc'[q] = pc[q] /\ at'[q] = at[q],
         made' \in [Run -> [Item -> Nat]],
         \A e \in Email, w \in Run : made'[w][e] >= made[w][e]
  PROVE  Apart
BY DEF Apart, Places, IsSeed, SeedPlace

\* What is written is typed.
LEMMA WriteTyped ==
  ASSUME TypeOK, NEW W, Write(W), W \subseteq Row
  PROVE  rows' \subseteq Row /\ doomed' \in [Run -> SUBSET rows'] /\ late' \in [Run -> SUBSET Row]
<1>1. /\ rows' = rows \union W
      /\ doomed' = [p \in Run |-> doomed[p] \ W]
      /\ late' = [p \in Run |-> IF Open(p) THEN late[p] \union W ELSE late[p]]
  BY DEF Write
<1>2. rows' \subseteq Row
  BY <1>1 DEF TypeOK
<1>3. \A p \in Run : doomed[p] \ W \subseteq rows'
  BY <1>1 DEF TypeOK
<1>4. \A p \in Run : (IF Open(p) THEN late[p] \union W ELSE late[p]) \in SUBSET Row
  BY DEF TypeOK
<1>5. doomed' \in [Run -> SUBSET rows']
  BY <1>1, <1>3
<1>6. late' \in [Run -> SUBSET Row]
  BY <1>1, <1>4
<1> QED BY <1>2, <1>5, <1>6

\* A step that writes keeps the invariant, if it keeps the places.
LEMMA WriteKeeps ==
  ASSUME IInv, NEW W, Write(W), Fresh(W), Apart, Places', Progress',
         pc' \in [Run -> Where], at' \in [Run -> Nat]
  PROVE  IInv'
<1>1. TypeOK'
  <2>1. rows' \subseteq Row /\ doomed' \in [Run -> SUBSET rows'] /\ late' \in [Run -> SUBSET Row]
    BY WriteTyped DEF IInv, Fresh
  <2> QED BY <2>1 DEF IInv, TypeOK, Apart
<1>2. Shapes' BY WriteShapes DEF IInv
<1>3. ForeignKeys' BY WriteForeignKeys DEF IInv
<1>4. Companions' BY WriteCompanions DEF IInv
<1>5. Reads' BY WriteReads DEF IInv
<1>6. Deletes' BY WriteDeletes DEF IInv
<1>7. NeverHalfPurged' BY WriteNeverHalfPurged DEF IInv
<1> QED BY <1>1, <1>2, <1>3, <1>4, <1>5, <1>6, <1>7 DEF IInv

\* A step that only moves keeps the invariant, if it keeps the places.
LEMMA MovesKeep ==
  ASSUME IInv, UNCHANGED <<rows, doomed, late>>, Apart, Places', Progress',
         \A e \in Email, w \in Run : made'[w][e] = made[w][e],
         pc' \in [Run -> Where], at' \in [Run -> Nat]
  PROVE  IInv'
<1>1. TypeOK'
  BY DEF IInv, TypeOK, Apart
<1> QED BY <1>1, QuietKeeps DEF IInv

\* Every step of a seed keeps the invariant.
LEMMA SeedStep ==
  ASSUME IInv, NEW r \in Run, Seed(r)
  PROVE  IInv'
<1>1. TypeOK /\ Places /\ Progress /\ Shapes
  BY DEF IInv
<1>2. pc[r] \in {"find", "create", "call"}
  BY DEF Seed, Miss, Reuse, ReuseReviewer, Create, Taken, ReviewerTaken, Call, BreakOff
<1>3. IsSeed(r) /\ ~IsPurge(r) /\ Current(r) \in Item
  BY <1>1, <1>2, SeedAtItem
<1>4. /\ pc \in [Run -> Where] /\ at \in [Run -> Nat] /\ made \in [Run -> [Item -> Nat]]
      /\ \A e \in Email, w \in Run : made[w][e] \in Nat
  BY <1>1 DEF TypeOK, Item
<1>5. ASSUME NEW p, (pc[r] = "find" /\ p = "create") \/ p = "failed",
             Goto(r, p), UNCHANGED <<rows, at, made, collected, doomed, late>>
      PROVE  IInv'
  <2>1. Places' /\ Progress' /\ pc' \in [Run -> Where]
    BY <1>1, <1>2, <1>5, MoveKeeps
  <2>2. /\ \A q \in Run : q # r => pc'[q] = pc[q] /\ at'[q] = at[q]
        /\ made' \in [Run -> [Item -> Nat]]
        /\ \A e \in Email, w \in Run : made'[w][e] >= made[w][e]
    BY <1>4, <1>5 DEF Goto
  <2>3. Apart
    BY <1>1, <1>3, <1>5, <2>1, <2>2, SeedApart
  <2> QED BY <1>4, <1>5, <2>1, <2>3, MovesKeep
<1>6. ASSUME pc[r] \in {"find", "create"}, NextItem(r), \E w \in Run : made[w][Current(r)] > 0,
             UNCHANGED <<rows, made, collected, doomed, late>>
      PROVE  IInv'
  <2>1. Places' /\ Progress' /\ pc' \in [Run -> Where] /\ at' \in [Run -> Nat]
    BY <1>1, <1>6, SkipKeeps
  <2>2. /\ \A q \in Run : q # r => pc'[q] = pc[q] /\ at'[q] = at[q]
        /\ made' \in [Run -> [Item -> Nat]]
        /\ \A e \in Email, w \in Run : made'[w][e] >= made[w][e]
    BY <1>4, <1>6 DEF NextItem, Goto
  <2>3. Apart
    BY <1>1, <1>3, <1>6, <2>1, <2>2, SeedApart
  <2> QED BY <1>6, <2>1, <2>3, MovesKeep
<1>7. \A x \in Email, w \in Run : Profile(<<x, w>>) \in rows => made[w][x] > 0
  <2>1. \A x \in Email, w \in Run : Profile(<<x, w>>)[2] = <<x, w>>
    BY DEF Profile
  <2> QED BY <2>1, <1>1 DEF Shapes
<1>8. Exists(Current(r)) => \E w \in Run : made[w][Current(r)] > 0
  BY <1>7 DEF Exists
<1>9. CASE Miss(r)
  BY <1>5, <1>9 DEF Miss
<1>10. CASE Reuse(r)
  BY <1>6, <1>8, <1>10 DEF Reuse
<1>11. CASE ReuseReviewer(r)
  <2>1. /\ Places' /\ Progress' /\ pc' \in [Run -> Where] /\ made' \in [Run -> [Item -> Nat]]
    BY <1>1, <1>11, BeginKeeps DEF ReuseReviewer
  <2>2. Current(r) \notin Email
    BY <1>11, NameAssumption DEF ReuseReviewer
  <2>3. /\ \A q \in Run : q # r => pc'[q] = pc[q] /\ at'[q] = at[q]
        /\ \A e \in Email, w \in Run : made'[w][e] = made[w][e]
    BY <2>2, <1>3, <1>4, <1>11 DEF ReuseReviewer, Goto, Item
  <2>4. \A e \in Email, w \in Run : made'[w][e] >= made[w][e]
    BY <2>3, <1>4
  <2>5. Apart
    BY <1>1, <1>3, <1>11, <2>1, <2>3, <2>4, SeedApart DEF ReuseReviewer
  <2> QED BY <1>4, <1>11, <2>1, <2>3, <2>5, MovesKeep DEF ReuseReviewer
<1>12. CASE Create(r)
  <2>1. /\ Places' /\ Progress' /\ pc' \in [Run -> Where] /\ made' \in [Run -> [Item -> Nat]]
    BY <1>1, <1>12, BeginKeeps DEF Create
  <2>2. /\ Fresh(Calls(Current(r), r)[1])
        /\ \A e \in Email, w \in Run : made'[w][e] >= made[w][e]
    BY <1>1, <1>12, CreateFresh
  <2>3. /\ \A q \in Run : q # r => pc'[q] = pc[q] /\ at'[q] = at[q]
        /\ at' \in [Run -> Nat] /\ collected' = collected
    BY <1>4, <1>12 DEF Create, Goto
  <2>4. Apart
    BY <1>1, <1>3, <2>1, <2>2, <2>3, SeedApart
  <2>5. Write(Calls(Current(r), r)[1])
    BY <1>12 DEF Create
  <2> QED BY <2>1, <2>2, <2>3, <2>4, <2>5, WriteKeeps
<1>13. CASE Taken(r)
  <2>1. \E w \in Run : made[w][Current(r)] > 0
    BY <1>7, <1>13 DEF Taken
  <2> QED BY <1>6, <1>13, <2>1 DEF Taken
<1>14. CASE ReviewerTaken(r)
  BY <1>5, <1>14 DEF ReviewerTaken
<1>15. CASE Call(r)
  <2> DEFINE W == Calls(Current(r), r)[made[r][Current(r)] + 1]
  <2>1. /\ Places' /\ Progress'
        /\ pc' \in [Run -> Where] /\ at' \in [Run -> Nat] /\ made' \in [Run -> [Item -> Nat]]
    BY <1>1, <1>15, CallKeeps
  <2>2. Fresh(W) /\ \A e \in Email, w \in Run : made'[w][e] >= made[w][e]
    BY <1>1, <1>15, CallFresh
  <2>3. (\A q \in Run : q # r => pc'[q] = pc[q] /\ at'[q] = at[q]) /\ collected' = collected
    <3>1. NextItem(r) \/ UNCHANGED <<pc, at>>
      BY <1>15 DEF Call
    <3> QED BY <3>1, <1>4, <1>15 DEF Call, NextItem, Goto
  <2>4. Apart
    BY <1>1, <1>3, <2>1, <2>2, <2>3, SeedApart
  <2>5. Write(W)
    BY <1>15 DEF Call
  <2> HIDE DEF W
  <2> QED BY <2>1, <2>2, <2>4, <2>5, WriteKeeps
<1>16. CASE BreakOff(r)
  BY <1>5, <1>16 DEF BreakOff
<1> QED BY <1>9, <1>10, <1>11, <1>12, <1>13, <1>14, <1>15, <1>16 DEF Seed

\* Every step of the application keeps the invariant.
LEMMA AppStep ==
  ASSUME IInv, NEW x \in AppRow, AppCall(x)
  PROVE  IInv'
<1>1. UNCHANGED <<pc, at, made, collected>> /\ Write({x})
  BY DEF AppCall
<1>2. TypeOK /\ Places /\ Progress /\ Shapes
  BY DEF IInv
<1>3. Fresh({x})
  BY <1>2, AppFresh
<1>4. Places'
  BY <1>1, <1>2 DEF Places, Current, IsSeed, IsPurge
<1>5. Progress'
  BY <1>1, <1>2 DEF Progress, Current, IsSeed, IsPurge
<1>6. Apart
  <2>1. \A e \in Email, w \in Run : made'[w][e] >= made[w][e]
    BY <1>1, <1>2 DEF TypeOK, Item
  <2>2. \A p \in Run : IsSeed(p) => pc'[p] \in SeedPlace
    BY <1>1, <1>2, Runs
  <2> QED BY <1>1, <1>2, <2>1, <2>2 DEF Apart, TypeOK
<1>7. pc' \in [Run -> Where] /\ at' \in [Run -> Nat]
  BY <1>1, <1>2 DEF TypeOK
<1> QED BY <1>1, <1>3, <1>4, <1>5, <1>6, <1>7, WriteKeeps

(***************************************************************************)
(* The steps of a purge.                                                   *)
(***************************************************************************)
PurgePlace == Where \ {"find", "create", "call"}

\* A purge's step leaves the seeds where they are.
LEMMA PurgeKeepsPlaces ==
  ASSUME TypeOK, Places, Progress, NEW r \in Run, IsPurge(r), NEW p \in PurgePlace, Goto(r, p),
         \A q \in Run : q # r => at'[q] = at[q], UNCHANGED made
  PROVE  Places' /\ Progress' /\ pc' \in [Run -> Where]
<1>1. /\ pc' = [pc EXCEPT ![r] = p] /\ pc \in [Run -> Where] /\ p \in Where
      /\ p \notin {"find", "create", "call"}
  BY DEF Goto, TypeOK, PurgePlace
<1>2. ~IsSeed(r)
  BY Runs
<1>3. \A q \in Run : q # r => pc'[q] = pc[q] /\ at'[q] = at[q] /\ Current(q)' = Current(q)
  BY <1>1 DEF Current
<1>4. pc'[r] = p
  BY <1>1
<1>5. Places'
  <2>1. ASSUME NEW q \in Run
        PROVE  /\ IsSeed(q) => /\ pc'[q] \in {"find", "create", "call", "done", "failed"}
                               /\ pc'[q] # "done" => at'[q] \in DOMAIN Roster[ScriptOf[q]]
                               /\ pc'[q] = "done" => at'[q] = Len(Roster[ScriptOf[q]]) + 1
               /\ IsPurge(q) => pc'[q] \notin {"find", "create", "call"}
               /\ pc'[q] = "call" => made[q][Current(q)'] \in 1..(Len(Calls(Current(q)', q)) - 1)
    <3>1. CASE q # r BY <3>1, <1>3 DEF Places
    <3>2. CASE q = r BY <3>2, <1>1, <1>2, <1>4
    <3> QED BY <3>1, <3>2
  <2> QED BY <2>1 DEF Places, IsSeed, IsPurge
<1>6. Progress'
  <2>1. ASSUME NEW q \in Run, IsPurge(q), NEW x \in Item
        PROVE  made[q][x] = 0
    BY <2>1 DEF Progress
  <2>2. ASSUME NEW q \in Run, IsSeed(q), NEW i \in DOMAIN Roster[ScriptOf[q]]
        PROVE  LET x == Roster[ScriptOf[q]][i] IN
               /\ at'[q] < i \/ (at'[q] = i /\ pc'[q] \in {"find", "create"}) => made[q][x] = 0
               /\ i < at'[q] => \E w \in Run : made[w][x] > 0
    BY <1>2, <1>3, <2>2 DEF Progress
  <2>3. ASSUME NEW q \in Run, NEW x \in Item, made[q][x] > 0
        PROVE  \/ made[q][x] = Len(Calls(x, q))
               \/ IsSeed(q) /\ pc'[q] \in {"call", "failed"} /\ Current(q)' = x
    <3>1. CASE q # r BY <3>1, <1>3, <2>3 DEF Progress
    <3>2. CASE q = r BY <3>2, <2>3 DEF Progress
    <3> QED BY <3>1, <3>2
  <2> QED BY <2>1, <2>2, <2>3 DEF Progress, IsSeed, IsPurge
<1>7. pc' \in [Run -> Where]
  BY <1>1
<1> QED BY <1>5, <1>6, <1>7

\* While it has not committed, a purge takes nothing from anyone.
LEMMA NothingTaken ==
  ASSUME NeverHalfPurged, NEW r \in Run, pc[r] # "done", UNCHANGED <<rows, made>>,
         \A q \in Run : q # r => pc'[q] = pc[q] /\ collected'[q] = collected[q]
  PROVE  NeverHalfPurged'
<1>1. ASSUME NEW b, SweptAside(b)
      PROVE  SweptAside(b)'
  <2>1. PICK q \in Run : IsPurge(q) /\ pc[q] = "done" /\ b \in collected[q].businesses \ collected[q].brokers
    BY <1>1 DEF SweptAside
  <2> QED BY <2>1 DEF SweptAside, IsPurge
<1>2. ASSUME NEW x \in Email, NEW r0 \in Run,
             Profile(<<x, r0>>) \in rows', ~SweptAside(<<x, r0>>)',
             NEW n \in 1..made'[r0][x]
      PROVE  Calls(x, r0)[n] \subseteq rows'
  <2>1. ~SweptAside(<<x, r0>>)
    BY <1>1, <1>2
  <2> QED BY <1>2, <2>1 DEF NeverHalfPurged
<1> QED BY <1>2 DEF NeverHalfPurged, Profile

\* What has not changed for the rows and the deletions.
LEMMA RowsSame ==
  ASSUME IInv, UNCHANGED <<rows, made, doomed>>
  PROVE  Shapes' /\ ForeignKeys' /\ Companions'
<1>1. Shapes'
  BY DEF IInv, Shapes, WellFormed, OfAccreditation, Profile, Business
<1>2. ForeignKeys'
  BY DEF IInv, ForeignKeys, Parents, NamesBroker, NamesBusiness,
      Profile, Business, Relationship, Accreditation
<1>3. Companions'
  BY DEF IInv, Companions, OfAccreditation, Profile, Business, Affiliation, Accreditation
<1> QED BY <1>1, <1>2, <1>3

\* Rows that go cannot disturb what another run has read and deleted.
LEMMA OthersKeep ==
  ASSUME Reads, Deletes, NEW q \in Run, rows' \subseteq rows, UNCHANGED made,
         pc'[q] = pc[q], at'[q] = at[q], collected'[q] = collected[q],
         doomed'[q] = doomed[q], late'[q] = late[q]
  PROVE  ReadsOf(q)' /\ DeletesOf(q)'
<1>1. ReadsOf(q) /\ DeletesOf(q)
  BY DEF Reads, Deletes
<1>2. ReadsOf(q)'
  BY <1>1 DEF ReadsOf, Profile, Business
<1>3. Open(q)' <=> Open(q)
  BY DEF Open, IsPurge
<1>4. DeletesOf(q)'
  BY <1>1, <1>3 DEF DeletesOf, IsPurge, Profile, Business, Matches, OfAccreditation
<1> QED BY <1>2, <1>4

\* The reference rows of an accreditation and of an affiliation.
LEMMA References ==
  ASSUME TypeOK, Shapes, ForeignKeys, NEW x \in rows
  PROVE  /\ x[1] \in Accreditations =>
              /\ x[2] \in Broker /\ x[3] \in Broker
              /\ Profile(x[2]) \in rows /\ Business(x[3]) \in rows
         /\ x[1] = "business_affiliations" => Business(x[3]) \in rows
<1>1. Parents(x) \subseteq rows /\ x[2] \in Party /\ x[3] \in Party
  BY DEF ForeignKeys, TypeOK, Row
<1>2. Profile(Nobody) \notin rows /\ Business(Nobody) \notin rows
  BY DEF Shapes, WellFormed, Profile, Business
<1> QED BY <1>1, <1>2 DEF Parents, NamesBroker, NamesBusiness, Party

\* Reading the ids.
LEMMA SelectStep ==
  ASSUME IInv, NEW r \in Run, SelectBrokers(r) \/ SelectBusinesses(r) \/ SelectAccreditations(r)
  PROVE  IInv'
<1>1. TypeOK /\ Places /\ Progress /\ Shapes /\ ForeignKeys /\ Companions /\ Reads /\ Deletes
      /\ NeverHalfPurged
  BY DEF IInv
<1>2. /\ pc[r] \in {"brokers", "businesses", "accreditations"}
      /\ UNCHANGED <<rows, at, made, doomed, late>>
  BY DEF SelectBrokers, SelectBusinesses, SelectAccreditations
<1>3. IsPurge(r)
  BY <1>1, <1>2, Runs DEF SeedPlace
<1>4. PICK p \in {"done", "businesses", "accreditations", "delete"} : Goto(r, p)
  BY DEF SelectBrokers, SelectBusinesses, SelectAccreditations
<1>5. p \in PurgePlace
  BY <1>4 DEF PurgePlace, Where
<1>6. Places' /\ Progress' /\ pc' \in [Run -> Where]
  BY <1>1, <1>2, <1>3, <1>4, <1>5, PurgeKeepsPlaces
<1>7. pc' = [pc EXCEPT ![r] = p] /\ pc'[r] = p /\ \A q \in Run : q # r => pc'[q] = pc[q]
  BY <1>1, <1>4 DEF Goto, TypeOK
<1>8. /\ collected[r] \in [brokers : SUBSET DemoBroker, businesses : SUBSET Broker,
                            accreditations : SUBSET Row]
      /\ doomed[r] = {} /\ at[r] = 1
  BY <1>1, <1>2 DEF TypeOK, Deletes, DeletesOf
<1>9. ReadsOf(r)
  BY <1>1 DEF Reads
<1>10. /\ collected' \in [Run -> [brokers : SUBSET DemoBroker, businesses : SUBSET Broker,
                                  accreditations : SUBSET Row]]
       /\ \A q \in Run : q # r => collected'[q] = collected[q]
       /\ ReadsOf(r)' /\ DeletesOf(r)'
  <2> DEFINE T == [brokers : SUBSET DemoBroker, businesses : SUBSET Broker,
                   accreditations : SUBSET Row]
  <2>1. CASE SelectBrokers(r)
    <3> DEFINE found == {b \in DemoBroker : Profile(b) \in rows}
    <3>1. /\ pc[r] = "brokers" /\ pc'[r] \in {"done", "businesses"}
          /\ collected' = [collected EXCEPT ![r].brokers = found]
      BY <2>1, <1>1 DEF SelectBrokers, Goto, TypeOK
    <3>2. \A e \in Email, w \in Run : <<e, w>> \in found => made[w][e] > 0
      <4>1. \A b \in DemoBroker : Profile(b)[2] = b
        BY DEF Profile
      <4> QED BY <4>1, <1>1 DEF Shapes
    <3> HIDE DEF found
    <3>3. found \in SUBSET DemoBroker
      BY DEF found
    <3>4. /\ collected'[r] = [collected[r] EXCEPT !.brokers = found]
          /\ collected'[r].brokers = found
          /\ collected'[r].businesses = collected[r].businesses
          /\ \A q \in Run : q # r => collected'[q] = collected[q]
          /\ collected'[r] \in T
      BY <3>1, <3>3, <1>1, <1>8 DEF TypeOK
    <3>5. collected' \in [Run -> T]
      BY <3>1, <3>4, <1>1 DEF TypeOK
    <3>6. ReadsOf(r)'
      BY <3>1, <3>2, <3>4, <1>2, <1>9 DEF ReadsOf
    <3>7. late[r] = {}
      BY <3>1, <1>1, <1>3 DEF Deletes, DeletesOf, Open
    <3>8. DeletesOf(r)'
      BY <3>1, <3>7, <1>2, <1>8 DEF DeletesOf
    <3> QED BY <3>4, <3>5, <3>6, <3>8
  <2>2. CASE SelectBusinesses(r)
    <3> DEFINE found == {z \in Broker : \E b \in collected[r].brokers : Affiliation(b, z) \in rows}
    <3>1. /\ pc[r] = "businesses" /\ pc'[r] = "accreditations"
          /\ collected' = [collected EXCEPT ![r].businesses = found]
      BY <2>2, <1>1 DEF SelectBusinesses, Goto, TypeOK
    <3>2. ASSUME NEW e \in Email, NEW w \in Run, <<e, w>> \in found
          PROVE  made[w][e] > 5
      <4>1. PICK b \in collected[r].brokers : Affiliation(b, <<e, w>>) \in rows
        BY <3>2
      <4>2. Business(<<e, w>>) \in rows
        BY <4>1, <1>1, References DEF Affiliation
      <4> QED BY <4>2, <1>1 DEF Shapes
    <3>3. ASSUME NEW b \in collected[r].brokers, Profile(b) \in rows, Business(b) \in rows
          PROVE  b \in found
      <4>1. PICK e \in Email, w \in Run : b = <<e, w>>
        BY <1>8 DEF DemoBroker
      <4>2. Affiliation(b, b) \in rows
        BY <3>3, <4>1, <1>1 DEF Companions
      <4> QED BY <4>1, <4>2, Brokers
    <3>4. found \in SUBSET Broker
      OBVIOUS
    <3> HIDE DEF found
    <3>5. /\ collected'[r] = [collected[r] EXCEPT !.businesses = found]
          /\ collected'[r].brokers = collected[r].brokers
          /\ collected'[r].businesses = found
          /\ \A q \in Run : q # r => collected'[q] = collected[q]
          /\ collected'[r] \in T
      BY <3>1, <3>4, <1>1, <1>8 DEF TypeOK
    <3>6. collected' \in [Run -> T]
      BY <3>1, <3>5, <1>1 DEF TypeOK
    <3>7. ReadsOf(r)'
      BY <3>1, <3>2, <3>3, <3>5, <1>2, <1>9 DEF ReadsOf, Profile, Business
    <3>8. DeletesOf(r)'
      BY <3>1, <1>2, <1>3, <1>8 DEF DeletesOf, Open, IsPurge
    <3> QED BY <3>5, <3>6, <3>7, <3>8
  <2>3. CASE SelectAccreditations(r)
    <3> DEFINE found == {x \in rows : x[1] \in Accreditations /\ x[2] \in collected[r].brokers}
    <3>1. /\ pc[r] = "accreditations" /\ pc'[r] = "delete"
          /\ collected' = [collected EXCEPT ![r].accreditations = found]
      BY <2>3, <1>1 DEF SelectAccreditations, Goto, TypeOK
    <3>2. \A x \in rows : x[1] \in Accreditations /\ x[2] \in collected[r].brokers => x \in found
      OBVIOUS
    <3>3. found \in SUBSET Row
      BY <1>1 DEF TypeOK
    <3>4. \A x \in found : x[2] \in collected[r].brokers
      OBVIOUS
    <3> HIDE DEF found
    <3>5. /\ collected'[r] = [collected[r] EXCEPT !.accreditations = found]
          /\ collected'[r].brokers = collected[r].brokers
          /\ collected'[r].businesses = collected[r].businesses
          /\ collected'[r].accreditations = found
          /\ \A q \in Run : q # r => collected'[q] = collected[q]
          /\ collected'[r] \in T
      BY <3>1, <3>3, <1>1, <1>8 DEF TypeOK
    <3>6. collected' \in [Run -> T]
      BY <3>1, <3>5, <1>1 DEF TypeOK
    <3>7. ReadsOf(r)'
      BY <3>1, <3>2, <3>4, <3>5, <1>2, <1>9 DEF ReadsOf, Profile, Business
    <3>8. Turn["broker_profiles"] = 14 /\ Turn["broker_businesses"] = 10 /\ LastTurn = 14
      BY TurnIs DEF LastTurn
    <3>9. \A x \in rows : Turn[x[1]] \notin 1..0
      OBVIOUS
    <3>10. DeletesOf(r)'
      BY <3>1, <3>8, <3>9, <1>2, <1>3, <1>8 DEF DeletesOf, Open, IsPurge
    <3> QED BY <3>5, <3>6, <3>7, <3>10
  <2> QED BY <2>1, <2>2, <2>3
<1>11. TypeOK'
  BY <1>1, <1>2, <1>6, <1>10 DEF TypeOK
<1>12. Reads' /\ Deletes'
  <2>1. \A q \in Run : q # r => ReadsOf(q)' /\ DeletesOf(q)'
    BY <1>1, <1>2, <1>7, <1>10, OthersKeep
  <2> QED BY <2>1, <1>10 DEF Reads, Deletes
<1>13. NeverHalfPurged'
  BY <1>1, <1>2, <1>7, <1>10, NothingTaken
<1> QED BY <1>2, <1>6, <1>11, <1>12, <1>13, RowsSame DEF IInv

\* Deleting from one table.
LEMMA DeleteStep ==
  ASSUME IInv, NEW r \in Run, Delete(r)
  PROVE  IInv'
<1>1. TypeOK /\ Places /\ Progress /\ Shapes /\ ForeignKeys /\ Companions /\ Reads /\ Deletes
      /\ NeverHalfPurged
  BY DEF IInv
<1> DEFINE H == Hit(r)
           c == collected[r]
           p == IF at[r] = LastTurn THEN "commit" ELSE "delete"
<1>2. /\ pc[r] = "delete" /\ Goto(r, p)
      /\ \A q \in Run \ {r} : doomed[q] \intersect (H \union Orphans(r)) = {}
      /\ Orphans(r) = {}
      /\ doomed' = [doomed EXCEPT ![r] = @ \union H]
      /\ at' = [at EXCEPT ![r] = @ + 1]
      /\ UNCHANGED <<rows, made, collected, late>>
  BY DEF Delete
<1>3. IsPurge(r)
  BY <1>1, <1>2, Runs DEF SeedPlace
<1>4. H = {x \in rows : Turn[x[1]] = at[r] /\ Matches(x, c)}
  BY DEF Hit
<1>5. \A x \in rows \ (doomed[r] \union H) : Parents(x) \intersect H = {}
  BY <1>2 DEF Orphans
<1> HIDE DEF H, p
<1>6. p \in {"commit", "delete"} /\ (p = "commit" <=> at[r] = LastTurn)
  BY DEF p
<1>7. p \in PurgePlace
  BY <1>6 DEF PurgePlace, Where
<1>8. /\ pc'[r] = p /\ at'[r] = at[r] + 1 /\ doomed'[r] = doomed[r] \union H
      /\ \A q \in Run : q # r => pc'[q] = pc[q] /\ at'[q] = at[q] /\ doomed'[q] = doomed[q]
  BY <1>1, <1>2 DEF TypeOK, Goto
<1>9. Places' /\ Progress' /\ pc' \in [Run -> Where]
  BY <1>1, <1>2, <1>3, <1>7, <1>8, PurgeKeepsPlaces
<1>10. TypeOK'
  <2>1. doomed' \in [Run -> SUBSET rows]
    BY <1>1, <1>2, <1>4 DEF TypeOK
  <2>2. at' \in [Run -> Nat]
    BY <1>1, <1>2 DEF TypeOK
  <2> QED BY <1>1, <1>2, <1>9, <2>1, <2>2 DEF TypeOK
<1>11. Shapes'
  BY <1>1, <1>2 DEF Shapes, WellFormed, OfAccreditation, Profile, Business
<1>12. Companions'
  BY <1>1, <1>2 DEF Companions, OfAccreditation, Profile, Business, Affiliation, Accreditation
<1>13. ForeignKeys'
  <2>1. \A q \in Run : \A x \in rows \ doomed'[q] : Parents(x) \intersect doomed'[q] = {}
    BY <1>1, <1>5, <1>8 DEF ForeignKeys
  <2>2. \A q, w \in Run : q # w => doomed'[q] \intersect doomed'[w] = {}
    BY <1>1, <1>2, <1>8 DEF ForeignKeys
  <2>3. \A x \in rows : Parents(x) \subseteq rows
    BY <1>1 DEF ForeignKeys
  <2> QED BY <2>1, <2>2, <2>3, <1>2
      DEF ForeignKeys, Parents, NamesBroker, NamesBusiness,
          Profile, Business, Relationship, Accreditation
<1>14. ReadsOf(r)'
  BY <1>1, <1>2, <1>6, <1>8 DEF Reads, ReadsOf, Profile, Business
<1>15. DeletesOf(r)'
  <2>1. at[r] \in 1..LastTurn /\ LastTurn = 14 /\ DeletesOf(r)
    BY <1>1, <1>2 DEF Deletes, DeletesOf, LastTurn
  <2>2. Turn["broker_profiles"] = 14 /\ Turn["broker_businesses"] = 10
    BY TurnIs
  <2>3. /\ pc'[r] \in {"delete", "commit"}
        /\ pc'[r] = "delete" => at'[r] \in 1..LastTurn
        /\ pc'[r] = "commit" => at'[r] = LastTurn + 1
    BY <1>6, <1>8, <2>1
  <2>4. \A x \in doomed'[r] : Turn[x[1]] \in 1..(at'[r] - 1) /\ Matches(x, c)
    BY <1>2, <1>4, <1>8, <2>1 DEF DeletesOf
  <2>5. ASSUME NEW x \in rows, Turn[x[1]] \in 1..(at'[r] - 1), Matches(x, c)
        PROVE  x \in doomed'[r] \union late[r]
    <3>1. Turn[x[1]] = at[r] \/ Turn[x[1]] \in 1..(at[r] - 1)
      BY <2>5, <2>1, <1>8
    <3> QED BY <3>1, <2>1, <2>5, <1>2, <1>4, <1>8 DEF DeletesOf
  <2>6. ASSUME at'[r] > Turn["broker_profiles"], NEW b \in c.brokers, Profile(b) \in rows
        PROVE  Profile(b) \in doomed'[r]
    <3>1. at[r] = 14
      BY <2>1, <2>2, <2>6, <1>8
    <3>2. Turn[Profile(b)[1]] = 14 /\ Matches(Profile(b), c)
      BY <2>2 DEF Profile, Matches, OfAccreditation
    <3> QED BY <3>1, <3>2, <2>6, <1>4, <1>8
  <2>7. ASSUME at'[r] > Turn["broker_businesses"], NEW z \in c.businesses, Business(z) \in rows
        PROVE  Business(z) \in doomed'[r]
    <3>1. at[r] = 10 \/ at[r] > 10
      BY <2>1, <2>2, <2>7, <1>8
    <3>2. Turn[Business(z)[1]] = 10 /\ Matches(Business(z), c)
      BY <2>2 DEF Business, Matches, OfAccreditation
    <3> QED BY <3>1, <3>2, <2>1, <2>2, <2>7, <1>2, <1>4, <1>8 DEF DeletesOf
  <2>8. Open(r)'
    BY <1>3, <2>3 DEF Open, IsPurge
  <2> QED BY <1>2, <2>3, <2>4, <2>5, <2>6, <2>7, <2>8
      DEF DeletesOf, Profile, Business, Matches, OfAccreditation
<1>16. Reads' /\ Deletes'
  <2>1. \A q \in Run : q # r => ReadsOf(q)' /\ DeletesOf(q)'
    BY <1>1, <1>2, <1>8, OthersKeep
  <2> QED BY <2>1, <1>14, <1>15 DEF Reads, Deletes
<1>17. NeverHalfPurged'
  BY <1>1, <1>2, <1>8, NothingTaken
<1> QED BY <1>9, <1>10, <1>11, <1>12, <1>13, <1>16, <1>17 DEF IInv

\* Rolling back: nothing has happened.
LEMMA RollbackStep ==
  ASSUME IInv, NEW r \in Run, Refuse(r) \/ Lose(r)
  PROVE  IInv'
<1>1. TypeOK /\ Places /\ Progress /\ Shapes /\ ForeignKeys /\ Companions /\ Reads /\ Deletes
      /\ NeverHalfPurged
  BY DEF IInv
<1>2. PICK p \in {"refused", "failed"} : Rollback(r, p)
  BY DEF Refuse, Lose
<1>3. IsPurge(r) /\ pc[r] # "done"
  BY <1>1, Runs DEF Refuse, Lose, SeedPlace
<1>4. /\ Goto(r, p)
      /\ at' = [at EXCEPT ![r] = 1]
      /\ collected' = [collected EXCEPT ![r] = NothingFound]
      /\ doomed' = [doomed EXCEPT ![r] = {}]
      /\ late' = [late EXCEPT ![r] = {}]
      /\ UNCHANGED <<rows, made>>
  BY <1>2 DEF Rollback
<1>5. p \in PurgePlace
  BY <1>2 DEF PurgePlace, Where
<1>6. /\ pc'[r] = p /\ at'[r] = 1 /\ doomed'[r] = {} /\ late'[r] = {}
      /\ collected'[r] = NothingFound
      /\ \A q \in Run : q # r => /\ pc'[q] = pc[q] /\ at'[q] = at[q] /\ doomed'[q] = doomed[q]
                                 /\ late'[q] = late[q] /\ collected'[q] = collected[q]
  BY <1>1, <1>4 DEF TypeOK, Goto
<1>7. Places' /\ Progress' /\ pc' \in [Run -> Where]
  BY <1>1, <1>3, <1>4, <1>5, <1>6, PurgeKeepsPlaces
<1>8. TypeOK'
  <2>1. NothingFound \in [brokers : SUBSET DemoBroker, businesses : SUBSET Broker,
                          accreditations : SUBSET Row]
    BY DEF NothingFound
  <2>2. collected' \in [Run -> [brokers : SUBSET DemoBroker, businesses : SUBSET Broker,
                                accreditations : SUBSET Row]]
    BY <1>1, <1>4, <2>1 DEF TypeOK
  <2>3. doomed' \in [Run -> SUBSET rows] /\ late' \in [Run -> SUBSET Row] /\ at' \in [Run -> Nat]
    BY <1>1, <1>4 DEF TypeOK
  <2> QED BY <1>1, <1>4, <1>7, <2>2, <2>3 DEF TypeOK
<1>9. Shapes'
  BY <1>1, <1>4 DEF Shapes, WellFormed, OfAccreditation, Profile, Business
<1>10. Companions'
  BY <1>1, <1>4 DEF Companions, OfAccreditation, Profile, Business, Affiliation, Accreditation
<1>11. ForeignKeys'
  <2>1. \A q \in Run : \A x \in rows \ doomed'[q] : Parents(x) \intersect doomed'[q] = {}
    BY <1>1, <1>6 DEF ForeignKeys
  <2>2. \A q, w \in Run : q # w => doomed'[q] \intersect doomed'[w] = {}
    BY <1>1, <1>6 DEF ForeignKeys
  <2>3. \A x \in rows : Parents(x) \subseteq rows
    BY <1>1 DEF ForeignKeys
  <2> QED BY <2>1, <2>2, <2>3, <1>4
      DEF ForeignKeys, Parents, NamesBroker, NamesBusiness,
          Profile, Business, Relationship, Accreditation
<1>12. ReadsOf(r)' /\ DeletesOf(r)'
  <2>1. /\ pc'[r] \notin {"brokers", "businesses", "accreditations", "delete", "commit"}
        /\ collected'[r].brokers = {} /\ collected'[r].businesses = {}
    BY <1>2, <1>6 DEF NothingFound
  <2> QED BY <2>1, <1>6 DEF ReadsOf, DeletesOf
<1>13. Reads' /\ Deletes'
  <2>1. \A q \in Run : q # r => ReadsOf(q)' /\ DeletesOf(q)'
    BY <1>1, <1>4, <1>6, OthersKeep
  <2> QED BY <2>1, <1>12 DEF Reads, Deletes
<1>14. NeverHalfPurged'
  BY <1>1, <1>3, <1>4, <1>6, NothingTaken
<1> QED BY <1>7, <1>8, <1>9, <1>10, <1>11, <1>13, <1>14 DEF IInv

\* What is known when a purge commits: what it has deleted, and that what it matches and has
\* not deleted is late.
LEMMA AtCommit ==
  ASSUME IInv, NEW r \in Run, pc[r] = "commit"
  PROVE  LET c == collected[r] IN
         /\ \A x \in doomed[r] : x \in rows /\ Matches(x, c) /\ x[1] \notin Others
         /\ \A x \in rows : x[1] \notin Others /\ Matches(x, c)
                              => x \in doomed[r] \union late[r]
         /\ \A b \in c.brokers : Profile(b) \in rows => Profile(b) \in doomed[r]
         /\ \A z \in c.businesses : Business(z) \in rows => Business(z) \in doomed[r]
         /\ \A x \in c.accreditations : x[2] \in c.brokers
         /\ c.brokers \subseteq DemoBroker /\ c.businesses \subseteq Broker
<1>1. TypeOK /\ ReadsOf(r) /\ DeletesOf(r)
  BY DEF IInv, Reads, Deletes
<1>2. LastTurn = 14 /\ at[r] = 15
  BY <1>1 DEF DeletesOf, LastTurn
<1>3. \A x \in rows : Turn[x[1]] \in 1..14 <=> x[1] \notin Others
  <2>1. \A x \in rows : x[1] \in Table
    BY <1>1 DEF TypeOK, Row
  <2>2. \A t \in Others : Turn[t] = 0
    BY TurnIs
  <2> QED BY <2>1, <2>2, <1>2, TurnIs
<1>4. doomed[r] \subseteq rows
  BY <1>1 DEF TypeOK
<1>5. Turn["broker_profiles"] = 14 /\ Turn["broker_businesses"] = 10
  BY TurnIs
<1>6. /\ \A x \in doomed[r] : Turn[x[1]] \in 1..14 /\ Matches(x, collected[r])
      /\ \A x \in rows : Turn[x[1]] \in 1..14 /\ Matches(x, collected[r])
                           => x \in doomed[r] \union late[r]
      /\ \A b \in collected[r].brokers : Profile(b) \in rows => Profile(b) \in doomed[r]
      /\ \A z \in collected[r].businesses : Business(z) \in rows => Business(z) \in doomed[r]
  BY <1>1, <1>2, <1>5 DEF DeletesOf
<1>7. \A x \in collected[r].accreditations : x[2] \in collected[r].brokers
  BY <1>1 DEF ReadsOf
<1>8. collected[r].brokers \subseteq DemoBroker /\ collected[r].businesses \subseteq Broker
  BY <1>1 DEF TypeOK
<1> QED BY <1>3, <1>4, <1>6, <1>7, <1>8

\* What a purge matches is about a broker or a business it has collected.
LEMMA Matched ==
  ASSUME IInv, NEW r \in Run, pc[r] = "commit", NEW x \in rows, Matches(x, collected[r])
  PROVE  /\ OfAccreditation(x) \/ x[1] = "licensed_accreditations" => x[2] \in collected[r].brokers
         /\ x[2] \in collected[r].brokers \/ x[3] \in collected[r].businesses
<1>1. \A y \in collected[r].accreditations : y[2] \in collected[r].brokers
  BY AtCommit
<1>2. Accreditation(x[2], x[3])[2] = x[2]
  BY DEF Accreditation
<1>3. OfAccreditation(x) => x[1] # "licensed_accreditations"
  BY DEF OfAccreditation
<1>4. OfAccreditation(x) \/ x[1] = "licensed_accreditations" => x[2] \in collected[r].brokers
  BY <1>1, <1>2, <1>3 DEF Matches
<1> QED BY <1>4 DEF Matches

\* Committing.
LEMMA CommitStep ==
  ASSUME IInv, NEW r \in Run, Commit(r)
  PROVE  IInv'
<1>1. TypeOK /\ Places /\ Progress /\ Shapes /\ ForeignKeys /\ Companions /\ Reads /\ Deletes
      /\ NeverHalfPurged
  BY DEF IInv
<1> DEFINE c == collected[r]
           D == doomed[r]
<1>2. /\ pc[r] = "commit" /\ Goto(r, "done")
      /\ rows' = rows \ D
      /\ doomed' = [doomed EXCEPT ![r] = {}]
      /\ late' = [late EXCEPT ![r] = {}]
      /\ UNCHANGED <<at, made, collected>>
  BY DEF Commit
<1>3. IsPurge(r)
  BY <1>1, <1>2, Runs DEF SeedPlace
<1>4. "done" \in PurgePlace
  BY DEF PurgePlace, Where
<1>5. Places' /\ Progress' /\ pc' \in [Run -> Where]
  BY <1>1, <1>2, <1>3, <1>4, PurgeKeepsPlaces
<1>6. /\ pc'[r] = "done" /\ doomed'[r] = {} /\ late'[r] = {}
      /\ \A q \in Run : q # r => pc'[q] = pc[q] /\ doomed'[q] = doomed[q] /\ late'[q] = late[q]
  BY <1>1, <1>2 DEF TypeOK, Goto
<1>7. \A q \in Run : q # r => doomed[q] \intersect D = {}
  BY <1>1 DEF ForeignKeys
<1>8. TypeOK'
  <2>1. \A q \in Run : doomed'[q] \in SUBSET rows'
    BY <1>1, <1>2, <1>6, <1>7 DEF TypeOK
  <2>2. DOMAIN doomed' = Run /\ doomed' = [q \in Run |-> doomed'[q]]
    BY <1>1, <1>2 DEF TypeOK
  <2>3. doomed' \in [Run -> SUBSET rows']
    BY <2>1, <2>2
  <2>4. late' \in [Run -> SUBSET Row] /\ rows' \subseteq Row
    BY <1>1, <1>2 DEF TypeOK
  <2> QED BY <1>1, <1>2, <1>5, <2>3, <2>4 DEF TypeOK
<1>9. /\ \A x \in D : x \in rows /\ Matches(x, c) /\ x[1] \notin Others
      /\ \A b \in c.brokers : Profile(b) \notin rows'
      /\ \A z \in c.businesses : Business(z) \notin rows'
      /\ c.brokers \subseteq DemoBroker /\ c.businesses \subseteq Broker
  BY <1>2, AtCommit
<1>10. \A x \in D : /\ OfAccreditation(x) => x[2] \in c.brokers
                    /\ x[2] \in c.brokers \/ x[3] \in c.businesses
  BY <1>2, <1>9, Matched
<1>11. Shapes'
  BY <1>1, <1>2 DEF Shapes, WellFormed, OfAccreditation, Profile, Business
<1>12. ForeignKeys'
  <2>1. \A x \in rows' : Parents(x) \subseteq rows'
    BY <1>1, <1>2 DEF ForeignKeys
  <2>2. \A q \in Run : \A x \in rows' \ doomed'[q] : Parents(x) \intersect doomed'[q] = {}
    BY <1>1, <1>2, <1>6 DEF ForeignKeys
  <2>3. \A q, w \in Run : q # w => doomed'[q] \intersect doomed'[w] = {}
    BY <1>1, <1>6 DEF ForeignKeys
  <2> QED BY <2>1, <2>2, <2>3
      DEF ForeignKeys, Parents, NamesBroker, NamesBusiness,
          Profile, Business, Relationship, Accreditation
<1>13. Companions'
  <2>1. ASSUME NEW x \in rows', OfAccreditation(x), Profile(x[2]) \in rows'
        PROVE  Accreditation(x[2], x[3]) \in rows'
    <3>1. Accreditation(x[2], x[3]) \in rows
      BY <1>1, <1>2, <2>1 DEF Companions
    <3>2. OfAccreditation(Accreditation(x[2], x[3])) /\ Accreditation(x[2], x[3])[2] = x[2]
      BY <2>1 DEF OfAccreditation, Accreditation
    <3>3. x[2] \notin c.brokers
      BY <1>9, <2>1
    <3> QED BY <3>1, <3>2, <3>3, <1>2, <1>10
  <2>2. ASSUME NEW e \in Email, NEW w \in Run,
               Profile(<<e, w>>) \in rows', Business(<<e, w>>) \in rows'
        PROVE  Affiliation(<<e, w>>, <<e, w>>) \in rows'
    <3> DEFINE b == <<e, w>>
    <3>1. Affiliation(b, b) \in rows
      BY <1>1, <1>2, <2>2 DEF Companions
    <3>2. Affiliation(b, b)[2] = b /\ Affiliation(b, b)[3] = b
      BY DEF Affiliation
    <3>3. b \notin c.brokers /\ b \notin c.businesses
      BY <1>9, <2>2
    <3> QED BY <3>1, <3>2, <3>3, <1>2, <1>10
  <2> QED BY <2>1, <2>2
      DEF Companions, OfAccreditation, Profile, Business, Affiliation, Accreditation
<1>14. ReadsOf(r)' /\ DeletesOf(r)'
  <2>1. ReadsOf(r)
    BY <1>1 DEF Reads
  <2>2. pc'[r] \notin {"brokers", "businesses", "accreditations", "delete", "commit"}
    BY <1>6
  <2> QED BY <2>1, <2>2, <1>2, <1>6 DEF ReadsOf, DeletesOf
<1>15. Reads' /\ Deletes'
  <2>1. \A q \in Run : q # r => ReadsOf(q)' /\ DeletesOf(q)'
    BY <1>1, <1>2, <1>6, OthersKeep
  <2> QED BY <2>1, <1>14 DEF Reads, Deletes
<1>16. NeverHalfPurged'
  <2>1. ASSUME NEW x \in Email, NEW w \in Run,
               Profile(<<x, w>>) \in rows', ~SweptAside(<<x, w>>)', NEW n \in 1..made[w][x]
        PROVE  Calls(x, w)[n] \subseteq rows'
    <3> DEFINE b == <<x, w>>
    <3>1. b \notin c.brokers /\ b \in Broker
      BY <1>9, <2>1, Brokers
    <3>2. b \notin c.businesses
      BY <3>1, <1>2, <1>3, <1>6, <2>1 DEF SweptAside, IsPurge
    <3>3. ~SweptAside(b)
      <4>1. ASSUME SweptAside(b) PROVE SweptAside(b)'
        <5>1. PICK q \in Run : /\ IsPurge(q) /\ pc[q] = "done"
                               /\ b \in collected[q].businesses \ collected[q].brokers
          BY <4>1 DEF SweptAside
        <5>2. pc'[q] = "done"
          BY <5>1, <1>2, <1>6
        <5> QED BY <5>1, <5>2, <1>2 DEF SweptAside, IsPurge
      <4> QED BY <4>1, <2>1
    <3>4. Calls(x, w)[n] \subseteq rows
      BY <3>3, <1>1, <1>2, <2>1 DEF NeverHalfPurged
    <3>5. \A y \in Calls(x, w)[n] : y[2] \in {b, Nobody} /\ y[3] \in {b, Nobody}
      <4>1. n \in 1..Len(Calls(x, w))
        <5>1. /\ made[w][x] \in Nat /\ made[w][x] <= Len(Calls(x, w))
              /\ Len(Calls(x, w)) \in Nat
          BY <1>1, CallsLen DEF Progress, TypeOK, Item
        <5> QED BY <5>1
      <4>2. /\ Calls(x, w)[1] = Audited(b, {Profile(b)})
            /\ Calls(x, w)[6] = Audited(b, {Business(b), Affiliation(b, b)})
            /\ \A m \in 1..Len(Calls(x, w)) : m \notin {1, 6} => Calls(x, w)[m] \subseteq OwnRows(b)
        BY CallsOfEmail, Zenon
      <4> HIDE DEF b
      <4>3. CASE n = 1 BY <4>2, <4>3 DEF Audited, Profile
      <4>4. CASE n = 6 BY <4>2, <4>4 DEF Audited, Business, Affiliation
      <4>5. CASE n \notin {1, 6}
        <5>1. Calls(x, w)[n] \subseteq OwnRows(b) BY <4>1, <4>2, <4>5
        <5> QED BY <5>1 DEF OwnRows
      <4> QED BY <4>3, <4>4, <4>5
    <3>6. \A y \in Calls(x, w)[n] : y \notin D
      <4>1. Nobody \notin c.brokers /\ Nobody \notin c.businesses
        BY <1>9, Brokers DEF Broker
      <4> HIDE DEF b, D
      <4> QED BY <4>1, <3>1, <3>2, <3>5, <1>10
    <3> QED BY <3>4, <3>6, <1>2
  <2> QED BY <2>1, <1>2 DEF NeverHalfPurged, Profile
<1> QED BY <1>5, <1>8, <1>11, <1>12, <1>13, <1>15, <1>16 DEF IInv

(***************************************************************************)
(* The invariant, and what follows from it.                                *)
(***************************************************************************)
LEMMA InitIInv == Init => IInv
<1> SUFFICES ASSUME Init PROVE IInv
  OBVIOUS
<1>1. PICK checked \in SUBSET Stranger : rows = Before(checked)
  BY DEF Init
<1>2. /\ pc = [r \in Run |-> IF IsSeed(r) THEN "find" ELSE "brokers"]
      /\ at = [r \in Run |-> 1]
      /\ made = [r \in Run |-> [x \in Item |-> 0]]
      /\ collected = [r \in Run |-> NothingFound]
      /\ doomed = [r \in Run |-> {}]
      /\ late = [r \in Run |-> {}]
  BY DEF Init
<1>3. \A x \in rows : \E s \in Stranger :
        \/ x = Profile(s) \/ x = Business(s) \/ x = Affiliation(s, s)
        \/ x = Relationship(s) \/ x = <<"evidence", Nobody, s>>
        \/ x = <<"check_with_evidence", Nobody, s>> /\ <<"evidence", Nobody, s>> \in rows
  BY <1>1 DEF Before
<1>4. \A s \in Stranger : Profile(s) \in rows /\ Business(s) \in rows
  BY <1>1 DEF Before
<1>5. \A s \in Stranger : /\ s \in Broker /\ s # Nobody
                          /\ \A e \in Email, w \in Run : s # <<e, w>>
  BY Brokers
<1>6. TypeOK
  <2>1. rows \subseteq Row
    <3>1. \A s \in Stranger : /\ Profile(s) \in Row /\ Business(s) \in Row /\ Affiliation(s, s) \in Row
                              /\ Relationship(s) \in Row
                              /\ <<"evidence", Nobody, s>> \in Row
                              /\ <<"check_with_evidence", Nobody, s>> \in Row
      BY <1>5, TableIs DEF Row, Party, Profile, Business, Affiliation, Relationship
    <3> QED BY <3>1, <1>3
  <2>2. NothingFound \in [brokers : SUBSET DemoBroker, businesses : SUBSET Broker,
                          accreditations : SUBSET Row]
    BY DEF NothingFound
  <2>3. pc \in [Run -> Where]
    BY <1>2 DEF Where
  <2> QED BY <1>2, <2>1, <2>2, <2>3 DEF TypeOK
<1>7. Places
  <2>1. ASSUME NEW r \in Run, IsSeed(r)
        PROVE  1 \in DOMAIN Roster[ScriptOf[r]]
    BY <2>1, ScriptAssumption DEF IsSeed
  <2>2. \A r \in Run : ~(IsSeed(r) /\ IsPurge(r))
    BY DEF IsSeed, IsPurge, Seeds
  <2> QED BY <1>2, <2>1, <2>2 DEF Places
<1>8. Progress
  <2>1. \A r \in Run : \A x \in Item : made[r][x] = 0 /\ made[r][x] <= Len(Calls(x, r))
    BY <1>2, CallsLen
  <2>2. ASSUME NEW r \in Run, IsSeed(r), NEW i \in DOMAIN Roster[ScriptOf[r]]
        PROVE  Roster[ScriptOf[r]][i] \in Item /\ ~(i < at[r])
    <3>1. Roster[ScriptOf[r]] \in Seq(Item)
      BY <2>2, ScriptAssumption DEF IsSeed
    <3> QED BY <3>1, <2>2, <1>2
  <2>3. \A r \in Run, x \in Item : ~(made[r][x] > 0)
    BY <2>1
  <2> QED BY <2>1, <2>2, <2>3 DEF Progress
<1>9. Shapes
  <2>1. ASSUME NEW x \in rows PROVE WellFormed(x) /\ (x[2] = Nobody \/ x[2] \in Stranger)
    <3>1. PICK s \in Stranger : \/ x = Profile(s) \/ x = Business(s) \/ x = Affiliation(s, s)
                                \/ x = Relationship(s) \/ x = <<"evidence", Nobody, s>>
                                \/ x = <<"check_with_evidence", Nobody, s>>
      BY <1>3
    <3>2. s # Nobody
      BY <1>5
    <3> QED BY <3>1, <3>2 DEF WellFormed, OfAccreditation, Profile, Business, Affiliation, Relationship
  <2>2. ASSUME NEW e \in Email, NEW w \in Run PROVE <<e, w>> # Nobody /\ <<e, w>> \notin Stranger
    <3>1. <<e, w>> \in Broker /\ Nobody \notin Broker
      BY Brokers
    <3> QED BY <3>1, <1>5
  <2>3. \A e \in Email, w \in Run : Business(<<e, w>>) \notin rows
    <3>1. \A e \in Email, w \in Run : \A s \in Stranger :
            /\ Business(<<e, w>>) # Profile(s) /\ Business(<<e, w>>) # Business(s)
            /\ Business(<<e, w>>) # Affiliation(s, s) /\ Business(<<e, w>>) # Relationship(s)
            /\ Business(<<e, w>>) # <<"evidence", Nobody, s>>
            /\ Business(<<e, w>>) # <<"check_with_evidence", Nobody, s>>
      BY <1>5 DEF Business, Profile, Affiliation, Relationship
    <3> HIDE DEF Business, Profile, Affiliation, Relationship
    <3> SUFFICES ASSUME NEW e \in Email, NEW w \in Run, Business(<<e, w>>) \in rows PROVE FALSE
      OBVIOUS
    <3>2. PICK s \in Stranger :
            \/ Business(<<e, w>>) = Profile(s) \/ Business(<<e, w>>) = Business(s)
            \/ Business(<<e, w>>) = Affiliation(s, s) \/ Business(<<e, w>>) = Relationship(s)
            \/ Business(<<e, w>>) = <<"evidence", Nobody, s>>
            \/ Business(<<e, w>>) = <<"check_with_evidence", Nobody, s>>
      BY <1>3
    <3> QED BY <3>1, <3>2
  <2> QED BY <2>1, <2>2, <2>3 DEF Shapes
<1>10. ForeignKeys
  <2>1. ASSUME NEW x \in rows PROVE Parents(x) \subseteq rows
    <3>1. PICK s \in Stranger :
            \/ x = Profile(s) \/ x = Business(s) \/ x = Affiliation(s, s)
            \/ x = Relationship(s) \/ x = <<"evidence", Nobody, s>>
            \/ x = <<"check_with_evidence", Nobody, s>> /\ <<"evidence", Nobody, s>> \in rows
      BY <1>3
    <3>2. CASE x = Profile(s) BY <3>2 DEF Parents, NamesBroker, NamesBusiness, Profile
    <3>3. CASE x = Business(s) BY <3>3 DEF Parents, NamesBroker, NamesBusiness, Business
    <3>4. CASE x = Affiliation(s, s) BY <3>4, <1>4 DEF Parents, NamesBroker, NamesBusiness, Affiliation
    <3>5. CASE x = <<"evidence", Nobody, s>> BY <3>5 DEF Parents, NamesBroker, NamesBusiness
    <3>7. CASE x = Relationship(s) BY <3>7, <1>4 DEF Parents, NamesBroker, NamesBusiness, Relationship
    <3>6. CASE x = <<"check_with_evidence", Nobody, s>> /\ <<"evidence", Nobody, s>> \in rows
      BY <3>6 DEF Parents, NamesBroker, NamesBusiness
    <3> QED BY <3>1, <3>2, <3>3, <3>4, <3>5, <3>6, <3>7
  <2> QED BY <2>1, <1>2 DEF ForeignKeys
<1>11. Companions
  <2>1. ASSUME NEW x \in rows PROVE ~OfAccreditation(x)
    <3>1. PICK s \in Stranger : \/ x = Profile(s) \/ x = Business(s) \/ x = Affiliation(s, s)
                                \/ x = Relationship(s) \/ x = <<"evidence", Nobody, s>>
                                \/ x = <<"check_with_evidence", Nobody, s>>
      BY <1>3
    <3> QED BY <3>1 DEF OfAccreditation, Profile, Business, Affiliation, Relationship
  <2>2. \A e \in Email, w \in Run : Profile(<<e, w>>) \notin rows
    <3>1. ASSUME NEW e \in Email, NEW w \in Run, Profile(<<e, w>>) \in rows PROVE FALSE
      <4>1. Profile(<<e, w>>)[2] = <<e, w>>
        BY DEF Profile
      <4>2. made[w][e] > 0 /\ made[w][e] = 0
        BY <3>1, <4>1, <1>2, <1>9 DEF Shapes, Item
      <4> QED BY <4>2
    <3> QED BY <3>1
  <2> QED BY <2>1, <2>2 DEF Companions
<1>12. Reads
  BY <1>2 DEF Reads, ReadsOf, NothingFound
<1>13. Deletes
  BY <1>2 DEF Deletes, DeletesOf
<1>14. NeverHalfPurged
  <2>1. \A x \in Email, r \in Run : made[r][x] = 0
    BY <1>2 DEF Item
  <2> QED BY <2>1 DEF NeverHalfPurged
<1> QED BY <1>6, <1>7, <1>8, <1>9, <1>10, <1>11, <1>12, <1>13, <1>14 DEF IInv

LEMMA NextIInv == IInv /\ [Next]_vars => IInv'
<1> SUFFICES ASSUME IInv, [Next]_vars PROVE IInv'
  OBVIOUS
<1>1. ASSUME NEW r \in Run, Seed(r) PROVE IInv'
  BY <1>1, SeedStep
<1>2. ASSUME NEW r \in Run, Purge(r) PROVE IInv'
  BY <1>2, SelectStep, DeleteStep, RollbackStep, CommitStep DEF Purge
<1>3. ASSUME NEW x \in AppRow, AppCall(x) PROVE IInv'
  BY <1>3, AppStep
<1>4. ASSUME UNCHANGED vars PROVE IInv'
  <2>1. UNCHANGED <<rows, pc, at, made, collected, doomed, late>>
    BY <1>4 DEF vars
  <2>2. Places' /\ Progress'
    BY <2>1 DEF IInv, Places, Progress, Current, IsSeed, IsPurge
  <2>3. TypeOK'
    BY <2>1 DEF IInv, TypeOK
  <2>4. Reads' /\ Deletes'
    BY <2>1, OthersKeep DEF IInv, Reads, Deletes
  <2>5. NeverHalfPurged'
    BY <2>1 DEF IInv, NeverHalfPurged, SweptAside, IsPurge, Profile
  <2> QED BY <2>1, <2>2, <2>3, <2>4, <2>5, RowsSame DEF IInv
<1> QED BY <1>1, <1>2, <1>3, <1>4 DEF Next, Finished

THEOREM Invariance == Spec => []IInv
  BY InitIInv, NextIInv, PTL DEF Spec

\* Which action commits, and which one a foreign key refuses.
LEMMA WhoEnds ==
  ASSUME IInv, Next, NEW r \in Run
  PROVE  /\ pc[r] = "commit" /\ pc'[r] = "done" => Commit(r)
         /\ pc[r] # "refused" /\ pc'[r] = "refused" => Refuse(r)
<1>1. pc \in [Run -> Where] /\ (pc[r] = "commit" => ~IsSeed(r))
  BY Runs DEF IInv, TypeOK, SeedPlace
<1> SUFFICES ASSUME pc'[r] # pc[r], pc[r] = "commit" \/ pc'[r] = "refused"
             PROVE  /\ pc[r] = "commit" /\ pc'[r] = "done" => Commit(r)
                    /\ pc'[r] = "refused" => Refuse(r)
  BY <1>1
<1>2. ASSUME NEW q \in Run, NEW p, Goto(q, p)
      PROVE  q = r /\ pc'[r] = p
  BY <1>1, <1>2 DEF Goto
<1>3. \A q \in Run : ~Seed(q)
  <2>1. ASSUME NEW q \in Run, Seed(q) PROVE FALSE
    <3>1. pc[q] \in {"find", "create", "call"}
      BY <2>1 DEF Seed, Miss, Reuse, ReuseReviewer, Create, Taken, ReviewerTaken, Call, BreakOff
    <3>2. PICK p \in {"create", "call", "done", "find", "failed"} : Goto(q, p)
      <4>1. CASE Call(q) /\ UNCHANGED <<pc, at>>
        BY <4>1
      <4> QED
        BY <2>1, <4>1
        DEF Seed, Miss, Reuse, ReuseReviewer, Create, Taken, ReviewerTaken, Call, BreakOff, NextItem
    <3> QED BY <3>1, <3>2, <1>2
  <2> QED BY <2>1
<1>4. PICK q \in Run : Purge(q)
  <2>1. ~(\E x \in AppRow : AppCall(x)) /\ ~Finished
    BY DEF AppCall, Finished, vars
  <2> QED BY <1>3, <2>1 DEF Next
<1>5. CASE SelectBrokers(q) \/ SelectBusinesses(q) \/ SelectAccreditations(q)
  <2>1. \E p \in {"done", "businesses", "accreditations", "delete"} :
          Goto(q, p) /\ pc[q] \in {"brokers", "businesses", "accreditations"}
    BY <1>5 DEF SelectBrokers, SelectBusinesses, SelectAccreditations
  <2> QED BY <2>1, <1>2
<1>6. CASE Delete(q)
  <2>1. \E p \in {"commit", "delete"} : Goto(q, p) /\ pc[q] = "delete"
    BY <1>6 DEF Delete
  <2> QED BY <2>1, <1>2
<1>7. CASE Refuse(q)
  <2>1. Goto(q, "refused") /\ pc[q] = "delete"
    BY <1>7 DEF Refuse, Rollback
  <2> QED BY <2>1, <1>2, <1>7
<1>8. CASE Lose(q)
  <2>1. Goto(q, "failed")
    BY <1>8 DEF Lose, Rollback
  <2> QED BY <2>1, <1>2
<1>9. CASE Commit(q)
  <2>1. Goto(q, "done")
    BY <1>9 DEF Commit
  <2> QED BY <2>1, <1>2, <1>9
<1> QED BY <1>4, <1>5, <1>6, <1>7, <1>8, <1>9 DEF Purge

\* No row names the profile or the business of nobody.
LEMMA NobodysRows ==
  ASSUME Shapes, ForeignKeys
  PROVE  /\ Profile(Nobody) \notin rows /\ Business(Nobody) \notin rows
         /\ \A a \in Party : Accreditation(a, Nobody) \notin rows /\ Accreditation(Nobody, a) \notin rows
<1>1. Profile(Nobody) \notin rows /\ Business(Nobody) \notin rows
  BY DEF Shapes, WellFormed, Profile, Business
<1>2. \A a \in Party : /\ Business(Nobody) \in Parents(Accreditation(a, Nobody))
                       /\ Profile(Nobody) \in Parents(Accreditation(Nobody, a))
  BY DEF Parents, NamesBroker, NamesBusiness, Accreditation
<1> QED BY <1>1, <1>2 DEF ForeignKeys

\* What a purge leaves of a broker it deletes or of a business it has collected.
LEMMA CommitLeaves ==
  ASSUME IInv, NEW r \in Run, Commit(r), NEW x \in rows',
         Profile(x[2]) \in rows \ rows' \/ (x[2] = Nobody /\ x[3] \in collected[r].businesses)
  PROVE  x[1] \in Others \/ (x \in late[r] /\ x[1] \in Polymorphic)
<1>1. TypeOK /\ Shapes /\ ForeignKeys /\ Companions
  BY DEF IInv
<1> DEFINE c == collected[r]
           D == doomed[r]
<1>2. pc[r] = "commit" /\ rows' = rows \ D
  BY DEF Commit
<1>3. x \in rows /\ x \notin D /\ WellFormed(x) /\ Parents(x) \subseteq rows /\ Parents(x) \intersect D = {}
      /\ x[1] \in Table /\ x[2] \in Party /\ x[3] \in Party
  BY <1>1, <1>2 DEF Shapes, ForeignKeys, TypeOK, Row
<1>4. /\ \A y \in D : y \in rows /\ Matches(y, c)
      /\ \A y \in rows : y[1] \notin Others /\ Matches(y, c) => y \in D \union late[r]
      /\ \A z \in c.businesses : Business(z) \in rows => Business(z) \in D
      /\ c.brokers \subseteq Broker /\ c.businesses \subseteq Broker
  BY <1>2, AtCommit DEF Broker
<1>5. Nobody \notin Broker
  BY Brokers
<1>6. Profile(Nobody) \notin rows /\ Business(Nobody) \notin rows
      /\ \A a \in Party : Accreditation(a, Nobody) \notin rows /\ Accreditation(Nobody, a) \notin rows
  BY <1>1, NobodysRows
<1> SUFFICES ASSUME x[1] \notin Others
             PROVE  x \in late[r] /\ x[1] \in Polymorphic
  OBVIOUS
<1> HIDE DEF c, D
<1>7. CASE Profile(x[2]) \in D
  <2>1. x[2] \in c.brokers
    BY <1>4, <1>5, <1>7 DEF Matches, OfAccreditation, Profile
  <2>2. x[1] \notin {"association_memberships", "relationships", "business_affiliations",
                     "metering_event"} \union Accreditations
    BY <1>3, <1>7 DEF Parents, NamesBroker, NamesBusiness
  <2>3. x[1] \notin {"broker_profiles", "broker_businesses"}
    BY <1>3, <1>4, <1>5, <1>7, <2>1 DEF WellFormed, Profile, Business
  <2>4. x[1] # "business_principals"
    <3>1. CASE x[3] = Nobody BY <3>1, <1>3, <1>6 DEF Parents, NamesBroker, NamesBusiness
    <3>2. CASE x[3] # Nobody
      BY <3>2, <2>1, <1>3, <1>4, <1>5 DEF WellFormed, OfAccreditation, AboutAccreditation
    <3> QED BY <3>1, <3>2
  <2>5. CASE OfAccreditation(x)
    <3> DEFINE a == Accreditation(x[2], x[3])
    <3>1. a \in rows
      BY <2>5, <1>1, <1>3, <1>4, <1>7 DEF Companions
    <3>2. Profile(x[2]) \in Parents(a) /\ OfAccreditation(a) /\ a[2] = x[2] /\ a[3] = x[3]
      BY <2>5 DEF Parents, NamesBroker, NamesBusiness, Accreditation, OfAccreditation
    <3>3. a \in D
      BY <3>1, <3>2, <1>1, <1>7 DEF ForeignKeys, D
    <3>4. a \in c.accreditations
      BY <3>2, <3>3, <1>4 DEF Matches, Accreditation
    <3>5. x \in late[r]
      BY <3>4, <2>5, <1>3, <1>4 DEF Matches
    <3>6. x[1] \notin {"accreditation_decisions", "training_confirmations"}
      BY <3>3, <1>3 DEF Parents, NamesBroker, NamesBusiness
    <3> QED BY <3>5, <3>6, <2>2, <2>5, <1>3 DEF WellFormed, AboutAccreditation, Polymorphic
  <2>6. CASE ~OfAccreditation(x)
    <3>1. x \in late[r]
      BY <2>1, <2>2, <2>6, <1>3, <1>4 DEF Matches
    <3>2. x[1] \notin {"accreditation_decisions", "training_confirmations"}
      <4>1. CASE x[1] \in {"accreditation_decisions", "training_confirmations"}
        <5>1. x[3] = Nobody
          BY <4>1, <2>1, <2>6, <1>4, <1>5 DEF OfAccreditation
        <5>2. Accreditation(x[2], x[3]) \in rows
          BY <4>1, <1>3 DEF Parents, NamesBroker, NamesBusiness
        <5> QED BY <5>1, <5>2, <1>3, <1>6
      <4> QED BY <4>1
    <3> QED BY <3>1, <3>2, <2>2, <2>3, <2>4, <1>3, TableIs DEF Polymorphic
  <2> QED BY <2>5, <2>6
<1>8. CASE x[2] = Nobody /\ x[3] \in c.businesses
  <2>1. x[1] \notin {"association_memberships", "relationships", "business_affiliations",
                     "metering_event"} \union Accreditations
    BY <1>3, <1>6, <1>8 DEF Parents, NamesBroker, NamesBusiness
  <2>2. x \in late[r]
    BY <2>1, <1>3, <1>4, <1>8 DEF Matches, OfAccreditation
  <2>3. x[1] \notin {"accreditation_decisions", "training_confirmations"}
    BY <1>3, <1>6, <1>8 DEF Parents, NamesBroker, NamesBusiness
  <2>4. x[1] # "business_principals"
    BY <1>3, <1>4, <1>8 DEF Parents, NamesBroker, NamesBusiness
  <2>5. x[1] # "broker_profiles"
    BY <1>3, <1>4, <1>5, <1>8 DEF WellFormed, Profile
  <2>6. x[1] # "broker_businesses"
    BY <1>3, <1>4, <1>8 DEF WellFormed
  <2> QED BY <2>1, <2>2, <2>3, <2>4, <2>5, <2>6, <1>3, TableIs DEF Polymorphic
<1> QED BY <1>2, <1>7, <1>8 DEF c, D

\* Why a foreign key refuses a statement.
LEMMA RefusedFor ==
  ASSUME IInv, NEW r \in Run, Refuse(r)
  PROVE  LET c == collected[r] IN
         \E x \in rows :
           \/ /\ x[1] = "check_with_evidence"
              /\ x[2] \in c.brokers \/ x[3] \in c.businesses
           \/ x[1] \in Accreditations /\ x[2] \notin c.brokers /\ x[3] \in c.businesses
           \/ x \in late[r]
<1>1. TypeOK /\ Shapes /\ ForeignKeys /\ ReadsOf(r) /\ DeletesOf(r)
  BY DEF IInv, Reads, Deletes
<1> DEFINE c == collected[r]
<1>2. pc[r] = "delete" /\ Orphans(r) # {}
  BY DEF Refuse
<1>3. PICK x \in rows : x \notin doomed[r] /\ x \notin Hit(r) /\ Parents(x) \intersect Hit(r) # {}
  BY <1>2 DEF Orphans
<1>4. PICK y \in Parents(x) : y \in rows /\ Turn[y[1]] = at[r] /\ Matches(y, c)
  BY <1>3 DEF Hit
<1>5. /\ x[1] \in Table /\ x[2] \in Party /\ x[3] \in Party /\ WellFormed(x)
      /\ c.brokers \subseteq Broker /\ c.businesses \subseteq Broker /\ Nobody \notin Broker
  BY <1>1, <1>3, Brokers DEF TypeOK, Row, Shapes, Broker
<1>6. at[r] \in 1..14
  BY <1>1, <1>2 DEF DeletesOf, LastTurn
<1>7. ASSUME Matches(x, c), Turn[x[1]] \in 1..(at[r] - 1) PROVE x \in late[r]
  BY <1>1, <1>2, <1>3, <1>7 DEF DeletesOf
<1>8. ASSUME x[1] \in Accreditations, x[2] \in c.brokers, at[r] > 4 PROVE x \in late[r]
  <2>1. x \in c.accreditations \/ x \in late[r]
    BY <1>1, <1>2, <1>8 DEF ReadsOf
  <2>2. Turn[x[1]] \in 1..(at[r] - 1)
    BY <1>6, <1>8, TurnIs
  <2>3. CASE x \in c.accreditations
    <3>1. Matches(x, c)
      <4>1. CASE x[1] = "licensed_accreditations"
        BY <4>1, <2>3 DEF Matches
      <4>2. CASE x[1] = "accreditations"
        <5>1. x[2] # Nobody /\ x[3] # Nobody
          BY <1>1, <1>3, <1>5, <4>2, References
        <5>2. OfAccreditation(x) /\ x = Accreditation(x[2], x[3])
          BY <1>1, <1>3, <5>1, <4>2 DEF OfAccreditation, Accreditation, TypeOK, Row
        <5> QED BY <5>2, <2>3 DEF Matches
      <4> QED BY <4>1, <4>2, <1>8
    <3> QED BY <3>1, <2>2, <1>7
  <2> QED BY <2>1, <2>3
<1> HIDE DEF c
<1>9. CASE y = Profile(x[2]) /\ x[1] \in {"association_memberships", "relationships",
                               "business_affiliations", "metering_event"} \union Accreditations
  <2>1. at[r] = 14 /\ x[2] \in c.brokers
    BY <1>4, <1>5, <1>9, TurnIs DEF Profile, Matches, OfAccreditation
  <2>2. CASE x[1] \in Accreditations BY <2>1, <2>2, <1>8, <1>3
  <2>3. CASE x[1] \notin Accreditations
    <3>1. ~OfAccreditation(x)
      BY <2>3, <1>5, <1>9 DEF WellFormed, AboutAccreditation, OfAccreditation
    <3>2. Turn[x[1]] \in 1..(at[r] - 1)
      BY <2>1, <2>3, <1>9, TurnIs
    <3>3. Matches(x, c)
      BY <3>1, <2>1, <2>3, <1>9 DEF Matches
    <3> QED BY <3>2, <3>3, <1>7 DEF c
  <2> QED BY <2>2, <2>3
<1>10. CASE y = Business(x[3]) /\ x[1] \in {"business_principals", "business_affiliations"} \union Accreditations
  <2>1. at[r] = 10 /\ x[3] \in c.businesses
    BY <1>4, <1>5, <1>10, TurnIs DEF Business, Matches, OfAccreditation
  <2>2. CASE x[1] \in Accreditations BY <2>1, <2>2, <1>8 DEF c
  <2>3. CASE x[1] \notin Accreditations
    <3>1. ~OfAccreditation(x)
      BY <2>3, <1>5, <1>10 DEF WellFormed, AboutAccreditation, OfAccreditation
    <3>2. Turn[x[1]] \in 1..(at[r] - 1)
      BY <2>1, <2>3, <1>10, TurnIs
    <3>3. Matches(x, c)
      BY <3>1, <2>1, <2>3, <1>10 DEF Matches
    <3> QED BY <3>2, <3>3, <1>7 DEF c
  <2> QED BY <2>2, <2>3
<1>11. CASE y = Relationship(x[2]) /\ x[1] \in Accreditations
  <2>1. at[r] = 7 /\ x[2] \in c.brokers
    BY <1>4, <1>5, <1>11, TurnIs DEF Relationship, Matches, OfAccreditation
  <2> QED BY <2>1, <1>8, <1>11
<1>12. CASE y = Accreditation(x[2], x[3]) /\ x[1] \in {"accreditation_decisions", "training_confirmations"}
  <2>1. at[r] = 4 /\ Matches(x, c)
    BY <1>4, <1>12, TurnIs DEF Accreditation, Matches, OfAccreditation
  <2>2. Turn[x[1]] \in 1..(at[r] - 1)
    BY <2>1, <1>12, TurnIs
  <2> QED BY <2>1, <2>2, <1>7 DEF c
<1>13. CASE y = <<"evidence", x[2], x[3]>> /\ x[1] = "check_with_evidence"
  <2>1. ~OfAccreditation(x)
    BY <1>5, <1>13 DEF WellFormed, AboutAccreditation
  <2>2. x[2] \in c.brokers \/ x[3] \in c.businesses
    BY <2>1, <1>4, <1>13 DEF Matches, OfAccreditation
  <2> QED BY <2>2, <1>13 DEF c
<1> QED BY <1>4, <1>9, <1>10, <1>11, <1>12, <1>13 DEF Parents, NamesBroker, NamesBusiness

\* A step keeps what PurgeIsExact says of it.
LEMMA ExactStep ==
  ASSUME IInv, Next, NEW r \in Run
  PROVE  LET c == collected[r] IN
         /\ pc[r] = "commit" /\ pc'[r] = "done" =>
              /\ \A x \in rows' :
                   Profile(x[2]) \in rows \ rows' \/ (x[2] = Nobody /\ x[3] \in c.businesses) =>
                      x[1] \in Others \/ (x \in late[r] /\ x[1] \in Polymorphic)
              /\ \A b \in Broker :
                   Profile(b) \in rows \ rows' /\ Business(b) \in rows' => Business(b) \in late[r]
              /\ \A x \in rows \ rows' :
                   /\ x[2] \in Stranger => x[3] \in c.businesses /\ x[1] = "business_affiliations"
                   /\ x[2] = Nobody => x[3] \in c.businesses
         /\ pc[r] # "refused" /\ pc'[r] = "refused" =>
              \E x \in rows :
                \/ /\ x[1] = "check_with_evidence"
                   /\ x[2] \in c.brokers \/ x[3] \in c.businesses
                \/ x[1] \in Accreditations /\ x[2] \notin c.brokers /\ x[3] \in c.businesses
                \/ x \in late[r]
<1> DEFINE c == collected[r]
           D == doomed[r]
<1>1. ASSUME pc[r] = "commit", pc'[r] = "done"
      PROVE  /\ \A x \in rows' :
                  Profile(x[2]) \in rows \ rows' \/ (x[2] = Nobody /\ x[3] \in c.businesses) =>
                     x[1] \in Others \/ (x \in late[r] /\ x[1] \in Polymorphic)
             /\ \A b \in Broker :
                  Profile(b) \in rows \ rows' /\ Business(b) \in rows' => Business(b) \in late[r]
             /\ \A x \in rows \ rows' :
                  /\ x[2] \in Stranger => x[3] \in c.businesses /\ x[1] = "business_affiliations"
                  /\ x[2] = Nobody => x[3] \in c.businesses
  <2>1. Commit(r)
    BY <1>1, WhoEnds
  <2>2. rows' = rows \ D
    BY <2>1 DEF Commit
  <2>3. /\ \A y \in D : y \in rows /\ Matches(y, c)
        /\ \A z \in c.businesses : Business(z) \notin rows'
        /\ c.brokers \subseteq DemoBroker /\ c.businesses \subseteq Broker
    BY <1>1, <2>2, AtCommit
  <2>4. /\ Nobody \notin c.brokers /\ Nobody \notin c.businesses
        /\ \A b \in Stranger : b \notin c.brokers /\ b # Nobody
    BY <2>3, Brokers DEF Broker
  <2>5. \A x \in rows' :
          Profile(x[2]) \in rows \ rows' \/ (x[2] = Nobody /\ x[3] \in c.businesses) =>
             x[1] \in Others \/ (x \in late[r] /\ x[1] \in Polymorphic)
    BY <2>1, CommitLeaves
  <2>6. ASSUME NEW b \in Broker, Profile(b) \in rows \ rows', Business(b) \in rows'
        PROVE  Business(b) \in late[r]
    <3>1. b \in c.brokers
      BY <2>2, <2>3, <2>4, <2>6 DEF Matches, OfAccreditation, Profile
    <3>2. b \notin c.businesses
      BY <2>3, <2>6
    <3>3. ReadsOf(r)
      BY DEF IInv, Reads
    <3> QED BY <3>1, <3>2, <3>3, <1>1, <2>2, <2>6 DEF ReadsOf
  <2>7. ASSUME NEW x \in rows \ rows'
        PROVE  /\ x[2] \in Stranger => x[3] \in c.businesses /\ x[1] = "business_affiliations"
               /\ x[2] = Nobody => x[3] \in c.businesses
    <3>1. x \in D /\ x \in rows /\ x[1] \notin Others
      BY <1>1, <2>2, <2>7, AtCommit
    <3>2. /\ OfAccreditation(x) \/ x[1] = "licensed_accreditations" => x[2] \in c.brokers
          /\ x[2] \in c.brokers \/ x[3] \in c.businesses
      BY <3>1, <1>1, <2>3, Matched
    <3> QED BY <3>1, <3>2, <2>4 DEF OfAccreditation
  <2> QED BY <2>5, <2>6, <2>7
<1>2. ASSUME pc[r] # "refused", pc'[r] = "refused"
      PROVE  \E x \in rows :
               \/ /\ x[1] = "check_with_evidence"
                  /\ x[2] \in c.brokers \/ x[3] \in c.businesses
               \/ x[1] \in Accreditations /\ x[2] \notin c.brokers /\ x[3] \in c.businesses
               \/ x \in late[r]
  BY <1>2, WhoEnds, RefusedFor
<1> QED BY <1>1, <1>2

\* The state is always well typed.
THEOREM TypeCorrect == Spec => []TypeOK
<1>1. IInv => TypeOK
  BY DEF IInv
<1> QED BY <1>1, Invariance, PTL

\* However many purges and seeds run at once, what a committed purge leaves behind or takes
\* from a stranger, and what a foreign key refuses it for, are the cases PurgeIsExact lists.
THEOREM PurgesAreExact == Spec => PurgeIsExact
<1>1. IInv /\ [Next]_vars =>
        [\A r \in Run :
           LET c == collected[r] IN
           /\ pc[r] = "commit" /\ pc'[r] = "done" =>
                /\ \A x \in rows' :
                     Profile(x[2]) \in rows \ rows' \/ (x[2] = Nobody /\ x[3] \in c.businesses) =>
                        x[1] \in Others \/ (x \in late[r] /\ x[1] \in Polymorphic)
                /\ \A b \in Broker :
                     Profile(b) \in rows \ rows' /\ Business(b) \in rows' => Business(b) \in late[r]
                /\ \A x \in rows \ rows' :
                     /\ x[2] \in Stranger => x[3] \in c.businesses /\ x[1] = "business_affiliations"
                     /\ x[2] = Nobody => x[3] \in c.businesses
           /\ pc[r] # "refused" /\ pc'[r] = "refused" =>
                \E x \in rows :
                  \/ /\ x[1] = "check_with_evidence"
                     /\ x[2] \in c.brokers \/ x[3] \in c.businesses
                  \/ x[1] \in Accreditations /\ x[2] \notin c.brokers /\ x[3] \in c.businesses
                  \/ x \in late[r]]_vars
  BY ExactStep
<1> QED BY <1>1, Invariance, PTL DEF Spec, PurgeIsExact

\* As long as a demo broker's profile is there, all that was ever written for him is, except
\* when a purge has taken his business for another's.
THEOREM HalfPurgedNever == Spec => []NeverHalfPurged
<1>1. IInv => NeverHalfPurged
  BY DEF IInv
<1> QED BY <1>1, Invariance, PTL

\* A seed that reports that it is done has passed over no item that no run has begun.
LEMMA DoneAfterAll == IInv => DoneMeansSeeded
<1> SUFFICES ASSUME IInv, NEW r \in Run, IsSeed(r), pc[r] = "done",
                    NEW i \in DOMAIN Roster[ScriptOf[r]]
             PROVE  LET x == Roster[ScriptOf[r]][i] IN
                    \E w \in Run :
                      \/ made[w][x] = Len(Calls(x, w))
                      \/ /\ made[w][x] > 0
                         /\ IsSeed(w) /\ pc[w] \in {"call", "failed"} /\ Current(w) = x
  BY DEF DoneMeansSeeded
<1> DEFINE x == Roster[ScriptOf[r]][i]
<1>1. Roster[ScriptOf[r]] \in Seq(Item)
  BY ScriptAssumption DEF IsSeed
<1>2. x \in Item /\ i < Len(Roster[ScriptOf[r]]) + 1
  BY <1>1
<1>3. at[r] = Len(Roster[ScriptOf[r]]) + 1
  BY DEF IInv, Places
<1>4. PICK w \in Run : made[w][x] > 0
  BY <1>2, <1>3 DEF IInv, Progress
<1> QED BY <1>2, <1>4 DEF IInv, Progress

THEOREM SeededWhenDone == Spec => []DoneMeansSeeded
BY Invariance, DoneAfterAll, PTL
=============================================================================
