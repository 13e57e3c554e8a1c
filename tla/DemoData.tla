------------------------------ MODULE DemoData ------------------------------
(***************************************************************************)
(* The scripts that fill and clear the demo (scripts/seed-demo-data.ts,    *)
(* seed-amp-demo.ts, seed-key-lenders.ts, seed-key-aggregators.ts and      *)
(* purge-demo-data.ts), while the application runs.                        *)
(*                                                                         *)
(* A seed works through its roster with one repository call after another, *)
(* each a transaction of its own.  A purge is a single READ COMMITTED      *)
(* transaction: SELECTs that collect ids, then one DELETE a table, parents *)
(* last, and what it has deleted stays locked until it ends.  Its SELECT   *)
(* of principals is part of that of the businesses.                        *)
(*                                                                         *)
(* A row is <<table, broker, business>>: it stands for the rows of a table *)
(* that name the same broker and business.  A business goes by its         *)
(* founder, a row about an accreditation by its broker and its business.   *)
(***************************************************************************)
EXTENDS Naturals, Sequences

CONSTANTS Run, ScriptOf,              \* processes, and the script each one runs
          Organisation, Reviewer,     \* the names and emails a seed looks up
          DemoEmail, AmpEmail,        \* the brokers of the two rosters
          Target,                     \* the state a broker is seeded in
          Roster,                     \* what each seed goes through, in order
          Stranger,                   \* brokers who signed up themselves
          AppRow,                     \* rows the application may write meanwhile
          Nobody

Email == DemoEmail \union AmpEmail
Item == Organisation \union Reviewer \union Email

Seeds == {"demo", "amp", "lenders", "aggregators"}

DemoTarget == {"requested", "information_required", "exception_escalated", "declined",
               "pending", "active", "active_partial_training", "lapsed", "invited_only"}

AmpTarget == {"requested", "information_required", "exception_escalated", "declined",
              "pending_urgent", "pending_soon", "pending_healthy",
              "active", "active_partial_training", "lapsed"}

(***************************************************************************)
(* The schema.                                                             *)
(***************************************************************************)
\* The place of each table among the statements of the purge; 0: the purge leaves it alone.
\* check_with_evidence are the rows of check_result whose evidence_id is set.
\* licensed_accreditations are the accreditations of a broker that name a business as licence
\* holder, by that business; each is in accreditations too, by the business it goes through.
\* audit_log are the entries by the broker, or about the profile, the business or the
\* accreditation, and notifications those to the broker, or about the accreditation.  The
\* entries by others about a relationship, an affiliation, a principal or a document are
\* others_audit, and what others are notified of about a profile or a business is
\* others_notices.  Tokens, preferences and check_exceptions are left out: no call here
\* writes them.

\* Mutation: businesses go before the affiliations and principals that reference them.
TurnParentFirst ==
  [notifications       |-> 1,  training_confirmations  |-> 2,  accreditation_decisions |-> 3,
   accreditations      |-> 4,  licensed_accreditations |-> 4,
   evidence            |-> 5,  check_result            |-> 6,
   check_with_evidence |-> 6,  relationships           |-> 7,  business_principals     |-> 9,
   business_affiliations |-> 10, broker_businesses     |-> 8,  association_memberships |-> 11,
   metering_event      |-> 12, audit_log               |-> 13, broker_profiles         |-> 14,
   others_audit        |-> 0,  others_notices          |-> 0]

Turn ==
  [notifications       |-> 1,  training_confirmations  |-> 2,  accreditation_decisions |-> 3,
   accreditations      |-> 4,  licensed_accreditations |-> 4,
   evidence            |-> 5,  check_result            |-> 6,
   check_with_evidence |-> 6,  relationships           |-> 7,  business_principals     |-> 8,
   business_affiliations |-> 9, broker_businesses      |-> 10, association_memberships |-> 11,
   metering_event      |-> 12, audit_log               |-> 13, broker_profiles         |-> 14,
   others_audit        |-> 0,  others_notices          |-> 0]

LastTurn == 14

Table == DOMAIN Turn

\* One accreditation, by the business it goes through and by its licence holder.
Accreditations == {"accreditations", "licensed_accreditations"}

\* What no DELETE names.
Others == {"others_audit", "others_notices"}

\* The tables that name their subject without a foreign key to it.
Polymorphic == {"notifications", "evidence", "check_result", "check_with_evidence",
                "audit_log"} \union Others

\* The tables with rows about an accreditation.
AboutAccreditation == {"accreditations", "accreditation_decisions", "training_confirmations",
                       "notifications", "audit_log"}

\* A demo broker is the profile a run registered for an email.
DemoBroker == Email \X Run
Broker == DemoBroker \union Stranger
Party == Broker \union {Nobody}

Row == Table \X Party \X Party

Profile(b)          == <<"broker_profiles", b, Nobody>>
Business(z)         == <<"broker_businesses", Nobody, z>>
Affiliation(b, z)   == <<"business_affiliations", b, z>>
Relationship(b)     == <<"relationships", b, Nobody>>
Accreditation(b, z) == <<"accreditations", b, z>>
Licensed(b, z)      == <<"licensed_accreditations", b, z>>

\* A row about one broker's accreditation through one business.
OfAccreditation(x) ==
  /\ x[1] \notin {"business_affiliations", "licensed_accreditations"} \union Others
  /\ Nobody \notin {x[2], x[3]}

\* The tables with a foreign key to a profile, and those with one to a business.
NamesBroker == {"association_memberships", "relationships", "business_affiliations",
                "metering_event"} \union Accreditations
NamesBusiness == {"business_principals", "business_affiliations"} \union Accreditations

\* The rows a row's foreign keys name.
Parents(x) ==
  (IF x[1] \in NamesBroker THEN {Profile(x[2])} ELSE {})
  \union
  (IF x[1] \in NamesBusiness THEN {Business(x[3])} ELSE {})
  \union
  (IF x[1] \in Accreditations THEN {Relationship(x[2])} ELSE {})
  \union
  (IF x[1] \in {"accreditation_decisions", "training_confirmations"}
   THEN {Accreditation(x[2], x[3])} ELSE {})
  \union
  (IF x[1] = "check_with_evidence" THEN {<<"evidence", x[2], x[3]>>} ELSE {})

\* The rows a call looks up, and throws without, before it writes x: the accreditation a
\* decision is about, the broker a notification is for, the affiliation another one confirms.
Lookups(x) ==
  (IF OfAccreditation(x) THEN {Accreditation(x[2], x[3])} ELSE {})
  \union (IF x[1] = "notifications" THEN {Profile(x[2])} ELSE {})
  \union (IF x[1] = "others_audit" /\ Nobody \notin {x[2], x[3]}
          THEN {Affiliation(x[2], x[3])} ELSE {})

ASSUME ScriptAssumption ==
  /\ ScriptOf \in [Run -> Seeds \union {"purge"}]
  /\ Roster \in [Seeds -> Seq(Item)]
  /\ \A s \in Seeds : /\ Roster[s] # <<>>
                      /\ \A i, j \in DOMAIN Roster[s] : Roster[s][i] = Roster[s][j] => i = j
  /\ Target \in [Email -> DemoTarget \union AmpTarget]
  /\ \A x \in DemoEmail : Target[x] \in DemoTarget
  /\ \A x \in AmpEmail : Target[x] \in AmpTarget

ASSUME NameAssumption ==
  /\ Organisation \intersect (Reviewer \union Email) = {}
  /\ Reviewer \intersect Email = {}
  /\ DemoEmail \intersect AmpEmail = {}
  /\ Stranger \intersect DemoBroker = {}
  /\ Nobody \notin Broker

\* The application writes rows about the brokers and businesses there are.
ASSUME AppAssumption ==
  AppRow \subseteq {x \in Row : /\ x[1] \notin {"broker_profiles", "broker_businesses"}
                                /\ x[2] # Nobody \/ x[3] # Nobody
                                /\ x[1] = "notifications" => x[2] # Nobody
                                /\ OfAccreditation(x) => x[1] \in AboutAccreditation}

VARIABLES rows,         \* what is committed
          pc,           \* where each run is
          at,           \* a seed's place in its roster, the turn of a purge's next DELETE
          made,         \* made[r][x]: how many of x's calls run r has carried out
          collected,    \* the ids a purge has read
          doomed,       \* the rows a purge has deleted and not committed
          late          \* the rows others have written since a purge began

vars == <<rows, pc, at, made, collected, doomed, late>>

(***************************************************************************)
(* What the calls of a seed write.                                         *)
(***************************************************************************)
Audited(b, S) == S \union {<<"audit_log", b, Nobody>>}
Notice(b) == <<"notifications", b, Nobody>>

\* What a reviewer's call leaves of the accreditation of b.
Logged(b, S) == S \union {<<"audit_log", b, b>>}
Escalated(b) == Logged(b, {<<"accreditation_decisions", b, b>>})
Decided(b)   == Escalated(b) \union {Notice(b)}
Trained(b)   == Logged(b, {<<"training_confirmations", b, b>>})
Activated(b) == Logged(b, {Notice(b)})

\* An UPDATE of the training deadline, or the sweep that reads it: the audit entry of a lapse
\* has the name of the approval's, so neither adds a row.
Deadline == {}

DemoDecisions(b) ==
  [requested               |-> <<>>,
   information_required    |-> <<Decided(b)>>,
   exception_escalated     |-> <<Escalated(b)>>,
   declined                |-> <<Decided(b)>>,
   pending                 |-> <<Decided(b)>>,
   active                  |-> <<Decided(b), Trained(b), Trained(b), Activated(b)>>,
   active_partial_training |-> <<Decided(b), Trained(b)>>,
   lapsed                  |-> <<Decided(b), Deadline, Deadline>>]

AmpDecisions(b) ==
  [requested               |-> <<>>,
   information_required    |-> <<Decided(b)>>,
   exception_escalated     |-> <<Escalated(b)>>,
   declined                |-> <<Decided(b)>>,
   pending_urgent          |-> <<Decided(b), Deadline>>,
   pending_soon            |-> <<Decided(b), Deadline>>,
   pending_healthy         |-> <<Decided(b)>>,
   active                  |-> <<Decided(b), Trained(b), Trained(b), Activated(b)>>,
   active_partial_training |-> <<Decided(b), Trained(b)>>,
   lapsed                  |-> <<Decided(b), Deadline, Deadline>>]

\* registerBroker, updateBrokerProfile, createAssociationMembership, attestTerms,
\* submitProfile, createBusiness, addPrincipal, submitBusiness.
Onboarded(b) ==
  <<Audited(b, {Profile(b)}),
    Audited(b, {}),
    Audited(b, {<<"association_memberships", b, Nobody>>}),
    Audited(b, {}),
    Audited(b, {Notice(b)}),
    Audited(b, {Business(b), Affiliation(b, b)}),
    Audited(b, {<<"business_principals", Nobody, b>>}),
    Audited(b, {Notice(b)})>>

\* requestRelationship and requestAccreditation.
Linked(b) ==
  <<Audited(b, {Relationship(b), <<"metering_event", b, Nobody>>}),
    Audited(b, {Accreditation(b, b), <<"notifications", b, b>>})>>

DemoCalls(x, b) ==
  Onboarded(b) \o (IF Target[x] = "invited_only"
                   THEN <<{Relationship(b), <<"others_audit", b, Nobody>>}>>
                   ELSE Linked(b) \o DemoDecisions(b)[Target[x]])

AmpCalls(x, b) == Onboarded(b) \o (Linked(b) \o AmpDecisions(b)[Target[x]])

\* createClientOrganisation and verifyClientOrganisation; createClientUser, then the
\* enrolment of the second factor: no row of the demo.
OrganisationCalls == <<{}, {}>>
ReviewerCalls == <<{}, {}>>

Calls(x, r) == IF x \in Organisation THEN OrganisationCalls
               ELSE IF x \in Reviewer THEN ReviewerCalls
               ELSE IF x \in DemoEmail THEN DemoCalls(x, <<x, r>>)
               ELSE AmpCalls(x, <<x, r>>)

(***************************************************************************)
(* Rows and locks.                                                         *)
(***************************************************************************)
IsSeed(r)  == ScriptOf[r] \in Seeds
IsPurge(r) == ScriptOf[r] = "purge"

\* The purges whose transaction has begun and not ended.
Open(r) == IsPurge(r) /\ pc[r] \in {"businesses", "accreditations", "delete", "commit"}

Locked == UNION {doomed[p] : p \in Run}

\* W can be written in one transaction: nothing it looks up is gone, and its foreign keys find
\* their rows, none of them being deleted by a purge that may yet commit.
Admitted(W) ==
  LET free == (rows \ Locked) \union W
  IN  \A x \in W : Lookups(x) \subseteq rows \union W /\ Parents(x) \subseteq free

\* W commits.  A row that a purge has deleted is there again, as a new row of that name.
Write(W) ==
  /\ Admitted(W)
  /\ rows' = rows \union W
  /\ doomed' = [p \in Run |-> doomed[p] \ W]
  /\ late' = [p \in Run |-> IF Open(p) THEN late[p] \union W ELSE late[p]]

NothingFound == [brokers |-> {}, businesses |-> {}, accreditations |-> {}]

\* Strangers with a business and a lender each; a provider has checked the business or not.
Before(checked) ==
  {Profile(s) : s \in Stranger}
  \union {Business(s) : s \in Stranger}
  \union {Affiliation(s, s) : s \in Stranger}
  \union {Relationship(s) : s \in Stranger}
  \union {<<"evidence", Nobody, s>> : s \in checked}
  \union {<<"check_with_evidence", Nobody, s>> : s \in checked}

Init ==
  /\ \E checked \in SUBSET Stranger : rows = Before(checked)
  /\ pc = [r \in Run |-> IF IsSeed(r) THEN "find" ELSE "brokers"]
  /\ at = [r \in Run |-> 1]
  /\ made = [r \in Run |-> [x \in Item |-> 0]]
  /\ collected = [r \in Run |-> NothingFound]
  /\ doomed = [r \in Run |-> {}]
  /\ late = [r \in Run |-> {}]

(***************************************************************************)
(* A seed.                                                                 *)
(***************************************************************************)
Current(r) == Roster[ScriptOf[r]][at[r]]

\* findClientOrganisationByName, findClientUserByEmail, findBrokerIdByEmail.
Exists(x) == IF x \in Email THEN \E w \in Run : Profile(<<x, w>>) \in rows
             ELSE \E w \in Run : made[w][x] > 0

Goto(r, where) == pc' = [pc EXCEPT ![r] = where]

\* The loop over the roster; after the last item the script reports that it is done.
NextItem(r) == /\ at' = [at EXCEPT ![r] = @ + 1]
               /\ Goto(r, IF at[r] = Len(Roster[ScriptOf[r]]) THEN "done" ELSE "find")

\* The item is not there: create it.
Miss(r) ==
  /\ pc[r] = "find"
  /\ ~Exists(Current(r))
  /\ Goto(r, "create")
  /\ UNCHANGED <<rows, at, made, collected, doomed, late>>

\* An organisation of that name is reused, a broker of that email skipped.
Reuse(r) ==
  /\ pc[r] = "find"
  /\ Exists(Current(r))
  /\ Current(r) \notin Reviewer
  /\ NextItem(r)
  /\ UNCHANGED <<rows, made, collected, doomed, late>>

\* A reviewer's login is reused, and its second factor enrolled again.
ReuseReviewer(r) ==
  /\ pc[r] = "find"
  /\ Current(r) \in Reviewer
  /\ Exists(Current(r))
  /\ made' = [made EXCEPT ![r][Current(r)] = 1]
  /\ Goto(r, "call")
  /\ UNCHANGED <<rows, at, collected, doomed, late>>

\* The first call inserts the item.  Emails are unique, so the INSERT waits for a purge that
\* is deleting this one; names of organisations are not.
Create(r) ==
  /\ pc[r] = "create"
  /\ Current(r) \in Organisation \/ ~Exists(Current(r))
  /\ Write(Calls(Current(r), r)[1])
  /\ made' = [made EXCEPT ![r][Current(r)] = 1]
  /\ Goto(r, "call")
  /\ UNCHANGED <<at, collected>>

\* Another run registered the email between Find and INSERT (23505): the broker is skipped.
Taken(r) ==
  /\ pc[r] = "create"
  /\ Current(r) \in Email
  /\ \E w \in Run : Profile(<<Current(r), w>>) \in rows \ Locked
  /\ NextItem(r)
  /\ UNCHANGED <<rows, made, collected, doomed, late>>

\* ... the reviewer's email: createClientUser throws and the script ends.
ReviewerTaken(r) ==
  /\ pc[r] = "create"
  /\ Current(r) \in Reviewer
  /\ Exists(Current(r))
  /\ Goto(r, "failed")
  /\ UNCHANGED <<rows, at, made, collected, doomed, late>>

\* The next repository call for the item.
Call(r) ==
  LET x == Current(r)
      n == made[r][x] + 1
  IN /\ pc[r] = "call"
     /\ Write(Calls(x, r)[n])
     /\ made' = [made EXCEPT ![r][x] = n]
     /\ IF n = Len(Calls(x, r)) THEN NextItem(r) ELSE UNCHANGED <<pc, at>>
     /\ UNCHANGED collected

\* Mutation: the error is logged and the loop goes on.
BreakOffAndGoOn(r) ==
  /\ IsSeed(r)
  /\ pc[r] \in {"find", "create", "call"}
  /\ NextItem(r)
  /\ UNCHANGED <<rows, made, collected, doomed, late>>

\* A call throws, or the process dies: what the calls before it did stays.
BreakOff(r) ==
  /\ IsSeed(r)
  /\ pc[r] \in {"find", "create", "call"}
  /\ Goto(r, "failed")
  /\ UNCHANGED <<rows, at, made, collected, doomed, late>>

(***************************************************************************)
(* The purge.                                                              *)
(***************************************************************************)
\* ROLLBACK: nothing of the transaction remains.
Rollback(r, where) ==
  /\ Goto(r, where)
  /\ at' = [at EXCEPT ![r] = 1]
  /\ collected' = [collected EXCEPT ![r] = NothingFound]
  /\ doomed' = [doomed EXCEPT ![r] = {}]
  /\ late' = [late EXCEPT ![r] = {}]
  /\ UNCHANGED <<rows, made>>

\* SELECT ... WHERE email LIKE '%@demo.brok3r.test'; with none of them, ROLLBACK.
SelectBrokers(r) ==
  LET found == {b \in DemoBroker : Profile(b) \in rows} IN
  /\ pc[r] = "brokers"
  /\ collected' = [collected EXCEPT ![r].brokers = found]
  /\ Goto(r, IF found = {} THEN "done" ELSE "businesses")
  /\ UNCHANGED <<rows, at, made, doomed, late>>

SelectBusinesses(r) ==
  /\ pc[r] = "businesses"
  /\ collected' = [collected EXCEPT ![r].businesses =
       {z \in Broker : \E b \in collected[r].brokers : Affiliation(b, z) \in rows}]
  /\ Goto(r, "accreditations")
  /\ UNCHANGED <<rows, at, made, doomed, late>>

SelectAccreditations(r) ==
  /\ pc[r] = "accreditations"
  /\ collected' = [collected EXCEPT ![r].accreditations =
       {x \in rows : x[1] \in Accreditations /\ x[2] \in collected[r].brokers}]
  /\ Goto(r, "delete")
  /\ UNCHANGED <<rows, at, made, doomed, late>>

\* The WHERE of the DELETEs: by accreditation, or else by broker or by business.
Matches(x, c) ==
  \/ x[1] = "licensed_accreditations" /\ x \in c.accreditations
  \/ OfAccreditation(x) /\ Accreditation(x[2], x[3]) \in c.accreditations
  \/ /\ x[1] \notin {"licensed_accreditations"} \union Others
     /\ ~OfAccreditation(x)
     /\ x[2] \in c.brokers \/ x[3] \in c.businesses

Hit(r) == {x \in rows : Turn[x[1]] = at[r] /\ Matches(x, collected[r])}

\* The rows that reference one the statement deletes.
Orphans(r) == LET hit == Hit(r) IN
              {x \in rows \ (doomed[r] \union hit) : Parents(x) \intersect hit # {}}

\* Mutation: without BEGIN, every statement commits by itself.
DeleteAutocommit(r) ==
  /\ pc[r] = "delete"
  /\ \A p \in Run \ {r} : doomed[p] \intersect (Hit(r) \union Orphans(r)) = {}
  /\ Orphans(r) = {}
  /\ rows' = rows \ Hit(r)
  /\ at' = [at EXCEPT ![r] = @ + 1]
  /\ Goto(r, IF at[r] = LastTurn THEN "commit" ELSE "delete")
  /\ UNCHANGED <<doomed, made, collected, late>>

\* Each DELETE waits for the rows another purge has deleted, then checks the foreign keys.
Delete(r) ==
  LET hit     == Hit(r)
      orphans == Orphans(r)
  IN
  /\ pc[r] = "delete"
  /\ \A p \in Run \ {r} : doomed[p] \intersect (hit \union orphans) = {}
  /\ orphans = {}
  /\ doomed' = [doomed EXCEPT ![r] = @ \union hit]
  /\ at' = [at EXCEPT ![r] = @ + 1]
  /\ Goto(r, IF at[r] = LastTurn THEN "commit" ELSE "delete")
  /\ UNCHANGED <<rows, made, collected, late>>

\* A foreign key is violated.
Refuse(r) ==
  LET orphans == Orphans(r) IN
  /\ pc[r] = "delete"
  /\ orphans # {}
  /\ \A p \in Run \ {r} : doomed[p] \intersect (Hit(r) \union orphans) = {}
  /\ Rollback(r, "refused")

\* The process dies or the connection is lost.
Lose(r) == IsPurge(r) /\ pc[r] \notin {"done", "refused", "failed"} /\ Rollback(r, "failed")

\* Mutation: the client keeps its list of what it has deleted.
CommitKeepsList(r) ==
  /\ pc[r] = "commit"
  /\ rows' = rows \ doomed[r]
  /\ late' = [late EXCEPT ![r] = {}]
  /\ Goto(r, "done")
  /\ UNCHANGED <<at, made, collected, doomed>>

Commit(r) ==
  /\ pc[r] = "commit"
  /\ rows' = rows \ doomed[r]
  /\ doomed' = [doomed EXCEPT ![r] = {}]
  /\ late' = [late EXCEPT ![r] = {}]
  /\ Goto(r, "done")
  /\ UNCHANGED <<at, made, collected>>

(***************************************************************************)
(* The application.                                                        *)
(***************************************************************************)
\* A call about a broker or a business there is, reduced to the row it adds, one of a name
\* at a time.  Its other guards are in the modules of the application: this allows more.
AppCall(x) ==
  /\ x[2] # Nobody => Profile(x[2]) \in rows
  /\ x[3] # Nobody => Business(x[3]) \in rows
  /\ x \notin rows \ Locked
  /\ Write({x})
  /\ UNCHANGED <<pc, at, made, collected>>

Seed(r) == Miss(r) \/ Reuse(r) \/ ReuseReviewer(r) \/ Create(r) \/ Taken(r)
           \/ ReviewerTaken(r) \/ Call(r) \/ BreakOff(r)

Purge(r) == SelectBrokers(r) \/ SelectBusinesses(r) \/ SelectAccreditations(r)
            \/ Delete(r) \/ Refuse(r) \/ Lose(r) \/ Commit(r)

Finished == (\A r \in Run : pc[r] \in {"done", "refused", "failed"}) /\ UNCHANGED vars

Next == \/ \E r \in Run : Seed(r) \/ Purge(r)
        \/ \E x \in AppRow : AppCall(x)
        \/ Finished

Spec == Init /\ [][Next]_vars

(***************************************************************************)
(* Properties that hold.                                                   *)
(***************************************************************************)
Where == {"find", "create", "call", "brokers", "businesses", "accreditations", "delete",
          "commit", "done", "refused", "failed"}

TypeOK ==
  /\ rows \subseteq Row
  /\ pc \in [Run -> Where]
  /\ at \in [Run -> Nat]
  /\ made \in [Run -> [Item -> Nat]]
  /\ collected \in [Run -> [brokers : SUBSET DemoBroker, businesses : SUBSET Broker,
                            accreditations : SUBSET Row]]
  /\ doomed \in [Run -> SUBSET rows]
  /\ late \in [Run -> SUBSET Row]

\* "Every row anywhere in the schema that hangs off one of those brokers" and "can't reach
\* outside what the seed script itself created" (purge-demo-data.ts:3-10), as far as the code
\* keeps them.  A purge that commits leaves of a broker it deletes, and of a business it has
\* collected, what others have on record or were notified of that no DELETE names (Others),
\* rows written while it ran in a table without foreign keys, and nothing else; his own
\* business stays only if it was founded meanwhile.
\* What it takes from a broker who signed up himself is his affiliation with a business that a
\* demo broker is affiliated with, or what is known of that business.
\* A foreign key refuses it only for a provider's result with its evidence, another broker's
\* accreditation through a collected business or under its licence, or a row written while it
\* ran.
PurgeIsExact ==
  [][\A r \in Run :
       LET c == collected[r] IN
       /\ pc[r] = "commit" /\ pc'[r] = "done" =>
            /\ \A x \in rows' :
                 Profile(x[2]) \in rows \ rows' \/ (x[2] = Nobody /\ x[3] \in c.businesses) =>
                    x[1] \in Others \/ (x \in late[r] /\ x[1] \in Polymorphic)
            /\ \A b \in Broker :
                 Profile(b) \in rows \ rows' /\ Business(b) \in rows' => Business(b) \in late[r]
            /\ \A x \in rows \ rows' :
                 /\ x[2] \in Stranger => x[3] \in c.businesses /\ x[1] = "business_affiliations"
                 /\ x[2] = Nobody => x[3] \in c.businesses
       /\ pc[r] # "refused" /\ pc'[r] = "refused" =>
            \E x \in rows :
              \/ /\ x[1] = "check_with_evidence"
                 /\ x[2] \in c.brokers \/ x[3] \in c.businesses
              \/ x[1] \in Accreditations /\ x[2] \notin c.brokers /\ x[3] \in c.businesses
              \/ x \in late[r]]_vars

\* A business that a purge took because another demo broker had joined it, when its founder
\* registered after that purge had read the brokers.
SweptAside(b) == \E r \in Run : /\ IsPurge(r) /\ pc[r] = "done"
                                /\ b \in collected[r].businesses \ collected[r].brokers

\* No demo broker is ever half purged: as long as his profile is there, so is every row the
\* calls of the seed have written for him, whatever purges ran, failed or were killed.
NeverHalfPurged ==
  \A x \in Email, r \in Run :
    LET b     == <<x, r>>
        calls == Calls(x, r)
    IN  Profile(b) \in rows /\ ~SweptAside(b) => \A n \in 1..made[r][x] : calls[n] \subseteq rows

\* "Re-running this script is safe: it skips anyone already seeded" (seed-amp-demo.ts:14-15),
\* as far as the code keeps it.  When a seed reports that it is done, each item of its roster
\* has been carried through to its last call by some run, or one that began it broke off
\* there or is still at it.
DoneMeansSeeded ==
  \A r \in Run : IsSeed(r) /\ pc[r] = "done" =>
    \A i \in DOMAIN Roster[ScriptOf[r]] :
      LET x == Roster[ScriptOf[r]][i] IN
      \E w \in Run :
        \/ made[w][x] = Len(Calls(x, w))
        \/ /\ made[w][x] > 0
           /\ IsSeed(w) /\ pc[w] \in {"call", "failed"} /\ Current(w) = x
=============================================================================
