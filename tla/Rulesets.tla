------------------------------ MODULE Rulesets ------------------------------
(***************************************************************************)
(* Ruleset versions (src/src/modules/rulesets): drafting, publishing and   *)
(* resolving them, pinning one to an accreditation request, the validation *)
(* a version passes before it is published and the evaluator that reads    *)
(* it.  Every call is a transaction of several statements at READ          *)
(* COMMITTED; what a transaction has written shows at its COMMIT, and the  *)
(* rows it has written are locked until then.                              *)
(*                                                                         *)
(* A version is named by the call that drafted it, or is one of Earlier.   *)
(* A definition is a set of requirement groups or Malformed; the rest of   *)
(* its JSON is stored and never read here.                                 *)
(***************************************************************************)
EXTENDS Naturals, FiniteSets

CONSTANTS Key,              \* (client organisation, brand, role, product scope, pathway)
          Condition,        \* conditions, closed under their conditions
          Group,            \* requirement groups
          Malformed,        \* a definition that is not of the shape of RulesetDefinition
          Draftable,        \* the definitions calls draft
          DocumentType,
          Years, NoYears,   \* experience_years, and its NULL
          Earlier, OnFile,  \* versions older than every call, and their rows
          Request,          \* API calls, each served once
          NoRow, NoJob, NoKey, NoVersion

Id == Request \union Earlier

Definition == (SUBSET Group) \union {Malformed}

Version == [key : Key, number : Nat \ {0}, status : {"draft", "published", "superseded"},
            definition : Definition, superseded_by : Id \union {NoRow}]

Option == DocumentType \union {"association_membership"}

ASSUME ConditionAssumption ==
  \A c \in Condition : /\ c.op \in {"always", "lt", "gte", "all_of", "any_of"}
                       /\ c.value \in Nat
                       /\ c.conditions \subseteq Condition

\* A condition is parsed JSON: a finite tree, so that following its conditions ends.
ASSUME ConditionTreeAssumption ==
  \A S \in (SUBSET Condition) \ {{}} : \E c \in S : c.conditions \intersect S = {}

ASSUME GroupAssumption ==
  \A g \in Group : /\ g.subjectType \in {"broker_profile", "broker_business"}
                   /\ g.appliesWhen \in Condition
                   /\ g.satisfiedBy \subseteq Option

ASSUME YearsAssumption == Years \subseteq Nat /\ NoYears \notin Nat

ASSUME FileAssumption ==
  /\ OnFile \in [Earlier -> Version]
  /\ \A v, w \in Earlier : OnFile[v].key = OnFile[w].key =>
       /\ OnFile[v].number = OnFile[w].number => v = w
       /\ OnFile[v].status = "published" /\ OnFile[w].status = "published" => v = w
  /\ NoRow \notin Version /\ {NoRow, NoVersion} \intersect Id = {} /\ NoKey \notin Key
  /\ Earlier \intersect Request = {}
  /\ Draftable \subseteq Definition

\* What earlier publications left: see SuccessorsLeadToCurrent and PublishedCanBeMet.
ASSUME EarlierAssumption ==
  LET superseded == {v \in Earlier : OnFile[v].status = "superseded"} IN
  /\ \A v \in superseded : LET w == OnFile[v].superseded_by IN
       w \in Earlier /\ OnFile[w].status # "draft" /\ OnFile[w].key = OnFile[v].key
  /\ \A S \in (SUBSET superseded) \ {{}} : \E v \in S : OnFile[v].superseded_by \notin S
  /\ \A v \in Earlier : OnFile[v].status # "draft" =>
       OnFile[v].definition # Malformed /\ \A g \in OnFile[v].definition : g.satisfiedBy # {}

VARIABLES versions,         \* ruleset_versions
          pinned,           \* the accreditations' ruleset_version_id, by the requesting call
          pc, job           \* where each call is, and what it read and wrote

vars == <<versions, pinned, pc, job>>

(***************************************************************************)
(* ruleset-evaluator.ts and ruleset-validation.ts.                         *)
(***************************************************************************)

\* A fact is the years of experience, the documents on file and whether the broker is a
\* member of an association.
Fact == [years : Years \union {NoYears}, documents : SUBSET DocumentType, member : BOOLEAN]

\* Mutation: the comparison coerces NULL to 0.
evaluateConditionCoerced[c \in Condition] ==
  [y \in Years \union {NoYears} |->
     LET n == IF y = NoYears THEN 0 ELSE y IN
     \/ c.op = "always"
     \/ c.op = "lt"     /\ n < c.value
     \/ c.op = "gte"    /\ n >= c.value
     \/ c.op = "all_of" /\ \A d \in c.conditions : evaluateConditionCoerced[d][y]
     \/ c.op = "any_of" /\ \E d \in c.conditions : evaluateConditionCoerced[d][y]]

AppliesCoerced(g, y) == evaluateConditionCoerced[g.appliesWhen][y]

evaluateCondition[c \in Condition] ==
  [y \in Years \union {NoYears} |->
     \/ c.op = "always"
     \/ c.op = "lt"     /\ y # NoYears /\ y < c.value
     \/ c.op = "gte"    /\ y # NoYears /\ y >= c.value
     \/ c.op = "all_of" /\ \A d \in c.conditions : evaluateCondition[d][y]
     \/ c.op = "any_of" /\ \E d \in c.conditions : evaluateCondition[d][y]]

Applies(g, y) == evaluateCondition[g.appliesWhen][y]

isSatisfied(option, fact) ==
  IF option = "association_membership" THEN fact.member ELSE option \in fact.documents

computeOutstandingRequirements(definition, subjectType, fact) ==
  {g \in definition : /\ g.subjectType = subjectType
                      /\ Applies(g, fact.years)
                      /\ \A option \in g.satisfiedBy : ~isSatisfied(option, fact)}

validateCondition[c \in Condition] ==
  c.op \in {"all_of", "any_of"} => /\ c.conditions # {}
                                   /\ \A d \in c.conditions : validateCondition[d]

\* validateRulesetDefinition does not throw.
Valid(definition) ==
  /\ definition # Malformed
  /\ \A g \in definition : validateCondition[g.appliesWhen] /\ g.satisfiedBy # {}

(***************************************************************************)
(* The rulesets of rulesets/seed-data, which scripts/seed-rulesets.ts      *)
(* drafts and publishes for an organisation, one after the other.  Every   *)
(* group is about the profile and always applies; labels, thresholds,      *)
(* declarations, routing and validity windows are left out.                *)
(***************************************************************************)
Asks(satisfiedBy) ==
  [subjectType |-> "broker_profile", satisfiedBy |-> satisfiedBy,
   appliesWhen |-> [op |-> "always", value |-> 0, conditions |-> {}]]

WestpacSeeds ==
  [westpac_commercial_broker   |-> {Asks({"certificate_iv"}), Asks({"police_check"}),
                                    Asks({"association_membership"})},
   westpac_commercial_referrer |-> {Asks({"certificate_iv"}), Asks({"police_check"}),
                                    Asks({"degree_certificate", "association_membership"})}]

NabSeeds ==
  [nab_commercial_broker          |-> {Asks({"resume"})},
   nab_equipment_finance_broker   |-> {Asks({"resume"}), Asks({"association_membership"})},
   nab_commercial_broker_transfer |-> {}]

\* What the script leaves of each of them.
Seeded(k, definition) ==
  [key |-> k, number |-> 1, status |-> "published", definition |-> definition,
   superseded_by |-> NoRow]

(***************************************************************************)
(* The calls.                                                              *)
(***************************************************************************)

\* version: what publish names.  number: what createDraft's SELECT returned.  found, held:
\* the published rows publish's UPDATE saw, and those it changed.  current: what resolve
\* returned.  inForce: for the properties, whether the key had a published version when the
\* call arrived.
Job == [op : {"create", "publish", "request"}, key : Key, version : Id \union {NoRow},
        definition : Definition, number : Nat, found : SUBSET Id, held : SUBSET Id,
        current : Id \union {NoVersion}, inForce : BOOLEAN]

Of(k) == {v \in Id : versions[v] # NoRow /\ versions[v].key = k}

Published(k) == {v \in Of(k) : versions[v].status = "published"}

Init ==
  /\ versions = [v \in Id |-> IF v \in Earlier THEN OnFile[v] ELSE NoRow]
  /\ pinned = [r \in Request |-> NoRow]
  /\ pc = [r \in Request |-> "idle"]
  /\ job = [r \in Request |-> NoJob]

Answer(r) == pc' = [pc EXCEPT ![r] = "answered"] /\ job' = [job EXCEPT ![r] = NoJob]

Goto(r, where) == pc' = [pc EXCEPT ![r] = where] /\ UNCHANGED job

FirstStep == [create |-> "number", publish |-> "check", request |-> "resolve"]

\* createDraft and publish are behind PlatformAdminGuard; request is requestAccreditation.
Begin(r, op, k, v, definition) ==
  /\ pc[r] = "idle"
  /\ op = "publish" <=> v # NoRow
  /\ v # NoRow => versions[v] # NoRow /\ versions[v].key = k
  /\ op # "create" => definition = {}
  /\ pc' = [pc EXCEPT ![r] = FirstStep[op]]
  /\ job' = [job EXCEPT ![r] =
       [op |-> op, key |-> k, version |-> v, definition |-> definition, number |-> 0,
        found |-> {}, held |-> {}, current |-> NoVersion, inForce |-> Published(k) # {}]]
  /\ UNCHANGED <<versions, pinned>>

\* createDraft: COALESCE(MAX(version_number), 0) + 1.
ReadNumber(r) ==
  LET used == {versions[v].number : v \in Of(job[r].key)} IN
  /\ pc[r] = "number"
  /\ pc' = [pc EXCEPT ![r] = "insert"]
  /\ \E n \in used \union {0} : /\ \A m \in used : m <= n
                                /\ job' = [job EXCEPT ![r].number = n + 1]
  /\ UNCHANGED <<versions, pinned>>

\* ruleset_versions_key_version.
NumberFree(k, n) == \A v \in Of(k) : versions[v].number # n

InsertDraft(r) ==
  /\ pc[r] = "insert"
  /\ NumberFree(job[r].key, job[r].number)
  /\ Answer(r)
  /\ versions' = [versions EXCEPT ![r] =
       [key |-> job[r].key, number |-> job[r].number, status |-> "draft",
        definition |-> job[r].definition, superseded_by |-> NoRow]]
  /\ UNCHANGED pinned

RefuseNumber(r) ==
  /\ pc[r] = "insert"
  /\ ~NumberFree(job[r].key, job[r].number)
  /\ Answer(r)
  /\ UNCHANGED <<versions, pinned>>

\* publish: the SELECT by id, which takes no lock.
CheckDraft(r) ==
  LET version == versions[job[r].version] IN
  /\ pc[r] = "check"
  /\ IF version.status = "draft" /\ Valid(version.definition)
     THEN Goto(r, "find") ELSE Answer(r)
  /\ UNCHANGED <<versions, pinned>>

\* Mutation: the other keys of the organisation lose their version too.
InForceAnywhere(k) == UNION {Published(l) : l \in Key}

\* The rows the superseding UPDATE's WHERE clause selects.
InForce(k) == Published(k)

\* The UPDATE's snapshot ...
FindPublished(r) ==
  /\ pc[r] = "find"
  /\ pc' = [pc EXCEPT ![r] = "supersede"]
  /\ job' = [job EXCEPT ![r].found = InForce(job[r].key)]
  /\ UNCHANGED <<versions, pinned>>

Locked(v, r) == \E q \in Request \ {r} : pc[q] = "publish" /\ v \in job[q].held

\* Mutation: superseded_by holds the successor's number.
SupersedeByNumber(rows, id) ==
  [v \in Id |-> IF v \in rows
                THEN [versions[v] EXCEPT !.status = "superseded",
                                         !.superseded_by = versions[id].number]
                ELSE versions[v]]

Supersede(rows, id) ==
  [v \in Id |-> IF v \in rows
                THEN [versions[v] EXCEPT !.status = "superseded", !.superseded_by = id]
                ELSE versions[v]]

\* Mutation: the superseding UPDATE commits on its own.
LockPublishedApart(r) ==
  /\ pc[r] = "supersede"
  /\ \A v \in job[r].found : ~Locked(v, r)
  /\ Goto(r, "publish")
  /\ versions' = Supersede({v \in job[r].found : versions[v].status = "published"},
                           job[r].version)
  /\ UNCHANGED pinned

\* ... which waits for the rows' locks and leaves out those that are published no more.
LockPublished(r) ==
  /\ pc[r] = "supersede"
  /\ \A v \in job[r].found : ~Locked(v, r)
  /\ pc' = [pc EXCEPT ![r] = "publish"]
  /\ job' = [job EXCEPT ![r].held = {v \in job[r].found : versions[v].status = "published"}]
  /\ UNCHANGED <<versions, pinned>>

\* Mutation: the partial index is missing.
SlotFreeAlways(r) == TRUE

\* ruleset_versions_one_published.
SlotFree(r) == Published(job[r].key) \subseteq job[r].held \union {job[r].version}

\* The UPDATE by id and the COMMIT.
Publish(r) ==
  LET id == job[r].version IN
  /\ pc[r] = "publish"
  /\ ~Locked(id, r)
  /\ SlotFree(r)
  /\ Answer(r)
  /\ versions' = [Supersede(job[r].held, id) EXCEPT ![id].status = "published"]
  /\ UNCHANGED pinned

RefusePublish(r) ==
  /\ pc[r] = "publish"
  /\ ~Locked(job[r].version, r)
  /\ ~SlotFree(r)
  /\ Answer(r)
  /\ UNCHANGED <<versions, pinned>>

\* requestAccreditation: resolve in a transaction of its own, as 'system' ...
Resolve(r) ==
  /\ pc[r] = "resolve"
  /\ pc' = [pc EXCEPT ![r] = "pin"]
  /\ \E v \in IF Published(job[r].key) = {} THEN {NoVersion} ELSE Published(job[r].key) :
       job' = [job EXCEPT ![r].current = v]
  /\ UNCHANGED <<versions, pinned>>

\* ... and the accreditation's INSERT in the next one.
Pin(r) ==
  /\ pc[r] = "pin"
  /\ Answer(r)
  /\ pinned' = [pinned EXCEPT ![r] = job[r].current]
  /\ UNCHANGED versions

\* The connection or the process is gone before the COMMIT.
Abort(r) ==
  /\ pc[r] \notin {"idle", "answered"}
  /\ Answer(r)
  /\ UNCHANGED <<versions, pinned>>

\* getOutstandingItems for the accreditation that call r requested, which has a version.
getOutstandingItems(r, fact) ==
  UNION {computeOutstandingRequirements(versions[pinned[r]].definition, s, fact) :
           s \in {"broker_profile", "broker_business"}}

Statement(r) ==
  \/ ReadNumber(r) \/ InsertDraft(r) \/ RefuseNumber(r) \/ CheckDraft(r) \/ FindPublished(r)
  \/ LockPublished(r) \/ Publish(r) \/ RefusePublish(r) \/ Resolve(r) \/ Pin(r)

Served == (\A r \in Request : pc[r] = "answered") /\ UNCHANGED vars

Next == \/ \E r \in Request :
             \/ \E op \in {"create", "publish", "request"}, k \in Key,
                   v \in Id \union {NoRow}, d \in Draftable \union {{}} : Begin(r, op, k, v, d)
             \/ Statement(r)
             \/ Abort(r)
        \/ Served

Spec == Init /\ [][Next]_vars

(***************************************************************************)
(* Properties that hold.                                                   *)
(***************************************************************************)

Step == {"number", "insert", "check", "find", "supersede", "publish", "resolve", "pin"}

TypeOK ==
  /\ versions \in [Id -> Version \union {NoRow}]
  /\ pinned \in [Request -> Id \union {NoRow, NoVersion}]
  /\ pc \in [Request -> {"idle", "answered"} \union Step]
  /\ job \in [Request -> Job \union {NoJob}]

Superseded == {v \in Id : versions[v] # NoRow /\ versions[v].status = "superseded"}

\* Whoever holds a superseded version finds the one in force by following superseded_by:
\* the chain stays in the version's key, never runs in a circle and ends in a published one.
SuccessorsLeadToCurrent ==
  /\ \A v \in Superseded :
       LET w == versions[v].superseded_by IN
       w # NoRow /\ versions[w] # NoRow
         /\ versions[w].status # "draft" /\ versions[w].key = versions[v].key
  /\ \A S \in (SUBSET Superseded) \ {{}} : \E v \in S : versions[v].superseded_by \notin S

Everything(y) == [years |-> y, documents |-> DocumentType, member |-> TRUE]

\* A version that was ever in force can be met: a broker with every document and a
\* membership has nothing outstanding, whatever his experience.
PublishedCanBeMet ==
  \A v \in Id : (versions[v] # NoRow /\ versions[v].status # "draft") =>
    \A s \in {"broker_profile", "broker_business"}, y \in Years \union {NoYears} :
      computeOutstandingRequirements(versions[v].definition, s, Everything(y)) = {}

HasVersion(r) == pinned[r] \in Id

\* A broker whose experience is not recorded is asked, for an accreditation, for nothing
\* that a broker with any recorded experience and the same papers is not asked for.
MissingExperienceAsksLeast ==
  \A r \in Request : HasVersion(r) =>
    \A fact \in Fact, y \in Years :
      getOutstandingItems(r, [fact EXCEPT !.years = NoYears])
        \subseteq getOutstandingItems(r, [fact EXCEPT !.years = y])

\* A request that arrives when its key has a version in force is pinned to a version, also
\* when another is published between the resolving transaction and the inserting one; no
\* request is pinned to a version that was never in force; and what an applicant is asked
\* for stays what it was when he applied, whatever is published later.
RequestsGetAVersion ==
  [][\A r \in Request :
        /\ pinned'[r] # pinned[r] =>
             /\ job[r].inForce => pinned'[r] # NoVersion
             /\ pinned'[r] # NoVersion => versions[pinned'[r]].status # "draft"
        /\ HasVersion(r) => \A fact \in Fact :
             getOutstandingItems(r, fact)' = getOutstandingItems(r, fact)]_vars

\* Publishing implements RulesetRegister: numbers without gap or repeat, and one step from
\* the old version in force to the new one.
Register == INSTANCE RulesetRegister WITH
  key     <- [v \in Id |-> IF versions[v] = NoRow THEN NoKey ELSE versions[v].key],
  number  <- [v \in Id |-> IF versions[v] = NoRow THEN 0 ELSE versions[v].number],
  current <- [k \in Key |-> Published(k)]

RegisterSpec == Register!Spec
=============================================================================
