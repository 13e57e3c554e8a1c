----------------------------- MODULE Businesses -----------------------------
(***************************************************************************)
(* Businesses, the brokers affiliated with them and their principals       *)
(* (src/src/modules/businesses/businesses.repository.ts), with the row     *)
(* level security of migrations 0007 and 0019: a SELECT sees, and an       *)
(* UPDATE changes, only rows the policies grant the calling broker.  An    *)
(* UPDATE of a row they do not grant changes nothing and does not fail.    *)
(*                                                                         *)
(* Every call reads in one statement and writes in a later one, and no     *)
(* read locks its row.  An UPDATE under a policy that looks at other rows  *)
(* is two steps: the policy is judged in the statement's snapshot, which   *)
(* the statement keeps while it waits for the row, and the row is written, *)
(* for others to see, when the transaction commits.  From its lock to the  *)
(* COMMIT nobody else changes the row, so the write is one step with the   *)
(* COMMIT; but other rows, those the policy has looked at included, change *)
(* in between.  endAffiliation's UPDATE looks at its own row only, and is  *)
(* one step.                                                               *)
(*                                                                         *)
(* An affiliation or a principal is named by the call that inserted it, or *)
(* is one of Earlier.  The verification of a business (src/src/modules/     *)
(* verification) is here too: its provider is a mock that answers at once, *)
(* and a reviewer decides at any time after that.                          *)
(***************************************************************************)
EXTENDS Naturals, FiniteSets

CONSTANTS Broker, Business,
          EntityOf,       \* the entity_type of each business, fixed at its creation
          Edited,         \* the fields the calls of an instance fill or clear
          Earlier,        \* affiliations that are older than every call
          OnFile,         \* their rows
          Request,        \* API calls, each served once
          NoRow, NoJob

Id == Request \union Earlier

Status == {"draft", "submitted", "in_verification", "verified", "attention_required"}

Field == {"legalName", "registrationNumber", "gstRegistered", "businessEmail", "address",
          "trusteeName"}

\* filled: the fields computeBusinessOutstandingItems finds a value in.
BusinessRow == [status : Status, filled : SUBSET Field]

Affiliation == [broker : Broker, business : Business,
                status : {"pending_confirmation", "active", "ended"}, ended_at : BOOLEAN]

Principal == [business : Business, removed : BOOLEAN]

ASSUME FileAssumption == /\ EntityOf \in [Business -> {"company", "sole_trader", "partnership", "trust"}]
                         /\ OnFile \in [Earlier -> Affiliation]
                         /\ Earlier \intersect Request = {}
                         /\ Edited \subseteq Field

\* NULL is no id and no row.
ASSUME SentinelAssumption == NoRow \notin Id \union BusinessRow \union Affiliation \union Principal

VARIABLES businesses,       \* broker_businesses
          affiliations,     \* business_affiliations
          principals,       \* business_principals
          checked,          \* the businesses with a row in check_result
          edits,            \* edits[b]: how many commits have changed b's fields or principals
          leaves,           \* leaves[by]: how many affiliations by has ended
          pc, job           \* where each call is, and what it was asked to do

vars == <<businesses, affiliations, principals, checked, edits, leaves, pc, job>>

tables == <<businesses, affiliations, principals, checked, edits, leaves>>

(***************************************************************************)
(* Policies and completeness.                                              *)
(***************************************************************************)
Gated == {"update", "submit", "add_principal", "update_principal", "remove_principal"}

Op == Gated \union {"create", "request", "confirm", "end", "verify"}

\* on: the affiliation or principal the call names.  field, fill: what an update writes.
\* For the properties: edits, those of the business when the call arrived, and leaves, those
\* of the caller when its UPDATE began.
Job == [op : Op, by : Broker, business : Business, on : Id \union {NoRow}, field : Edited,
        fill : BOOLEAN, edits : Nat, leaves : Nat]

Exists(b) == businesses[b] # NoRow

Open(i) == affiliations[i] # NoRow /\ affiliations[i].status # "ended"

\* has_active_business_affiliation(), and the same subquery inline in the policies.
HasActiveAffiliation(by, b) ==
  \E i \in Id : /\ affiliations[i] # NoRow
                /\ affiliations[i].broker = by
                /\ affiliations[i].business = b
                /\ affiliations[i].status = "active"

\* broker_businesses_visibility and broker_businesses_update, for a broker.
SeesBusiness(by, b) == Exists(b) /\ HasActiveAffiliation(by, b)

\* business_affiliations_visibility, for a broker.
SeesAffiliation(by, i) ==
  /\ affiliations[i] # NoRow
  /\ affiliations[i].broker = by \/ HasActiveAffiliation(by, affiliations[i].business)

\* Mutation: any broker's UPDATE reaches any affiliation.
MayWriteAnyAffiliation(by, i) == affiliations[i] # NoRow

\* business_affiliations_update, for a broker.
MayWriteAffiliation(by, i) == SeesAffiliation(by, i)

\* business_principals_insert and business_principals_update, for a broker.
MayWritePrincipals(by, b) == HasActiveAffiliation(by, b)

\* assertEditable.
Editable(b) == businesses[b].status \in {"draft", "attention_required"}

\* Mutation: a trust is asked for its trustee under the column's name.
RequiredMisnamed(b) == Field \union (IF EntityOf[b] = "trust" THEN {"trustee_name"} ELSE {})

Required(b) == Field \ (IF EntityOf[b] = "trust" THEN {} ELSE {"trusteeName"})

Current(p, b) == principals[p] # NoRow /\ principals[p].business = b /\ ~principals[p].removed

FieldsOutstanding(b) == Required(b) \ businesses[b].filled

PrincipalOutstanding(b) == \A p \in Id : ~Current(p, b)

\* computeBusinessOutstandingItems finds nothing.
Complete(b) == FieldsOutstanding(b) = {} /\ ~PrincipalOutstanding(b)

(***************************************************************************)
(* The calls.                                                              *)
(***************************************************************************)

\* What is on file: each Earlier affiliation's business is a draft with its required fields.
Init ==
  /\ affiliations = [i \in Id |-> IF i \in Earlier THEN OnFile[i] ELSE NoRow]
  /\ businesses = [b \in Business |->
       IF \E i \in Earlier : OnFile[i].business = b
       THEN [status |-> "draft", filled |-> Required(b)] ELSE NoRow]
  /\ principals = [p \in Id |-> NoRow]
  /\ checked = {}
  /\ edits = [b \in Business |-> 0]
  /\ leaves = [by \in Broker |-> 0]
  /\ pc = [r \in Request |-> "idle"]
  /\ job = [r \in Request |-> NoJob]

Goto(r, where) == pc' = [pc EXCEPT ![r] = where] /\ UNCHANGED job

\* The call returns or throws; nothing of it is left but what it committed.
Answer(r) == pc' = [pc EXCEPT ![r] = "answered"] /\ job' = [job EXCEPT ![r] = NoJob]

GotoIf(r, test, where) == IF test THEN Goto(r, where) ELSE Answer(r)

FirstStep == [create |-> "create", verify |-> "look", request |-> "status", confirm |-> "mine", end |-> "end",
              update |-> "check", submit |-> "check", add_principal |-> "check",
              update_principal |-> "check", remove_principal |-> "check"]

\* BusinessesController: requireBroker, then the repository.
Begin(r, op, by, b, on, field, fill) ==
  /\ pc[r] = "idle"
  /\ Exists(b) <=> op # "create"
  /\ op \in {"confirm", "end"} => on # NoRow /\ affiliations[on] # NoRow
  /\ op \in {"update_principal", "remove_principal"} => on # NoRow /\ principals[on] # NoRow
  /\ op \in {"create", "verify", "request", "update", "submit", "add_principal"} => on = NoRow
  /\ op # "update" => fill
  /\ pc' = [pc EXCEPT ![r] = FirstStep[op]]
  /\ job' = [job EXCEPT ![r] =
       [op |-> op, by |-> by, business |-> b, on |-> on, field |-> field, fill |-> fill,
        edits |-> edits[b], leaves |-> 0]]
  /\ UNCHANGED tables

\* createBusiness: the business, its founding affiliation and, for a sole trader, the
\* broker as principal, in one transaction.
Create(r) ==
  LET b == job[r].business IN
  /\ pc[r] = "create"
  /\ ~Exists(b)
  /\ Answer(r)
  /\ businesses' = [businesses EXCEPT ![b] =
                     [status |-> "draft", filled |-> Field \ {job[r].field}]]
  /\ affiliations' = [affiliations EXCEPT ![r] =
       [broker |-> job[r].by, business |-> b, status |-> "active", ended_at |-> FALSE]]
  /\ principals' = IF EntityOf[b] = "sole_trader"
                   THEN [principals EXCEPT ![r] = [business |-> b, removed |-> FALSE]]
                   ELSE principals
  /\ UNCHANGED <<checked, edits, leaves>>

\* The SELECT of the status in the five gated calls.
CheckEditable(r) ==
  LET b == job[r].business IN
  /\ pc[r] = "check"
  /\ GotoIf(r, SeesBusiness(job[r].by, b) /\ Editable(b),
               IF job[r].op = "submit" THEN "fields" ELSE "write")
  /\ UNCHANGED tables

MayWrite(r) ==
  CASE job[r].op = "confirm" -> MayWriteAffiliation(job[r].by, job[r].on)
    [] job[r].op \in {"add_principal", "update_principal", "remove_principal"} ->
         MayWritePrincipals(job[r].by, job[r].business)
    [] OTHER -> SeesBusiness(job[r].by, job[r].business)

\* The UPDATE, or the INSERT of a principal, begins.  An UPDATE the policy grants no row is
\* answered like any other.
StartWrite(r) ==
  /\ pc[r] = "write"
  /\ IF MayWrite(r)
     THEN /\ pc' = [pc EXCEPT ![r] = "commit"]
          /\ job' = [job EXCEPT ![r].leaves = leaves[job[r].by]]
     ELSE Answer(r)
  /\ UNCHANGED tables

\* updateBusiness commits.
WriteFields(r) ==
  LET b == job[r].business IN
  /\ pc[r] = "commit" /\ job[r].op = "update"
  /\ Answer(r)
  /\ businesses' = [businesses EXCEPT ![b].filled =
                     IF job[r].fill THEN @ \union {job[r].field} ELSE @ \ {job[r].field}]
  /\ edits' = [edits EXCEPT ![b] = @ + 1]
  /\ UNCHANGED <<affiliations, principals, checked, leaves>>

\* addPrincipal, updatePrincipal and removePrincipal commit; the last two fail when the row
\* has been removed by the time they have it.
WritePrincipal(r) ==
  LET b == job[r].business
      p == IF job[r].op = "add_principal" THEN r ELSE job[r].on
  IN
  /\ pc[r] = "commit"
  /\ job[r].op \in {"add_principal", "update_principal", "remove_principal"}
  /\ IF p = r \/ Current(p, b)
     THEN /\ Answer(r)
          /\ principals' = [principals EXCEPT ![p] =
                             [business |-> b, removed |-> job[r].op = "remove_principal"]]
          /\ edits' = [edits EXCEPT ![b] = @ + 1]
     ELSE Answer(r) /\ UNCHANGED <<principals, edits>>
  /\ UNCHANGED <<businesses, affiliations, checked, leaves>>

\* fetchBusinessCompletenessInputs, first SELECT.
ReadFields(r) ==
  LET b == job[r].business IN
  /\ pc[r] = "fields"
  /\ GotoIf(r, SeesBusiness(job[r].by, b) /\ FieldsOutstanding(b) = {}, "principals")
  /\ UNCHANGED tables

\* Mutation: removed principals count.
ReadPrincipalsEver(r) ==
  LET b == job[r].business IN
  /\ pc[r] = "principals"
  /\ GotoIf(r, \E p \in Id : principals[p] # NoRow /\ principals[p].business = b, "write")
  /\ UNCHANGED tables

\* Its second SELECT.
ReadPrincipals(r) ==
  LET b == job[r].business IN
  /\ pc[r] = "principals"
  /\ GotoIf(r, HasActiveAffiliation(job[r].by, b) /\ ~PrincipalOutstanding(b), "write")
  /\ UNCHANGED tables

\* submitBusiness commits, the notification it has queued included.
Submit(r) ==
  /\ pc[r] = "commit" /\ job[r].op = "submit"
  /\ Answer(r)
  /\ businesses' = [businesses EXCEPT ![job[r].business].status = "submitted"]
  /\ UNCHANGED <<affiliations, principals, checked, edits, leaves>>

\* requestAffiliation reads the status in a transaction of its own, as 'system'.
CheckAffiliatable(r) ==
  /\ pc[r] = "status"
  /\ GotoIf(r, businesses[job[r].business].status = "verified", "open")
  /\ UNCHANGED tables

CheckNotAffiliated(r) ==
  /\ pc[r] = "open"
  /\ GotoIf(r, \A i \in Id : ~ /\ Open(i)
                               /\ affiliations[i].broker = job[r].by
                               /\ affiliations[i].business = job[r].business,
               "insert")
  /\ UNCHANGED tables

InsertPending(r) ==
  /\ pc[r] = "insert"
  /\ Answer(r)
  /\ affiliations' = [affiliations EXCEPT ![r] =
       [broker |-> job[r].by, business |-> job[r].business,
        status |-> "pending_confirmation", ended_at |-> FALSE]]
  /\ UNCHANGED <<businesses, principals, checked, edits, leaves>>

\* confirmAffiliation: the caller's own standing, then the target, then the UPDATE by id.
CheckMine(r) ==
  /\ pc[r] = "mine"
  /\ GotoIf(r, HasActiveAffiliation(job[r].by, job[r].business), "target")
  /\ UNCHANGED tables

Confirmable(by, b, i) ==
  /\ SeesAffiliation(by, i)
  /\ affiliations[i].business = b
  /\ affiliations[i].broker # by
  /\ affiliations[i].status = "pending_confirmation"

CheckTarget(r) ==
  /\ pc[r] = "target"
  /\ GotoIf(r, Confirmable(job[r].by, job[r].business, job[r].on), "write")
  /\ UNCHANGED tables

\* It commits, with its audit entry; ended_at stays as it is, also on a row that has ended
\* since the check.
Confirm(r) ==
  /\ pc[r] = "commit" /\ job[r].op = "confirm"
  /\ Answer(r)
  /\ affiliations' = [affiliations EXCEPT ![job[r].on].status = "active"]
  /\ UNCHANGED <<businesses, principals, checked, edits, leaves>>

\* endAffiliation: one conditional UPDATE; flagPartyChanged is Accreditation's.
End(r) ==
  LET i == job[r].on IN
  /\ pc[r] = "end"
  /\ IF affiliations[i].broker = job[r].by /\ Open(i)
     THEN /\ Answer(r)
          /\ affiliations' = [affiliations EXCEPT ![i].status = "ended", ![i].ended_at = TRUE]
          /\ leaves' = [leaves EXCEPT ![job[r].by] = @ + 1]
     ELSE Answer(r) /\ UNCHANGED <<affiliations, leaves>>
  /\ UNCHANGED <<businesses, principals, checked, edits>>

\* The connection or the process is gone before the COMMIT.
Abort(r) ==
  /\ pc[r] \notin {"idle", "answered"}
  /\ Answer(r)
  /\ UNCHANGED tables

\* initiateKyb's getBusiness.
LookUp(r) ==
  /\ pc[r] = "look"
  /\ GotoIf(r, SeesBusiness(job[r].by, job[r].business), "running")
  /\ UNCHANGED tables

\* initiateVerification's SELECT of the status, in a transaction of its own: a row the
\* broker does not see any more is not in verification.
CheckNotRunning(r) ==
  LET b == job[r].business IN
  /\ pc[r] = "running"
  /\ GotoIf(r, SeesBusiness(job[r].by, b) => businesses[b].status # "in_verification", "record")
  /\ UNCHANGED tables

\* MockKybAdapter.submit, then recordCheckResult's row, 'pending'.
RecordCheck(r) ==
  /\ pc[r] = "record"
  /\ checked' = checked \union {job[r].business}
  /\ Goto(r, "write")
  /\ UNCHANGED <<businesses, affiliations, principals, edits, leaves>>

\* The status's transaction commits.  The mock's poll and applyResult, which follow at once,
\* write evidence and a second check.
StartVerification(r) ==
  /\ pc[r] = "commit" /\ job[r].op = "verify"
  /\ Answer(r)
  /\ businesses' = [businesses EXCEPT ![job[r].business].status = "in_verification"]
  /\ UNCHANGED <<affiliations, principals, checked, edits, leaves>>

\* reviewerDecide on a check of b, pending and superseded ones included.  Once nobody is
\* affiliated, no client user is shown the check and no broker could be notified.
Decide(b) ==
  /\ b \in checked
  /\ \E by \in Broker : HasActiveAffiliation(by, b)
  /\ \E s \in {"verified", "attention_required"} :
       businesses' = [businesses EXCEPT ![b].status = s]
  /\ UNCHANGED <<affiliations, principals, checked, edits, leaves, pc, job>>

Statement(r) ==
  \/ Create(r) \/ CheckEditable(r) \/ StartWrite(r) \/ WriteFields(r) \/ WritePrincipal(r)
  \/ ReadFields(r) \/ ReadPrincipals(r) \/ Submit(r) \/ CheckAffiliatable(r) \/ CheckNotAffiliated(r)
  \/ InsertPending(r) \/ CheckMine(r) \/ CheckTarget(r) \/ Confirm(r) \/ End(r)
  \/ LookUp(r) \/ CheckNotRunning(r) \/ RecordCheck(r) \/ StartVerification(r)

Served == (\A r \in Request : pc[r] = "answered") /\ UNCHANGED vars

Next == \/ \E r \in Request :
             \/ \E op \in Op, by \in Broker, b \in Business, on \in Id \union {NoRow},
                   field \in Edited, fill \in BOOLEAN : Begin(r, op, by, b, on, field, fill)
             \/ Statement(r)
             \/ Abort(r)
        \/ \E b \in Business : Decide(b)
        \/ Served

Spec == Init /\ [][Next]_vars

(***************************************************************************)
(* Properties that hold.                                                   *)
(***************************************************************************)

Step == {"create", "check", "fields", "principals", "status", "open", "insert", "mine", "target",
         "end", "look", "running", "record", "write", "commit"}

TypeOK ==
  /\ businesses \in [Business -> BusinessRow \union {NoRow}]
  /\ affiliations \in [Id -> Affiliation \union {NoRow}]
  /\ principals \in [Id -> Principal \union {NoRow}]
  /\ checked \subseteq Business
  /\ edits \in [Business -> Nat]
  /\ leaves \in [Broker -> Nat]
  /\ pc \in [Request -> {"idle", "answered"} \union Step]
  /\ job \in [Request -> Job \union {NoJob}]

\* Nobody vouches for himself: an affiliation that does not found its business becomes
\* active only when another broker's confirmation of it commits, and he has an active one
\* there himself at that moment, unless he has left since its UPDATE began (BUS-005).  Leaving
\* between his checks and the UPDATE does not do.
JoinsAreVouchedFor ==
  [][\A i \in Id :
       (affiliations[i] # NoRow /\ affiliations[i].status # "active"
          /\ affiliations'[i].status = "active") =>
            \E r \in Request :
              /\ pc[r] = "commit" /\ pc'[r] = "answered"
              /\ job[r].by # affiliations[i].broker
              /\ \/ HasActiveAffiliation(job[r].by, affiliations[i].business)
                 \/ leaves[job[r].by] # job[r].leaves]_vars

\* A business is submitted with something outstanding only when another call changed it
\* while the submission was running.
IncompleteOnlyByOverlap ==
  [][\A r \in Request : (pc[r] = "commit" /\ job[r].op = "submit" /\ pc'[r] # pc[r]) =>
       LET b == job[r].business IN
       (businesses'[b].status = "submitted" /\ businesses[b].status # "submitted") =>
          Complete(b) \/ edits[b] # job[r].edits]_vars
=============================================================================
