----------------------------- MODULE Onboarding -----------------------------
(***************************************************************************)
(* One broker's profile from draft to verified: editing and submitting it  *)
(* (src/src/modules/brokers/brokers.repository.ts), the identity           *)
(* verification by an external provider and a reviewer's decision          *)
(* (src/src/modules/verification/identity-verification.repository.ts), and *)
(* the notifications and e-mails these cause                               *)
(* (src/src/modules/notifications/notification.repository.ts).             *)
(*                                                                         *)
(* A call runs several transactions and, after the last COMMIT, sends an   *)
(* e-mail.  A SELECT is a step of its own; an UPDATE by id, the            *)
(* notification's INSERT and the COMMIT are one, and the profile's row is  *)
(* locked from the UPDATE on.  How check_result and evidence rows are      *)
(* versioned is Records' subject: here a check is on record or it is not.  *)
(*                                                                         *)
(* Memberships, checks and notifications are named by the call that wrote  *)
(* them.  The provider answers when, as often and whether it likes.        *)
(***************************************************************************)
EXTENDS Naturals, FiniteSets

CONSTANTS broker,           \* whose profile it is
          ClientUser,
          Patch,            \* the patches updateBrokerProfile is called with
          Earlier,          \* memberships that are older than every call
          Request,          \* API calls and webhook deliveries, each served once
          NoJob, NoRow

Recipient == {broker} \union ClientUser

Id == Request \union Earlier

Field == {"firstName", "lastName", "dateOfBirth", "phoneNumber", "mobileNumber",
          "experienceYears", "address", "creditLicenceNumber", "creditRepresentativeNumber",
          "licensingEntityName", "licensingEntityNumber"}

Licence == {"own_credit_licence", "credit_representative", "exempt", "none"}

Category == {"profile_submitted", "identity_verification_submitted",
             "identity_verification_complete", "identity_verification_queue_entry"}

\* MANDATORY_NOTIFICATION_CATEGORIES, those of this module.
Mandatory == {"identity_verification_complete"}

Profile == [status : {"draft", "submitted", "in_verification", "verified", "attention_required"},
            filled : SUBSET Field, licence : Licence, attested : BOOLEAN]

ASSUME PatchAssumption ==
  Patch \subseteq [fills : SUBSET Field, clears : SUBSET Field, licence : Licence]

ASSUME NameAssumption == broker \notin ClientUser /\ Earlier \intersect Request = {}

VARIABLES profile,          \* the broker_profiles row
          members,          \* association_memberships
          checks,           \* check_result rows of the profile
          applicant,        \* the provider has been given the broker's data
          optedOut,         \* notification_preferences with enabled = false
          notifications,    \* [by, recipient, category, suppressed] rows
          sent,             \* the calls whose notification has sent_at
          mails,            \* mails[r]: how many e-mails call r has sent
          edits,            \* how many commits have changed profile or memberships
          pc, job

data == <<profile, members, checks, applicant, optedOut, notifications, sent, mails, edits>>

vars == <<data, pc, job>>

Op == {"update", "attest", "add_member", "remove_member", "submit", "initiate", "webhook",
       "decide", "prefer"}

\* The preferences that decide about one of these notifications.
Preference == ({broker} \X (Category \ {"identity_verification_queue_entry"})) \union
              (ClientUser \X {"identity_verification_queue_entry"})

\* patch, on (a membership), preference and yes (the reviewer approves; the category is to be
\* enabled): what the call carries.  shouldSend: what createNotification found.  edits: for
\* the properties, the number of edits when the call arrived.
Job == [op : Op, patch : Patch \union {NoRow}, on : Id \union {NoRow},
        preference : Preference \union {NoRow}, yes : BOOLEAN, shouldSend : BOOLEAN,
        edits : Nat]

(***************************************************************************)
(* Completeness and routing.                                               *)
(***************************************************************************)

\* assertEditable.
Editable == profile.status \in {"draft", "attention_required"}

Always == Field \ {"creditLicenceNumber", "creditRepresentativeNumber", "licensingEntityName",
                   "licensingEntityNumber"}

Required(licence) ==
  Always \union
  (IF licence = "own_credit_licence" THEN {"creditLicenceNumber"}
   ELSE IF licence = "credit_representative"
   THEN {"creditRepresentativeNumber", "licensingEntityName", "licensingEntityNumber"} ELSE {})

\* computeOutstandingItems, the part that reads the profile ...
FieldsComplete == /\ profile.licence # "none"
                  /\ Required(profile.licence) \subseteq profile.filled
                  /\ profile.attested

\* ... and the part that counts the memberships.
Complete == FieldsComplete /\ members # {}

CategoryOf == [submit   |-> "profile_submitted",
               initiate |-> "identity_verification_submitted",
               decide   |-> "identity_verification_complete",
               webhook  |-> "identity_verification_queue_entry"]

Init ==
  /\ profile \in [status : {"draft"}, filled : {Required("own_credit_licence")},
                  licence : {"own_credit_licence"}, attested : BOOLEAN]
  /\ members \in SUBSET Earlier
  /\ checks = {}
  /\ applicant = FALSE
  /\ optedOut = {}
  /\ notifications = {}
  /\ sent = {}
  /\ mails = [r \in Request |-> 0]
  /\ edits = 0
  /\ pc = [r \in Request |-> "idle"]
  /\ job = [r \in Request |-> NoJob]

Goto(r, where) == pc' = [pc EXCEPT ![r] = where] /\ UNCHANGED job

Answer(r) == pc' = [pc EXCEPT ![r] = "answered"] /\ job' = [job EXCEPT ![r] = NoJob]

GotoIf(r, test, where) == IF test THEN Goto(r, where) ELSE Answer(r)

\* The profile's row is locked by another call's UPDATE.
Locked(r) == \E q \in Request \ {r} : pc[q] = "commit"

FirstStep == [update |-> "status", attest |-> "attest", add_member |-> "status",
              remove_member |-> "status", submit |-> "status", initiate |-> "status",
              webhook |-> "record", decide |-> "notify", prefer |-> "prefer"]

Call(op) == [op |-> op, patch |-> NoRow, on |-> NoRow, preference |-> NoRow, yes |-> FALSE,
             shouldSend |-> FALSE, edits |-> edits]

Begin(r, call) ==
  /\ pc[r] = "idle"
  /\ pc' = [pc EXCEPT ![r] = FirstStep[call.op]]
  /\ job' = [job EXCEPT ![r] = call]
  /\ UNCHANGED data

\* recordWebhookResult, about an applicant the provider knows: GREEN, RED and anything else
\* are all one completed check, and the signature is not modelled.
ProviderAnswers(r) == applicant /\ Begin(r, Call("webhook"))

\* A reviewer decides on any check of the profile, pending and superseded ones included.
Arrive(r) ==
  \/ \E op \in {"attest", "add_member", "submit", "initiate"} : Begin(r, Call(op))
  \/ \E patch \in Patch : Begin(r, [Call("update") EXCEPT !.patch = patch])
  \/ \E m \in members : Begin(r, [Call("remove_member") EXCEPT !.on = m])
  \/ ProviderAnswers(r)
  \/ \E yes \in BOOLEAN : checks # {} /\ Begin(r, [Call("decide") EXCEPT !.yes = yes])
  \/ \E preference \in Preference, yes \in BOOLEAN :
       Begin(r, [Call("prefer") EXCEPT !.preference = preference, !.yes = yes])

(***************************************************************************)
(* Editing and submitting.                                                 *)
(***************************************************************************)

\* The SELECT of the status in the gated calls; initiateVerification's is a transaction of
\* its own and refuses only a running verification.
CheckStatus(r) ==
  /\ pc[r] = "status"
  /\ IF job[r].op = "initiate" THEN GotoIf(r, profile.status # "in_verification", "provider")
     ELSE GotoIf(r, Editable, IF job[r].op = "submit" THEN "fields" ELSE "write")
  /\ UNCHANGED data

WriteProfile(r) ==
  LET patch == job[r].patch IN
  /\ pc[r] = "write" /\ job[r].op = "update"
  /\ ~Locked(r)
  /\ Answer(r)
  /\ profile' = [profile EXCEPT !.filled = (@ \ patch.clears) \union patch.fills,
                                !.licence = patch.licence]
  /\ edits' = edits + 1
  /\ UNCHANGED <<members, checks, applicant, optedOut, notifications, sent, mails>>

\* attestTerms, in any status.
Attest(r) ==
  /\ pc[r] = "attest"
  /\ ~Locked(r)
  /\ Answer(r)
  /\ profile' = [profile EXCEPT !.attested = TRUE]
  /\ edits' = edits + 1
  /\ UNCHANGED <<members, checks, applicant, optedOut, notifications, sent, mails>>

\* createAssociationMembership's INSERT, deleteAssociationMembership's DELETE.
WriteMember(r) ==
  /\ pc[r] = "write" /\ job[r].op \in {"add_member", "remove_member"}
  /\ Answer(r)
  /\ members' = IF job[r].op = "add_member" THEN members \union {r} ELSE members \ {job[r].on}
  /\ edits' = edits + 1
  /\ UNCHANGED <<profile, checks, applicant, optedOut, notifications, sent, mails>>

\* fetchCompletenessInputs, first SELECT.
ReadFields(r) ==
  /\ pc[r] = "fields"
  /\ GotoIf(r, FieldsComplete, "memberships")
  /\ UNCHANGED data

\* Mutation: the membership is asked for on the accreditation's page only.
ReadMembershipsAny(r) ==
  /\ pc[r] = "memberships"
  /\ Goto(r, "notify")
  /\ UNCHANGED data

\* Its second SELECT.
ReadMemberships(r) ==
  /\ pc[r] = "memberships"
  /\ GotoIf(r, members # {}, "notify")
  /\ UNCHANGED data

(***************************************************************************)
(* Verification.                                                           *)
(***************************************************************************)

\* SumsubAdapter.submit; an applicant that exists already is taken as it is.
SubmitToProvider(r) ==
  /\ pc[r] = "provider"
  /\ applicant' = TRUE
  /\ Goto(r, "record")
  /\ UNCHANGED <<profile, members, checks, optedOut, notifications, sent, mails, edits>>

\* Mutation: the provider's answer is the first check that is recorded.
RecordCheckOfAnswer(r) ==
  /\ pc[r] = "record"
  /\ checks' = IF job[r].op = "webhook" THEN checks \union {r} ELSE checks
  /\ Goto(r, IF job[r].op = "webhook" THEN "queue" ELSE "notify")
  /\ UNCHANGED <<profile, members, applicant, optedOut, notifications, sent, mails, edits>>

\* recordCheckResult: 'pending' for initiateVerification, 'completed' for a webhook.
RecordCheck(r) ==
  /\ pc[r] = "record"
  /\ checks' = checks \union {r}
  /\ Goto(r, IF job[r].op = "webhook" THEN "queue" ELSE "notify")
  /\ UNCHANGED <<profile, members, applicant, optedOut, notifications, sent, mails, edits>>

\* applyResult's notifications to the active users of the linked organisations, whoever they
\* are by then; they are listed, not mailed.
QueueEntries(r) ==
  /\ pc[r] = "queue"
  /\ Answer(r)
  /\ \E linked \in SUBSET ClientUser :
       notifications' = notifications \union
         {[by |-> r, recipient |-> u, category |-> CategoryOf.webhook,
           suppressed |-> <<u, CategoryOf.webhook>> \in optedOut] : u \in linked}
  /\ UNCHANGED <<profile, members, checks, applicant, optedOut, sent, mails, edits>>

(***************************************************************************)
(* The status change, its notification and its e-mail.                     *)
(***************************************************************************)

Enabled(who, category) == <<who, category>> \notin optedOut

\* The UPDATE by id takes the row lock; createNotification then reads the preference.
ReadPreference(r) ==
  /\ pc[r] = "notify"
  /\ ~Locked(r)
  /\ pc' = [pc EXCEPT ![r] = "commit"]
  /\ job' = [job EXCEPT ![r].shouldSend = Enabled(broker, CategoryOf[job[r].op])]
  /\ UNCHANGED data

\* Mutation: the provider's word for the outcome becomes the profile's status.
StatusAfterProvider(op, yes) == IF op = "initiate" THEN "pending" ELSE "verified"

StatusAfter(op, yes) ==
  IF op = "submit" THEN "submitted"
  ELSE IF op = "initiate" THEN "in_verification"
  ELSE IF yes THEN "verified" ELSE "attention_required"

\* Mutation: a suppressed notification's row is left out, but its e-mail is not.
CommitSilently(r) ==
  /\ profile' = [profile EXCEPT !.status = StatusAfter(job[r].op, job[r].yes)]
  /\ notifications' = IF job[r].shouldSend
       THEN notifications \union {[by |-> r, recipient |-> broker,
                                   category |-> CategoryOf[job[r].op], suppressed |-> FALSE]}
       ELSE notifications
  /\ Goto(r, "send")
  /\ UNCHANGED <<members, checks, applicant, optedOut, sent, mails, edits>>

\* The status, the notification's row, suppressed or not, and the COMMIT.
Commit(r) ==
  /\ profile' = [profile EXCEPT !.status = StatusAfter(job[r].op, job[r].yes)]
  /\ notifications' = notifications \union
       {[by |-> r, recipient |-> broker, category |-> CategoryOf[job[r].op],
         suppressed |-> ~job[r].shouldSend]}
  /\ GotoIf(r, job[r].shouldSend, "send")
  /\ UNCHANGED <<members, checks, applicant, optedOut, sent, mails, edits>>

Submit(r) == pc[r] = "commit" /\ job[r].op = "submit" /\ Commit(r)

Initiate(r) == pc[r] = "commit" /\ job[r].op = "initiate" /\ Commit(r)

\* reviewerDecide; the escalation of the context around its UPDATE changes no row.
Decide(r) == pc[r] = "commit" /\ job[r].op = "decide" /\ Commit(r)

\* email.send, after the COMMIT; when it throws, the call has failed and its effect stands.
Send(r) ==
  /\ pc[r] = "send"
  /\ mails' = [mails EXCEPT ![r] = @ + 1]
  /\ Goto(r, "mark")
  /\ UNCHANGED <<profile, members, checks, applicant, optedOut, notifications, sent, edits>>

MarkSent(r) ==
  /\ pc[r] = "mark"
  /\ sent' = sent \union {r}
  /\ Answer(r)
  /\ UNCHANGED <<profile, members, checks, applicant, optedOut, notifications, mails, edits>>

\* setPreference.
SetPreference(r) ==
  /\ pc[r] = "prefer"
  /\ Answer(r)
  /\ optedOut' = IF job[r].yes THEN optedOut \ {job[r].preference}
                 ELSE optedOut \union {p \in {job[r].preference} : p[2] \notin Mandatory}
  /\ UNCHANGED <<profile, members, checks, applicant, notifications, sent, mails, edits>>

\* The process, a connection, the provider or the mail server is gone.
Abort(r) ==
  /\ pc[r] \notin {"idle", "answered"}
  /\ Answer(r)
  /\ UNCHANGED data

Statement(r) ==
  \/ CheckStatus(r) \/ WriteProfile(r) \/ Attest(r) \/ WriteMember(r) \/ ReadFields(r)
  \/ ReadMemberships(r) \/ SubmitToProvider(r) \/ RecordCheck(r) \/ QueueEntries(r)
  \/ ReadPreference(r) \/ Submit(r) \/ Initiate(r) \/ Decide(r) \/ Send(r) \/ MarkSent(r) \/ SetPreference(r)

Served == (\A r \in Request : pc[r] = "answered") /\ UNCHANGED vars

Next == \/ \E r \in Request : Arrive(r) \/ Statement(r) \/ Abort(r)
        \/ Served

Spec == Init /\ [][Next]_vars

(***************************************************************************)
(* Properties that hold.                                                   *)
(***************************************************************************)

Notification == [by : Request, recipient : Recipient, category : Category, suppressed : BOOLEAN]

Step == {"status", "write", "attest", "fields", "memberships", "provider", "record",
         "queue", "notify", "commit", "send", "mark", "prefer"}

TypeOK ==
  /\ profile \in Profile
  /\ members \subseteq Id
  /\ checks \subseteq Request
  /\ applicant \in BOOLEAN
  /\ optedOut \subseteq Preference
  /\ notifications \subseteq Notification
  /\ sent \subseteq Request
  /\ mails \in [Request -> Nat]
  /\ edits \in Nat
  /\ pc \in [Request -> {"idle", "answered"} \union Step]
  /\ job \in [Request -> Job \union {NoJob}]

\* notifications_visibility.
SeesNotification(u, n) == n.recipient = u

\* listMine, which lists the suppressed ones too.
Inbox(u) == {n \in notifications : SeesNotification(u, n)}

\* An e-mail goes out once, and only about a change that is committed, is in the broker's
\* own list and of a category he takes; sent_at is only ever set on a notification that was
\* mailed; and what a reviewer decided is never kept from the broker by a preference
\* (NOT-005, NOT-007).
MailFollowsNotification ==
  /\ \A r \in Request : mails[r] > 0 =>
       /\ mails[r] = 1
       /\ \E n \in Inbox(broker) : n.by = r /\ ~n.suppressed
  /\ \A r \in sent : mails[r] = 1
  /\ \A n \in notifications : n.suppressed => n.category \notin Mandatory

\* A profile is never in verification, verified or sent back without a check on record for
\* a reviewer to decide on: in_verification refuses a new attempt and every edit, so without
\* one it could not be left again, wherever initiateVerification was interrupted.
VerificationIsOnRecord ==
  profile.status \in {"in_verification", "verified", "attention_required"} => checks # {}

\* A profile is submitted with something outstanding only when another call changed it
\* while the submission was running.
IncompleteOnlyByOverlap ==
  [][\A r \in Request : (pc[r] = "commit" /\ pc'[r] # pc[r] /\ profile' # profile) =>
       (job[r].op = "submit" => Complete \/ edits # job[r].edits)]_vars
=============================================================================
