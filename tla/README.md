# TLA+ models of the broker platform

The repository (`src/`) is a NestJS service over PostgreSQL. Brokers keep one profile and link
themselves to client organisations (lenders, aggregators, associations); a link is what lets an
organisation see a broker; lenders accredit brokers against a published ruleset and follow their
training. Brokers and businesses are verified, upload documents and are notified of what is
decided about them. The API keeps no state of its own: every operation is one or more database
transactions opened by `withAuthorizationContext`, sometimes with object storage, a provider or an
e-mail around them, and any number of them run at once, from any number of processes. So the models
are of **transactions over shared rows**: what each statement reads, which lock it waits for, what
commits together, and what another call may commit in between. The demo scripts beside the service make
the same calls one after another, and one script deletes what they made; they are modelled too.

Properties are statements about *correctness of these protocols*. Three sentences of the
repository's documents and comments do not hold; each is a run that expects a violation and is
listed under *Findings*.

## 1. Inventory

Paths are relative to `src/src/modules/` unless they start with `db/` or `test/`. *Status* says how
much of the component's writing operations the modules below contain; the notes in `PROJECT.json`
name what is missing.

| Component | State | Operations | Interacts with | What is hard | What makes it correct | Status |
|---|---|---|---|---|---|---|
| **Transactions** `../db/authorization-context.ts` | connection pool, per-transaction session variables | BEGIN, three `set_config(..., true)`, work, COMMIT or ROLLBACK | everything | READ COMMITTED: each statement sees what is committed when it starts; no `SELECT ... FOR UPDATE` anywhere | all or nothing; every call answered | partly |
| **Relationships** `relationships/` | `relationships` rows: status, consented_at, effective_from, effective_to | request, invite, accept, decline, revoke, end; visibility function | audit, metering, every RLS policy | check-then-update by primary key | no visibility without consent; closed is closed; ledger agrees with table | modelled |
| **Accreditation** `accreditation/accreditation.repository.ts` | `accreditations`, `accreditation_decisions` | request, request information, escalate, approve, decline, interview, flag | relationships, affiliations, rulesets, notifications | check-then-update; multi-row flag; partial unique index | one live row per scope; nothing in force unapproved; escalations bind; flags land | partly |
| **Training** `accreditation/training.repository.ts` | deadline, `training_confirmations`, `platform_broker_id` | confirm, activate, deadline sweep | accreditation, broker profile | sweep against activation | lapse only overdue rows; the platform id is permanent | partly |
| **Businesses, affiliations** `businesses/` | `broker_businesses`, `business_affiliations`, `business_principals` | create, update, submit, principals, request, confirm, end | accreditation (flag), verification, RLS | confirm by id after two unlocked checks; completeness read in two SELECTs | nobody vouches for himself; submitted means complete | modelled |
| **Identity, sessions** `identity/` | credentials, refresh tokens, reset tokens, MFA secrets | register, provision, login, MFA, refresh, logout, change and reset password, deactivation | e-mail | rotation by check-then-insert; reuse detection that must commit; RLS that swallows an UPDATE | second factor behind every session; nothing spent twice in sequence; a sign-out of everything reaches everything | partly |
| **Broker profiles** `brokers/` | profile status and fields, terms, association memberships | update, attest, memberships, submit, access history, reconstruct as of a date | evidence, verification, audit | completeness checked, then submitted | submitted means complete | partly |
| **Rulesets** `rulesets/` | versions per key: draft, published, superseded | draft, publish, resolve, validate, evaluate | accreditation | two publications at once; recursive conditions; NULL facts | one version in force, never none; what is published can be met | modelled |
| **Verification** `verification/` | `check_result` intervals, subject status | initiate (three transactions and a provider), webhook, KYB, reviewer decision | evidence, brokers, businesses, notifications | answers late, twice, before the attempt has recorded itself | a status of verification has a check on record | partly |
| **Evidence** `evidence/` | `evidence` intervals, stored objects | store, upload, outstanding list, download | audit, brokers, accreditation | object before row; no unique current version | history keeps its end; no result without payload; every client download on record | modelled |
| **Notifications** `notifications/` | notification rows, preferences | create, mark sent, set preference | e-mail (external) | sent after COMMIT, never retried | no e-mail for a rolled-back change; mandatory ones not suppressed | partly |
| **Audit, metering** `audit/`, `metering/` | append-only tables | record | every writer | same transaction as the change | one entry per committed change | partly |
| **Row-level security** `db/migrations/` | policies, `has_active_relationship`, `has_active_business_affiliation` | each SELECT and UPDATE | every table | an UPDATE of a hidden row changes nothing and says nothing | a client sees a broker only through a live link | partly |
| **Client organisations** | settings, branding | administrators' updates | | no protocol of its own | | not modelled |
| **Scripts** `../../scripts/` | none of their own: rows of every table | seed two demo rosters, key lenders and aggregators; purge the demo brokers | every repository, the schema's foreign keys | calls that commit one by one; a purge of 18 tables by ids read earlier; both may die anywhere, be run twice and beside the application | a demo broker is purged whole or not at all; nobody else's rows go; a finished seed left nobody out | partly |
| **Media, geocoding, web front end** | files, nothing, browser state | upload, proxy, pages | | no protocol of their own | | not modelled |

## 2. Modules

| Module | Stands for |
|---|---|
| `VisibilityGrant` | The promise of the relationships table, with no calls or locks: a grant per row is withheld, granted (needs a consent), then closed for good. |
| `Relationships` | `relationships.repository.ts`: the table, its audit and metering rows, the six calls as transactions, `has_active_relationship()`. |
| `Accreditation` | `accreditation.repository.ts`, `training.repository.ts` and `endAffiliation`: decisions, activation, sweeps, the unique index, row locks and lock cycles. |
| `Sessions` | `identity.repository.ts` and its controllers: accounts, refresh tokens, password resets, the second factor. |
| `Businesses` | `businesses.repository.ts` and the verification of a business, under the policies of migrations 0007 and 0019. |
| `RulesetRegister` | The promise of publishing, without transactions: numbers without gap or repeat, one step from a version in force to the next. |
| `Rulesets` | `rulesets.repository.ts`, `ruleset-validation.ts`, `ruleset-evaluator.ts`, the seeded rulesets, and the part of `requestAccreditation` that resolves and pins a version. |
| `Records` | `evidence.repository.ts`, `check-result.repository.ts`, the object store and the log of who has read what. |
| `Onboarding` | `brokers.repository.ts`, `identity-verification.repository.ts`, `notification.repository.ts`: one profile from draft to verified, and the mail it causes. |
| `DemoData` | `scripts/seed-demo-data.ts`, `seed-amp-demo.ts`, `seed-key-lenders.ts`, `seed-key-aggregators.ts` and `purge-demo-data.ts`: which rows each call leaves, what the purge deletes in which order, and the foreign keys between them. |
| `MC*` (eight) | Instances of the modules above for TLC. |
| `*Proofs` (eight) | Their theorems. |

### How a transaction is modelled

Every call is a `Request` with a program counter `pc[r]` and a `job[r]`: what it was asked, on which
row, by whom, and what it has read. Each action is one statement of the handler:

* `Begin` (in `Onboarding`, `Arrive`) - the guard or role check of the controller, then BEGIN. The row
  id is any id the caller may hold, so calls on the wrong row, twice, or in the wrong order are all
  there.
* A SELECT and the throws that follow it, on the rows committed *at that moment* (`Check...`,
  `Read...`, `Look...`). A call that throws is answered and changes nothing.
* `UPDATE ... WHERE id = $1` applies its SET clause to **whatever version is committed by then**, which
  is what READ COMMITTED does. The code does not repeat its check here, and neither does the model.
* A conditional multi-row UPDATE has a snapshot that picks the rows, and later tests each again and
  writes it (`Sweep`, `FindPublished` and `LockPublished`).
* `Abort` - any failure, at any step: ROLLBACK. What earlier transactions of the call have committed,
  put into storage or sent stays.

How finely the UPDATE and the COMMIT are split is chosen by what happens in between:

* `Relationships` and `Accreditation` keep uncommitted row versions in `draft[r]`: `Update` waits
  while another call holds the row, `Commit` publishes row, audit, decision and metering rows at once,
  and `DetectDeadlock` breaks a cycle of waiting transactions by failing one, as PostgreSQL does.
  `Update` waits for a row's lock and for the index entry together; PostgreSQL takes the row first.
  The extra waiting state commits nothing new, and the failures it could lead to are `Abort`s.
* In the other modules a transaction that reads nothing between its UPDATE and its COMMIT does both
  in one step: a statement that waits for another's row lock is one that runs after it. Where
  something *is* read while a lock is held, the step is split and the lock is modelled
  (`AccountLocked` in `Sessions`, `Locked` in `Rulesets` and `Onboarding`). Where a policy reads *other*
  rows, it does so in the snapshot the statement takes when it starts, which it keeps while it waits for
  its own row and which the COMMIT, after more awaited statements, does not renew: `Businesses` has one
  step for that snapshot (`StartWrite`) and one for the row as it is committed.

Rows hold what the properties tell apart: a status, *which* fields are filled or timestamps set, not
their values. A row, a token, a secret or a notification is named by the call that made it, because
`randomUUID()` and `randomBytes()` never repeat; rows older than every call are in `Earlier`.
Variables and fields that are there for the properties alone (`overlapped`, `edits`, `leaves`, `shown`,
`withdrawn`, and `held`, `good`, `inForce`, `edits`, `leaves`, `escalated` of a job: what was so when the
call, or its UPDATE, began) are named as such in the modules and guard nothing.

### Relationships

`request` and `invite` insert; `accept`, `decline`, `revoke` (the broker) and `end` (the
organisation) update. `invite` first looks the broker up by e-mail in a transaction of its own.
The row's broker, organisation and type never change, so they are functions of the id (`BrokerOf`,
`OrgOf`, `TypeOf`). `Counts` is `has_active_relationship()`: status `active` **and** no
`effective_to`. `audit[i]` holds the entries on row i in commit order, with the call each came from.
Properties:

* `ConsentBehindVisibility` - a counted row has a consent, and the audit log has it from the
  row's own broker.
* `ClosedForGood` - a row with an `effective_to` keeps it and is never counted again, although a
  late accept can set its status back to `active`: it is `effective_to IS NULL` in the function that
  makes this hold.
* `RowIsReplayOfAudit` - replaying a row's audit entries in commit order rebuilds the row.
* `LedgersMatchCommits` - one audit entry, and one billable event if due, for each call that
  committed; none for any other.
* `RefinesGrant` - the table implements `VisibilityGrant`.

A call here holds at most one row's lock and waits only before it has any, so that calls end is checked
where locks can form a cycle, in `Accreditation`.

### Accreditation

The rows of one broker with one lender. Guards come from `AllowedFrom` (the status each SELECT must
find) and `CanDecide` (`assertCanDecide`). The unique index is `KeyTaken`, and its waits `KeyBusy`:
an insert, or an update that makes a declined row live again, waits for a transaction that may
give up or take the scope, then fails or goes on. `endAffiliation` is `Leave` (its own conditional
UPDATE) followed by the flag sweep in the same transaction; the deadline check is a sweep alone.
`Mint` is the `COALESCE` on `broker_profiles`. `log[i]` stands for the decision, audit and
notification rows of one transaction together. What happens around the calls is environment:
deadlines pass (`DeadlinePasses`), the relationship comes and goes (`LinkChanges`), the broker
joins a business again (`Rejoin`). Properties:

* `OneLivePerScope` - also when a late decision resurrects a declined row whose scope was requested
  again.
* `RowIsReplayOfLog` - as above, for columns set by decisions, flags and lapses.
* `NothingInForceUnapproved` - pending, active and lapsed rows were approved by a call that
  committed.
* `LapsesOnlyOverdue` - the sweep never lapses a row that stopped being pending and overdue.
* `FlagMissesOnlyDeclined` - every row the flag's snapshot saw is flagged at commit, unless it was
  declined in between. The exception is real: a row declined when the sweep reaches it is skipped, and
  a late request for information can bring it back unflagged.
* `EarlierEscalationBinds` - an escalation that is committed before a decision begins, on file or by
  another call, cannot be got round by it, whatever decisions, flags and lapses were committed in between
  or are under way.
* `PlatformIdIsPermanent` (a theorem; no run checks it) - two first activations of a broker agree on
  one id.
* `EveryCallFinishes` - under fairness each call that begins is answered, also with two sweeps locking
  the same rows in opposite orders.

### Sessions

Brokers, client users and platform administrators, each with the table, policies and sign-in of its
kind. A secret is the name of the call that made it up, so "the same token" is equality. A client
user who signs in receives a pending token (`pending`), not a session; the token's type decides which
of the four second-factor calls will take it. Refresh rotation is a SELECT (`Present`), then an INSERT
and an UPDATE by id (`Rotate`); a revoked token goes to `Sweep` and `CommitSweep` instead, which also
serve password change, redemption and deactivation: the snapshot of
`UPDATE refresh_tokens ... WHERE revoked_at IS NULL` is one step, what it revokes another, and until
then the transaction holds its account's row. `ConsumeCode` is the one conditional UPDATE of the
module. Properties:

* `SecondFactorBehindSession` - no interleaving of sign-ins, restarted enrolments and late
  confirmations hands a client user a session without a factor, and the account is enrolled for good.
* `BackupCodeAdmitsOnce` - of any number of calls that present one backup code, one gets a session,
  also across a new enrolment.
* `SpentMeansSpent` - what was spent when a call arrived buys it nothing; only overlapping calls spend
  one token or reset twice (rotation and redemption check first and write by id).
* `SignOutReaches` - once a call that revokes everything has committed, every session there was when it
  arrived is dead and stays dead, whatever was rotated meanwhile. Sessions inserted *during* it
  escape: that is the code, and the property says no more than holds.
* `RotationLeavesTrail` - the token a rotation replaced is dead and points to a successor of its own,
  also when two rotations of it overlap, so that a replay is seen as reuse.

### Businesses

`businesses` rows with the fields completeness asks for, affiliations, principals. Each SELECT and
UPDATE runs under the policies for the calling broker (`SeesBusiness`, `SeesAffiliation`,
`MayWriteAffiliation`, `MayWritePrincipals`): when the broker has lost his affiliation since the check,
an UPDATE changes no row, and the call still answers. `StartWrite` is the start of such a statement, with
the policy in its snapshot (`MayWrite`); `WriteFields`, `WritePrincipal`, `Submit` and `Confirm` are the
row, written and committed, and between the two anybody else may commit, the caller's own departure
included. `leaves` counts the affiliations a broker has ended. `Create` inserts the founding affiliation and a
sole trader's principal with the business. The verification of a business, whose provider is a mock
that answers at once, is `LookUp`, `CheckNotRunning`, `RecordCheck` and `StartVerification`;
`Decide` is the reviewer. Properties:

* `JoinsAreVouchedFor` - an affiliation that does not found its business becomes active only when a
  confirmation by *another* broker commits, and he is active there at that moment unless he has left
  since its UPDATE began. `confirmAffiliation` writes by id after two unlocked checks: it is
  `business_affiliations_update` that makes this hold, and the exception is what it cannot see (see
  *Findings*).
* `IncompleteOnlyByOverlap` - a business is submitted with something outstanding only if another call
  changed its fields or principals while the submission ran.

### Rulesets

`createDraft` numbers (`ReadNumber`) and inserts; `publish` checks, finds and locks the versions in
force, and publishes. A published row that a publication has superseded is locked until its COMMIT, and
another publication that found it waits, then leaves it out. `NumberFree` and `SlotFree` are the two
unique indexes. A definition is a set of requirement groups, or `Malformed`; `validateRulesetDefinition`
is `Valid`, and `evaluateCondition` a recursive function over a set of conditions closed under their
parts. `requestAccreditation` resolves in one transaction (`Resolve`) and inserts in the next (`Pin`).
`WestpacSeeds` and `NabSeeds` are the rulesets of `seed-data`. Properties:

* `SuccessorsLeadToCurrent` - from every superseded version, `superseded_by` leads to one in force, in
  its key and without a circle. An overlapping publication can republish a superseded version; the
  chain must survive that.
* `PublishedCanBeMet` (a theorem; no run checks it) - a version that was ever in force leaves nothing outstanding for a broker with
  every document and a membership, whatever his experience.
* `MissingExperienceAsksLeast` - a broker without `experience_years` is asked for nothing that a broker
  with any recorded experience is not asked for: NULL meets no comparison.
* `RequestsGetAVersion` - a publication between resolving and pinning costs a request neither its
  version nor what that version asks for.
* `RegisterSpec` - the table implements `RulesetRegister`.

### Records

The two interval tables and the object store behind them, for one subject. A row is never overwritten: a
new one is inserted, and the current one that an earlier, unlocked SELECT returned is closed and linked
to it (`SelectCurrent`, `InsertDocument`, `InsertCheck`, `Close`). `Put` stores the object before any
transaction; `InsertPayload` is the evidence row of a provider's answer, before its result. `Look`,
`Get` and `Send` are a download: policy, log and bytes, response. `ReadCheck` and `ReadEvidence` are the
two SELECTs of `getFullResult`, each under the policies of its own snapshot; `shown` is what it has
answered. Documents expire (`Expire`), and who may see the subject changes at any time, also between two
SELECTs (`Regrant`; a broker's own profile he always sees). Properties:

* `HistoryLeadsToCurrent` - however uploads and results overlap, the successor of a closed row is of
  its own type and the chain ends in a current row.
* `EvidenceBehindResults` - whoever is shown a completed result is shown its payload, unless he lost sight
  of the subject between the two SELECTs; and the payload of every row is in storage, wherever a call
  stopped.
* `RenewalSettles` - of nobody who sees the subject's rows is a document asked for again that is neither
  expired nor renewed, unless two uploads of its type overlapped (then two rows are current, one of which
  may expire and be the one that is read). `MayBeOutstanding` reads under its caller's policies
  (`CurrentFor`): who does not see a business is asked for everything (see *Findings*).
* `ViewsAreLogged` (a theorem; no run checks it) - a client user who has received a document is on the log, and for a profile in the
  broker's own access history, also when the process stopped right after sending it.

### Onboarding

One profile: edits, memberships and submission (status, fields and memberships are three SELECTs), the
external provider, the reviewer's decision, and the notification each causes. `SubmitToProvider`,
`RecordCheck` and `Initiate` are the three transactions of `initiateVerification`; `ProviderAnswers`
delivers a webhook at any time from the moment the provider has the applicant, and any number of times.
`Commit` writes the status and the notification row together, `Send` mails after it, `MarkSent` is a
transaction of its own; nothing retries. `SetPreference` may come in between. Properties:

* `MailFollowsNotification` - an e-mail goes out at most once, only about a committed change, is in the
  broker's own list and of a category he takes; `sent_at` is set only on what was mailed; a decision is
  never kept from him by a preference.
* `VerificationIsOnRecord` - a profile in verification, verified or sent back has a check for a reviewer
  to decide on; without one, `in_verification` could not be left again.
* `IncompleteOnlyByOverlap` - as for businesses.

### DemoData

A `Run` is one process running one script. A row is `<<table, broker, business>>`, which stands for
every row of that table naming the two, so a row is there or not; `Parents` are the rows its foreign keys
name (migrations 0003-0006, 0024, 0025), `Lookups` those a call reads and throws without. An accreditation
that names a business as its licence holder (migration 0024:47, which `accreditation.repository.ts:167-188`
does not validate) has a second row, in `licensed_accreditations`. What others have on record about a
broker or a business, and no DELETE of the purge names, is in the tables of `Others`: audit entries by
others about a relationship, an affiliation, a principal or a document (`others_audit`), and notices to
others about a profile or a business (`others_notices`). A demo broker
is a pair of an e-mail and the run that registered it, because a broker seeded again after a purge has a
new id.

A seed walks its roster (`Miss`, `Reuse`, `NextItem`). What is missing is created (`Create`) and taken
through its calls, each a transaction of its own (`Call`): `Onboarded`, `Linked` and the decisions of its
`Target` are the rows these leave. A call is refused where its foreign keys or its lookups find nothing,
also when their row has been deleted by a purge that has not committed: it waits, and goes on after a
rollback. `BreakOff` is any failure or death of the process at any point. Two runs of one seed may look
for the same e-mail (`Taken`, the unique violation both seeds catch; `ReviewerTaken`, which nothing
catches).

A purge is one transaction: the SELECTs (`SelectBrokers`, `SelectBusinesses`, `SelectAccreditations`; that
of the principals is folded into that of the businesses), then a DELETE per table in the order of `Turn`,
each on the rows committed *when it runs* that match the ids collected (`Matches`: by accreditation, or
by broker or business, and never one of `Others`). What it has deleted is
`doomed` until `Commit` or `Rollback`; a DELETE that would leave a reference behind is refused (`Refuse`).
`late[r]` is what others have written since purge r began; it is there for the property alone.
`AppCall` is the application writing any row of `AppRow` about a broker or business there is. Properties:

* `PurgeIsExact` - what a purge that commits leaves of the brokers and businesses it deletes (`Others`, and
  rows written while it ran in a table without foreign keys), what it takes of anybody else's, and the
  three reasons for which a foreign key may refuse it: a result with its evidence, somebody else's
  accreditation through or licensed by a collected business, and a row written while it ran. It states both
  promises of the script's comment with the exceptions that are real (see *Findings*).
* `NeverHalfPurged` - while a demo broker's profile is there, so is every row the seed's calls have
  written for him, whatever purges ran, failed or were killed. The one exception is a broker whose
  business a purge took because another demo broker had joined it.
* `DoneMeansSeeded` - a seed that reports that it is done has carried every item of its roster through
  to its last call, or found it carried through, unless another run began it and broke off or is still
  at it.

## 3. Runs

| Run | Instance | Shows |
|---|---|---|
| `relationships_race` | 2 rows, 3 brokers (one without an account, one party to neither), 2 organisations, 4 calls | all safety properties and the refinement; calls of one party never act for another |
| `accreditation_scope` | 2 rows of one scope, one on file and escalated; 2 users, 3 calls | unique scope, replay, approval, flags, escalation |
| `accreditation_training` | 2 approved rows of two scopes, 2 calls, fairness | lapses against activation; lock waits and lock cycles end |
| `sessions` | 4 accounts (a broker yet to register, two client users, one of them enrolled, an administrator), 1 backup code, 3 calls | the second factor, single use, sign-out and rotation |
| `businesses` | 2 brokers, a trust on file and a sole trader yet to be founded, 2 affiliations on file, 3 calls | joining is vouched for, also beside departures; submitted means complete |
| `rulesets` | 2 keys, 4 versions on file (two seeded ones in force, two drafts), 2 unmeetable, a malformed and a good draft, 3 calls | publishing against publishing and against requests; the evaluator; the refinement |
| `records` | 2 document types, 1 check type, 1 broker, 1 client user, experience 1 or 2 years, 4 calls | history, payloads under changing policies, renewals |
| `onboarding` | 1 client user, at most 1 membership on file, 2 patches, 3 calls | mail, verification, submission |
| `demo_data` | two runs of the demo seed and one purge; a roster of the reviewer and one broker (`requested`); a broker who signed up herself, with a business and a lender; the demo broker joins her business, her confirmation is audited, and an accreditation of hers names the business the other run founds for him as licence holder | purging, seeding twice, dying in between |
| `relationships_revocation`, `accreditation_seniority`, `sessions_password` | the smallest instance that shows it | one finding each |

Distinct states: `relationships_race` 572,609 (up to the order of calls), `accreditation_scope` 478,512, `accreditation_training` 43,576, `sessions` 222,653,
`businesses` 55,281, `rulesets` 28,288, `records` 168,778, `onboarding` 108,681,
`demo_data` 485,853.

**Bounds.** `Request` bounds the number of calls and, with the rows on file, the number of rows;
nothing else grows, as each call adds at most one row to a table and one entry to a log. Time is not
counted: deadlines, expiry, mail and provider answers happen or not. Calls that share no row, account,
scope or key do not affect each other. What matters is therefore how many calls can meet on one row:

* On one relationship the longest scenario has an insert, a call that checks, one that commits in
  between and one after it: four calls, on either of the two rows.
* For an accreditation the insert and first decisions are on file (`History`), so three calls give the
  resurrection race (late decision, decline, new request). Two rows and two sweeps are enough for a
  lock cycle.
* Sessions, resets and enrolments are on file, so three calls give two rotations of one token and a
  sign-out, or two uses of one code and a new enrolment. Drafts, seeded versions, affiliations and
  complete fields are on file too, so that three calls are two publications and a request, a
  publication overtaken by two others, or a submission with two changes to what it has read.
* In `demo_data` one roster is enough for two runs to meet at each step of a broker, with a purge between
  any two of his ten calls. Organisations, the AMP roster and other targets differ in which rows the
  calls leave, not in what meets: for them, and for several purges at once, there is the proof.
* A second version of a document needs two uploads before two more can overlap: `records` has four
  calls.

Calls are interchangeable (`SYMMETRY`) in the runs about relationships; the liveness run uses none.

**Fairness.** Weak fairness on the statements of each call that has begun: a handler runs a fixed
list of awaited statements and nothing in it waits for a client. Nothing obliges a call to begin, a
deadline to pass or a transaction to fail. `DetectDeadlock` is fair because PostgreSQL's detector
runs on every lock wait that lasts. Only `Accreditation`, where calls wait for each other's locks in
more than one order, states liveness; elsewhere nothing a reader would doubt has to happen: mail is
not retried and a provider need not answer, a script may die.

**Deadlock** is checked in every run; the one way to stop is that all calls are answered (`Served`;
`AllServed` in `Sessions`) or all scripts have ended (`Finished` in `DemoData`).

## 4. Findings

| Run | The repository says | The code does |
|---|---|---|
| `relationships_revocation` | "Revoking a relationship revokes forward visibility." (master document v2.1, line 100) | a second active row of the same pair keeps the visibility |
| `accreditation_seniority` | "only that role may" (`accreditation.repository.ts:535`) | a reviewer's decision that read the row before an escalation decides it |
| `sessions_password` | "Password change and reset (AUTH-004, AUTH-005) - shared across all three actor types" (`identity.repository.ts:473`) | a platform administrator's change is answered with ok and revokes every session, but row level security (migration 0013:83-86) lets its UPDATE change no row |

The first and the third need no overlap. The models also reach the following, most of them from
one pattern: a status checked by an unlocked SELECT and an UPDATE by id that does not repeat it. They
have no run of their own; the properties above are stated so as to say what *does* hold beside them.

* A declined invitation is overwritten by an accept that checked earlier
  (`relationships.repository.ts:200`; `test/relationships/relationship-lifecycle.spec.ts:156`), and two
  accepts of one invitation bill twice (`:219`, against `:57`).
* An activation overwrites a lapse, a flag or a decline (`training.repository.ts:71`;
  `training-lifecycle.spec.ts:156`).
* An accreditation that is being requested while the affiliation ends commits unflagged
  (`accreditation.repository.ts:151`, against `:684`).
* A profile or business is submitted with something outstanding when an edit overlaps
  (`brokers.repository.ts:268-272`, `businesses.repository.ts:329`), and a submission that was
  overtaken by a decision sets `submitted` again (`brokers.repository.ts:287`).
* `confirmAffiliation` brings back an affiliation its broker has ended (`businesses.repository.ts:483`). The
  confirming broker may leave between its UPDATE and its COMMIT, so that the affiliation becomes active
  with nobody else active there, against "any OTHER broker already actively affiliated" (`:456-459`).
* A publication that checked a draft before another call published it, and a third superseded it,
  publishes that version again (`rulesets.repository.ts:102`; `ruleset-versions-lifecycle.spec.ts:82`).
* Two overlapping uploads leave two current rows of one document type
  (`evidence.repository.ts:100-101`), and closing a row that is closed already replaces its
  `superseded_by`.
* A client user who loses sight of a broker between the two SELECTs of `getFullResult` is shown the result
  with `evidence` null (`identity-verification.repository.ts:276`, `:282-286`), which stands for a check
  without a payload.
* The outstanding documents of a business are listed to any broker (`evidence.controller.ts:134-140`), but
  read under his policies (`evidence.repository.ts:262-266`): without an affiliation he is told that all
  of them are missing.
* Of two overlapping enrolments of a second factor the one that is confirmed is whichever secret is there
  (`identity.repository.ts:585`).
* A broker with no recorded experience meets neither of two complementary comparisons, so groups that
  together cover every broker do not cover him (`ruleset-evaluator.ts:16`).
* A business nobody is affiliated with any more cannot be decided on: its check is hidden from the
  reviewer and there is no recipient for the notification.

The scripts differ from their comments as follows; `PurgeIsExact` and `DoneMeansSeeded` name the exceptions.

* The purge deletes `evidence` (`purge-demo-data.ts:92`) before the `check_result` rows that reference it
  (`:107`, migration 0005:48), against "strict child-to-parent order" (`:20`): once a provider's result is
  on file for a demo broker or a business he joined, every purge is refused.
* "This can't reach outside what the seed script itself created" (`:9-10`): a demo broker who joins a
  stranger's business makes the purge take that business with all its affiliations, or be refused when
  the stranger holds an accreditation through it.
  The same refusal follows when a stranger's accreditation names the business of a demo broker as its
  licence holder.
* "Every row anywhere in the schema that hangs off one of those brokers" (`:3-4`): audit entries are deleted
  by actor, or by subject profile, business or accreditation (`:131-138`), and notifications to the brokers
  or about accreditations (`:79-84`). What stays is others' entries about a document
  (`evidence.viewed`, `evidence.repository.ts:209-216`), an affiliation (`business_affiliation.confirmed`,
  `businesses.repository.ts:484-491`), a relationship or a principal, the reviewer queue's notices about a
  check (`identity-verification.repository.ts:109`) and other affiliated brokers' about a business; and a
  business founded between the purge's SELECTs.
* "It skips anyone already seeded" (`seed-amp-demo.ts:15`): a broker whose seeding broke off half way is
  skipped as well, and an organisation that was created and not verified is reused; nothing resumes them.
* Two overlapping seeds create an organisation twice: its name is not unique.

## 5. Theorems

Each holds for every value of the constants that the named assumptions of its module allow: any sets of
rows, accounts, actors and calls, so any number of calls at once. Every module proves `Invariance`
(`Spec => []IInv`) from `Init => IInv` and `IInv /\ [Next]_vars => IInv'`, with one lemma per action
or per kind of action, and its theorems from that. Hardly a property is inductive by itself: each
talks about committed rows, and what breaks or keeps it is in the calls that are still open.

**`RelationshipsProofs`**: `TypeCorrect` (`TypeOK`), `VisibleOnlyWithConsent`
(`ConsentBehindVisibility`), `ClosedStaysClosed` (`ClosedForGood`), `Refinement` (`RefinesGrant`).
Assumptions: `ScopeAssumption` (the functions of an id have their types, and no broker is an
organisation), `SentinelAssumption` (`NoRow` is no row and `NoJob` no job). Consent is not inductive
alone: an accept that has passed its check would write over any row. `IInv` adds

* `JobAtPc` - a call past `idle` has a job, and its step fits its operation;
* `LookupIsInvite`, `IdsAreFresh`, `RowsWereInserted` - only inserts use new ids, one call each,
  and a row an update has found exists;
* `DraftIsCurrent` - a draft is the committed row with the call's own changes, which is what the row
  lock is for;
* `ConsentHeld` - an active row, and an uncommitted one about to be, has `consented_at`;
* `ConsentAudited` - a row with `consented_at` has its broker's consent on record.

`ClosedForGood` follows because no `Stamps` set is ever taken away. Refinement maps a row to `granted`
if it counts, `closed` if it has an `effective_to`, else `withheld`.

Two more rest on a second invariant, `LInv`, which is proved beside `IInv` (`LedgerInduction`):
`LedgersAgree` (`LedgersMatchCommits`) and `RowsAreReplayed` (`RowIsReplayOfAudit`). `LedgersInv` says
that a call past its COMMIT has one audit entry and, when it made the link active, one billing event,
and that no ledger holds anything else; `HistoryEndsInRow` says that a row is the last version of *some*
sequence of versions, one per audit entry, each made from the one before. Such a sequence grows by one
version at a commit; that it is the replay, whatever its length, is `HistoryIsUnique`.

**`AccreditationProofs`**: `TypeCorrect`, `UniqueScope` (`OneLivePerScope`), `ApprovedBeforeInForce`
(`NothingInForceUnapproved`), `LapseIsCurrent` (`LapsesOnlyOverdue`), `EscalationBinds`
(`EarlierEscalationBinds`), `FlagLands` (`FlagMissesOnlyDeclined`), `PlatformIdIsKept`
(`PlatformIdIsPermanent`), `RowsAreReplayed` (`RowIsReplayOfLog`). Assumptions: `ScopeAssumption`, `HistoryAssumption` (histories on file are
legal and leave a scope at most one row), `SentinelAssumption`. `IInv` adds

* `JobAtPc`, `RequestsAreFresh`, `FoundOrWritten` - steps fit operations; an id is inserted by one
  call, and a decision past its check is about a row that exists;
* `DraftIsCurrent` - one uncommitted version of a row at a time, equal to the call's SET clause
  applied to the row *as committed now*, and for a sweep the WHERE clause still true of it. This is
  what the row lock buys, and `LapsesOnlyOverdue` is read off it;
* `KeysApart` - a live uncommitted row owns its scope: no rival row is live, committed or not. The
  index wait (`KeyBusy`) establishes it for inserts and updates; a sweep, which waits for no index
  entry, keeps it because it only writes rows that are live already;
* `MintIsCurrent` - one uncommitted platform id, equal to the committed one if there is one;
* `ApprovalHeld` - rows in force, *and rows an activation has checked*, have an approval on record.
  It survives other calls because the record and the set of stamps only grow;
* `EscalationHeld` - a row with an escalation on its log stays with the senior approvers, a log keeps its
  escalations, and an open decision past its check that began after one is by a senior approver;
* `FlagHeld` - each row a flag's snapshot saw is still to be locked, written, or declined on record,
  and nobody else flags it: only one call at a time is leaving a business.

`RowsAreReplayed` needs that `Replay` of a log with one more statement is that statement applied to
`Replay` of the log (`ReplayStep`), and that a draft is the row as committed now; `ReplayOnFile` is its
beginning. **Induction over a log** is done here and in `HistoryIsUnique` without the library's induction
theorems: two sequences of versions that both follow the statements would first differ somewhere
(`LeastElement`, from `WFMin` and the well-foundedness of `<` on the naturals), and at that place they
cannot; a sequence of every shorter length exists for the same reason.

The five modules of calls that follow share an argument: an action predicate `Kept` says what *no* step takes away (a
job, an owner, a revocation, a count that only grows), and a lemma that whatever a call has found out, put
in a form that outlives its reading, survives every step that has `Kept`. The proof of an action then
has to look at its own call only.

**`SessionsProofs`**: `TypeCorrect`, `SecondFactor` (`SecondFactorBehindSession`), `CodeAdmitsOnce`
(`BackupCodeAdmitsOnce`), `SpentStays` (`SpentMeansSpent`), `SignOut` (`SignOutReaches`), `Trail`
(`RotationLeavesTrail`). Assumptions: `AccountAssumption` (the three kinds of account are disjoint),
`FirstAssumption` (old secrets differ from each other and from calls), `SentinelAssumption`. `IInv`
adds `TokensIssued`, `PasswordsSet`, `SecretsKept` and `ResetsStored` (which finished call each row
came from), `CodesApart` (past its conditional UPDATE, a call shares its code with no other), and for
each call what it was entitled to present (`Asked`), which steps it takes (`StepFits`), what its checks
have established (`Established`: a revoke-all's snapshot contains every session of `held` that is
still live) and where a call that presents something spent cannot be (`Spent`).

**`BusinessesProofs`**: `TypeCorrect`, `JoinsVouched` (`JoinsAreVouchedFor`), `SubmittedComplete`
(`IncompleteOnlyByOverlap`). Assumptions: `FileAssumption` (what is on file is typed),
`SentinelAssumption`. `IInv` adds `JobAtPc` (with what a submission has seen complete, or an edit
since), `RowsAreFresh`, `AffiliationsHaveBusiness`. Past its check, a confirmation's target
is somebody else's and in the business it was asked about (`Named`); from its UPDATE on, the confirming
broker is active there or has left since (`Stood`), because nothing but his own `endAffiliation` takes an
active affiliation from him (`StoodKept`).

**`RulesetsProofs`**: `TypeCorrect`, `Successors` (`SuccessorsLeadToCurrent`), `CanAlwaysBeMet`
(`PublishedCanBeMet`), `GetsAVersion` (`RequestsGetAVersion`), `Refinement` (`RegisterSpec`).
Assumptions: `ConditionAssumption` and `GroupAssumption` (conditions are closed under their parts, a
group is one), `YearsAssumption`, `FileAssumption`, `EarlierAssumption` (the versions on file satisfy
what publications leave behind), `ConditionTreeAssumption` (conditions are finite trees, as JSON is).
`IInv` adds `RowsAreFresh`, `ForceCanBeMet` (what was ever in force passed validation),
`PinnedWasInForce` and `JobAt` (what publish locked was in force; a number read is one after a used one). The chain stays without a circle because every link a publication makes points to the
version it publishes, which is then not superseded, also when it had been. Refinement maps a key to its published versions: superseding and publishing
become one step of the register, since nothing of a publication shows before its COMMIT.

`UnrecordedAskedLeast` (`MissingExperienceAsksLeast`) is about the evaluator, which recurses over nested
conditions. A recursive function is only known to satisfy its equation once some function does: `Holds`
is one step of the evaluator as a monotone operator on sets of (condition, experience) pairs, `Least`
its least fixed point, so the truth table of `Least` is such a function (`EvaluateCondition`). That what
holds without experience holds with any (`UnrecordedHoldsLeast`) is then an induction over the tree:
among the conditions that would be counterexamples, `ConditionTreeAssumption` gives one whose parts are
none, and the code answers a comparison with a missing number by false and negates nothing.

**`RecordsProofs`**: `TypeCorrect`, `HistoryKeepsItsEnd` (`HistoryLeadsToCurrent`), `EvidenceIsBehind`
(`EvidenceBehindResults`), `RenewalIsSettled` (`RenewalSettles`), `ViewsOnRecord` (`ViewsAreLogged`).
Assumptions: `SubjectAssumption`, `SentinelAssumption`. `IInv` adds `JobAtPc`, `RowsAreFresh`,
`StoredFirst` (object, then row, then result), `CurrentIsOfType` (what a call is about to close is a row
of its type), `OneCurrent` (types whose uploads never overlapped have one current row, which the open
upload has read), `ClosedIsSuperseded`, `LoggedFirst`, `ShownUnderGrant` (past its first SELECT a view
still has its grant or is in `withdrawn`). There is no circle because a row is only ever
linked to the row its own call inserts, which nothing has closed yet.

**`OnboardingProofs`**: `TypeCorrect`, `MailFollows` (`MailFollowsNotification`), `OnRecord`
(`VerificationIsOnRecord`), `SubmittedComplete` (`IncompleteOnlyByOverlap`). Assumptions:
`PatchAssumption`, `NameAssumption` (the broker is no client user). `IInv` adds `MailsCounted` (an
e-mail belongs to a call past `send` with a notification that is not suppressed), `MandatoryReaches`
(no opt-out of a mandatory category is ever stored) and `JobAt` (what each call has found: in
particular a check on record once `initiate` is about to write its status).

**`DemoDataProofs`**: `TypeCorrect`, `PurgesAreExact` (`PurgeIsExact`), `HalfPurgedNever`
(`NeverHalfPurged`), `SeededWhenDone` (`DoneMeansSeeded`), for any number of runs of any scripts, any rosters
and anything in `AppRow`. Assumptions: `ScriptAssumption` (a run has a script, no roster names an item
twice, every target is one of its script's), `NameAssumption` (names, e-mails and brokers of different
kinds differ), `AppAssumption` (the application's rows are about a broker or a business, and registering
and founding are the seeds' alone). `IInv` adds

* `Places` and `Progress` - where each script can be, and which items a seed has finished, begun and not
  begun by its place in the roster;
* `Shapes` - which parties a row of each table may name, and that a demo broker or his business is named
  only once a seed has come that far with him;
* `ForeignKeys` - the rows a row names are there. It is kept by the writers, who do not rely on a row
  that a purge has deleted, and by the purge, which deletes nothing that is still referenced: at a
  `Commit` both halves meet;
* `Companions` - what no foreign key says: while his profile is there, a demo broker is affiliated with
  the business he founded, and a row about a broker's accreditation has that accreditation;
* `ReadsOf` - what a purge has collected, put in a form that outlives its reading: a broker's business or
  accreditation it does not have was written since;
* `DeletesOf` - once the DELETE of a table has run, what matches and is not deleted is a late row.

`NeverHalfPurged` is itself a conjunct: a commit removes a broker's profile with all of his rows, or
none of them. `PurgesAreExact` reads `ForeignKeys` after the commit: a row that survives in a table with
a foreign key would name a row that has gone. What survives elsewhere is a late row or one of `Others`.

**Only model-checked.** Liveness (`EveryCallFinishes`): fairness and ENABLED are out of the
prover's reach. The three findings are counterexamples, not theorems. Every other property of the runs
is a theorem.

## 6. Not modelled and why

* **Web front end, geocoding, media**: pages, a stateless proxy and file I/O keep no state the
  API relies on and have no protocol.
* **Scripts**: `seed-broker-association-aggregator-mix.ts`, `purge-test-fixture-lenders.ts`,
  `demo-tenancy.ts`, `seed-platform-admin.ts` and the logo uploads. Of those in `DemoData`: tokens,
  preferences and exceptions to checks (no modelled call writes them), the principal a sole trader is
  linked to, and the enrolment of a second factor as two calls (here one). A call that only UPDATEs a row that
  has been purged leaves its audit entry; where the code throws instead, the model has `BreakOff`. A new
  training deadline is an UPDATE that leaves no row.
* **Hazards no property is about**, because nothing promises what should happen: a relationship revoked
  between `requestAccreditation`'s check and its INSERT (`accreditation.repository.ts:158`), a
  `deadlineDays` of zero or less (`:578`), two open affiliations of one broker with one business
  (`businesses.repository.ts:431`), a decision on a superseded check
  (`identity-verification.repository.ts:215`), two overlapping enrolments of a second factor
  (`identity.repository.ts:585`), and ordering by `occurred_at` (`audit.repository.ts:25`).
  The models contain the first five, and their properties are checked with them.
* **Client organisations**: single-row settings and branding, last write wins.
* **Accreditation**: interviews and `accreditation_decisions` rows follow the row's own commit;
  notifications of decisions take the path modelled in `Onboarding`; `computeDisparities` only reads.
  Role changes of client users do not happen in the models. The ruleset and the deadline it sets are
  in `Rulesets`, not composed with `Accreditation`.
* **Training confirmations** gate nothing in the code.
* **Identity**: access tokens expire by time alone; the audit rows of the second factor, client user
  roles and organisations are left out.
* **Verification**: the webhook's signature, polling the provider and the comparison of names.
* **Profiles and evidence**: photos, a membership's names, hashes, sizes and file types;
  `reconstructAsOf`, `getOutstandingSummary` and the listings only read (`getOutstandingDocumentItems` is an
  operator of `Records`, `getFullResult` two of its actions). `occurred_at` is the start of
  a transaction, so ordering by it, as `reconstructAsOf` does, may differ from commit order: the models
  keep commit order.
* **Metering**: only `broker_linked` events; billing periods are a report.
* **Transactions**: the pool's size and the reset of session variables. A call has its own context
  throughout.
* **Row-level security**: the policies of `client_organisations` and the cross-organisation reads of
  migration 0030; the others are modelled for the actors that make the modelled calls, and by `Regrant`
  where who may see a row changes for reasons outside the module.
* Wording, templates and formatting everywhere.

## 7. Plan

What is left, in this order:

1. `ScopeSlot` - an abstract specification (a scope is free or held by one accreditation, which was
   approved before it is in force), refined by `Accreditation`; the refinement proved from `IInv`.
2. Decision rows, interviews and notifications in `Accreditation`; client users whose role changes
   between a check and a COMMIT.
3. The compositions: `Businesses` in place of `Rejoin`, `Relationships` in place of `LinkChanges` and
   `Regrant`, `Rulesets` in place of the version an accreditation is given.
4. `SessionContext` - pooled connections, `set_config(..., true)`, and the escalate-and-restore blocks;
   the policies as operators over it, client organisations included.
5. The script that links brokers to associations and aggregators, which is not idempotent when the
   roster grows, and a run of `DemoData` with two rosters and an organisation.
6. Billing periods; training confirmations; `reconstructAsOf` over a log ordered by `occurred_at`.
