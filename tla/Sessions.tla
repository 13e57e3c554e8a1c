------------------------------ MODULE Sessions ------------------------------
(***************************************************************************)
(* Accounts, sessions, password resets and the second factor               *)
(* (src/src/modules/identity).  Nothing here locks what it reads: a call   *)
(* checks in one statement and writes in a later one, often in another     *)
(* transaction, and any number of calls run at once.                       *)
(*                                                                         *)
(* An UPDATE by id and the COMMIT that follows it are one step when the    *)
(* transaction reads nothing in between.  The UPDATE that revokes every    *)
(* session of an actor is two: the rows its snapshot saw, then the COMMIT  *)
(* that revokes those and no others; until then the transaction holds the  *)
(* lock of the account it changed.                                         *)
(*                                                                         *)
(* Secrets are named by the call that made them up: a password, a refresh  *)
(* token, a reset token and a TOTP secret are a Request, or the First of   *)
(* an account for those that are older than every call.  A wrong password  *)
(* or code, an expired token and a lost connection all end in Abort.       *)
(***************************************************************************)
EXTENDS Naturals, FiniteSets

CONSTANTS Account, Broker, ClientUser, PlatformAdmin,   \* accounts, by the table that holds them
          Existing,       \* the accounts there at the start
          Enrolled,       \* the client users who have finished MFA enrolment
          First,          \* First[a] names the old password, token and secret of account a
          Code,           \* the backup codes one enrolment makes
          Request,        \* API calls, each served once
          NoRow, NoJob

Earlier == {First[a] : a \in Account}
Id      == Request \union Earlier

ASSUME AccountAssumption ==
  /\ Account = Broker \union ClientUser \union PlatformAdmin
  /\ Broker \intersect ClientUser = {} /\ Broker \intersect PlatformAdmin = {}
  /\ ClientUser \intersect PlatformAdmin = {}
  /\ Existing \subseteq Account /\ Enrolled \subseteq (ClientUser \intersect Existing)

ASSUME FirstAssumption == /\ Earlier \intersect Request = {}
                          /\ \A a, b \in Account : First[a] = First[b] => a = b
                          /\ NoRow \notin Id

VARIABLES accounts,     \* broker_profiles, client_users and platform_administrators
          tokens,       \* refresh_tokens
          resets,       \* password_reset_tokens
          mfa,          \* client_user_mfa_secrets
          pending,      \* MFA session JWTs handed out, none of them expired yet
          pc, job,      \* where each call is, and what it was asked to do
          seen          \* the tokens an open revoke-all has found, or the secret a check read

vars == <<accounts, tokens, resets, mfa, pending, pc, job, seen>>

(***************************************************************************)
(* The tables.                                                             *)
(***************************************************************************)
AccountRow == [password : Id, active : BOOLEAN, mfa_enrolled : BOOLEAN]

TokenRow == [owner : Account, revoked : BOOLEAN, replaced_by : Id \union {NoRow}]

ResetRow == [actor : Account, used : BOOLEAN]

SecretRow == [secret : Id, enrolled : BOOLEAN, codes : SUBSET Code]

Op == {"register", "provision", "login", "enroll", "confirm", "verify_totp", "verify_backup", "refresh",
       "logout", "change", "ask", "redeem", "deactivate", "reactivate"}

\* The calls behind MfaPendingGuard, and the kind of token each needs.
PendingFor == [enroll |-> "mfa_enrolment_pending", confirm |-> "mfa_enrolment_pending",
               verify_totp |-> "mfa_pending", verify_backup |-> "mfa_pending"]

\* on: the token, reset or secret the caller presents.  held and good are for the
\* properties: the sessions there were, and whether what the caller presents was valid,
\* when the call arrived.
Job == [op : Op, account : Account, on : Id \union {NoRow}, code : Code,
        held : SUBSET Id, good : BOOLEAN]

\* NULL is no row, and no row is a call's job.
ASSUME SentinelAssumption ==
  /\ NoRow \notin AccountRow \union TokenRow \union ResetRow \union SecretRow
  /\ NoJob \notin Job

Exists(a) == accounts[a] # NoRow

Live(t) == tokens[t] # NoRow /\ ~tokens[t].revoked

SessionsOf(a) == {t \in Id : tokens[t] # NoRow /\ tokens[t].owner = a}

LiveSessions(a) == {t \in SessionsOf(a) : Live(t)}

Fresh(a) == [owner |-> a, revoked |-> FALSE, replaced_by |-> NoRow]

\* Mutation: signing in hands a client user a session at once.
AfterPasswordDirect(a) == "issue"

\* loginBroker and loginPlatformAdmin go on to a session, loginClientUser to a pending token.
AfterPassword(a) == IF a \in ClientUser THEN "pending" ELSE "issue"

\* Mutation: the enrolment token is minted with a type no guard knows.
PendingTypeUnknown(a) ==
  IF accounts[a].mfa_enrolled THEN "mfa_pending" ELSE "mfa_enrolment"

PendingType(a) ==
  IF accounts[a].mfa_enrolled THEN "mfa_pending" ELSE "mfa_enrolment_pending"

\* The UPDATE policies of the three tables: a platform administrator's own context may read
\* platform_administrators and not write it, and such an UPDATE changes no row and says so
\* to nobody.
MayWriteOwnRow(a) == a \notin PlatformAdmin

(***************************************************************************)
(* The calls.                                                              *)
(***************************************************************************)
Finished == {"done", "refused", "aborted"}

RevokeAll == {"change", "redeem", "deactivate"}

\* A revoke-all that goes with an UPDATE of the account keeps the account's row locked.
AccountLocked(a) ==
  \E q \in Request : /\ pc[q] = "commit"
                     /\ job[q].account = a
                     /\ job[q].op \in RevokeAll
                     /\ job[q].op = "change" => MayWriteOwnRow(a)

Init ==
  /\ accounts = [a \in Account |->
       IF a \in Existing
       THEN [password |-> First[a], active |-> TRUE, mfa_enrolled |-> a \in Enrolled]
       ELSE NoRow]
  /\ tokens = [t \in Id |->
       IF \E a \in Existing \ (ClientUser \ Enrolled) : t = First[a]
       THEN Fresh(CHOOSE a \in Existing : t = First[a]) ELSE NoRow]
  /\ resets = [k \in Id |->
       IF \E a \in Existing : k = First[a]
       THEN [actor |-> CHOOSE a \in Existing : k = First[a], used |-> FALSE] ELSE NoRow]
  /\ mfa = [a \in ClientUser |->
       IF a \in Enrolled THEN [secret |-> First[a], enrolled |-> TRUE, codes |-> Code]
       ELSE NoRow]
  /\ pending = {<<IF a \in Enrolled THEN "mfa_pending" ELSE "mfa_enrolment_pending", a>> :
                  a \in ClientUser \intersect Existing}
  /\ pc = [r \in Request |-> "idle"]
  /\ job = [r \in Request |-> NoJob]
  /\ seen = [r \in Request |-> {}]

Goto(r, where) == pc' = [pc EXCEPT ![r] = where]

FirstStep == [register |-> "insert", provision |-> "insert", login |-> "authenticate",
              enroll |-> "save", confirm |-> "credential", verify_totp |-> "credential",
              verify_backup |-> "credential", refresh |-> "present", logout |-> "revoke",
              change |-> "check", ask |-> "store", redeem |-> "claim",
              deactivate |-> "sweep", reactivate |-> "activate"]

\* What the caller may hold: a token or reset that was issued, a secret that was shown, the
\* password of the moment.
Presents(op, a, on) ==
  /\ op \in {"refresh", "logout"} => on \in SessionsOf(a)
  /\ op = "redeem" => on \in {k \in Id : resets[k] # NoRow /\ resets[k].actor = a}
  /\ op \in {"confirm", "verify_totp", "verify_backup"} => mfa[a] # NoRow /\ on = mfa[a].secret
  /\ op \in {"login", "change"} => on = accounts[a].password
  /\ op \in {"register", "provision", "enroll", "ask", "deactivate", "reactivate"} => on = NoRow

GoodNow(op, a, on, c) ==
  /\ op = "refresh" => Live(on)
  /\ op = "redeem" => ~resets[on].used
  /\ op = "verify_backup" => c \in mfa[a].codes

\* The controllers, with their guards: JwtAuthGuard for change, logout and the user
\* administration, MfaPendingGuard for the second factor, none for the others.
Begin(r, op, a, on, c) ==
  /\ pc[r] = "idle"
  /\ op = "register" => a \in Broker
  /\ op = "provision" => a \in ClientUser
  /\ op \notin {"register", "provision"} => Exists(a)
  /\ op \in DOMAIN PendingFor => <<PendingFor[op], a>> \in pending
  /\ op \in {"deactivate", "reactivate"} => a \in ClientUser
  /\ Presents(op, a, on)
  /\ Goto(r, FirstStep[op])
  /\ job' = [job EXCEPT ![r] = [op |-> op, account |-> a, on |-> on, code |-> c,
                                held |-> SessionsOf(a), good |-> GoodNow(op, a, on, c)]]
  /\ UNCHANGED <<accounts, tokens, resets, mfa, pending, seen>>

\* The INSERT of an account: the e-mail address is unique.
InsertAccount(r) ==
  /\ IF Exists(job[r].account)
     THEN /\ Goto(r, "refused")
          /\ UNCHANGED accounts
     ELSE /\ Goto(r, "done")
          /\ accounts' = [accounts EXCEPT ![job[r].account] =
                           [password |-> r, active |-> TRUE, mfa_enrolled |-> FALSE]]
  /\ UNCHANGED <<tokens, resets, mfa, pending, job, seen>>

\* registerBroker.
Register(r) == pc[r] = "insert" /\ job[r].op = "register" /\ InsertAccount(r)

\* createClientUser, by an administrator of the organisation.
Provision(r) == pc[r] = "insert" /\ job[r].op = "provision" /\ InsertAccount(r)

\* authenticateBroker, authenticateClientUser, authenticatePlatformAdmin.
Authenticate(r) ==
  LET a == job[r].account IN
  /\ pc[r] = "authenticate"
  /\ IF accounts[a].password = job[r].on /\ (a \in Broker \/ accounts[a].active)
     THEN IF AfterPassword(a) = "issue"
          THEN Goto(r, "issue") /\ UNCHANGED pending
          ELSE /\ Goto(r, "done")
               /\ pending' = pending \union {<<PendingType(a), a>>}
     ELSE Goto(r, "refused") /\ UNCHANGED pending
  /\ UNCHANGED <<accounts, tokens, resets, mfa, job, seen>>

\* saveMfaEnrollment: INSERT ... ON CONFLICT DO UPDATE, enrolled_at back to NULL.
SaveEnrolment(r) ==
  /\ pc[r] = "save"
  /\ Goto(r, "done")
  /\ mfa' = [mfa EXCEPT ![job[r].account] =
              [secret |-> r, enrolled |-> FALSE, codes |-> Code]]
  /\ UNCHANGED <<accounts, tokens, resets, pending, job, seen>>

\* getMfaCredential; verifyMfaLogin turns away a secret that is not enrolled, and a TOTP
\* code is checked against the secret that was read here.
ReadCredential(r) ==
  LET row == mfa[job[r].account] IN
  /\ pc[r] = "credential"
  /\ IF row = NoRow \/ (job[r].op # "confirm" /\ ~row.enrolled)
     THEN Goto(r, "refused")
     ELSE Goto(r, IF job[r].op = "verify_backup" THEN "consume"
                  ELSE IF job[r].on # row.secret THEN "refused"
                  ELSE IF job[r].op = "confirm" THEN "confirm" ELSE "issue")
  /\ UNCHANGED <<accounts, tokens, resets, mfa, pending, job, seen>>

\* confirmMfaEnrollment: both UPDATEs are by id, whatever secret is there by now.
ConfirmEnrolment(r) ==
  LET a == job[r].account IN
  /\ pc[r] = "confirm"
  /\ ~AccountLocked(a)
  /\ Goto(r, "issue")
  /\ mfa' = [mfa EXCEPT ![a].enrolled = TRUE]
  /\ accounts' = [accounts EXCEPT ![a].mfa_enrolled = TRUE]
  /\ UNCHANGED <<tokens, resets, pending, job, seen>>

\* Mutation: the UPDATE removes the code without asking in its WHERE whether it is there.
HasCodeAssumed(r) == mfa[job[r].account].secret = job[r].on

\* The WHERE of consumeBackupCode's UPDATE.
HasCode(r) == LET row == mfa[job[r].account] IN row.secret = job[r].on /\ job[r].code \in row.codes

\* consumeBackupCode: one conditional UPDATE.
ConsumeCode(r) ==
  LET a == job[r].account IN
  /\ pc[r] = "consume"
  /\ IF HasCode(r)
     THEN /\ Goto(r, "issue")
          /\ mfa' = [mfa EXCEPT ![a].codes = @ \ {job[r].code}]
     ELSE Goto(r, "refused") /\ UNCHANGED mfa
  /\ UNCHANGED <<accounts, tokens, resets, pending, job, seen>>

\* issueTokenPair; the client user's claims are read again and is_active is not.
Issue(r) ==
  /\ pc[r] = "issue"
  /\ Goto(r, "done")
  /\ tokens' = [tokens EXCEPT ![r] = Fresh(job[r].account)]
  /\ UNCHANGED <<accounts, resets, mfa, pending, job, seen>>

\* rotateRefreshToken's SELECT: a revoked token means every session goes.
Present(r) ==
  /\ pc[r] = "present"
  /\ Goto(r, IF Live(job[r].on) THEN "rotate" ELSE "reused")
  /\ UNCHANGED <<accounts, tokens, resets, mfa, pending, job, seen>>

\* Mutation: the successor is committed before the old row is revoked.
RotateInsertOnly(r) ==
  /\ pc[r] = "rotate"
  /\ Goto(r, "done")
  /\ tokens' = [tokens EXCEPT ![r] = Fresh(job[r].account)]
  /\ UNCHANGED <<accounts, resets, mfa, pending, job, seen>>

\* The INSERT of the successor, the UPDATE of the presented row by id, COMMIT.
Rotate(r) ==
  /\ pc[r] = "rotate"
  /\ Goto(r, "done")
  /\ tokens' = [tokens EXCEPT ![r] = Fresh(job[r].account),
                              ![job[r].on].revoked = TRUE,
                              ![job[r].on].replaced_by = r]
  /\ UNCHANGED <<accounts, resets, mfa, pending, job, seen>>

\* revokeRefreshToken.
Logout(r) ==
  /\ pc[r] = "revoke"
  /\ Goto(r, "done")
  /\ tokens' = [tokens EXCEPT ![job[r].on].revoked = TRUE]
  /\ UNCHANGED <<accounts, resets, mfa, pending, job, seen>>

\* changePassword's SELECT of the hash.
CheckPassword(r) ==
  /\ pc[r] = "check"
  /\ Goto(r, IF accounts[job[r].account].password = job[r].on THEN "sweep" ELSE "refused")
  /\ UNCHANGED <<accounts, tokens, resets, mfa, pending, job, seen>>

\* createPasswordResetToken; the e-mail with the token goes out after COMMIT.
StoreReset(r) ==
  /\ pc[r] = "store"
  /\ Goto(r, "done")
  /\ resets' = [resets EXCEPT ![r] = [actor |-> job[r].account, used |-> FALSE]]
  /\ UNCHANGED <<accounts, tokens, mfa, pending, job, seen>>

\* Mutation: the SELECT forgets used_at IS NULL.
ClaimableEver(k) == resets[k] # NoRow

\* The WHERE of redeemPasswordResetToken's SELECT.
Claimable(k) == resets[k] # NoRow /\ ~resets[k].used

ClaimReset(r) ==
  /\ pc[r] = "claim"
  /\ Goto(r, IF Claimable(job[r].on) THEN "sweep" ELSE "refused")
  /\ UNCHANGED <<accounts, tokens, resets, mfa, pending, job, seen>>

Reactivate(r) ==
  /\ pc[r] = "activate"
  /\ ~AccountLocked(job[r].account)
  /\ Goto(r, "done")
  /\ accounts' = [accounts EXCEPT ![job[r].account].active = TRUE]
  /\ UNCHANGED <<tokens, resets, mfa, pending, job, seen>>

\* The UPDATE of the account, if the call has one, then the snapshot of
\* UPDATE refresh_tokens ... WHERE actor AND revoked_at IS NULL.
Sweep(r) ==
  LET a == job[r].account IN
  /\ pc[r] \in {"sweep", "reused"}
  /\ pc[r] = "sweep" => ~AccountLocked(a)
  /\ Goto(r, "commit")
  /\ seen' = [seen EXCEPT ![r] = LiveSessions(a)]
  /\ UNCHANGED <<accounts, tokens, resets, mfa, pending, job>>

\* The account's row after the calls that change it.
Rewritten(r, row) ==
  IF job[r].op = "redeem" \/ (job[r].op = "change" /\ MayWriteOwnRow(job[r].account))
  THEN [row EXCEPT !.password = r]
  ELSE IF job[r].op = "deactivate" THEN [row EXCEPT !.active = FALSE] ELSE row

\* Mutation: reuse detection throws inside the transaction, and its revocations roll back.
SweptUnlessReused(r) == IF job[r].op = "refresh" THEN {} ELSE seen[r]

Swept(r) == seen[r]

\* COMMIT of a call that revokes every session; reuse detection throws only after it.
CommitSweep(r) ==
  /\ pc[r] = "commit"
  /\ Goto(r, IF job[r].op = "refresh" THEN "refused" ELSE "done")
  /\ accounts' = [accounts EXCEPT ![job[r].account] = Rewritten(r, @)]
  /\ tokens' = [t \in Id |-> IF t \in Swept(r) THEN [tokens[t] EXCEPT !.revoked = TRUE]
                             ELSE tokens[t]]
  /\ resets' = IF job[r].op = "redeem" THEN [resets EXCEPT ![job[r].on].used = TRUE]
               ELSE resets
  /\ seen' = [seen EXCEPT ![r] = {}]
  /\ UNCHANGED <<mfa, pending, job>>

\* A wrong secret, an expired token, or the connection or the process gone: ROLLBACK.  What
\* earlier transactions of the call committed stays.
Abort(r) ==
  /\ pc[r] \notin Finished \union {"idle"}
  /\ Goto(r, "aborted")
  /\ seen' = [seen EXCEPT ![r] = {}]
  /\ UNCHANGED <<accounts, tokens, resets, mfa, pending, job>>

Served(r) ==
  \/ Register(r) \/ Provision(r) \/ Authenticate(r) \/ SaveEnrolment(r) \/ ReadCredential(r)
  \/ ConfirmEnrolment(r) \/ ConsumeCode(r) \/ Issue(r) \/ Present(r) \/ Rotate(r) \/ Logout(r)
  \/ CheckPassword(r) \/ StoreReset(r) \/ ClaimReset(r) \/ Reactivate(r) \/ Sweep(r)
  \/ CommitSweep(r)

AllServed == (\A r \in Request : pc[r] \in Finished) /\ UNCHANGED vars

Next == \/ \E r \in Request :
             \/ \E op \in Op, a \in Account, on \in Id \union {NoRow}, c \in Code :
                   Begin(r, op, a, on, c)
             \/ Served(r)
             \/ Abort(r)
        \/ AllServed

Spec == Init /\ [][Next]_vars

(***************************************************************************)
(* Properties that hold.                                                   *)
(***************************************************************************)

Step == {"insert", "authenticate", "save", "credential", "confirm", "consume", "issue",
         "present", "rotate", "reused", "revoke", "check", "store", "claim", "sweep",
         "activate", "commit"}

TypeOK ==
  /\ accounts \in [Account -> AccountRow \union {NoRow}]
  /\ tokens \in [Id -> TokenRow \union {NoRow}]
  /\ resets \in [Id -> ResetRow \union {NoRow}]
  /\ mfa \in [ClientUser -> SecretRow \union {NoRow}]
  /\ pending \subseteq {"mfa_pending", "mfa_enrolment_pending"} \X ClientUser
  /\ pc \in [Request -> {"idle"} \union Step \union Finished]
  /\ job \in [Request -> Job \union {NoJob}]
  /\ seen \in [Request -> SUBSET Id]

\* A session a client user gets from a call has a second factor behind it: the call that
\* issued it proved one or rotated a session that had, and the account is enrolled for good.
\* No interleaving of restarts, confirmations and late answers gets around that (AUTH-006).
SecondFactorBehindSession ==
  \A t \in Request : (tokens[t] # NoRow /\ tokens[t].owner \in ClientUser) =>
    /\ job[t].op \in {"confirm", "verify_totp", "verify_backup", "refresh"}
    /\ accounts[tokens[t].owner].mfa_enrolled

\* A backup code lets one call in, however many present it at once.
BackupCodeAdmitsOnce ==
  \A r, q \in Request :
    (r # q /\ \A x \in {r, q} : /\ job[x] # NoJob
                               /\ job[x].op = "verify_backup"
                               /\ tokens[x] # NoRow) =>
      <<job[r].on, job[r].code>> # <<job[q].on, job[q].code>>

\* A refresh, a redemption or a backup code that presents what was already spent when the
\* call arrived leaves no session and no password behind, whatever else was in flight: only
\* calls that overlap can spend one thing twice.
SpentMeansSpent ==
  \A r \in Request : (job[r] # NoJob /\ ~job[r].good) =>
    tokens[r] = NoRow /\ accounts[job[r].account].password # r

\* Once a password change, a redemption, a deactivation or the answer to a reused token has
\* committed, every session the account had when that call arrived is dead and stays dead;
\* the reuse answer holds although the call itself fails (AUTH-004, AUTH-008).
SignOutReaches ==
  \A r \in Request :
    ((pc[r] = "done" /\ job[r].op \in RevokeAll) \/ (pc[r] = "refused" /\ job[r].op = "refresh"))
      => \A t \in job[r].held : ~Live(t)

\* A rotation leaves its trail: the token it replaced is dead in the same commit, and points
\* to a successor that exists and came from a rotation of it, so that presenting it again is
\* seen as reuse (migration 0009).
RotationLeavesTrail ==
  \A r \in Request : (tokens[r] # NoRow /\ job[r].op = "refresh") =>
    LET old == tokens[job[r].on] IN
    /\ old.revoked
    /\ old.replaced_by \in Request
    /\ tokens[old.replaced_by] # NoRow
    /\ job[old.replaced_by].on = job[r].on

(***************************************************************************)
(* What the documents and tests say, and the code does not keep.           *)
(***************************************************************************)

\* identity.repository.ts:473: "Password change and reset (AUTH-004, AUTH-005) - shared
\* across all three actor types": a change that was answered with ok set the password.
PasswordChangeTakesEffect ==
  [][\A r \in Request : (pc[r] = "commit" /\ pc'[r] = "done" /\ job[r].op = "change") =>
       accounts'[job[r].account].password = r]_vars
=============================================================================
